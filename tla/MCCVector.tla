------------------------------ MODULE MCCVector ------------------------------
(* An instance of CVector for TLC.                                          *)
EXTENDS CVector, TLC

Symmetry == Permutations(Elems)
=============================================================================
