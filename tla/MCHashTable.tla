---------------------------- MODULE MCHashTable -----------------------------
(***************************************************************************)
(* HashTable for TLC: keys 0 and 2 share a bucket, and either may be there *)
(* more than once.                                                         *)
(***************************************************************************)
EXTENDS HashTable, TLC

CONSTANTS n1, n2, n3, n4, n5

Symmetry == Permutations(Nodes)
=============================================================================
