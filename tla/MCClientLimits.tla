--------------------------- MODULE MCClientLimits ---------------------------
(***************************************************************************)
(* ClientLimits for TLC: three processes at most, of which 1 and 3 share a *)
(* bucket.                                                                 *)
(***************************************************************************)
EXTENDS ClientLimits, TLC

CONSTANTS a1, a2

Symmetry == Permutations(Ips)
=============================================================================
