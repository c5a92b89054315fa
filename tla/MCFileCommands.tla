--------------------------- MODULE MCFileCommands ---------------------------
(***************************************************************************)
(* FileCommands for TLC: two names beside the log's, of which one is sent  *)
(* with a slash in front.                                                  *)
(***************************************************************************)
EXTENDS FileCommands, TLC

CONSTANTS a, b, logtxt, s1, s2

MCArgs == {[abs |-> FALSE, names |-> <<a>>], [abs |-> TRUE, names |-> <<b>>]}
Symmetry == Permutations(Sessions)
=============================================================================
