---------------------------- MODULE MCServerLoop ----------------------------
(* Instances of ServerLoop for TLC.                                         *)
EXTENDS ServerLoop, TLC

AllFaults == {"listen", "accept", "timeout", "malloc", "thread"}
QuietFaults == {"timeout"}
Symmetry == Permutations(Sessions) \cup Permutations(Handles)
=============================================================================
