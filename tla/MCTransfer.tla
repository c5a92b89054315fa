----------------------------- MODULE MCTransfer -----------------------------
(***************************************************************************)
(* Transfer for TLC: a negative restart position, the beginning, one       *)
(* inside most files, and one behind the end of every file.                *)
(***************************************************************************)
EXTENDS Transfer

MCOffsets == {-1, 0, 3, 7}
=============================================================================
