--------------------------- MODULE MCCommandLine ----------------------------
(***************************************************************************)
(* CommandLine for TLC: a buffer for lines of three bytes.                 *)
(***************************************************************************)
EXTENDS CommandLine

CONSTANT x
=============================================================================
