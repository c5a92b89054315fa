---------------------------- MODULE MCPrivSession ----------------------------
(* Instances of PrivSession for TLC.                                        *)
EXTENDS PrivSessionInv

AllCommands == {"PORT", "PASV", "RETR", "STOR", "LIST", "NOOP", "QUIT"}
NoFaults == {}
AnsweredFaults == {"listen", "connect", "accept_timeout", "file",
                   "malloc", "local_ip"}
AcceptFaults == {"accept", "accept_timeout"}
SkewCommands == {"PORT", "PASV", "LIST"}
TwoHandles == {3, 4}
ThreeHandles == {3, 4, 5}
=============================================================================
