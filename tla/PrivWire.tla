------------------------------ MODULE PrivWire ------------------------------
(***************************************************************************)
(* The bytes the two threads of a session exchange over their private      *)
(* socket pair (priv_sock.h, priv_sock.c).  A channel is a sequence of     *)
(* bytes in each direction; writen appends, readn blocks until it has all  *)
(* the bytes it was asked for.  Each direction has one writer and one      *)
(* reader, so a whole send and a whole receive may be taken as one step.   *)
(*                                                                         *)
(* The widths are parameters: 4 and 8 in the 64-bit build.  An int and a   *)
(* socket handle are little endian, and the values the program sends in    *)
(* them fit the first byte, except the invalid socket, which is all ones.  *)
(***************************************************************************)
EXTENDS Naturals, Sequences

CONSTANTS IntSize,      \* sizeof(int)
          SockSize      \* sizeof(SOCKET)

ASSUME SizesAssumption == IntSize \in Nat \ {0} /\ SockSize \in Nat \ {0}

Byte == 0..255

\* Commands, from the private thread to the nobody thread.
GET_DATA_SOCK == 1
PASV_ACTIVE == 2
PASV_LISTEN == 3
PASV_ACCEPT == 4

\* Results, from the nobody thread to the private thread.
RESULT_OK == 1
RESULT_BAD == 2

\* The bytes of the int v, and what the reader makes of the bytes of an
\* int: every value that does not fit the first byte is read as 256.
IntBytes(v) == [i \in 1..IntSize |-> IF i = 1 THEN v ELSE 0]
IntVal(b) == IF \E i \in 2..IntSize : b[i] # 0 THEN 256 ELSE b[1]

\* The bytes of the socket handle h, and of INVALID_SOCKET.
SockBytes(h) == [i \in 1..SockSize |-> IF i = 1 THEN h ELSE 0]
NoSock == [i \in 1..SockSize |-> 255]

\* What readn(fd, buf, n) returns once n bytes are there, and what it leaves.
Take(ch, n) == SubSeq(ch, 1, n)
Drop(ch, n) == SubSeq(ch, n + 1, Len(ch))
Readable(ch, n) == Len(ch) >= n
=============================================================================
