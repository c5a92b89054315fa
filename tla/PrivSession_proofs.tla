-------------------------- MODULE PrivSession_proofs --------------------------
(***************************************************************************)
(* Theorems about PrivSession for every width of an int and of a socket    *)
(* handle, every pool of handles, every set of commands and of faults.     *)
(***************************************************************************)
EXTENDS PrivSessionInv, SequenceTheorems, TLAPS

-----------------------------------------------------------------------------
(***************************************************************************)
(* What the operators of PrivWire return: the widths of what is sent, and  *)
(* that a receive of the width that was sent returns what was sent and     *)
(* leaves the rest.                                                        *)
(***************************************************************************)

(***************************************************************************)
(* An int occupies IntSize bytes and is read back as it was sent           *)
(* (priv_sock_send_int, priv_sock_recv_int).                               *)
(***************************************************************************)
LEMMA IntBytesType ==
  ASSUME NEW v \in Byte
  PROVE  /\ IntBytes(v) \in [1..IntSize -> Byte]
         /\ IntBytes(v) \in Seq(Byte)
         /\ Len(IntBytes(v)) = IntSize
         /\ IntVal(IntBytes(v)) = v
<1>1. IntBytes(v) \in [1..IntSize -> Byte]
  BY SizesAssumption DEF IntBytes, Byte
<1>2. IntBytes(v) \in Seq(Byte)
  BY <1>1, SizesAssumption, SeqDef
<1>3. Len(IntBytes(v)) = IntSize
  BY <1>1, <1>2, LenProperties, SizesAssumption DEF IntBytes
<1>4. IntVal(IntBytes(v)) = v
  <2>1. 1 \in 1..IntSize /\ \A i \in 2..IntSize : i \in 1..IntSize /\ i # 1
    BY SizesAssumption
  <2>2. IntBytes(v)[1] = v
    BY <2>1 DEF IntBytes
  <2>3. \A i \in 2..IntSize : IntBytes(v)[i] = 0
    BY <2>1 DEF IntBytes
  <2> QED
    BY <2>2, <2>3 DEF IntVal
<1> QED
  BY <1>1, <1>2, <1>3, <1>4

\* What the reader makes of any int is a natural number.
LEMMA IntValType ==
  ASSUME NEW b \in [1..IntSize -> Byte]
  PROVE  IntVal(b) \in Nat
<1>1. 1 \in 1..IntSize
  BY SizesAssumption
<1>2. b[1] \in Byte
  BY <1>1
<1>3. \A x \in Byte : x \in Nat
  BY DEF Byte
<1> QED
  BY <1>2, <1>3 DEF IntVal

(***************************************************************************)
(* A socket handle occupies SockSize bytes, and a valid one is not the     *)
(* invalid socket (priv_sock_send_fd, priv_sock_recv_fd).                  *)
(***************************************************************************)
LEMMA SockBytesType ==
  ASSUME NEW s, (\E h \in 1..254 : s = SockBytes(h)) \/ s = NoSock
  PROVE  /\ s \in [1..SockSize -> Byte]
         /\ s \in Seq(Byte)
         /\ Len(s) = SockSize
<1>1. s \in [1..SockSize -> Byte]
  <2>1. CASE s = NoSock
    BY <2>1 DEF NoSock, Byte
  <2>2. CASE \E h \in 1..254 : s = SockBytes(h)
    <3>1. PICK h \in 1..254 : s = SockBytes(h)
      BY <2>2
    <3>2. h \in Byte /\ 0 \in Byte
      BY DEF Byte
    <3> QED
      BY <3>1, <3>2 DEF SockBytes
  <2> QED
    BY <2>1, <2>2
<1>2. s \in Seq(Byte)
  BY <1>1, SizesAssumption, SeqDef
<1>3. DOMAIN s = 1..SockSize
  BY <1>1
<1> QED
  BY <1>1, <1>2, <1>3, LenProperties, SizesAssumption

LEMMA SockBytesValid ==
  ASSUME NEW h \in 1..254
  PROVE  SockBytes(h) # NoSock
<1>1. SockBytes(h)[1] = h /\ NoSock[1] = 255
  BY SizesAssumption DEF SockBytes, NoSock
<1> QED
  BY <1>1

(***************************************************************************)
(* Reading n bytes from a channel that holds them (readn).                 *)
(***************************************************************************)
LEMMA ReadType ==
  ASSUME NEW ch \in Seq(Byte), NEW n \in Nat, Readable(ch, n)
  PROVE  /\ Take(ch, n) \in Seq(Byte)
         /\ Len(Take(ch, n)) = n
         /\ Take(ch, n) \in [1..n -> Byte]
         /\ Drop(ch, n) \in Seq(Byte)
         /\ Len(Drop(ch, n)) = Len(ch) - n
<1>1. Len(ch) \in Nat /\ \A i \in 1..Len(ch) : ch[i] \in Byte
  BY LenProperties, ElementOfSeq
<1>2. \A i \in 1..n : ch[i] \in Byte
  BY <1>1 DEF Readable
<1>3. /\ SubSeq(ch, 1, n) \in Seq(Byte)
      /\ Len(SubSeq(ch, 1, n)) = IF 1 <= n THEN n - 1 + 1 ELSE 0
  BY <1>2, SubSeqProperties
<1>4. Take(ch, n) \in Seq(Byte) /\ Len(Take(ch, n)) = n
  BY <1>3 DEF Take
<1>5. \A i \in (n+1)..Len(ch) : ch[i] \in Byte
  BY <1>1
<1>6. /\ SubSeq(ch, n+1, Len(ch)) \in Seq(Byte)
      /\ Len(SubSeq(ch, n+1, Len(ch))) =
            IF n+1 <= Len(ch) THEN Len(ch) - (n+1) + 1 ELSE 0
  BY <1>1, <1>5, SubSeqProperties
<1>7. Drop(ch, n) \in Seq(Byte) /\ Len(Drop(ch, n)) = Len(ch) - n
  BY <1>1, <1>6 DEF Drop, Readable
<1> QED
  BY <1>4, <1>7, LenProperties

\* A message of exactly n bytes followed by more: the read returns the
\* message and leaves what follows.
LEMMA ReadFirst ==
  ASSUME NEW s \in Seq(Byte), NEW t \in Seq(Byte)
  PROVE  /\ Readable(s \o t, Len(s))
         /\ Take(s \o t, Len(s)) = s
         /\ Drop(s \o t, Len(s)) = t
<1> DEFINE ch == s \o t
<1>1. /\ ch \in Seq(Byte) /\ Len(ch) = Len(s) + Len(t)
      /\ \A i \in 1..Len(s) + Len(t) :
             ch[i] = IF i <= Len(s) THEN s[i] ELSE t[i - Len(s)]
  BY ConcatProperties
<1>2. Len(s) \in Nat /\ Len(t) \in Nat
  BY LenProperties
<1>3. Readable(ch, Len(s))
  BY <1>1, <1>2 DEF Readable
<1>4. /\ Take(ch, Len(s)) \in Seq(Byte) /\ Len(Take(ch, Len(s))) = Len(s)
      /\ Drop(ch, Len(s)) \in Seq(Byte) /\ Len(Drop(ch, Len(s))) = Len(t)
  <2>1. Len(ch) - Len(s) = Len(t)
    BY <1>1, <1>2
  <2> HIDE DEF ch
  <2> QED
    BY <1>1, <1>2, <1>3, <2>1, ReadType
<1>5. \A i \in 1..Len(s) : Take(ch, Len(s))[i] = s[i]
  <2>1. \A i \in 1..Len(s) : ch[i] \in Byte
    BY <1>1, <1>2, ElementOfSeq
  <2>2. \A i \in 1..Len(s) - 1 + 1 : SubSeq(ch, 1, Len(s))[i] = ch[1 + i - 1]
    BY <2>1, <1>2, SubSeqProperties
  <2> QED
    BY <2>2, <1>1, <1>2 DEF Take
<1>6. \A i \in 1..Len(t) : Drop(ch, Len(s))[i] = t[i]
  <2>1. \A i \in (Len(s)+1)..Len(ch) : ch[i] \in Byte
    BY <1>1, <1>2, ElementOfSeq
  <2>2. \A i \in 1..Len(ch) - (Len(s)+1) + 1 :
            SubSeq(ch, Len(s)+1, Len(ch))[i] = ch[Len(s)+1 + i - 1]
    BY <2>1, <1>1, <1>2, SubSeqProperties
  <2> QED
    BY <2>2, <1>1, <1>2 DEF Drop
<1>7. Take(ch, Len(s)) = s
  BY <1>4, <1>5, SeqEqual
<1>8. Drop(ch, Len(s)) = t
  BY <1>4, <1>6, SeqEqual
<1> QED
  BY <1>3, <1>7, <1>8

\* A message and nothing else.
LEMMA ReadAll ==
  ASSUME NEW s \in Seq(Byte)
  PROVE  /\ Readable(s, Len(s))
         /\ Take(s, Len(s)) = s
         /\ Drop(s, Len(s)) = << >>
<1>1. s \o << >> = s /\ << >> \in Seq(Byte)
  BY ConcatEmptySeq, EmptySeq
<1>2. /\ Readable(s \o << >>, Len(s))
      /\ Take(s \o << >>, Len(s)) = s
      /\ Drop(s \o << >>, Len(s)) = << >>
  BY <1>1, ReadFirst
<1> QED
  BY <1>1, <1>2

\* One byte, then more.
LEMMA ReadByte ==
  ASSUME NEW b \in Byte, NEW t \in Seq(Byte)
  PROVE  /\ <<b>> \o t \in Seq(Byte)
         /\ Len(<<b>> \o t) = 1 + Len(t)
         /\ Readable(<<b>> \o t, 1)
         /\ (<<b>> \o t)[1] = b
         /\ Drop(<<b>> \o t, 1) = t
         /\ <<b>> \o t # << >>
<1>1. <<b>> \in Seq(Byte) /\ Len(<<b>>) = 1 /\ <<b>>[1] = b
  OBVIOUS
<1>2. Len(t) \in Nat
  BY LenProperties
<1>3. /\ <<b>> \o t \in Seq(Byte) /\ Len(<<b>> \o t) = 1 + Len(t)
      /\ (<<b>> \o t)[1] = b
  BY <1>1, <1>2, ConcatProperties
<1>4. Readable(<<b>> \o t, 1) /\ Drop(<<b>> \o t, 1) = t
  BY <1>1, ReadFirst
<1>5. <<b>> \o t # << >>
  BY <1>2, <1>3, EmptySeq
<1> QED
  BY <1>3, <1>4, <1>5

-----------------------------------------------------------------------------
TypeInv == TypeOK /\ CmdOK

-----------------------------------------------------------------------------
(***************************************************************************)
(* Facts about the constants.                                              *)
(***************************************************************************)
LEMMA SocketType ==
  ASSUME NEW s \in Socket \cup {NoSock}
  PROVE  /\ s \in [1..SockSize -> Byte]
         /\ s \in Seq(Byte)
         /\ Len(s) = SockSize
         /\ s # << >>
<1>1. (\E h \in 1..254 : s = SockBytes(h)) \/ s = NoSock
  BY HandlesAssumption DEF Socket
<1>2. /\ s \in [1..SockSize -> Byte] /\ s \in Seq(Byte) /\ Len(s) = SockSize
  BY <1>1, SockBytesType
<1> QED
  BY <1>2, SizesAssumption, EmptySeq

LEMMA SocketValid == NoSock \notin Socket
BY HandlesAssumption, SockBytesValid DEF Socket

LEMMA BytesType ==
  /\ \A b \in {GET_DATA_SOCK, PASV_ACTIVE, PASV_LISTEN, PASV_ACCEPT,
               RESULT_OK, RESULT_BAD, DataPort, ClientPort, IpSize, 0, 1} : b \in Byte
  /\ \A b \in Byte : b \in Nat
BY IpAssumption DEF GET_DATA_SOCK, PASV_ACTIVE, PASV_LISTEN, PASV_ACCEPT,
     RESULT_OK, RESULT_BAD, DataPort, ClientPort, Byte

\* The request for a data socket: the length of the address, the address,
\* the port.
LEMMA AddressRequestType ==
  /\ AddressRequest \in Seq(Byte)
  /\ Len(AddressRequest) = IntSize + IpSize + IntSize
  /\ Take(AddressRequest, IntSize) = IntBytes(IpSize)
<1> DEFINE ip == [i \in 1..IpSize |-> 46]
           lengths == IntBytes(IpSize)
           port == IntBytes(ClientPort)
<1>1. /\ lengths \in Seq(Byte) /\ Len(lengths) = IntSize
      /\ port \in Seq(Byte) /\ Len(port) = IntSize
  BY BytesType, IntBytesType
<1>2. ip \in Seq(Byte) /\ Len(ip) = IpSize
  <2>1. ip \in [1..IpSize -> Byte] /\ IpSize \in Nat
    BY IpAssumption DEF Byte
  <2>2. ip \in Seq(Byte)
    BY <2>1, SeqDef
  <2> QED
    BY <2>1, <2>2, LenProperties
<1>3. AddressRequest = (lengths \o ip) \o port
  BY DEF AddressRequest
<1>4. AddressRequest = lengths \o (ip \o port)
  <2> HIDE DEF lengths, ip, port
  <2>1. lengths \in Seq(Byte) /\ ip \in Seq(Byte) /\ port \in Seq(Byte)
    BY <1>1, <1>2
  <2>2. (lengths \o ip) \o port = lengths \o (ip \o port)
    BY <2>1, ConcatAssociative
  <2> QED
    BY <1>3, <2>2
<1> HIDE DEF lengths, ip, port
<1>5. ip \o port \in Seq(Byte) /\ Len(ip \o port) = IpSize + IntSize
  BY <1>1, <1>2, ConcatProperties
<1>6. /\ AddressRequest \in Seq(Byte)
      /\ Len(AddressRequest) = IntSize + (IpSize + IntSize)
  BY <1>1, <1>4, <1>5, ConcatProperties
<1>7. Take(AddressRequest, IntSize) = lengths
  BY <1>1, <1>4, <1>5, ReadFirst
<1> QED
  BY <1>6, <1>7, SizesAssumption, IpAssumption DEF lengths

\* The length the nobody thread reads is the length that was sent, and fits
\* its buffer.
LEMMA AddressFits ==
  /\ IntVal(Take(AddressRequest, IntSize)) = IpSize
  /\ IpSize <= IpBuffer
  /\ Drop(AddressRequest, IntSize + IpSize + IntSize) = << >>
<1>1. IntVal(Take(AddressRequest, IntSize)) = IpSize
  BY AddressRequestType, BytesType, IntBytesType
<1>2. IpSize <= IpBuffer
  BY IpAssumption DEF IpBuffer
<1>3. Drop(AddressRequest, Len(AddressRequest)) = << >>
  BY AddressRequestType, ReadAll
<1> QED
  BY <1>1, <1>2, <1>3, AddressRequestType

LEMMA RepliesType ==
  ASSUME NEW c \in Transfers
  PROVE  /\ Refusal(c) \in Seq(Nat)
         /\ Outcomes(c) \subseteq Nat
BY DEF Transfers, Refusal, Outcomes

LEMMA ReplyConcat ==
  ASSUME NEW s \in Seq(Nat), NEW t \in Seq(Nat)
  PROVE  s \o t \in Seq(Nat)
BY ConcatProperties

LEMMA ChannelConcat ==
  ASSUME NEW s \in Seq(Byte), NEW t \in Seq(Byte)
  PROVE  s \o t \in Seq(Byte)
BY ConcatProperties

-----------------------------------------------------------------------------
(***************************************************************************)
(* Types, whatever fails.                                                  *)
(***************************************************************************)
LEMMA TypeInit == Init => TypeInv
<1> SUFFICES ASSUME Init PROVE TypeInv
  OBVIOUS
<1>1. IntBytes(0) \in [1..IntSize -> Byte]
  BY BytesType, IntBytesType
<1>2. NoSock \in [1..SockSize -> Byte]
  BY SocketType
<1>3. << >> \in Seq(Byte) /\ <<220>> \in Seq(Nat)
  OBVIOUS
<1> QED
  BY <1>1, <1>2, <1>3 DEF Init, TypeInv, TypeOK, CmdOK, AtRest, TransferPcs

LEMMA PrivateType == TypeInv /\ (Private \/ Client) => TypeInv'
<1> SUFFICES ASSUME TypeInv, Private \/ Client PROVE TypeInv'
  OBVIOUS
<1> USE DEF TypeInv, TypeOK, CmdOK, AtRest, TransferPcs, nobodyVars
<1>0. /\ \A b \in {PASV_LISTEN, PASV_ACTIVE, GET_DATA_SOCK, PASV_ACCEPT} :
             <<b>> \in Seq(Byte)
      /\ \A n \in Nat : <<n>> \in Seq(Nat)
      /\ << >> \in Seq(Byte) /\ << >> \in Seq(Nat)
  BY BytesType
<1>1. CASE PrivateLoop
  BY <1>1 DEF PrivateLoop
<1>2. CASE OtherCommand
  BY <1>0, <1>2 DEF OtherCommand
<1>3. CASE DoPort
  <2>1. p_addr' \in BOOLEAN /\ replies' \in Seq(Nat)
    BY <1>0, <1>3 DEF DoPort
  <2> QED
    BY <1>3, <2>1 DEF DoPort
<1>4. CASE LeaveProto
  <2>1. replies' \in Seq(Nat)
    BY <1>0, <1>4 DEF LeaveProto
  <2> QED
    BY <1>4, <2>1 DEF LeaveProto
<1>5. CASE DoPasv
  <2>1. p2n' \in Seq(Byte)
    <3> HIDE DEF TypeInv, TypeOK, CmdOK, AtRest, TransferPcs
    <3>1. p2n \in Seq(Byte)
      BY DEF TypeInv, TypeOK
    <3> QED
      BY <1>0, <1>5, <3>1, ChannelConcat DEF DoPasv
  <2> QED
    BY <1>0, <1>5, <2>1 DEF DoPasv
<1>6. CASE RecvPasvResult
  <2>1. n2p' \in Seq(Byte)
    BY <1>6, ReadType DEF RecvPasvResult
  <2>2. CASE n2p[1] = RESULT_BAD
    <3>1. replies' = <<500>> /\ pPc' = "loop"
      BY <1>6, <2>2 DEF RecvPasvResult
    <3>2. replies' \in Seq(Nat)
      BY <1>0, <3>1
    <3> QED
      BY <1>6, <2>1, <3>1, <3>2 DEF RecvPasvResult
  <2>3. CASE n2p[1] # RESULT_BAD
    BY <1>6, <2>1, <2>3 DEF RecvPasvResult
  <2> QED
    BY <2>2, <2>3
<1>7. CASE RecvPasvPort
  <2>1. n2p' \in Seq(Byte) /\ Take(n2p, IntSize) \in [1..IntSize -> Byte]
    BY <1>7, ReadType, SizesAssumption DEF RecvPasvPort
  <2>2. /\ replies' = <<227>> \/ replies' = <<500>>
        /\ announced' = Take(n2p, IntSize) \/ announced' = announced
    BY <1>7 DEF RecvPasvPort
  <2>0. <<227>> \in Seq(Nat) /\ <<500>> \in Seq(Nat)
    BY <1>0
  <2>3. replies' \in Seq(Nat)
    BY <2>0, <2>2, Zenon
  <2>4. announced' \in [1..IntSize -> Byte]
    BY <2>1, <2>2
  <2> QED
    BY <1>7, <2>1, <2>3, <2>4 DEF RecvPasvPort
<1>8. ASSUME NEW c \in Transfers, StartTransfer(c)
      PROVE  TypeInv'
  BY <1>0, <1>8, ChannelConcat DEF StartTransfer
<1>9. CASE GetTransDataFd
  <2> DEFINE active == IntVal(Take(n2p, IntSize)) # 0
  <2>1. n2p' \in Seq(Byte)
    BY <1>9, ReadType, SizesAssumption DEF GetTransDataFd
  <2>2. cmd \in Transfers
    BY <1>9 DEF GetTransDataFd
  <2>3. CASE NoMode(active)
    <3>1. replies' \in Seq(Nat)
      BY <1>0, <2>2, <2>3, RepliesType, ReplyConcat DEF NoMode
    <3> QED
      BY <1>9, <2>1, <2>3, <3>1 DEF GetTransDataFd, NoMode
  <2>4. CASE BothModes(active)
    <3>1. replies' \in Seq(Nat)
      BY <2>2, <2>4, RepliesType DEF BothModes
    <3> QED
      BY <1>9, <2>1, <2>4, <3>1 DEF GetTransDataFd, BothModes
  <2>5. CASE AskConnect(active)
    <3>1. p2n' \in Seq(Byte)
      BY <1>0, <2>5, AddressRequestType, ChannelConcat DEF AskConnect
    <3> QED
      BY <1>9, <2>1, <2>5, <3>1 DEF GetTransDataFd, AskConnect
  <2>6. CASE AskAccept(active)
    <3>1. p2n' \in Seq(Byte)
      BY <1>0, <2>6, ChannelConcat DEF AskAccept
    <3> QED
      BY <1>9, <2>1, <2>6, <3>1 DEF GetTransDataFd, AskAccept
  <2> QED
    BY <1>9, <2>3, <2>4, <2>5, <2>6 DEF GetTransDataFd
<1>10. ASSUME NEW from \in {"port_result", "accept_result"},
              NEW to \in {"port_fd", "accept_fd"},
              RecvDataResult(from, to)
       PROVE  TypeInv'
  <2>1. n2p' \in Seq(Byte)
    BY <1>10, ReadType DEF RecvDataResult
  <2>2. replies' \in Seq(Nat)
    BY <1>10 DEF RecvDataResult
  <2> QED
    BY <1>10, <2>1, <2>2 DEF RecvDataResult
<1>11. ASSUME NEW from \in {"port_fd", "accept_fd"}, RecvDataFd(from)
       PROVE  TypeInv'
  <2>1. n2p' \in Seq(Byte) /\ data_fd' \in [1..SockSize -> Byte]
    BY <1>11, ReadType, SizesAssumption DEF RecvDataFd
  <2> QED
    BY <1>11, <2>1 DEF RecvDataFd
<1>12. CASE Transfer
  <2>1. cmd \in Transfers
    BY <1>12 DEF Transfer
  <2>2. replies' \in Seq(Nat)
    <3>1. PICK code \in Outcomes(cmd) : replies' = replies \o <<150, code>>
      BY <1>12 DEF Transfer
    <3>2. <<150, code>> \in Seq(Nat)
      BY <2>1, <3>1, RepliesType
    <3> QED
      BY <3>1, <3>2, ReplyConcat
  <2>3. data_fd' \in [1..SockSize -> Byte]
    BY <1>12, SocketType DEF Transfer
  <2> QED
    BY <1>12, <2>2, <2>3 DEF Transfer
<1>13. CASE TransferRefused
  <2>1. cmd \in Transfers
    BY <1>13 DEF TransferRefused
  <2>2. replies' \in Seq(Nat)
    BY <1>13, <2>1, RepliesType, ReplyConcat DEF TransferRefused
  <2> QED
    BY <1>13, <2>2 DEF TransferRefused
<1> QED
  BY <1>1, <1>2, <1>3, <1>4, <1>5, <1>6, <1>7, <1>8, <1>9, <1>10, <1>11,
     <1>12, <1>13 DEF Private, Client

LEMMA NobodyType == TypeInv /\ Nobody => TypeInv'
<1> SUFFICES ASSUME TypeInv, Nobody PROVE TypeInv'
  OBVIOUS
<1> USE DEF TypeInv, TypeOK, CmdOK, AtRest, TransferPcs, privateVars
<1>0. /\ \A b \in {RESULT_OK, RESULT_BAD} : <<b>> \in Seq(Byte)
      /\ << >> \in Seq(Byte)
      /\ \A v \in {0, 1, DataPort} : IntBytes(v) \in Seq(Byte)
  BY BytesType, IntBytesType
<1>1. ASSUME NEW c, Receives(c)
      PROVE  p2n' \in Seq(Byte)
  BY <1>1, ReadType DEF Receives
<1>2. \A s \in FreeSockets \cup {NoSock} : s \in Seq(Byte)
  BY SocketType DEF FreeSockets
<1>3. CASE NobodyLoop
  BY <1>3 DEF NobodyLoop
<1>4. CASE PasvActive
  BY <1>0, <1>1, <1>4, ChannelConcat DEF PasvActive
<1>5. CASE PasvListen
  <2>1. n2p' \in Seq(Byte)
    BY <1>0, <1>5, ChannelConcat DEF PasvListen
  <2> QED
    BY <1>1, <1>5, <2>1 DEF PasvListen, FreeSockets
<1>6. CASE PasvListenFails
  BY <1>1, <1>6 DEF PasvListenFails
<1>7. CASE GetDataSock
  BY <1>1, <1>7 DEF GetDataSock
<1>8. CASE RecvAddress
  <2> DEFINE n == IntVal(Take(p2n, IntSize))
  <2>1. n \in Nat
    BY <1>8, ReadType, IntValType, SizesAssumption DEF RecvAddress
  <2>2. p2n' \in Seq(Byte)
    <3>1. CASE n > IpBuffer
      BY <1>8, <3>1, ReadType, SizesAssumption DEF RecvAddress
    <3>2. CASE ~(n > IpBuffer)
      BY <1>8, <2>1, <3>2, ReadType, SizesAssumption DEF RecvAddress
    <3> QED
      BY <3>1, <3>2
  <2> QED
    BY <1>8, <2>2 DEF RecvAddress
<1>9. CASE Connect
  <2>1. n2p' \in Seq(Byte)
    BY <1>0, <1>2, <1>9, ChannelConcat DEF Connect
  <2> QED
    BY <1>9, <2>1 DEF Connect, FreeSockets
<1>10. CASE ConnectFails
  BY <1>10 DEF ConnectFails, FreeSockets
<1>11. CASE PasvAccept
  BY <1>1, <1>11 DEF PasvAccept
<1>12. CASE AcceptReturns
  <2>1. n2p' \in Seq(Byte)
    BY <1>0, <1>2, <1>12, ChannelConcat DEF AcceptReturns
  <2> QED
    BY <1>12, <2>1 DEF AcceptReturns, CloseListener, FreeSockets
<1>13. CASE AcceptTimesOut
  BY <1>0, <1>13, ChannelConcat DEF AcceptTimesOut, CloseListener
<1>14. CASE AcceptFails
  <2>1. n2p' \in Seq(Byte)
    BY <1>0, <1>2, <1>14, ChannelConcat DEF AcceptFails
  <2> QED
    BY <1>14, <2>1 DEF AcceptFails, CloseListener
<1>15. CASE SessionFree
  <2>1. data_fd' \in [1..SockSize -> Byte]
    BY <1>15, SocketType DEF SessionFree
  <2> QED
    BY <1>0, <1>15, <2>1 DEF SessionFree
<1> QED
  BY <1>3, <1>4, <1>5, <1>6, <1>7, <1>8, <1>9, <1>10, <1>11, <1>12, <1>13,
     <1>14, <1>15 DEF Nobody

LEMMA TypeStep == TypeInv /\ [Next]_vars => TypeInv'
<1>1. TypeInv /\ ExitLoop => TypeInv'
  BY DEF TypeInv, TypeOK, CmdOK, ExitLoop, nobodyVars, privateVars
<1>2. TypeInv /\ UNCHANGED vars => TypeInv'
  BY DEF TypeInv, TypeOK, CmdOK, vars
<1> QED
  BY <1>1, <1>2, PrivateType, NobodyType DEF Next

(***************************************************************************)
(* Every field of the session, and everything on the socket pair, keeps    *)
(* its type, even when the answers of the nobody thread get out of step.   *)
(***************************************************************************)
THEOREM TypeCorrect == Spec => []TypeOK
<1>1. TypeInv => TypeOK
  BY DEF TypeInv
<1> QED
  BY <1>1, TypeInit, TypeStep, PTL DEF Spec

-----------------------------------------------------------------------------
(***************************************************************************)
(* The requests.  What the private thread has sent and the nobody thread   *)
(* has not read is always a row of whole requests, but for the part of the *)
(* first that is read: Framed(q, start) says so of q from start on, by the *)
(* set of places where a request starts, or the end.                       *)
(***************************************************************************)
Simple == {PASV_ACTIVE, PASV_LISTEN, PASV_ACCEPT}

AddressAt(q, i) ==
    \A j \in 1..Len(AddressRequest) : q[i + j - 1] = AddressRequest[j]

\* A request starts at b, and ends before e.
RequestAt(q, b, e) ==
    \/ q[b] \in Simple /\ e = b + 1
    \/ /\ q[b] = GET_DATA_SOCK /\ e = b + 1 + Len(AddressRequest)
       /\ AddressAt(q, b + 1)

Framed(q, start) ==
    \E B \in SUBSET (start..Len(q) + 1) :
        /\ start \in B
        /\ \A b \in B : b = Len(q) + 1 \/ \E e \in B : RequestAt(q, b, e)

FrameInv ==
    IF nPc = "recv_str"
    THEN AddressAt(p2n, 1) /\ Framed(p2n, Len(AddressRequest) + 1)
    ELSE Framed(p2n, 1)

\* Whole requests: what the private thread sends at a time.
Requests == {<<c>> : c \in Simple} \cup {<<GET_DATA_SOCK>> \o AddressRequest}

LEMMA RequestType ==
  ASSUME NEW m \in Requests
  PROVE  m \in Seq(Byte) /\ Len(m) > 0 /\ RequestAt(m, 1, Len(m) + 1)
<1>1. CASE m \in {<<c>> : c \in Simple}
  <2>1. PICK c \in Simple : m = <<c>>
    BY <1>1
  <2>2. c \in Byte
    BY BytesType DEF Simple
  <2>3. m \in Seq(Byte) /\ Len(m) = 1 /\ m[1] = c
    BY <2>1, <2>2
  <2> QED
    BY <2>1, <2>3 DEF RequestAt
<1>2. CASE m = <<GET_DATA_SOCK>> \o AddressRequest
  <2>1. AddressRequest \in Seq(Byte) /\ Len(AddressRequest) \in Nat
    BY AddressRequestType, LenProperties
  <2>2. <<GET_DATA_SOCK>> \in Seq(Byte) /\ Len(<<GET_DATA_SOCK>>) = 1
        /\ <<GET_DATA_SOCK>>[1] = GET_DATA_SOCK
    BY BytesType
  <2>3. /\ m \in Seq(Byte) /\ Len(m) = 1 + Len(AddressRequest)
        /\ \A i \in 1..1 + Len(AddressRequest) :
               m[i] = IF i <= 1 THEN GET_DATA_SOCK ELSE AddressRequest[i - 1]
    BY <1>2, <2>1, <2>2, ConcatProperties
  <2>4. AddressAt(m, 2)
    BY <2>1, <2>3 DEF AddressAt
  <2> QED
    BY <2>1, <2>3, <2>4 DEF RequestAt
<1> QED
  BY <1>1, <1>2 DEF Requests

\* A request that is sent behind whole requests.
LEMMA FramedAppend ==
  ASSUME NEW q \in Seq(Byte), NEW m \in Requests, NEW start \in Nat \ {0}
  PROVE  /\ Framed(q, start) => Framed(q \o m, start)
         /\ Framed(q, Len(AddressRequest) + 1) /\ AddressAt(q, 1)
               => AddressAt(q \o m, 1)
<1> DEFINE w == q \o m
           L == Len(q)
<1>1. /\ m \in Seq(Byte) /\ Len(m) \in Nat /\ Len(m) > 0 /\ L \in Nat
      /\ RequestAt(m, 1, Len(m) + 1) /\ Len(AddressRequest) \in Nat
  BY RequestType, AddressRequestType, LenProperties
<1>2. /\ Len(w) = L + Len(m)
      /\ \A i \in 1..L : w[i] = q[i]
      /\ \A i \in 1..Len(m) : w[L + i] = m[i]
  BY <1>1, ConcatProperties
<1> HIDE DEF w, L
<1>3. RequestAt(w, L + 1, L + Len(m) + 1)
  <2>1. w[L + 1] = m[1]
    BY <1>1, <1>2
  <2>2. CASE m[1] \in Simple /\ Len(m) + 1 = 1 + 1
    BY <1>1, <2>1, <2>2 DEF RequestAt
  <2>3. CASE /\ m[1] = GET_DATA_SOCK
             /\ Len(m) + 1 = 1 + 1 + Len(AddressRequest) /\ AddressAt(m, 1 + 1)
    <3>1. \A j \in 1..Len(AddressRequest) : w[L + 1 + j] = m[1 + j]
      <4> SUFFICES ASSUME NEW j \in 1..Len(AddressRequest)
                   PROVE  w[L + 1 + j] = m[1 + j]
        OBVIOUS
      <4>1. 1 + j \in 1..Len(m) /\ L + 1 + j = L + (1 + j)
        BY <1>1, <2>3
      <4> QED
        BY <1>2, <4>1
    <3>2. AddressAt(w, L + 1 + 1)
      BY <1>1, <2>3, <3>1 DEF AddressAt
    <3> QED
      BY <1>1, <2>1, <2>3, <3>2 DEF RequestAt
  <2> QED
    BY <1>1, <2>2, <2>3 DEF RequestAt
<1>4. ASSUME Framed(q, start) PROVE Framed(w, start)
  <2>1. PICK B \in SUBSET (start..L + 1) :
          /\ start \in B
          /\ \A b \in B : b = L + 1 \/ \E e \in B : RequestAt(q, b, e)
    BY <1>4 DEF Framed, L
  <2> DEFINE C == B \cup {L + Len(m) + 1}
  <2>2. C \subseteq start..Len(w) + 1 /\ start \in C
    <3>1. \A b \in B : b \in start..L + 1
      BY <2>1
    <3>2. start <= L + 1
      BY <1>1, <2>1, <3>1
    <3>3. \A b \in start..L + 1 : b \in start..Len(w) + 1
      BY <1>1, <1>2
    <3>4. L + Len(m) + 1 \in start..Len(w) + 1
      BY <1>1, <1>2, <3>2
    <3> QED
      BY <2>1, <3>1, <3>3, <3>4
  <2>3. ASSUME NEW b \in B, b # L + 1, NEW e \in B, RequestAt(q, b, e)
        PROVE  RequestAt(w, b, e)
    <3>1. b \in 1..L /\ e \in 1..L + 1
      BY <1>1, <2>1, <2>3
    <3>2. w[b] = q[b]
      BY <1>2, <3>1
    <3>3. CASE q[b] \in Simple /\ e = b + 1
      BY <3>2, <3>3 DEF RequestAt
    <3>4. CASE /\ q[b] = GET_DATA_SOCK /\ e = b + 1 + Len(AddressRequest)
               /\ AddressAt(q, b + 1)
      <4>1. \A j \in 1..Len(AddressRequest) :
                b + 1 + j - 1 \in 1..L /\ w[b + 1 + j - 1] = q[b + 1 + j - 1]
        BY <1>1, <1>2, <3>1, <3>4
      <4>2. AddressAt(w, b + 1)
        BY <3>4, <4>1 DEF AddressAt
      <4> QED
        BY <3>2, <3>4, <4>2 DEF RequestAt
    <3> QED
      BY <2>3, <3>3, <3>4 DEF RequestAt
  <2>4. \A b \in C : b = Len(w) + 1 \/ \E e \in C : RequestAt(w, b, e)
    <3> SUFFICES ASSUME NEW b \in C, b # Len(w) + 1
                 PROVE  \E e \in C : RequestAt(w, b, e)
      OBVIOUS
    <3>1. b \in B
      BY <1>2
    <3>2. CASE b = L + 1
      BY <1>3, <3>2
    <3>3. CASE b # L + 1
      BY <2>1, <2>3, <3>1, <3>3
    <3> QED
      BY <3>2, <3>3
  <2> QED
    BY <2>2, <2>4 DEF Framed
<1>5. ASSUME Framed(q, Len(AddressRequest) + 1), AddressAt(q, 1)
      PROVE  AddressAt(w, 1)
  <2>1. Len(AddressRequest) <= L
    BY <1>1, <1>5 DEF Framed, L
  <2> QED
    BY <1>1, <1>2, <1>5, <2>1 DEF AddressAt
<1> QED
  BY <1>4, <1>5 DEF w

\* The first request, and what follows it.
LEMMA FramedNext ==
  ASSUME NEW q \in Seq(Byte), NEW start \in Nat \ {0}, Framed(q, start),
         start # Len(q) + 1
  PROVE  \E e \in start + 1..Len(q) + 1 : RequestAt(q, start, e) /\ Framed(q, e)
<1>1. Len(q) \in Nat /\ Len(AddressRequest) \in Nat
  BY AddressRequestType, LenProperties
<1>2. PICK B \in SUBSET (start..Len(q) + 1) :
        /\ start \in B
        /\ \A b \in B : b = Len(q) + 1 \/ \E e \in B : RequestAt(q, b, e)
  BY DEF Framed
<1>3. PICK e \in B : RequestAt(q, start, e)
  BY <1>2
<1>4. \A b, d \in B : RequestAt(q, b, d) => d > b
  BY <1>1, <1>2 DEF RequestAt
<1> DEFINE C == {b \in B : b >= e}
<1>5. e \in start + 1..Len(q) + 1
  BY <1>1, <1>2, <1>3, <1>4
<1>6. C \subseteq e..Len(q) + 1 /\ e \in C
  <2>1. \A b \in B : b \in start..Len(q) + 1
    BY <1>2
  <2>2. \A b \in start..Len(q) + 1 : b >= e => b \in e..Len(q) + 1
    BY <1>1, <1>5
  <2>3. e >= e
    BY <1>5
  <2> QED
    BY <2>1, <2>2, <2>3
<1>7. \A b \in C : b = Len(q) + 1 \/ \E d \in C : RequestAt(q, b, d)
  <2> SUFFICES ASSUME NEW b \in C, b # Len(q) + 1
               PROVE  \E d \in C : RequestAt(q, b, d)
    OBVIOUS
  <2>1. PICK d \in B : RequestAt(q, b, d)
    BY <1>2
  <2>2. d > b /\ b >= e /\ d \in Int /\ b \in Int /\ e \in Int
    BY <1>1, <1>2, <1>4, <1>5, <2>1
  <2> QED
    BY <2>1, <2>2
<1> QED
  BY <1>3, <1>5, <1>6, <1>7 DEF Framed

\* Reading away what lies before the requests.
LEMMA FramedDrop ==
  ASSUME NEW q \in Seq(Byte), NEW k \in Nat, NEW start \in Nat \ {0},
         Framed(q, k + start)
  PROVE  Framed(Drop(q, k), start)
<1>1. Len(q) \in Nat /\ Len(AddressRequest) \in Nat
  BY AddressRequestType, LenProperties
<1>2. PICK B \in SUBSET (k + start..Len(q) + 1) :
        /\ k + start \in B
        /\ \A b \in B : b = Len(q) + 1 \/ \E e \in B : RequestAt(q, b, e)
  BY DEF Framed
<1> DEFINE w == Drop(q, k)
           C == {b - k : b \in B}
<1>3. Len(w) = Len(q) - k /\ \A i \in 1..Len(q) - k : w[i] = q[i + k]
  <2>1. k <= Len(q)
    BY <1>1, <1>2
  <2>2. /\ Len(SubSeq(q, k + 1, Len(q))) =
             IF k + 1 <= Len(q) THEN Len(q) - (k + 1) + 1 ELSE 0
        /\ \A i \in 1..Len(q) - (k + 1) + 1 :
               SubSeq(q, k + 1, Len(q))[i] = q[k + 1 + i - 1]
    BY <1>1, <2>1, SubSeqProperties
  <2> QED
    BY <1>1, <2>1, <2>2 DEF Drop
<1> HIDE DEF w
<1>4. C \subseteq start..Len(w) + 1 /\ start \in C
  BY <1>1, <1>2, <1>3
<1>5. ASSUME NEW b \in B, b # Len(q) + 1, NEW e \in B, RequestAt(q, b, e)
      PROVE  RequestAt(w, b - k, e - k)
  <2>1. /\ b - k \in 1..Len(q) - k /\ e - k \in 1..Len(q) - k + 1
        /\ b \in Nat /\ e \in Nat
    BY <1>1, <1>2, <1>5
  <2>2. w[b - k] = q[b]
    BY <1>1, <1>3, <2>1
  <2>3. CASE q[b] \in Simple /\ e = b + 1
    BY <2>1, <2>2, <2>3 DEF RequestAt
  <2>4. CASE /\ q[b] = GET_DATA_SOCK /\ e = b + 1 + Len(AddressRequest)
             /\ AddressAt(q, b + 1)
    <3>1. \A j \in 1..Len(AddressRequest) :
              w[b - k + 1 + j - 1] = q[b + 1 + j - 1]
      <4> SUFFICES ASSUME NEW j \in 1..Len(AddressRequest)
                   PROVE  w[b - k + 1 + j - 1] = q[b + 1 + j - 1]
        OBVIOUS
      <4>1. /\ b - k + j \in 1..Len(q) - k
            /\ b - k + 1 + j - 1 = b - k + j
            /\ b - k + j + k = b + 1 + j - 1
        BY <1>1, <2>1, <2>4
      <4>2. PICK i \in 1..Len(q) - k : i = b - k + j
        BY <4>1
      <4>3. w[i] = q[i + k]
        BY <1>3
      <4>4. b - k + 1 + j - 1 = i /\ b + 1 + j - 1 = i + k
        BY <4>1, <4>2
      <4> QED
        BY <4>3, <4>4
    <3>2. AddressAt(w, b - k + 1)
      BY <2>4, <3>1 DEF AddressAt
    <3> QED
      BY <1>1, <2>1, <2>2, <2>4, <3>2 DEF RequestAt
  <2> QED
    BY <1>5, <2>3, <2>4 DEF RequestAt
<1>6. \A c \in C : c = Len(w) + 1 \/ \E d \in C : RequestAt(w, c, d)
  <2> SUFFICES ASSUME NEW b \in B, b - k # Len(w) + 1
               PROVE  \E d \in C : RequestAt(w, b - k, d)
    OBVIOUS
  <2>1. b # Len(q) + 1
    BY <1>1, <1>2, <1>3
  <2> QED
    BY <1>2, <1>5, <2>1
<1> QED
  BY <1>4, <1>6 DEF Framed, w

LEMMA NothingFramed == Framed(<< >>, 1)
<1>1. Len(<< >>) + 1 = 1
  BY EmptySeq
<1>2. {1} \in SUBSET (1..Len(<< >>) + 1)
  BY <1>1
<1>3. /\ 1 \in {1}
      /\ \A b \in {1} :
             b = Len(<< >>) + 1 \/ \E e \in {1} : RequestAt(<< >>, b, e)
  BY <1>1
<1>4. \E B \in SUBSET (1..Len(<< >>) + 1) :
        /\ 1 \in B
        /\ \A b \in B :
               b = Len(<< >>) + 1 \/ \E e \in B : RequestAt(<< >>, b, e)
  BY <1>2, <1>3, Zenon
<1> QED
  BY <1>4, Zenon DEF Framed

LEMMA SendKeepsFrame ==
  ASSUME TypeInv, FrameInv, UNCHANGED nPc,
         UNCHANGED p2n \/ \E m \in Requests : p2n' = p2n \o m
  PROVE  FrameInv'
<1>1. p2n \in Seq(Byte) /\ Len(AddressRequest) + 1 \in Nat \ {0}
  BY AddressRequestType, LenProperties DEF TypeInv, TypeOK
<1>2. CASE UNCHANGED p2n
  BY <1>2 DEF FrameInv
<1>3. ASSUME NEW m \in Requests, p2n' = p2n \o m PROVE FrameInv'
  BY <1>1, <1>3, FramedAppend DEF FrameInv
<1> QED
  BY <1>2, <1>3

\* The private thread sends nothing but whole requests.
LEMMA PrivateSends ==
  ASSUME TypeInv, Private \/ Client
  PROVE  /\ UNCHANGED nPc
         /\ UNCHANGED p2n \/ \E m \in Requests : p2n' = p2n \o m
<1>1. p2n \in Seq(Byte) /\ <<GET_DATA_SOCK>> \in Seq(Byte)
  BY BytesType DEF TypeInv, TypeOK
<1>2. CASE DoPasv \/ \E c \in Transfers : StartTransfer(c)
  BY <1>2 DEF DoPasv, StartTransfer, nobodyVars, Requests, Simple
<1>3. CASE GetTransDataFd
  <2>1. (p2n \o <<GET_DATA_SOCK>>) \o AddressRequest
            = p2n \o (<<GET_DATA_SOCK>> \o AddressRequest)
    BY <1>1, AddressRequestType, ConcatAssociative
  <2>2. \A active : AskConnect(active) => \E m \in Requests : p2n' = p2n \o m
    BY <2>1 DEF AskConnect, Requests
  <2>3. \A active : AskAccept(active) => \E m \in Requests : p2n' = p2n \o m
    BY DEF AskAccept, Requests, Simple
  <2> QED
    BY <1>3, <2>2, <2>3 DEF GetTransDataFd, NoMode, BothModes, nobodyVars
<1>4. CASE ~DoPasv /\ ~GetTransDataFd /\ ~\E c \in Transfers : StartTransfer(c)
  BY <1>4 DEF Private, Client, PrivateLoop, RecvPasvResult, RecvPasvPort,
     RecvDataResult, RecvDataFd, Transfer, TransferRefused, OtherCommand,
     DoPort, LeaveProto, nobodyVars
<1> QED
  BY <1>2, <1>3, <1>4

\* The nobody thread reads one whole request after the other.
LEMMA NobodyReads ==
  ASSUME TypeInv, FrameInv, Nobody
  PROVE  FrameInv'
<1>1. p2n \in Seq(Byte) /\ Len(p2n) \in Nat /\ Len(AddressRequest) \in Nat
  BY AddressRequestType, LenProperties DEF TypeInv, TypeOK
<1>2. ASSUME NEW c, Receives(c)
      PROVE  \E e \in 2..Len(p2n) + 1 : RequestAt(p2n, 1, e) /\ Framed(p2n, e)
  <2>1. Framed(p2n, 1) /\ 1 # Len(p2n) + 1
    BY <1>1, <1>2 DEF FrameInv, Receives, Readable
  <2> QED
    BY <1>1, <2>1, FramedNext
<1>3. ASSUME NEW c \in Simple, Receives(c), nPc' # "recv_str" PROVE FrameInv'
  <2>1. PICK e \in 2..Len(p2n) + 1 : RequestAt(p2n, 1, e) /\ Framed(p2n, e)
    BY <1>2, <1>3
  <2>2. p2n[1] # GET_DATA_SOCK
    BY <1>3 DEF Receives, Simple, GET_DATA_SOCK, PASV_ACTIVE, PASV_LISTEN,
       PASV_ACCEPT
  <2>3. Framed(p2n, 1 + 1)
    BY <2>1, <2>2 DEF RequestAt
  <2>4. Framed(Drop(p2n, 1), 1)
    BY <1>1, <2>3, FramedDrop
  <2> QED
    BY <1>3, <2>4 DEF FrameInv, Receives
<1>4. CASE PasvActive \/ PasvListen \/ PasvListenFails \/ PasvAccept
  BY <1>3, <1>4 DEF PasvActive, PasvListen, PasvListenFails, PasvAccept, Simple
<1>5. CASE GetDataSock
  <2>1. PICK e \in 2..Len(p2n) + 1 : RequestAt(p2n, 1, e) /\ Framed(p2n, e)
    BY <1>2, <1>5 DEF GetDataSock
  <2>2. p2n[1] \notin Simple /\ p2n' = Drop(p2n, 1) /\ nPc' = "recv_str"
    BY <1>5 DEF GetDataSock, Receives, Simple, GET_DATA_SOCK, PASV_ACTIVE,
       PASV_LISTEN, PASV_ACCEPT
  <2>3. e = 2 + Len(AddressRequest) /\ AddressAt(p2n, 2)
    BY <1>1, <2>1, <2>2 DEF RequestAt
  <2>4. AddressAt(Drop(p2n, 1), 1)
    <3>1. 1 + Len(AddressRequest) <= Len(p2n)
      BY <1>1, <2>1, <2>3
    <3>2. \A i \in 1..Len(p2n) - 1 : Drop(p2n, 1)[i] = p2n[i + 1]
      BY <1>1, <3>1, SubSeqProperties DEF Drop
    <3>3. \A j \in 1..Len(AddressRequest) :
              Drop(p2n, 1)[1 + j - 1] = p2n[2 + j - 1]
      BY <1>1, <3>1, <3>2
    <3> QED
      BY <2>3, <3>3 DEF AddressAt
  <2>5. Framed(Drop(p2n, 1), Len(AddressRequest) + 1)
    <3>1. Framed(p2n, 1 + (Len(AddressRequest) + 1))
      BY <1>1, <2>1, <2>3
    <3> QED
      BY <1>1, <3>1, FramedDrop
  <2> QED
    BY <2>2, <2>4, <2>5 DEF FrameInv
<1>6. CASE RecvAddress
  <2>1. /\ AddressAt(p2n, 1) /\ Framed(p2n, Len(AddressRequest) + 1)
        /\ nPc = "recv_str" /\ Readable(p2n, IntSize)
    BY <1>6 DEF FrameInv, RecvAddress
  <2>2. IntSize \in Nat /\ IntSize <= Len(AddressRequest)
        /\ Len(AddressRequest) = IntSize + IpSize + IntSize
    BY AddressRequestType, SizesAssumption, IpAssumption
  <2>3. Take(p2n, IntSize) = Take(AddressRequest, IntSize)
    <3>1. \A i \in 1..IntSize : p2n[i] = AddressRequest[i]
      BY <1>1, <2>1, <2>2 DEF AddressAt
    <3>2. SubSeq(p2n, 1, IntSize) = [i \in 1..IntSize |-> p2n[i]]
          /\ SubSeq(AddressRequest, 1, IntSize)
                 = [i \in 1..IntSize |-> AddressRequest[i]]
      BY <2>2
    <3> QED
      BY <3>1, <3>2 DEF Take
  <2>4. p2n' = Drop(p2n, Len(AddressRequest)) /\ nPc' = "connect"
    BY <1>6, <2>2, <2>3, AddressFits, IpAssumption DEF RecvAddress, IpBuffer
  <2>5. Framed(Drop(p2n, Len(AddressRequest)), 1)
    BY <1>1, <2>1, FramedDrop
  <2> QED
    BY <2>4, <2>5 DEF FrameInv
<1>7. CASE NobodyLoop \/ Connect \/ ConnectFails \/ AcceptReturns
           \/ AcceptTimesOut \/ AcceptFails
  BY <1>7 DEF NobodyLoop, Connect, ConnectFails, AcceptReturns,
     AcceptTimesOut, AcceptFails, CloseListener, FrameInv
<1>8. CASE SessionFree
  <2>1. p2n' = << >> /\ nPc' = "freed"
    BY <1>8 DEF SessionFree
  <2> QED
    BY <2>1, NothingFramed DEF FrameInv
<1> QED
  BY <1>4, <1>5, <1>6, <1>7, <1>8 DEF Nobody

\* However far the answers are out of step, the nobody thread finds a command
\* where it looks for one and an address where it looks for an address: for
\* every fault and every number of bytes left unread.
THEOREM RequestsStayInStep == Spec => []RequestsInStep
<1>1. Init => FrameInv
  BY NothingFramed DEF Init, FrameInv
<1>2. TypeInv /\ FrameInv /\ [Next]_vars => FrameInv'
  <2> SUFFICES ASSUME TypeInv, FrameInv, [Next]_vars PROVE FrameInv'
    OBVIOUS
  <2>1. CASE Private \/ Client
    BY <2>1, PrivateSends, SendKeepsFrame
  <2>2. CASE Nobody
    BY <2>2, NobodyReads
  <2>3. CASE ExitLoop \/ UNCHANGED vars
    BY <2>3 DEF ExitLoop, vars, nobodyVars, FrameInv
  <2> QED
    BY <2>1, <2>2, <2>3 DEF Next
<1>3. TypeInv /\ FrameInv => RequestsInStep
  <2> SUFFICES ASSUME TypeInv, FrameInv PROVE RequestsInStep
    OBVIOUS
  <2>1. /\ p2n \in Seq(Byte) /\ Len(p2n) \in Nat
        /\ AddressRequest \in Seq(Byte) /\ Len(AddressRequest) \in Nat
    BY AddressRequestType, LenProperties DEF TypeInv, TypeOK
  <2>2. ASSUME nPc = "recv_cmd", p2n # << >>
        PROVE  p2n[1] \in {GET_DATA_SOCK, PASV_ACTIVE, PASV_LISTEN, PASV_ACCEPT}
    <3>1. Framed(p2n, 1) /\ 1 # Len(p2n) + 1
      BY <2>1, <2>2, EmptySeq DEF FrameInv
    <3>2. \E e \in 1 + 1..Len(p2n) + 1 : RequestAt(p2n, 1, e)
      BY <2>1, <3>1, FramedNext
    <3> QED
      BY <3>2 DEF RequestAt, Simple
  <2>3. ASSUME nPc = "recv_str"
        PROVE  Take(p2n, Len(AddressRequest)) = AddressRequest
    <3>1. \A i \in 1..Len(AddressRequest) : p2n[i] = AddressRequest[i]
      BY <2>1, <2>3 DEF FrameInv, AddressAt
    <3>2. SubSeq(p2n, 1, Len(AddressRequest))
              = [i \in 1..Len(AddressRequest) |-> p2n[i]]
      BY <2>1
    <3>3. AddressRequest = [i \in 1..Len(AddressRequest) |-> AddressRequest[i]]
      BY <2>1, LenProperties
    <3> QED
      BY <3>1, <3>2, <3>3 DEF Take
  <2> QED
    BY <2>2, <2>3 DEF RequestsInStep
<1> QED
  BY <1>1, <1>2, <1>3, TypeInit, TypeStep, PTL DEF Spec

-----------------------------------------------------------------------------
(***************************************************************************)
(* As long as accept does not fail (it may time out), the two threads of a *)
(* session stay in step: Inv is an invariant, and the safety properties of *)
(* PrivSession follow from it.                                             *)
(***************************************************************************)
LEMMA Bytes ==
  /\ GET_DATA_SOCK \in Byte /\ PASV_ACTIVE \in Byte
  /\ PASV_LISTEN \in Byte /\ PASV_ACCEPT \in Byte
  /\ RESULT_OK \in Byte /\ RESULT_BAD \in Byte
  /\ DataPort \in Byte /\ 0 \in Byte /\ 1 \in Byte
BY BytesType

LEMMA OneByte ==
  ASSUME NEW b \in Byte
  PROVE  /\ <<b>> \in Seq(Byte) /\ Len(<<b>>) = 1
         /\ <<b>>[1] = b /\ <<b>> # << >>
         /\ Drop(<<b>>, 1) = << >>
<1>1. <<b>> \in Seq(Byte) /\ Len(<<b>>) = 1
  OBVIOUS
<1>2. Drop(<<b>>, 1) = << >>
  BY <1>1, ReadAll
<1> QED
  BY <1>1, <1>2

LEMMA Nothing == Len(<< >>) = 0 /\ << >> \in Seq(Byte)
OBVIOUS

\* The request the nobody thread takes is the one the private thread waits
\* on the answer of, and there is no other.
LEMMA RequestTaken ==
  ASSUME TypeInv, Inv, NEW c, Receives(c)
  PROVE  /\ n2p = << >>
         /\ \/ /\ pPc = "pasv_result" /\ c = PASV_LISTEN
               /\ p2n' = << >>
            \/ /\ pPc = "active_int" /\ c = PASV_ACTIVE
               /\ p2n' = << >>
            \/ /\ pPc = "port_result" /\ c = GET_DATA_SOCK
               /\ p_addr /\ listen_fd = NoSock /\ p2n' = AddressRequest
            \/ /\ pPc = "accept_result" /\ c = PASV_ACCEPT
               /\ ~p_addr /\ listen_fd # NoSock /\ p2n' = << >>
<1>1. nPc = "recv_cmd" /\ p2n[1] = c /\ p2n' = Drop(p2n, 1) /\ p2n # << >>
  BY Nothing DEF Receives, Readable
<1>2. \A b \in Byte : <<b>>[1] = b /\ Drop(<<b>>, 1) = << >>
  BY OneByte
<1>3. LET q == <<GET_DATA_SOCK>> \o AddressRequest
      IN  q[1] = GET_DATA_SOCK /\ Drop(q, 1) = AddressRequest
  BY Bytes, AddressRequestType, ReadByte
<1>4. CASE pPc \in AtRest \cup {"transfer"}
  BY <1>1, <1>4 DEF Inv, WireAtRest, Quiet
<1>5. CASE pPc = "pasv_result"
  BY <1>1, <1>2, <1>5, Bytes DEF Inv, WirePasv, Asked, Answered, Unanswered, Quiet
<1>6. CASE pPc = "pasv_int"
  BY <1>1, <1>6 DEF Inv, WirePort, Answered
<1>7. CASE pPc = "active_int"
  BY <1>1, <1>2, <1>7, Bytes DEF Inv, WireActive, Asked, Answered
<1>8. CASE pPc = "port_result"
  BY <1>1, <1>3, <1>8 DEF Inv, WireConnect, Asked, Answered, Unanswered, Quiet
<1>9. CASE pPc = "port_fd"
  BY <1>1, <1>9 DEF Inv, WireConnected, Answered
<1>10. CASE pPc = "accept_result"
  BY <1>1, <1>2, <1>10, Bytes DEF Inv, WireAccept, Asked, Answered, Quiet
<1>11. CASE pPc = "accept_fd"
  BY <1>1, <1>11 DEF Inv, WireAccepted, Answered, Unanswered, Quiet
<1> QED
  BY <1>4, <1>5, <1>6, <1>7, <1>8, <1>9, <1>10, <1>11 DEF TypeInv, TypeOK

\* Where the private thread is when the nobody thread is in the middle of an
\* operation.
LEMMA MidOperation ==
  ASSUME TypeInv, Inv
  PROVE  /\ nPc = "recv_str" => /\ pPc = "port_result" /\ p_addr
                                /\ listen_fd = NoSock
                                /\ p2n = AddressRequest /\ n2p = << >>
         /\ nPc = "connect" => /\ pPc = "port_result" /\ p_addr
                               /\ listen_fd = NoSock /\ Quiet
         /\ nPc = "accept" => /\ pPc = "accept_result" /\ ~p_addr
                              /\ listen_fd # NoSock /\ Quiet
<1>1. CASE pPc \in AtRest \cup {"transfer"}
  BY <1>1 DEF Inv, WireAtRest, NobodyIdle, AtRest
<1>2. CASE pPc = "pasv_result"
  BY <1>2 DEF Inv, WirePasv, NobodyIdle, Asked, Answered, Unanswered
<1>3. CASE pPc = "pasv_int"
  BY <1>3 DEF Inv, WirePort, NobodyIdle, Answered
<1>4. CASE pPc = "active_int"
  BY <1>4 DEF Inv, WireActive, NobodyIdle, Asked, Answered
<1>5. CASE pPc = "port_result"
  BY <1>5 DEF Inv, WireConnect, NobodyIdle, Asked, Answered, Unanswered
<1>6. CASE pPc = "port_fd"
  BY <1>6 DEF Inv, WireConnected, NobodyIdle, Answered
<1>7. CASE pPc = "accept_result"
  BY <1>7 DEF Inv, WireAccept, NobodyIdle, Asked, Answered
<1>8. CASE pPc = "accept_fd"
  BY <1>8 DEF Inv, WireAccepted, NobodyIdle, Answered, Unanswered
<1> QED
  BY <1>1, <1>2, <1>3, <1>4, <1>5, <1>6, <1>7, <1>8 DEF TypeInv, TypeOK

LEMMA NobodyInv ==
  ASSUME "accept" \notin Faults, TypeInv, Inv, Nobody
  PROVE  Inv'
<1>p. /\ PasvActive => /\ pPc = "active_int" /\ n2p = << >> /\ p2n' = << >>
      /\ PasvListen \/ PasvListenFails =>
             pPc = "pasv_result" /\ n2p = << >> /\ p2n' = << >>
      /\ GetDataSock => /\ pPc = "port_result" /\ n2p = << >>
                        /\ p2n' = AddressRequest
                        /\ p_addr /\ listen_fd = NoSock
      /\ PasvAccept => /\ pPc = "accept_result" /\ n2p = << >> /\ p2n' = << >>
                       /\ ~p_addr /\ listen_fd # NoSock
  <2>1. PASV_ACTIVE # PASV_LISTEN /\ PASV_ACTIVE # PASV_ACCEPT
        /\ PASV_ACTIVE # GET_DATA_SOCK /\ PASV_LISTEN # PASV_ACCEPT
        /\ PASV_LISTEN # GET_DATA_SOCK /\ PASV_ACCEPT # GET_DATA_SOCK
    BY DEF PASV_ACTIVE, PASV_LISTEN, PASV_ACCEPT, GET_DATA_SOCK
  <2>2. /\ PasvActive => Receives(PASV_ACTIVE)
        /\ PasvListen \/ PasvListenFails => Receives(PASV_LISTEN)
        /\ GetDataSock => Receives(GET_DATA_SOCK)
        /\ PasvAccept => Receives(PASV_ACCEPT)
    BY DEF PasvActive, PasvListen, PasvListenFails, GetDataSock, PasvAccept
  <2> QED
    BY <2>1, <2>2, RequestTaken
<1> USE DEF Inv, SocketsOK, WireAtRest, WirePasv, WirePort, WireActive,
            WireConnect, WireConnected, WireAccept, WireAccepted, RepliesOK,
            NobodyIdle, Quiet, Asked, Answered, Unanswered, DataSocks,
            DataSocketIsOurs, PassiveReplyIsTrue, privateVars,
            AtRest, TransferPcs
<1>a. \A t \in Seq(Byte) : << >> \o t = t
  BY ConcatEmptySeq
<1>b. \A b \in {RESULT_OK, RESULT_BAD} : <<b>> \in Seq(Byte)
  BY Bytes, OneByte
<1>c. \A s \in FreeSockets : s \in Socket /\ s \notin socks /\ s # NoSock
  BY SocketValid DEF FreeSockets
<1>d. \A s \in Socket : << >> \o <<RESULT_OK>> \o s = <<RESULT_OK>> \o s
  BY <1>a, <1>b
<1>e. listeners \subseteq socks /\ \A x : x \in socks => x # NoSock
  BY SocketValid DEF TypeInv, TypeOK
<1>1. CASE NobodyLoop
  <2>1. /\ nPc = "loop" /\ nPc' \in {"wait", "recv_cmd"}
        /\ UNCHANGED <<pPc, p_addr, listen_fd, data_fd, socks, listeners,
                       p2n, n2p, r, replies, announced>>
    BY <1>1 DEF NobodyLoop
  <2>2. SocketsOK' /\ DataSocketIsOurs' /\ RepliesOK'
    BY <2>1
  <2>3. WireAtRest' /\ WirePasv' /\ WirePort' /\ WireActive'
    BY <2>1
  <2>4. WireConnect' /\ WireConnected'
    BY <2>1
  <2>5. WireAccept'
    BY <2>1
  <2>6. WireAccepted'
    BY <2>1
  <2> HIDE DEF SocketsOK, WireAtRest, WirePasv, WirePort, WireActive,
              WireConnect, WireConnected, WireAccept, WireAccepted, RepliesOK,
              DataSocketIsOurs
  <2> QED
    BY <2>2, <2>3, <2>4, <2>5, <2>6
<1>2. CASE PasvActive
  <2>1. pPc = "active_int" /\ n2p = << >> /\ p2n' = << >>
    BY <1>2, <1>p
  <2>3. IntBytes(IF listen_fd # NoSock THEN 1 ELSE 0) \in Seq(Byte)
    <3>1. (IF listen_fd # NoSock THEN 1 ELSE 0) \in Byte
      BY Bytes
    <3> QED
      BY <3>1, IntBytesType
  <2>2. n2p' = IntBytes(IF listen_fd # NoSock THEN 1 ELSE 0)
    BY <1>2, <1>a, <2>1, <2>3 DEF PasvActive
  <2>4. SocketsOK' /\ DataSocketIsOurs'
    BY <1>2, <2>1 DEF PasvActive
  <2>5. RepliesOK'
    BY <1>2, <2>1 DEF PasvActive
  <2> QED
    BY <1>2, <2>1, <2>2, <2>4, <2>5 DEF PasvActive
<1>3. CASE PasvListen
  <2>1. pPc = "pasv_result" /\ n2p = << >> /\ p2n' = << >>
    BY <1>3, <1>p
  <2>2. n2p' = <<RESULT_OK>> \o IntBytes(DataPort)
    BY <1>3, <1>a, <1>b, <2>1 DEF PasvListen
  <2>3. /\ listen_fd' \in listeners'
        /\ data_fd = NoSock \/ data_fd \in socks' \ listeners'
    BY <1>3, <1>c, <1>e DEF PasvListen
  <2> QED
    BY <1>3, <2>1, <2>2, <2>3 DEF PasvListen
<1>4. CASE PasvListenFails
  <2>1. pPc = "pasv_result" /\ n2p = << >> /\ p2n' = << >>
    BY <1>4, <1>p
  <2> QED
    BY <1>4, <2>1 DEF PasvListenFails
<1>5. CASE GetDataSock
  <2>1. /\ pPc = "port_result" /\ n2p = << >> /\ p2n' = AddressRequest
        /\ p_addr /\ listen_fd = NoSock
    BY <1>5, <1>p
  <2> QED
    BY <1>5, <2>1 DEF GetDataSock
<1>6. CASE RecvAddress
  <2>1. /\ pPc = "port_result" /\ p_addr /\ listen_fd = NoSock
        /\ p2n = AddressRequest /\ n2p = << >>
    BY <1>6, MidOperation DEF RecvAddress
  <2>2. /\ IntVal(Take(p2n, IntSize)) = IpSize
        /\ ~(IpSize > IpBuffer)
        /\ Drop(p2n, IntSize + IpSize + IntSize) = << >>
    BY <2>1, AddressFits, IpAssumption DEF IpBuffer
  <2>3. nPc' = "connect" /\ p2n' = << >>
    BY <1>6, <2>2 DEF RecvAddress
  <2> QED
    BY <1>6, <2>1, <2>3 DEF RecvAddress
<1>7. CASE Connect
  <2>1. /\ pPc = "port_result" /\ p_addr /\ listen_fd = NoSock
        /\ p2n = << >> /\ n2p = << >>
    BY <1>7, MidOperation DEF Connect
  <2>2. PICK s \in FreeSockets : /\ socks' = socks \cup {s}
                                 /\ n2p' = n2p \o <<RESULT_OK>> \o s
    BY <1>7 DEF Connect
  <2>3. n2p' = <<RESULT_OK>> \o s /\ s \in socks' \ listeners'
    BY <1>c, <1>d, <1>e, <1>7, <2>1, <2>2 DEF Connect
  <2>4. data_fd' = NoSock \/ data_fd' \in socks' \ listeners'
    BY <1>7, <2>2 DEF Connect
  <2> QED
    BY <1>7, <2>1, <2>3, <2>4 DEF Connect
<1>8. CASE ConnectFails
  <2>1. /\ pPc = "port_result" /\ p_addr /\ listen_fd = NoSock
        /\ p2n = << >> /\ n2p = << >>
    BY <1>8, MidOperation DEF ConnectFails
  <2>2. data_fd' = NoSock \/ data_fd' \in socks' \ listeners'
    BY <1>8 DEF ConnectFails
  <2> QED
    BY <1>8, <2>1, <2>2 DEF ConnectFails
<1>9. CASE PasvAccept
  <2>1. /\ pPc = "accept_result" /\ n2p = << >> /\ p2n' = << >>
        /\ ~p_addr /\ listen_fd # NoSock
    BY <1>9, <1>p
  <2> QED
    BY <1>9, <2>1 DEF PasvAccept
<1>10. CASE AcceptReturns
  <2>1. /\ pPc = "accept_result" /\ ~p_addr
        /\ p2n = << >> /\ n2p = << >>
    BY <1>10, MidOperation DEF AcceptReturns, CloseListener
  <2>2. PICK s \in FreeSockets : /\ CloseListener({s})
                                 /\ n2p' = n2p \o <<RESULT_OK>> \o s
    BY <1>10 DEF AcceptReturns
  <2>3. n2p' = <<RESULT_OK>> \o s /\ s \in socks' \ listeners'
    BY <1>c, <1>d, <1>e, <2>1, <2>2 DEF CloseListener
  <2>4. data_fd' = NoSock \/ data_fd' \in socks' \ listeners'
    BY <2>2 DEF CloseListener
  <2> QED
    BY <2>1, <2>2, <2>3, <2>4 DEF CloseListener
<1>11. CASE AcceptTimesOut
  <2>1. /\ pPc = "accept_result" /\ ~p_addr
        /\ p2n = << >> /\ n2p = << >>
    BY <1>11, MidOperation DEF AcceptTimesOut, CloseListener
  <2>2. n2p' = <<RESULT_BAD>>
    BY <1>a, <1>b, <1>11, <2>1 DEF AcceptTimesOut
  <2>3. data_fd' = NoSock \/ data_fd' \in socks' \ listeners'
    BY <1>11 DEF AcceptTimesOut, CloseListener
  <2> QED
    BY <1>11, <2>1, <2>2, <2>3 DEF AcceptTimesOut, CloseListener
<1>12. CASE AcceptFails
  BY <1>12, MidOperation DEF AcceptFails, CloseListener
<1>13. CASE SessionFree
  BY <1>13 DEF SessionFree
<1> QED
  BY <1>1, <1>2, <1>3, <1>4, <1>5, <1>6, <1>7, <1>8, <1>9, <1>10, <1>11,
     <1>12, <1>13 DEF Nobody

-----------------------------------------------------------------------------
\* No reply that a transfer ends with looks like the answer to a PASV.
LEMMA TransferReplies ==
  ASSUME NEW c \in Transfers, NEW old \in {<< >>, << 500 >>}
  PROVE  /\ old # <<227>> /\ Refusal(c) # <<227>>
         /\ <<425>> \o Refusal(c) # <<227>>
         /\ old \o Refusal(c) # <<227>>
         /\ \A code \in Outcomes(c) : old \o <<150, code>> # <<227>>
<1>1. Refusal(c) \in {<<550>>, <<553>>, << >>}
  BY DEF Refusal, Transfers
<1>2. old # <<227>> /\ Refusal(c) # <<227>>
  BY <1>1
<1>3. ASSUME NEW n \in Nat, n # 227, NEW t \in Seq(Nat)
      PROVE  <<n>> \o t # <<227>>
  <2>1. (<<n>> \o t)[1] = n
    <3>1. <<n>> \in Seq(Nat) /\ Len(<<n>>) = 1 /\ <<n>>[1] = n
      OBVIOUS
    <3>2. 1 \in 1..Len(<<n>>) + Len(t) /\ 1 <= Len(<<n>>)
      BY <3>1, LenProperties
    <3> DEFINE h == <<n>>
    <3> HIDE DEF h
    <3>3. h \in Seq(Nat) /\ Len(h) = 1 /\ h[1] = n
      BY <3>1 DEF h
    <3>4. (h \o t)[1] = IF 1 <= Len(h) THEN h[1] ELSE t[1 - Len(h)]
      BY <3>2, <3>3, ConcatProperties DEF h
    <3>5. (h \o t)[1] = n
      BY <3>3, <3>4
    <3> QED
      BY <3>5 DEF h
  <2>2. <<227>>[1] = 227
    OBVIOUS
  <2>3. ASSUME <<n>> \o t = << 227 >> PROVE n = 227
    BY <2>1, <2>2, <2>3
  <2> QED
    BY <1>3, <2>3
<1>4. ASSUME NEW t \in Seq(Nat), t # << 227 >>
      PROVE  old \o t # <<227>>
  <2>1. CASE old = << >>
    BY <1>4, <2>1, ConcatEmptySeq
  <2>2. CASE old = <<500>>
    BY <1>3, <1>4, <2>2
  <2> QED
    BY <2>1, <2>2
<1>5. ASSUME NEW code \in Outcomes(c)
      PROVE  <<150, code>> \in Seq(Nat) /\ <<150, code>> # <<227>>
  <2>1. code \in Nat
    BY RepliesType
  <2> QED
    BY <2>1
<1>6. Refusal(c) \in Seq(Nat)
  BY RepliesType
<1>7. <<425>> \o Refusal(c) # <<227>>
  BY <1>3, <1>6
<1>8. old \o Refusal(c) # <<227>>
  BY <1>2, <1>4, <1>6
<1>9. \A code \in Outcomes(c) : old \o <<150, code>> # <<227>>
  <2> TAKE code \in Outcomes(c)
  <2>1. <<150, code>> \in Seq(Nat) /\ <<150, code>> # <<227>>
    BY <1>5
  <2> DEFINE t == <<150, code>>
  <2> HIDE DEF t
  <2>2. t \in Seq(Nat) /\ t # <<227>>
    BY <2>1 DEF t
  <2>3. old \o t # <<227>>
    BY <1>4, <2>2
  <2> QED
    BY <2>3 DEF t
<1> QED
  BY <1>2, <1>7, <1>8, <1>9

\* What the private thread finds when it has the bytes it waits for.
LEMMA AnswerRead ==
  ASSUME TypeInv, Inv
  PROVE  /\ RecvPasvResult => /\ n2p[1] = RESULT_OK
                              /\ n2p' = IntBytes(DataPort)
                              /\ Answered /\ listen_fd \in listeners
         /\ RecvPasvPort => /\ replies' = <<227>> => announced' = IntBytes(DataPort)
                            /\ n2p' = << >> /\ Answered
                            /\ listen_fd \in listeners
         /\ GetTransDataFd => /\ (IntVal(Take(n2p, IntSize)) # 0)
                                    <=> (listen_fd # NoSock)
                              /\ n2p' = << >> /\ Answered
<1>1. ASSUME RecvPasvResult
      PROVE  /\ n2p[1] = RESULT_OK /\ n2p' = IntBytes(DataPort)
             /\ Answered /\ listen_fd \in listeners
  <2>1. pPc = "pasv_result" /\ n2p # << >> /\ n2p' = Drop(n2p, 1)
    BY <1>1, Nothing DEF RecvPasvResult, Readable
  <2>2. /\ Answered /\ listen_fd \in listeners
        /\ n2p = <<RESULT_OK>> \o IntBytes(DataPort)
    BY <2>1 DEF Inv, WirePasv, Asked, Unanswered, Quiet
  <2> QED
    BY <2>1, <2>2, Bytes, IntBytesType, ReadByte
<1>2. ASSUME RecvPasvPort
      PROVE  /\ replies' = <<227>> => announced' = IntBytes(DataPort)
             /\ n2p' = << >> /\ Answered /\ listen_fd \in listeners
  <2>0. <<500>> # <<227>>
    OBVIOUS
  <2>1. /\ pPc = "pasv_int"
        /\ replies' = <<227>> => announced' = Take(n2p, IntSize)
        /\ n2p' = Drop(n2p, IntSize)
    BY <1>2, <2>0 DEF RecvPasvPort
  <2>2. Answered /\ listen_fd \in listeners /\ n2p = IntBytes(DataPort)
    BY <2>1 DEF Inv, WirePort
  <2> QED
    BY <2>1, <2>2, Bytes, IntBytesType, ReadAll
<1>3. ASSUME GetTransDataFd
      PROVE  /\ (IntVal(Take(n2p, IntSize)) # 0) <=> (listen_fd # NoSock)
             /\ n2p' = << >> /\ Answered
  <2> DEFINE active == IF listen_fd # NoSock THEN 1 ELSE 0
  <2>1. /\ pPc = "active_int" /\ Readable(n2p, IntSize)
        /\ n2p' = Drop(n2p, IntSize)
    BY <1>3 DEF GetTransDataFd
  <2>2. n2p # << >>
    BY <2>1, Nothing, SizesAssumption DEF Readable
  <2>3. Answered /\ n2p = IntBytes(active)
    BY <2>1, <2>2 DEF Inv, WireActive, Asked
  <2>4. active \in Byte /\ (active # 0 <=> listen_fd # NoSock)
    BY Bytes
  <2> HIDE DEF active
  <2> QED
    BY <2>1, <2>3, <2>4, IntBytesType, ReadAll
<1> QED
  BY <1>1, <1>2, <1>3

LEMMA DataAnswerRead ==
  ASSUME TypeInv, Inv, NEW from, NEW to
  PROVE  /\ RecvDataResult(from, to) /\ from = "port_result" =>
               n2p[1] = RESULT_OK /\ Answered /\ n2p' \in DataSocks
         /\ RecvDataResult(from, to) /\ from = "accept_result" =>
               \/ n2p[1] = RESULT_OK /\ Answered /\ n2p' \in DataSocks
               \/ /\ n2p[1] = RESULT_BAD /\ Answered /\ n2p' = << >>
                  /\ r = "FAILED"
         /\ RecvDataFd(from) /\ from \in {"port_fd", "accept_fd"} =>
               Answered /\ data_fd' \in DataSocks /\ n2p' = << >>
<1>1. /\ \A s \in DataSocks : /\ (<<RESULT_OK>> \o s)[1] = RESULT_OK
                             /\ Drop(<<RESULT_OK>> \o s, 1) = s
                             /\ Take(s, SockSize) = s
                             /\ Drop(s, SockSize) = << >>
      /\ Drop(<<RESULT_BAD>>, 1) = << >> /\ <<RESULT_BAD>>[1] = RESULT_BAD
  <2>1. \A s \in DataSocks : s \in Seq(Byte) /\ Len(s) = SockSize
    BY SocketType DEF DataSocks, TypeInv, TypeOK
  <2> QED
    BY <2>1, Bytes, ReadByte, ReadAll, OneByte
<1>2. ASSUME RecvDataResult(from, to)
      PROVE  pPc = from /\ n2p # << >> /\ n2p' = Drop(n2p, 1)
  BY <1>2, Nothing DEF RecvDataResult, Readable
<1>3. ASSUME RecvDataFd(from)
      PROVE  /\ pPc = from /\ n2p # << >> /\ n2p' = Drop(n2p, SockSize)
             /\ data_fd' = Take(n2p, SockSize)
  BY <1>3, Nothing, SizesAssumption DEF RecvDataFd, Readable
<1>4. ASSUME RecvDataResult(from, to), from = "port_result"
      PROVE  n2p[1] = RESULT_OK /\ Answered /\ n2p' \in DataSocks
  BY <1>1, <1>2, <1>4 DEF Inv, WireConnect, Asked, Unanswered, Quiet
<1>5. ASSUME RecvDataResult(from, to), from = "accept_result"
      PROVE  \/ n2p[1] = RESULT_OK /\ Answered /\ n2p' \in DataSocks
             \/ /\ n2p[1] = RESULT_BAD /\ Answered /\ n2p' = << >>
                /\ r = "FAILED"
  BY <1>1, <1>2, <1>5 DEF Inv, WireAccept, Asked, Quiet
<1>6. ASSUME RecvDataFd(from), from \in {"port_fd", "accept_fd"}
      PROVE  Answered /\ data_fd' \in DataSocks /\ n2p' = << >>
  BY <1>1, <1>3, <1>6 DEF Inv, WireConnected, WireAccepted, Unanswered, Quiet
<1> QED
  BY <1>4, <1>5, <1>6

LEMMA PrivateInv ==
  ASSUME TypeInv, Inv, Private \/ Client
  PROVE  Inv'
<1>a. /\ RecvPasvResult => /\ n2p[1] = RESULT_OK
                           /\ n2p' = IntBytes(DataPort)
                           /\ Answered /\ listen_fd \in listeners
      /\ RecvPasvPort => /\ replies' = <<227>> => announced' = IntBytes(DataPort)
                         /\ n2p' = << >> /\ Answered
                         /\ listen_fd \in listeners
      /\ GetTransDataFd => /\ (IntVal(Take(n2p, IntSize)) # 0)
                                 <=> (listen_fd # NoSock)
                           /\ n2p' = << >> /\ Answered
  BY AnswerRead
<1>b. /\ RecvDataResult("port_result", "port_fd") =>
            n2p[1] = RESULT_OK /\ Answered /\ n2p' \in DataSocks
      /\ RecvDataResult("accept_result", "accept_fd") =>
            \/ n2p[1] = RESULT_OK /\ Answered /\ n2p' \in DataSocks
            \/ /\ n2p[1] = RESULT_BAD /\ Answered /\ n2p' = << >>
               /\ r = "FAILED"
      /\ \A from \in {"port_fd", "accept_fd"} : RecvDataFd(from) =>
            Answered /\ data_fd' \in DataSocks /\ n2p' = << >>
  BY DataAnswerRead
<1>c. /\ \A b \in {PASV_ACTIVE, PASV_LISTEN, PASV_ACCEPT} :
             << >> \o <<b>> = <<b>>
      /\ << >> \o <<GET_DATA_SOCK>> \o AddressRequest
             = <<GET_DATA_SOCK>> \o AddressRequest
  BY Bytes, OneByte, ConcatEmptySeq
<1>d. pPc \in TransferPcs =>
          /\ <<425>> \o Refusal(cmd) # <<227>> /\ Refusal(cmd) # <<227>>
          /\ replies # <<227>> /\ replies \o Refusal(cmd) # <<227>>
          /\ \A code \in Outcomes(cmd) : replies \o <<150, code>> # <<227>>
  <2> SUFFICES ASSUME pPc \in TransferPcs
               PROVE  /\ <<425>> \o Refusal(cmd) # <<227>>
                      /\ Refusal(cmd) # <<227>>
                      /\ replies # <<227>>
                      /\ replies \o Refusal(cmd) # <<227>>
                      /\ \A code \in Outcomes(cmd) :
                             replies \o <<150, code>> # <<227>>
    OBVIOUS
  <2>1. cmd \in Transfers
    BY DEF TypeInv, CmdOK
  <2>2. replies \in {<< >>, <<500>>}
    BY DEF Inv, RepliesOK
  <2> DEFINE other == <<227>>
             started(code) == <<150, code>>
             fresh(c, old) ==
               /\ old # other /\ Refusal(c) # other
               /\ <<425>> \o Refusal(c) # other
               /\ old \o Refusal(c) # other
               /\ \A code \in Outcomes(c) : old \o started(code) # other
  <2>3. \A c \in Transfers, old \in {<< >>, <<500>>} : fresh(c, old)
    BY TransferReplies
  <2>4. fresh(cmd, replies)
    <3> HIDE DEF fresh
    <3> QED
      BY <2>1, <2>2, <2>3
  <2> QED
    BY <2>4
<1>e. RESULT_OK # RESULT_BAD
  BY DEF RESULT_OK, RESULT_BAD
<1> USE DEF Inv, SocketsOK, WireAtRest, WirePasv, WirePort, WireActive,
            WireConnect, WireConnected, WireAccept, WireAccepted, RepliesOK,
            NobodyIdle, Quiet, Asked, Answered, Unanswered, DataSocks,
            DataSocketIsOurs, PassiveReplyIsTrue, nobodyVars,
            AtRest, TransferPcs
<1>1. CASE PrivateLoop
  BY <1>1 DEF PrivateLoop
<1>2. CASE OtherCommand
  <2>1. replies' # <<227>>
    BY <1>2 DEF OtherCommand
  <2> QED
    BY <1>2, <2>1 DEF OtherCommand
<1>3. CASE DoPort
  <2>1. replies' # <<227>>
    BY <1>3 DEF DoPort
  <2> QED
    BY <1>3, <2>1 DEF DoPort
<1>4. CASE LeaveProto
  <2>1. /\ pPc = "readline" /\ pPc' = "done"
        /\ UNCHANGED <<nPc, p_addr, listen_fd, data_fd, socks, listeners,
                       p2n, n2p, r, announced>>
    BY <1>4 DEF LeaveProto
  <2> QED
    BY <2>1
<1>5. CASE DoPasv
  <2>1. p2n' = <<PASV_LISTEN>> /\ n2p' = << >> /\ NobodyIdle'
    BY <1>5, <1>c DEF DoPasv
  <2> QED
    BY <1>5, <2>1 DEF DoPasv
<1>6. CASE \E c \in Transfers : StartTransfer(c)
  <2>1. PICK c \in Transfers : StartTransfer(c)
    BY <1>6
  <2>2. p2n' = <<PASV_ACTIVE>> /\ n2p' = << >> /\ NobodyIdle'
    BY <2>1, <1>c DEF StartTransfer
  <2> QED
    BY <2>1, <2>2 DEF StartTransfer
<1>7. CASE RecvPasvResult
  BY <1>7, <1>a, <1>e DEF RecvPasvResult
<1>8. CASE RecvPasvPort
  BY <1>8, <1>a DEF RecvPasvPort
<1>9. CASE GetTransDataFd
  <2> DEFINE active == IntVal(Take(n2p, IntSize)) # 0
  <2>1. /\ pPc = "active_int" /\ p2n = << >> /\ n2p' = << >> /\ NobodyIdle'
        /\ active <=> listen_fd # NoSock
        /\ UNCHANGED <<p_addr, listen_fd, data_fd, socks, listeners, r>>
    BY <1>9, <1>a DEF GetTransDataFd
  <2>2. NoMode(active) \/ BothModes(active) \/ AskConnect(active)
            \/ AskAccept(active)
    BY <1>9 DEF GetTransDataFd
  <2>3. SocketsOK'
    BY <2>1
  <2> HIDE DEF active
  <2>4. CASE NoMode(active)
    BY <2>1, <2>3, <2>4, <1>d DEF NoMode
  <2>5. CASE BothModes(active)
    BY <2>1, <2>3, <2>5, <1>d DEF BothModes
  <2>6. CASE AskConnect(active)
    <3>1. p2n' = <<GET_DATA_SOCK>> \o AddressRequest
      BY <2>1, <2>6, <1>c DEF AskConnect
    <3> QED
      BY <2>1, <2>3, <2>6, <3>1 DEF AskConnect
  <2>7. CASE AskAccept(active)
    <3>1. p2n' = <<PASV_ACCEPT>>
      BY <2>1, <2>7, <1>c DEF AskAccept
    <3> QED
      BY <2>1, <2>3, <2>7, <3>1 DEF AskAccept
  <2> QED
    BY <2>2, <2>4, <2>5, <2>6, <2>7
<1>10. CASE RecvDataResult("port_result", "port_fd")
  BY <1>10, <1>b, <1>e DEF RecvDataResult
<1>11. CASE RecvDataResult("accept_result", "accept_fd")
  <2>1. replies' \in {<< >>, <<500>>}
    <3>1. replies = << >> /\ replies' \in {replies, Append(replies, 500)}
      BY <1>11 DEF RecvDataResult
    <3> QED
      BY <3>1
  <2> QED
    BY <1>11, <1>b, <1>e, <2>1 DEF RecvDataResult
<1>12. CASE RecvDataFd("port_fd")
  <2>1. Answered /\ data_fd' \in DataSocks /\ n2p' = << >>
    BY <1>12, <1>b
  <2>2. /\ pPc = "port_fd" /\ pPc' = "transfer" /\ p_addr' = FALSE
        /\ listen_fd = NoSock
        /\ UNCHANGED <<nPc, listen_fd, socks, listeners, p2n, r, replies>>
    BY <1>12 DEF RecvDataFd
  <2> QED
    BY <2>1, <2>2
<1>13. CASE RecvDataFd("accept_fd")
  BY <1>13, <1>b DEF RecvDataFd
<1>14. CASE Transfer
  <2>1. replies' # <<227>>
    BY <1>14, <1>d DEF Transfer
  <2> QED
    BY <1>14, <2>1 DEF Transfer
<1>15. CASE TransferRefused
  <2>1. replies' # <<227>>
    BY <1>15, <1>d DEF TransferRefused
  <2> QED
    BY <1>15, <2>1 DEF TransferRefused
<1> QED
  BY <1>1, <1>2, <1>3, <1>4, <1>5, <1>6, <1>7, <1>8, <1>9, <1>10, <1>11,
     <1>12, <1>13, <1>14, <1>15 DEF Private, Client

LEMMA InvInit == Init => TypeInv /\ Inv
BY TypeInit DEF Init, Inv, SocketsOK, WireAtRest, WirePasv, WirePort,
   WireActive, WireConnect, WireConnected, WireAccept, WireAccepted, RepliesOK,
   NobodyIdle, Quiet, AtRest, TransferPcs, DataSocketIsOurs,
   PassiveReplyIsTrue

LEMMA InvStep ==
  ASSUME "accept" \notin Faults, TypeInv, Inv, [Next]_vars
  PROVE  Inv'
<1>1. CASE Private \/ Client
  BY <1>1, PrivateInv
<1>2. CASE Nobody
  BY <1>2, NobodyInv
<1>3. CASE ExitLoop \/ UNCHANGED vars
  <2>1. UNCHANGED <<pPc, nPc, r, p_addr, listen_fd, data_fd, socks, listeners,
                    p2n, n2p, replies, announced>>
    BY <1>3 DEF ExitLoop, vars, nobodyVars, privateVars
  <2>2. SocketsOK' /\ WireAtRest' /\ WirePasv' /\ WirePort' /\ WireActive'
    BY <2>1 DEF Inv, SocketsOK, WireAtRest, WirePasv, WirePort, WireActive,
         DataSocks, NobodyIdle, Quiet, Asked, Answered, Unanswered
  <2>3. WireConnect' /\ WireConnected' /\ WireAccept' /\ WireAccepted'
    BY <2>1 DEF Inv, WireConnect, WireConnected, WireAccept, WireAccepted,
         DataSocks, NobodyIdle, Quiet, Asked, Answered, Unanswered
  <2>4. RepliesOK' /\ DataSocketIsOurs'
    BY <2>1 DEF Inv, RepliesOK, DataSocketIsOurs, PassiveReplyIsTrue
  <2> QED
    BY <2>2, <2>3, <2>4 DEF Inv
<1> QED
  BY <1>1, <1>2, <1>3 DEF Next

\* Every place of handle_proto and handle_nobody goes with one content of the
\* socket pair, as long as accept does not fail.
THEOREM InStep ==
  ASSUME "accept" \notin Faults
  PROVE  Spec => [](TypeInv /\ Inv)
<1>1. Init => TypeInv /\ Inv
  BY InvInit
<1>2. TypeInv /\ Inv /\ [Next]_vars => (TypeInv /\ Inv)'
  BY InvStep, TypeStep
<1> QED
  BY <1>1, <1>2, PTL DEF Spec

\* Between two commands nothing is left on the socket pair: no answer of
\* handle_nobody is ever read as the answer to another request.
THEOREM NoCrossTalkCorrect ==
  ASSUME "accept" \notin Faults
  PROVE  Spec => []NoCrossTalk
<1>1. Inv => NoCrossTalk
  BY DEF Inv, WireAtRest, NoCrossTalk, Quiet
<1> QED
  BY <1>1, InStep, PTL

\* A 227 reply of do_pasv names the port of a listener that is open.
THEOREM PassiveReplyCorrect ==
  ASSUME "accept" \notin Faults
  PROVE  Spec => []PassiveReplyIsTrue
<1>1. Inv => PassiveReplyIsTrue
  BY DEF Inv, RepliesOK
<1> QED
  BY <1>1, InStep, PTL

\* download_file, upload_file and trans_list run on a data socket that is
\* open, is no listener, and has used up the mode that made it.
THEOREM DataSocketCorrect ==
  ASSUME "accept" \notin Faults
  PROVE  Spec => []DataSocketIsOurs
<1>1. Inv => DataSocketIsOurs
  BY DEF Inv
<1> QED
  BY <1>1, InStep, PTL

\* The two threads block on each other only after a failed operation or
\* during shutdown.
THEOREM StuckCorrect ==
  ASSUME "accept" \notin Faults
  PROVE  Spec => []StuckExplained
<1>1. TypeInv /\ Inv => StuckExplained
  <2> SUFFICES ASSUME TypeInv, Inv, Stuck, nPc = "recv_cmd" /\ p2n = << >>
               PROVE  r = "FAILED"
    BY DEF StuckExplained, Stuck
  <2>1. /\ Len(n2p) < Awaited /\ Len(n2p) \in Nat
        /\ IntSize \in Nat \ {0} /\ SockSize \in Nat \ {0}
    BY LenProperties, SizesAssumption DEF Stuck, TypeInv, TypeOK
  <2>2. /\ \A v \in {0, 1, DataPort} : Len(IntBytes(v)) = IntSize
        /\ Len(<<RESULT_OK>> \o IntBytes(DataPort)) = 1 + IntSize
        /\ Len(<<RESULT_BAD>>) = 1
        /\ <<GET_DATA_SOCK>> \o AddressRequest # << >>
        /\ \A b \in {PASV_LISTEN, PASV_ACTIVE, PASV_ACCEPT} : <<b>> # << >>
    <3>1. \A v \in {0, 1, DataPort} :
              IntBytes(v) \in Seq(Byte) /\ Len(IntBytes(v)) = IntSize
      BY Bytes, IntBytesType
    <3>2. Len(<<RESULT_OK>> \o IntBytes(DataPort)) = 1 + IntSize
      BY <3>1, Bytes, ReadByte
    <3>3. <<GET_DATA_SOCK>> \o AddressRequest # << >>
      BY Bytes, AddressRequestType, ReadByte
    <3>4. /\ Len(<<RESULT_BAD>>) = 1
          /\ \A b \in {PASV_LISTEN, PASV_ACTIVE, PASV_ACCEPT} : <<b>> # << >>
      BY Bytes, OneByte
    <3> QED
      BY <3>1, <3>2, <3>3, <3>4
  <2>3. \A s \in DataSocks : /\ Len(s) = SockSize
                             /\ Len(<<RESULT_OK>> \o s) = 1 + SockSize
    <3>1. \A s \in DataSocks : s \in Seq(Byte) /\ Len(s) = SockSize
      BY SocketType DEF DataSocks, TypeInv, TypeOK
    <3> QED
      BY <3>1, Bytes, ReadByte
  <2>4. CASE pPc \in AtRest \cup {"transfer"}
    BY <2>1, <2>4 DEF Awaited, AtRest
  <2>5. CASE pPc = "pasv_result"
    <3>1. Awaited = 1
      BY <2>5 DEF Awaited
    <3>2. ~(n2p = <<RESULT_OK>> \o IntBytes(DataPort))
      BY <2>1, <2>2, <3>1
    <3> QED
      BY <2>2, <2>5, <3>2 DEF Inv, WirePasv, Asked, Unanswered
  <2>6. CASE pPc = "pasv_int"
    <3>1. Awaited = IntSize
      BY <2>6 DEF Awaited
    <3> QED
      BY <2>1, <2>2, <2>6, <3>1 DEF Inv, WirePort
  <2>7. CASE pPc = "active_int"
    <3>1. Awaited = IntSize
      BY <2>7 DEF Awaited
    <3>2. ~(n2p = IntBytes(IF listen_fd # NoSock THEN 1 ELSE 0))
      BY <2>1, <2>2, <3>1
    <3> QED
      BY <2>2, <2>7, <3>2 DEF Inv, WireActive, Asked
  <2>8. CASE pPc \in {"port_result", "accept_result"}
    <3>1. Awaited = 1
      BY <2>8 DEF Awaited
    <3>2. \A s \in DataSocks : n2p # <<RESULT_OK>> \o s
      BY <2>1, <2>3, <3>1
    <3>3. n2p # <<RESULT_BAD>>
      BY <2>1, <2>2, <3>1
    <3> QED
      BY <2>2, <2>8, <3>2, <3>3 DEF Inv, WireConnect, WireAccept, Asked, Unanswered
  <2>9. CASE pPc \in {"port_fd", "accept_fd"}
    <3>1. Awaited = SockSize
      BY <2>9 DEF Awaited
    <3>2. n2p \notin DataSocks
      BY <2>1, <2>3, <3>1
    <3> QED
      BY <2>9, <3>2 DEF Inv, WireConnected, WireAccepted, Unanswered
  <2> QED
    BY <2>4, <2>5, <2>6, <2>7, <2>8, <2>9 DEF TypeInv, TypeOK
<1> QED
  BY <1>1, InStep, PTL

\* Both modes armed: no transfer takes either of them, and no step but a
\* listen that fails, a PORT without memory, or the end of the session,
\* disarms one.
PortLost == /\ pPc = "readline" /\ replies' = << >>
            /\ ~p_addr' /\ listen_fd' # NoSock

StaysArmed ==
    BothArmed =>
        /\ pPc' # "transfer"
        /\ \/ BothArmed'
           \/ nPc = "recv_cmd" /\ p_addr' /\ listen_fd' = NoSock
           \/ PortLost
           \/ nPc' = "freed"

LEMMA ArmedStep ==
  ASSUME TypeInv, Inv, [Next]_vars PROVE StaysArmed
<1> SUFFICES ASSUME BothArmed
             PROVE  /\ pPc' # "transfer"
                    /\ \/ BothArmed'
                       \/ nPc = "recv_cmd" /\ p_addr' /\ listen_fd' = NoSock
                       \/ PortLost
                       \/ nPc' = "freed"
  BY DEF StaysArmed
<1>0. p_addr /\ listen_fd # NoSock
  BY DEF BothArmed
<1>1. pPc \notin {"transfer", "port_result", "port_fd", "accept_result", "accept_fd"}
  BY <1>0 DEF Inv, DataSocketIsOurs, WireConnect, WireConnected, WireAccept,
     WireAccepted
<1>2. nPc # "accept"
  BY <1>0, MidOperation
<1>3. CASE Private \/ Client
  <2>1. CASE \/ PrivateLoop \/ RecvPasvResult \/ RecvPasvPort
             \/ OtherCommand \/ DoPasv \/ LeaveProto
             \/ \E c \in Transfers : StartTransfer(c)
    BY <1>0, <2>1 DEF PrivateLoop, RecvPasvResult, RecvPasvPort,
       OtherCommand, DoPasv, LeaveProto, StartTransfer, nobodyVars, BothArmed
  <2>4. CASE DoPort
    BY <1>0, <2>4 DEF DoPort, nobodyVars, BothArmed, PortLost
  <2>2. CASE GetTransDataFd
    BY <1>0, <2>2 DEF GetTransDataFd, NoMode, BothModes, AskConnect, AskAccept,
       nobodyVars, BothArmed
  <2>3. ~RecvDataResult("port_result", "port_fd")
        /\ ~RecvDataResult("accept_result", "accept_fd")
        /\ ~RecvDataFd("port_fd") /\ ~RecvDataFd("accept_fd")
        /\ ~Transfer /\ ~TransferRefused
    BY <1>1 DEF RecvDataResult, RecvDataFd, Transfer, TransferRefused
  <2> QED
    BY <1>3, <2>1, <2>2, <2>3, <2>4 DEF Private, Client
<1>4. CASE Nobody
  <2>1. CASE NobodyLoop \/ PasvActive \/ GetDataSock \/ RecvAddress
             \/ ConnectFails \/ PasvAccept \/ Connect
    BY <1>0, <1>1, <2>1 DEF NobodyLoop, PasvActive, GetDataSock, RecvAddress,
       Connect, ConnectFails, PasvAccept, privateVars, BothArmed
  <2>2. CASE PasvListen
    <3>1. listen_fd' # NoSock
      BY <2>2, SocketValid DEF PasvListen, FreeSockets
    <3> QED
      BY <1>0, <1>1, <2>2, <3>1 DEF PasvListen, privateVars, BothArmed
  <2>3. CASE PasvListenFails
    BY <1>0, <1>1, <2>3 DEF PasvListenFails, Receives, privateVars
  <2>4. ~AcceptReturns /\ ~AcceptTimesOut /\ ~AcceptFails
    BY <1>2 DEF AcceptReturns, AcceptTimesOut, AcceptFails, CloseListener
  <2>5. CASE SessionFree
    BY <2>5 DEF SessionFree
  <2> QED
    BY <1>4, <2>1, <2>2, <2>3, <2>4, <2>5 DEF Nobody
<1>5. CASE ExitLoop \/ UNCHANGED vars
  BY <1>0, <1>1, <1>5 DEF ExitLoop, vars, nobodyVars, privateVars, BothArmed
<1> QED
  BY <1>3, <1>4, <1>5 DEF Next

\* A client that armed both modes can have no transfer any more
\* (get_trans_data_fd).
THEOREM BothStayArmedCorrect ==
  ASSUME "accept" \notin Faults
  PROVE  Spec => BothStayArmed
<1>1. TypeInv /\ Inv /\ [Next]_vars => [StaysArmed]_vars
  BY ArmedStep
<1> QED
  BY <1>1, InStep, PTL DEF Spec, BothStayArmed, StaysArmed, PortLost

-----------------------------------------------------------------------------
\* A socket is on its way only while its answer is being read.
LEMMA NothingInFlight ==
  pPc \notin {"port_result", "accept_result", "port_fd", "accept_fd"}
      \/ n2p = << >> => InFlight = {}
<1>1. \A s \in Socket : s # << >> /\ <<RESULT_OK>> \o s # << >>
  BY Bytes, SocketType, ReadByte
<1> QED
  BY <1>1 DEF InFlight

\* Reading the answer takes it from the socket pair into data_fd.
LEMMA InFlightRead ==
  ASSUME NEW s \in InFlight
  PROVE  /\ RecvDataResult("port_result", "port_fd")
            \/ RecvDataResult("accept_result", "accept_fd") => s \in InFlight'
         /\ RecvDataFd("port_fd") \/ RecvDataFd("accept_fd") => data_fd' = s
<1>1. s \in Socket /\ s \in Seq(Byte) /\ Len(s) = SockSize
  BY SocketType DEF InFlight
<1>2. Drop(<<RESULT_OK>> \o s, 1) = s
  BY <1>1, Bytes, ReadByte
<1>3. Take(s, SockSize) = s
  BY <1>1, ReadAll
<1>4. ASSUME NEW from \in {"port_result", "accept_result"},
             NEW to \in {"port_fd", "accept_fd"}, RecvDataResult(from, to)
      PROVE  s \in InFlight'
  <2>1. n2p = <<RESULT_OK>> \o s
    BY <1>4 DEF RecvDataResult, InFlight
  <2>2. n2p' = s /\ pPc' = to
    BY <1>2, <1>4, <2>1 DEF RecvDataResult
  <2> QED
    BY <1>1, <2>2 DEF InFlight
<1>5. ASSUME NEW from \in {"port_fd", "accept_fd"}, RecvDataFd(from)
      PROVE  data_fd' = s
  <2>1. n2p = s
    BY <1>5 DEF RecvDataFd, InFlight
  <2> QED
    BY <1>3, <1>5, <2>1 DEF RecvDataFd
<1> QED
  BY <1>4, <1>5

\* How a socket drops out of reach.
Dropped(s) ==
    \/ s \in listeners /\ nPc = "recv_cmd"
    \/ s \notin socks /\ r' = "FAILED"
    \/ s = data_fd /\ pPc \in {"port_fd", "accept_fd"}

LEMMA LostStep ==
  ASSUME "accept" \notin Faults, TypeInv, Inv, [Next]_vars,
         NEW s \in Lost' \ Lost
  PROVE  Dropped(s)
<1> USE NothingInFlight
<1>0. /\ s \in socks' /\ s \notin InFlight'
      /\ s # listen_fd' /\ s # data_fd'
      /\ s \notin socks \/ s \in InFlight \/ s = listen_fd \/ s = data_fd
  BY DEF Lost
<1>1. CASE /\ UNCHANGED <<socks, listen_fd, data_fd>>
           /\ InFlight \subseteq InFlight'
  BY <1>0, <1>1
<1>2. CASE /\ UNCHANGED <<socks, listen_fd, data_fd>>
           /\ pPc \notin {"port_result", "accept_result", "port_fd", "accept_fd"}
                \/ UNCHANGED <<pPc, n2p>>
  BY <1>1, <1>2 DEF InFlight
<1>3. CASE Private \/ Client
  <2>1. CASE \/ PrivateLoop \/ RecvPasvResult \/ RecvPasvPort \/ GetTransDataFd
             \/ TransferRefused \/ Client
    <3>1. /\ UNCHANGED <<socks, listen_fd, data_fd>>
          /\ pPc \notin {"port_result", "accept_result", "port_fd", "accept_fd"}
      BY <2>1 DEF PrivateLoop, RecvPasvResult, RecvPasvPort, GetTransDataFd,
         TransferRefused, Client, OtherCommand, DoPort, DoPasv, LeaveProto,
         StartTransfer, nobodyVars
    <3> QED
      BY <1>2, <3>1
  <2>2. CASE RecvDataResult("port_result", "port_fd")
             \/ RecvDataResult("accept_result", "accept_fd")
    <3>1. UNCHANGED <<socks, listen_fd, data_fd>>
      BY <2>2 DEF RecvDataResult, nobodyVars
    <3>2. InFlight \subseteq InFlight'
      BY <2>2, InFlightRead
    <3> QED
      BY <1>1, <3>1, <3>2
  <2>3. CASE RecvDataFd("port_fd") \/ RecvDataFd("accept_fd")
    <3>1. /\ UNCHANGED <<socks, listen_fd>>
          /\ pPc \in {"port_fd", "accept_fd"}
      BY <2>3 DEF RecvDataFd, nobodyVars
    <3>2. s \notin InFlight
      BY <1>0, <2>3, InFlightRead
    <3> QED
      BY <1>0, <3>1, <3>2 DEF Dropped
  <2>4. CASE Transfer
    <3>1. pPc = "transfer" /\ socks' = socks \ {data_fd} /\ UNCHANGED listen_fd
      BY <2>4 DEF Transfer
    <3> QED
      BY <1>0, <3>1
  <2> QED
    BY <1>3, <2>1, <2>2, <2>3, <2>4 DEF Private
<1>4. CASE Nobody
  <2>1. CASE NobodyLoop \/ GetDataSock \/ RecvAddress \/ PasvAccept
    BY <1>2, <2>1 DEF NobodyLoop, GetDataSock, RecvAddress, PasvAccept,
       privateVars
  <2>2. CASE PasvActive
    <3>1. n2p = << >> /\ UNCHANGED <<socks, listen_fd, data_fd>>
      BY <2>2, RequestTaken DEF PasvActive, privateVars
    <3> QED
      BY <1>0, <3>1
  <2>3. CASE PasvListen \/ PasvListenFails
    <3>1. n2p = << >> /\ nPc = "recv_cmd" /\ UNCHANGED data_fd
      BY <2>3, RequestTaken
         DEF PasvListen, PasvListenFails, Receives, privateVars
    <3>2. s \in socks \/ s = listen_fd'
      BY <1>0, <2>3 DEF PasvListen, PasvListenFails
    <3>3. s = listen_fd /\ s \in socks
      BY <1>0, <3>1, <3>2
    <3>4. s # NoSock
      BY <3>3, SocketValid DEF TypeInv, TypeOK
    <3> QED
      BY <3>1, <3>3, <3>4 DEF Inv, SocketsOK, Dropped
  <2>4. CASE Connect \/ AcceptReturns
    <3>1. /\ n2p = << >> /\ UNCHANGED <<pPc, data_fd>>
          /\ pPc \in {"port_result", "accept_result"}
      BY <2>4, MidOperation
         DEF Connect, AcceptReturns, CloseListener, Quiet, privateVars
    <3>2. PICK new \in FreeSockets :
             /\ n2p' = n2p \o <<RESULT_OK>> \o new
             /\ \/ socks' = socks \cup {new} /\ UNCHANGED listen_fd
                \/ socks' = (socks \ {listen_fd}) \cup {new}
      BY <2>4 DEF Connect, AcceptReturns, CloseListener
    <3>3. new \in Socket /\ n2p' = <<RESULT_OK>> \o new
      BY <3>1, <3>2, Bytes, OneByte, ConcatEmptySeq DEF FreeSockets
    <3>4. new \in InFlight'
      BY <3>1, <3>3 DEF InFlight
    <3> QED
      BY <1>0, <3>1, <3>2, <3>4
  <2>5. CASE ConnectFails
    <3>1. /\ UNCHANGED <<pPc, n2p, listen_fd, data_fd>> /\ r' = "FAILED"
      BY <2>5 DEF ConnectFails, privateVars
    <3>2. InFlight \subseteq InFlight'
      BY <3>1 DEF InFlight
    <3> QED
      BY <1>0, <3>1, <3>2 DEF Dropped
  <2>6. CASE AcceptTimesOut \/ AcceptFails
    <3>1. /\ n2p = << >> /\ UNCHANGED data_fd
          /\ socks' = (socks \ {listen_fd}) \cup {}
      BY <2>6, MidOperation
         DEF AcceptTimesOut, AcceptFails, CloseListener, Quiet, privateVars
    <3> QED
      BY <1>0, <3>1
  <2>7. CASE SessionFree
    <3>1. pPc = "done" /\ socks' = socks \ {listen_fd, data_fd}
      BY <2>7 DEF SessionFree
    <3> QED
      BY <1>0, <3>1
  <2> QED
    BY <1>4, <2>1, <2>2, <2>3, <2>4, <2>5, <2>6, <2>7 DEF Nobody
<1>5. CASE ExitLoop \/ UNCHANGED vars
  BY <1>2, <1>5 DEF ExitLoop, vars, nobodyVars, privateVars
<1> QED
  BY <1>3, <1>4, <1>5 DEF Next

\* A session loses a socket to a second PASV, to a connect that fails, or to
\* the data connection after a file that could not be opened, and in no other
\* way (session_free closes the rest).
THEOREM SocketsLostCorrect ==
  ASSUME "accept" \notin Faults
  PROVE  Spec => SocketsLost
<1> DEFINE A == \A s \in Lost' \ Lost : Dropped(s)
<1>1. TypeInv /\ Inv /\ [Next]_vars => [A]_vars
  BY LostStep
<1> QED
  BY <1>1, InStep, PTL DEF Spec, SocketsLost, Dropped

-----------------------------------------------------------------------------
(***************************************************************************)
(* A session implements DataConn as long as accept does not fail: each of  *)
(* its steps is a step of DataConn or leaves the mapped state alone.       *)
(***************************************************************************)
AnswerPcs == {"port_result", "accept_result", "port_fd", "accept_fd"}

\* The mapped state, and what it means for it to stay.
port == p_addr /\ ~HandingOver
pasv == listen_fd # NoSock
data == data_fd # NoSock \/ HandingOver
Stutter == port' = port /\ pasv' = pasv /\ data' = data

LEMMA NotHandingOver ==
  /\ pPc \notin AnswerPcs \/ n2p = << >> => ~HandingOver
  /\ (pPc \notin AnswerPcs \/ n2p = << >>)' => ~HandingOver'
BY DEF HandingOver, AnswerPcs

\* The step by which a socket is sent is the step that hands it over.
LEMMA HandedOver ==
  ASSUME NEW s \in Socket, n2p' = <<RESULT_OK>> \o s,
         pPc' \in {"port_result", "accept_result"}
  PROVE  HandingOver'
<1>1. (<<RESULT_OK>> \o s)[1] = RESULT_OK /\ <<RESULT_OK>> \o s # << >>
  BY Bytes, SocketType, ReadByte
<1> QED
  BY <1>1 DEF HandingOver

\* A step of the private thread arms PORT, uses and closes the data
\* connection, or changes nothing that DataConn sees.
LEMMA PrivateMaps ==
  ASSUME TypeInv, Inv, Private \/ Client
  PROVE  Abstract!Next \/ Stutter
<1> USE NotHandingOver
<1>a. /\ TypeInv' /\ Inv'
      /\ \A s \in socks : s # << >> /\ s # NoSock
  BY PrivateType, PrivateInv, SocketType, SocketValid DEF TypeInv, TypeOK
<1>1. CASE PrivateLoop \/ OtherCommand \/ LeaveProto \/ TransferRefused
  <2>1. /\ pPc \notin AnswerPcs /\ pPc' \notin AnswerPcs
        /\ UNCHANGED <<p_addr, listen_fd, data_fd>>
    BY <1>1 DEF PrivateLoop, OtherCommand, LeaveProto, TransferRefused,
         AnswerPcs, nobodyVars
  <2> QED
    BY <2>1 DEF Stutter, port, pasv, data
<1>2. CASE RecvPasvResult \/ RecvPasvPort \/ DoPasv
  <2>1. /\ pPc \notin AnswerPcs /\ pPc' \notin AnswerPcs
        /\ UNCHANGED <<p_addr, listen_fd, data_fd>>
    BY <1>2 DEF RecvPasvResult, RecvPasvPort, DoPasv, AnswerPcs, nobodyVars
  <2> QED
    BY <2>1 DEF Stutter, port, pasv, data
<1>3. CASE \E c \in Transfers : StartTransfer(c)
  <2>1. /\ pPc \notin AnswerPcs /\ pPc' \notin AnswerPcs
        /\ UNCHANGED <<p_addr, listen_fd, data_fd>>
    BY <1>3 DEF StartTransfer, AnswerPcs, nobodyVars
  <2> QED
    BY <2>1 DEF Stutter, port, pasv, data
<1>4. CASE DoPort
  <2>1. /\ pPc \notin AnswerPcs /\ pPc' \notin AnswerPcs
        /\ p_addr' = TRUE \/ p_addr' = FALSE
        /\ UNCHANGED <<listen_fd, data_fd>>
    BY <1>4 DEF DoPort, AnswerPcs, nobodyVars
  <2> QED
    BY <2>1 DEF Abstract!Next, Abstract!ArmPort, Abstract!LosePort
<1>5. CASE GetTransDataFd
  <2>1. pPc \notin AnswerPcs /\ n2p' = << >>
    BY <1>5, AnswerRead DEF GetTransDataFd, AnswerPcs
  <2>2. UNCHANGED <<p_addr, listen_fd, data_fd>>
    BY <1>5 DEF GetTransDataFd, nobodyVars
  <2> QED
    BY <2>1, <2>2 DEF Stutter, port, pasv, data
<1>6. CASE RecvDataResult("port_result", "port_fd")
  <2>1. pPc = "port_result" /\ n2p # << >> /\ pPc' = "port_fd"
        /\ UNCHANGED <<p_addr, listen_fd, data_fd>>
    BY <1>6, Nothing DEF RecvDataResult, Readable, nobodyVars
  <2>2. n2p[1] = RESULT_OK /\ n2p' \in DataSocks
    BY <1>6, DataAnswerRead
  <2>3. HandingOver /\ HandingOver'
    BY <1>a, <2>1, <2>2 DEF HandingOver, DataSocks
  <2> QED
    BY <2>1, <2>3 DEF Stutter, port, pasv, data
<1>7. CASE RecvDataResult("accept_result", "accept_fd")
  <2>1. pPc = "accept_result" /\ n2p # << >> /\ pPc' = "accept_fd"
        /\ UNCHANGED <<p_addr, listen_fd, data_fd>>
    BY <1>7, Nothing DEF RecvDataResult, Readable, nobodyVars
  <2>2. \/ n2p[1] = RESULT_OK /\ n2p' \in DataSocks
        \/ n2p[1] = RESULT_BAD /\ n2p' = << >>
    BY <1>7, DataAnswerRead
  <2>3. HandingOver' = HandingOver
    BY <1>a, <2>1, <2>2 DEF HandingOver, DataSocks, RESULT_OK, RESULT_BAD
  <2> QED
    BY <2>1, <2>3 DEF Stutter, port, pasv, data
<1>8. ASSUME NEW from \in {"port_fd", "accept_fd"}, RecvDataFd(from)
      PROVE  Stutter
  <2>1. /\ pPc = from /\ n2p # << >> /\ pPc' = "transfer"
        /\ UNCHANGED listen_fd
        /\ p_addr' = IF from = "port_fd" THEN FALSE ELSE p_addr
    BY <1>8, Nothing, SizesAssumption DEF RecvDataFd, Readable, nobodyVars
  <2>2. data_fd' \in DataSocks
    BY <1>8, DataAnswerRead
  <2>3. HandingOver /\ ~HandingOver' /\ data_fd' # NoSock
    BY <1>a, <2>1, <2>2 DEF HandingOver, DataSocks, AnswerPcs
  <2>4. from = "accept_fd" => ~p_addr
    BY <2>1 DEF Inv, WireAccepted
  <2> QED
    BY <2>1, <2>3, <2>4 DEF Stutter, port, pasv, data
<1>9. CASE Transfer
  <2>1. /\ pPc = "transfer" /\ pPc' = "loop"
        /\ data_fd' = NoSock /\ UNCHANGED <<p_addr, listen_fd>>
    BY <1>9 DEF Transfer
  <2>2. data_fd # NoSock /\ ~p_addr /\ listen_fd = NoSock
    BY <1>a, <2>1 DEF Inv, DataSocketIsOurs
  <2>3. ~HandingOver /\ ~HandingOver'
    BY <2>1 DEF AnswerPcs
  <2> QED
    BY <2>1, <2>2, <2>3 DEF Abstract!Next, Abstract!Close, TypeInv, TypeOK
<1> QED
  BY <1>1, <1>2, <1>3, <1>4, <1>5, <1>6, <1>7, <1>8, <1>9 DEF Private, Client

\* A step of the nobody thread arms or loses PASV, opens the data connection,
\* frees the session, or changes nothing that DataConn sees.
LEMMA NobodyMaps ==
  ASSUME "accept" \notin Faults, TypeInv, Inv, Nobody
  PROVE  Abstract!Next \/ Stutter
<1> USE NotHandingOver
<1>1. CASE NobodyLoop
  BY <1>1 DEF NobodyLoop, privateVars, Stutter, port, pasv, data, HandingOver
<1>2. CASE PasvActive
  <2>1. pPc = "active_int" /\ UNCHANGED <<pPc, p_addr, listen_fd, data_fd>>
    BY <1>2, RequestTaken DEF PasvActive, privateVars, PASV_ACTIVE,
         PASV_LISTEN, PASV_ACCEPT, GET_DATA_SOCK
  <2> QED
    BY <2>1 DEF Stutter, port, pasv, data, AnswerPcs
<1>3. CASE PasvListen
  <2>1. pPc = "pasv_result" /\ UNCHANGED <<pPc, p_addr, data_fd>>
    BY <1>3, RequestTaken DEF PasvListen, privateVars, PASV_ACTIVE,
         PASV_LISTEN, PASV_ACCEPT, GET_DATA_SOCK
  <2>2. listen_fd' # NoSock
    BY <1>3, SocketValid DEF PasvListen, FreeSockets
  <2> QED
    BY <2>1, <2>2 DEF Abstract!Next, Abstract!ArmPasv, AnswerPcs
<1>4. CASE PasvListenFails
  <2>1. pPc = "pasv_result" /\ UNCHANGED <<pPc, p_addr, data_fd>>
    BY <1>4, RequestTaken DEF PasvListenFails, privateVars, PASV_ACTIVE,
         PASV_LISTEN, PASV_ACCEPT, GET_DATA_SOCK
  <2>2. listen_fd' = NoSock
    BY <1>4 DEF PasvListenFails
  <2> QED
    BY <2>1, <2>2 DEF Abstract!Next, Abstract!LosePasv, AnswerPcs
<1>5. CASE GetDataSock \/ PasvAccept
  BY <1>5 DEF GetDataSock, PasvAccept, privateVars, Stutter, port, pasv, data,
     HandingOver
<1>6. CASE RecvAddress \/ ConnectFails
  BY <1>6 DEF RecvAddress, ConnectFails, privateVars, Stutter, port, pasv,
     data, HandingOver
<1>7. CASE Connect
  <2>1. /\ pPc = "port_result" /\ p_addr /\ listen_fd = NoSock
        /\ n2p = << >>
        /\ UNCHANGED <<pPc, p_addr, listen_fd, data_fd>>
    BY <1>7, MidOperation DEF Connect, Quiet, privateVars
  <2>2. PICK s \in Socket : n2p' = n2p \o <<RESULT_OK>> \o s
    BY <1>7 DEF Connect, FreeSockets
  <2>3. n2p' = <<RESULT_OK>> \o s
    BY <2>1, <2>2, Bytes, OneByte, ConcatEmptySeq
  <2>4. HandingOver' /\ ~HandingOver
    BY <2>1, <2>3, HandedOver
  <2> QED
    BY <2>1, <2>4 DEF Abstract!Next, Abstract!Open
<1>8. CASE AcceptReturns
  <2>1. /\ pPc = "accept_result" /\ ~p_addr /\ listen_fd # NoSock
        /\ n2p = << >> /\ listen_fd' = NoSock
        /\ UNCHANGED <<pPc, p_addr, data_fd>>
    BY <1>8, MidOperation
       DEF AcceptReturns, CloseListener, Quiet, privateVars
  <2>2. PICK s \in Socket : n2p' = n2p \o <<RESULT_OK>> \o s
    BY <1>8 DEF AcceptReturns, FreeSockets
  <2>3. n2p' = <<RESULT_OK>> \o s
    BY <2>1, <2>2, Bytes, OneByte, ConcatEmptySeq
  <2>4. HandingOver' /\ ~HandingOver
    BY <2>1, <2>3, HandedOver
  <2> QED
    BY <2>1, <2>4 DEF Abstract!Next, Abstract!Open
<1>9. CASE AcceptTimesOut
  <2>1. /\ pPc = "accept_result" /\ n2p = << >> /\ listen_fd' = NoSock
        /\ n2p' = n2p \o <<RESULT_BAD>>
        /\ UNCHANGED <<pPc, p_addr, data_fd>>
    BY <1>9, MidOperation
       DEF AcceptTimesOut, CloseListener, Quiet, privateVars
  <2>2. n2p' = <<RESULT_BAD>> /\ n2p'[1] # RESULT_OK
    <3>1. n2p' = <<RESULT_BAD>>
      BY <2>1, Bytes, OneByte, ConcatEmptySeq
    <3>2. RESULT_BAD # RESULT_OK
      BY DEF RESULT_BAD, RESULT_OK
    <3> QED
      BY <3>1, <3>2, Bytes, OneByte
  <2>3. ~HandingOver /\ ~HandingOver'
    BY <2>1, <2>2 DEF HandingOver
  <2> QED
    BY <2>1, <2>3 DEF Abstract!Next, Abstract!LosePasv
<1>10. CASE AcceptFails
  BY <1>10, MidOperation DEF AcceptFails, CloseListener
<1>11. CASE SessionFree
  <2>1. /\ pPc = "done" /\ pPc' = "done" /\ ~p_addr'
        /\ listen_fd' = NoSock /\ data_fd' = NoSock
    BY <1>11 DEF SessionFree
  <2> QED
    BY <2>1 DEF Abstract!Next, Abstract!Free, AnswerPcs
<1> QED
  BY <1>1, <1>2, <1>3, <1>4, <1>5, <1>6, <1>7, <1>8, <1>9, <1>10, <1>11
     DEF Nobody

\* Over its two threads, its socket pair and its commands, a session keeps
\* the promise of DataConn: one data connection per armed mode, made when
\* handle_nobody sends the socket and used up by the transfer that takes it.
THEOREM SessionImplementsDataConn ==
  ASSUME "accept" \notin Faults
  PROVE  Spec => ImplementsDataConn
<1>1. Init => Abstract!Init
  BY DEF Init, Abstract!Init, HandingOver
<1>2. TypeInv /\ Inv /\ [Next]_vars => [Abstract!Next]_(Abstract!dvars)
  <2> SUFFICES ASSUME TypeInv, Inv, [Next]_vars
               PROVE  Abstract!Next \/ Stutter
    BY DEF Abstract!dvars, Stutter, port, pasv, data
  <2>1. CASE ExitLoop \/ UNCHANGED vars
    BY <2>1 DEF ExitLoop, vars, nobodyVars, privateVars, Stutter, port, pasv,
       data, HandingOver
  <2> QED
    BY <2>1, PrivateMaps, NobodyMaps DEF Next
<1> QED
  BY <1>1, <1>2, InStep, PTL DEF Spec, ImplementsDataConn, Abstract!Spec

-----------------------------------------------------------------------------
(***************************************************************************)
(* Why a command gets its data connection or ends (CommandFinishes, but    *)
(* for its fairness): the two threads do not go round for ever over it.    *)
(* StuckExplained says when the next step may be missing.                  *)
(***************************************************************************)

\* How many answers the private thread is still to read.
AnswersLeft == CASE pPc = "active_int" -> 3
                 [] pPc \in {"pasv_result", "port_result", "accept_result"} -> 2
                 [] pPc \in {"pasv_int", "port_fd", "accept_fd"} -> 1
                 [] OTHER -> 0

\* What the nobody thread can still do with what it has been sent.
NobodyLeft == 3 * Len(p2n) + CASE nPc \in {"connect", "accept"} -> 2
                               [] nPc = "loop" -> 1
                               [] OTHER -> 0

\* The longest request is the one to connect.
LongestRequest == 1 + Len(AddressRequest)
StepsLeft == AnswersLeft * (3 * LongestRequest + 1) + NobodyLeft

\* While a command waits for its data connection, each step of either thread
\* lowers what bounds the steps to come; the shutdown only sets quit, once.
CommandAdvances ==
    [][~Served => /\ StepsLeft \in Nat
                  /\ \/ StepsLeft' < StepsLeft
                     \/ quit' /\ ~quit /\ StepsLeft' = StepsLeft]_vars

LEMMA StepsType ==
  ASSUME TypeInv
  PROVE  /\ Len(p2n) \in Nat /\ NobodyLeft \in Nat /\ AnswersLeft \in 0..3
         /\ LongestRequest \in Nat
         /\ 1 <= LongestRequest
         /\ StepsLeft \in Nat
<1>1. Len(p2n) \in Nat /\ Len(AddressRequest) \in Nat
  BY LenProperties, AddressRequestType DEF TypeInv, TypeOK
<1>2. NobodyLeft \in Nat
  BY <1>1 DEF NobodyLeft
<1>3. AnswersLeft \in 0..3
  BY DEF AnswersLeft
<1>4. LongestRequest \in Nat /\ 1 <= LongestRequest
  BY <1>1 DEF LongestRequest
<1>5. StepsLeft \in Nat
  <2> DEFINE b == 3 * LongestRequest + 1
  <2>1. b \in Nat
    BY <1>4
  <2> HIDE DEF b
  <2>2. AnswersLeft * b \in Nat
    BY <1>3, <2>1
  <2> QED
    BY <1>2, <2>2 DEF StepsLeft, b
<1> QED
  BY <1>1, <1>2, <1>3, <1>4, <1>5

LEMMA NobodyAdvances ==
  ASSUME TypeInv, Nobody, pPc # "done"
  PROVE  NobodyLeft' < NobodyLeft
<1>1. /\ p2n \in Seq(Byte) /\ Len(p2n) \in Nat
      /\ IntSize \in Nat /\ IntSize >= 1
  BY LenProperties, SizesAssumption DEF TypeInv, TypeOK
<1>2. CASE nPc = "recv_cmd"
  <2>1. /\ Readable(p2n, 1) /\ p2n' = Drop(p2n, 1)
        /\ nPc' \in {"loop", "recv_str", "accept"}
    BY <1>2 DEF Nobody, NobodyLoop, PasvActive, PasvListen, PasvListenFails,
       GetDataSock, RecvAddress, Connect, ConnectFails, PasvAccept, AcceptReturns,
       AcceptTimesOut, AcceptFails, CloseListener, SessionFree, Receives
  <2>2. Len(p2n') = Len(p2n) - 1
    BY <1>1, <2>1, ReadType
  <2> QED
    BY <1>1, <1>2, <2>1, <2>2 DEF NobodyLeft
<1>3. CASE nPc = "recv_str"
  <2>1. RecvAddress
    BY <1>3 DEF Nobody, NobodyLoop, PasvActive, PasvListen, PasvListenFails,
       GetDataSock, RecvAddress, Connect, ConnectFails, PasvAccept, AcceptReturns,
       AcceptTimesOut, AcceptFails, CloseListener, SessionFree, Receives
  <2> DEFINE n == IntVal(Take(p2n, IntSize))
  <2>2. n \in Nat
    BY <1>1, <2>1, ReadType, IntValType, SizesAssumption DEF RecvAddress
  <2>3. CASE n > IpBuffer
    <3>1. Len(p2n') = Len(p2n) - IntSize /\ nPc' = "loop"
      BY <1>1, <2>1, <2>3, ReadType DEF RecvAddress
    <3> QED
      BY <1>1, <1>3, <3>1 DEF NobodyLeft
  <2>4. CASE ~(n > IpBuffer)
    <3> DEFINE k == IntSize + n + IntSize
    <3>1. Readable(p2n, k) /\ p2n' = Drop(p2n, k) /\ nPc' = "connect"
      BY <2>1, <2>4 DEF RecvAddress
    <3>2. k \in Nat /\ k >= 2
      BY <1>1, <2>2
    <3> HIDE DEF k
    <3>3. Len(p2n') = Len(p2n) - k /\ p2n' \in Seq(Byte)
      BY <1>1, <3>1, <3>2, ReadType
    <3>4. Len(p2n') \in Nat /\ Len(p2n') <= Len(p2n) - 2
      BY <1>1, <3>2, <3>3, LenProperties
    <3>5. nPc' = "connect"
      BY <3>1
    <3> QED
      BY <1>1, <1>3, <3>4, <3>5 DEF NobodyLeft
  <2> QED
    BY <2>3, <2>4
<1>4. CASE nPc \notin {"recv_cmd", "recv_str"}
  <2>1. /\ p2n' = p2n
        /\ \/ nPc = "loop" /\ nPc' \in {"wait", "recv_cmd"}
           \/ nPc \in {"connect", "accept"} /\ nPc' = "loop"
    BY <1>4 DEF Nobody, NobodyLoop, PasvActive, PasvListen, PasvListenFails,
       GetDataSock, RecvAddress, Connect, ConnectFails, PasvAccept, AcceptReturns,
       AcceptTimesOut, AcceptFails, CloseListener, SessionFree, Receives
  <2> QED
    BY <1>1, <2>1 DEF NobodyLeft
<1> QED
  BY <1>2, <1>3, <1>4

\* Each answer that is read leads on, and leads to one request at most.
LEMMA PrivateAdvances ==
  ASSUME TypeInv, Private, ~Served
  PROVE  /\ AnswersLeft' < AnswersLeft
         /\ NobodyLeft' \in Nat
         /\ NobodyLeft' <= NobodyLeft + 3 * LongestRequest
<1>1. /\ p2n \in Seq(Byte) /\ Len(p2n) \in Nat /\ NobodyLeft \in Nat
      /\ LongestRequest \in Nat /\ LongestRequest >= 1
  BY StepsType DEF TypeInv, TypeOK
<1>2. UNCHANGED nPc /\ (UNCHANGED p2n \/ \E m \in Requests : p2n' = p2n \o m)
  BY PrivateSends
<1>3. Len(p2n') \in Nat /\ Len(p2n') <= Len(p2n) + LongestRequest
  <2>1. ASSUME NEW m \in Requests
        PROVE  m \in Seq(Byte) /\ Len(m) \in Nat /\ Len(m) <= LongestRequest
    <3>1. m \in Seq(Byte) /\ Len(m) \in Nat
      BY RequestType, LenProperties
    <3>2. CASE m \in {<<c>> : c \in Simple}
      <4>1. PICK c \in Simple : m = <<c>>
        BY <3>2
      <4>2. Len(m) = 1
        BY <4>1
      <4> QED
        BY <1>1, <3>1, <4>2
    <3>3. CASE m = <<GET_DATA_SOCK>> \o AddressRequest
      <4>1. AddressRequest \in Seq(Byte) /\ <<GET_DATA_SOCK>> \in Seq(Byte)
            /\ Len(<<GET_DATA_SOCK>>) = 1
        BY AddressRequestType, BytesType
      <4>2. Len(m) = LongestRequest
        BY <3>3, <4>1, ConcatProperties DEF LongestRequest
      <4> QED
        BY <1>1, <3>1, <4>2
    <3> QED
      BY <3>1, <3>2, <3>3 DEF Requests
  <2>2. CASE UNCHANGED p2n
    BY <1>1, <2>2
  <2>3. ASSUME NEW m \in Requests, p2n' = p2n \o m
        PROVE  Len(p2n') \in Nat /\ Len(p2n') <= Len(p2n) + LongestRequest
    <3>1. Len(p2n') = Len(p2n) + Len(m)
      BY <1>1, <2>1, <2>3, ConcatProperties
    <3> QED
      BY <1>1, <2>1, <3>1
  <2> QED
    BY <1>2, <2>2, <2>3
<1>4. NobodyLeft' \in Nat /\ NobodyLeft' <= NobodyLeft + 3 * LongestRequest
  BY <1>1, <1>2, <1>3 DEF NobodyLeft
<1>5. AnswersLeft' < AnswersLeft
  <2>1. \/ pPc = "active_int"
           /\ pPc' \in {"loop", "port_result", "accept_result"}
        \/ pPc = "pasv_result" /\ pPc' \in {"loop", "pasv_int"}
        \/ pPc = "port_result" /\ pPc' = "port_fd"
        \/ pPc = "accept_result" /\ pPc' = "accept_fd"
        \/ pPc \in {"pasv_int", "port_fd", "accept_fd"} /\ pPc' \in {"loop", "transfer"}
    BY DEF Served, AtRest, Private, PrivateLoop, RecvPasvResult, RecvPasvPort,
       GetTransDataFd, NoMode, BothModes, AskConnect, AskAccept, RecvDataResult,
       RecvDataFd, Transfer, TransferRefused
  <2> QED
    BY <2>1 DEF AnswersLeft
<1> QED
  BY <1>4, <1>5

LEMMA CommandStep ==
  ASSUME TypeInv, Next, ~Served
  PROVE  \/ StepsLeft' < StepsLeft
         \/ quit' /\ ~quit /\ StepsLeft' = StepsLeft
<1> DEFINE b == 3 * LongestRequest + 1
<1>1. /\ b \in Nat /\ NobodyLeft \in Nat /\ AnswersLeft \in 0..3
      /\ LongestRequest \in Nat /\ b = 3 * LongestRequest + 1
  BY StepsType
<1>2. /\ StepsLeft = AnswersLeft * b + NobodyLeft
      /\ StepsLeft' = AnswersLeft' * b + NobodyLeft'
  BY DEF StepsLeft, LongestRequest, AddressRequest
<1> HIDE DEF b
<1>3. /\ NobodyLeft' \in Nat /\ AnswersLeft' \in 0..3
  <2>1. Len(p2n') \in Nat
    BY TypeStep, LenProperties DEF TypeInv, TypeOK
  <2> QED
    BY <2>1 DEF NobodyLeft, AnswersLeft
<1>4. CASE Private
  <2>1. AnswersLeft' < AnswersLeft /\ NobodyLeft' < NobodyLeft + b
    BY <1>1, <1>3, <1>4, PrivateAdvances
  <2>2. \A x, y \in 0..3 : x < y => x * b + b <= y * b
    BY <1>1
  <2>3. \A x \in 0..3 : x * b \in Nat
    BY <1>1
  <2>4. \A p, q, m, n \in Nat : p + b <= q /\ n < m + b => p + n < q + m
    BY <1>1
  <2>5. AnswersLeft' * b + b <= AnswersLeft * b
    BY <1>1, <1>3, <2>1, <2>2, Zenon
  <2>6. AnswersLeft * b \in Nat /\ AnswersLeft' * b \in Nat
    BY <1>1, <1>3, <2>3, Zenon
  <2>7. AnswersLeft' * b + NobodyLeft' < AnswersLeft * b + NobodyLeft
    BY <1>1, <1>3, <2>1, <2>4, <2>5, <2>6, Zenon
  <2> QED
    BY <1>2, <2>7, Zenon
<1>5. CASE Nobody
  <2>1. UNCHANGED pPc
    BY <1>5 DEF Nobody, NobodyLoop, PasvActive, PasvListen, PasvListenFails,
       GetDataSock, RecvAddress, Connect, ConnectFails, PasvAccept, AcceptReturns,
       AcceptTimesOut, AcceptFails, CloseListener, SessionFree, privateVars
  <2>2. AnswersLeft' = AnswersLeft
    BY <2>1 DEF AnswersLeft
  <2>3. NobodyLeft' < NobodyLeft
    BY <1>5, NobodyAdvances DEF Served, AtRest
  <2>4. \A p, m, n \in Nat : n < m => p + n < p + m
    OBVIOUS
  <2>5. \A x \in 0..3 : x * b \in Nat
    BY <1>1
  <2>6. AnswersLeft * b + NobodyLeft' < AnswersLeft * b + NobodyLeft
    BY <1>1, <1>3, <2>3, <2>4, <2>5, Zenon
  <2> QED
    BY <1>2, <2>2, <2>6, Zenon
<1>6. CASE ExitLoop
  <2>1. UNCHANGED <<pPc, nPc, p2n>> /\ ~quit /\ quit' = TRUE
    BY <1>6 DEF ExitLoop, nobodyVars, privateVars
  <2> QED
    BY <1>2, <2>1 DEF AnswersLeft, NobodyLeft
<1>7. ~Client
  BY DEF Client, OtherCommand, DoPort, DoPasv, LeaveProto, StartTransfer, Served, AtRest
<1> QED
  BY <1>4, <1>5, <1>6, <1>7 DEF Next

\* From a command of the client to its data connection or its end, each step of
\* the private and of the nobody thread lowers a number that bounds the steps
\* to come, whatever fails and however the answers are out of step.
THEOREM CommandsAdvance == Spec => CommandAdvances
<1>1. TypeInv => StepsLeft \in Nat
  BY StepsType
<1>2. TypeInv /\ [Next]_vars =>
          [~Served => /\ StepsLeft \in Nat
                      /\ \/ StepsLeft' < StepsLeft
                         \/ quit' /\ ~quit /\ StepsLeft' = StepsLeft]_vars
  BY <1>1, CommandStep
<1> QED
  BY <1>2, TypeInit, TypeStep, PTL DEF Spec, CommandAdvances
=============================================================================
