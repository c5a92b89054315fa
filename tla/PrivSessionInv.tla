--------------------------- MODULE PrivSessionInv ---------------------------
(***************************************************************************)
(* The inductive invariant behind the theorems of PrivSession_proofs: for  *)
(* every place where the private thread may be, what is on the socket pair *)
(* and where the nobody thread is.  It holds as long as accept itself does *)
(* not fail, which sends one answer too many (privop_pasv_accept).         *)
(***************************************************************************)
EXTENDS PrivSession

TransferPcs == {"active_int", "port_result", "port_fd",
                "accept_result", "accept_fd", "transfer"}

\* While a data connection is asked for, cmd is the command that needs it.
CmdOK == pPc \in TransferPcs => cmd \in Transfers

DataSocks == socks \ listeners

\* The nobody thread is not serving a command.
NobodyIdle == nPc \in {"loop", "recv_cmd", "wait"}
Quiet == p2n = << >> /\ n2p = << >>
Asked(request) == NobodyIdle /\ p2n = request /\ n2p = << >>
Answered == NobodyIdle /\ p2n = << >>
Unanswered == NobodyIdle /\ Quiet /\ r = "FAILED"

SocketsOK ==
    /\ listen_fd = NoSock \/ listen_fd \in listeners
    /\ data_fd = NoSock \/ data_fd \in DataSocks

WireAtRest ==
    pPc \in AtRest \cup {"transfer"} =>
        /\ Quiet
        /\ NobodyIdle \/ (nPc = "freed" /\ pPc = "done")

WirePasv ==
    pPc = "pasv_result" =>
        \/ Asked(<<PASV_LISTEN>>)
        \/ /\ Answered /\ listen_fd \in listeners
           /\ n2p = <<RESULT_OK>> \o IntBytes(DataPort)
        \/ Unanswered

WirePort ==
    pPc = "pasv_int" =>
        Answered /\ listen_fd \in listeners /\ n2p = IntBytes(DataPort)

WireActive ==
    pPc = "active_int" =>
        \/ Asked(<<PASV_ACTIVE>>)
        \/ Answered /\ n2p = IntBytes(IF listen_fd # NoSock THEN 1 ELSE 0)

WireConnect ==
    pPc = "port_result" =>
        /\ p_addr /\ listen_fd = NoSock
        /\ \/ Asked(<<GET_DATA_SOCK>> \o AddressRequest)
           \/ nPc = "recv_str" /\ p2n = AddressRequest /\ n2p = << >>
           \/ nPc = "connect" /\ Quiet
           \/ Answered /\ \E s \in DataSocks : n2p = <<RESULT_OK>> \o s
           \/ Unanswered

WireConnected ==
    pPc = "port_fd" =>
        /\ p_addr /\ listen_fd = NoSock
        /\ Answered /\ n2p \in DataSocks

WireAccept ==
    pPc = "accept_result" =>
        /\ ~p_addr
        /\ \/ Asked(<<PASV_ACCEPT>>) /\ listen_fd # NoSock
           \/ nPc = "accept" /\ Quiet /\ listen_fd # NoSock
           \/ /\ Answered /\ listen_fd = NoSock
              /\ \E s \in DataSocks : n2p = <<RESULT_OK>> \o s
           \/ /\ Answered /\ listen_fd = NoSock
              /\ n2p = <<RESULT_BAD>> /\ r = "FAILED"

WireAccepted ==
    pPc = "accept_fd" =>
        /\ ~p_addr /\ listen_fd = NoSock
        /\ (Answered /\ n2p \in DataSocks) \/ Unanswered

RepliesOK ==
    /\ pPc \in {"active_int", "port_result", "accept_result"} => replies = << >>
    /\ pPc \in TransferPcs => replies \in {<< >>, <<500>>}
    /\ PassiveReplyIsTrue

\* The socket pair and the two threads stay in step; DataSocketIsOurs is
\* part of it because a transfer keeps its socket until it ends.
Inv == /\ SocketsOK
       /\ WireAtRest
       /\ WirePasv /\ WirePort
       /\ WireActive
       /\ WireConnect /\ WireConnected
       /\ WireAccept /\ WireAccepted
       /\ RepliesOK
       /\ DataSocketIsOurs
=============================================================================
