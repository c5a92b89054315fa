----------------------------- MODULE PrivSession -----------------------------
(***************************************************************************)
(* One FTP session: the "nobody" thread (session_thread, handle_nobody,    *)
(* the privop_* handlers) and the "private" thread (handle_proto, the      *)
(* command handlers that need a data connection) share a Session_t and     *)
(* talk over a socket pair.  The private thread reads commands from the    *)
(* client and asks the nobody thread to listen, to accept and to connect.  *)
(*                                                                         *)
(* A step of a thread runs from one call that may block to the next.       *)
(***************************************************************************)
EXTENDS PrivWire

CONSTANTS Commands,     \* the commands the client may send
          Faults,       \* the calls to the system that may fail
          Handles,      \* the socket handles the process may be given
          IpSize,       \* the length of an address in dotted form
          MaxSkew       \* bound: unread bytes left when a command is accepted

ASSUME CommandsAssumption ==
    Commands \subseteq {"PORT", "PASV", "RETR", "STOR", "LIST", "NOOP", "QUIT"}
ASSUME FaultsAssumption ==
    Faults \subseteq {"listen", "connect", "accept_timeout", "accept", "file",
                      "malloc", "local_ip"}
ASSUME HandlesAssumption == Handles \subseteq 1..254
ASSUME IpAssumption == IpSize \in 1..15
ASSUME SkewAssumption == MaxSkew \in Nat

VARIABLES
    quit,       \* main.c: set once, by the console handler
    pPc,        \* where the private thread is
    nPc,        \* where the nobody thread is
    cmd,        \* the transfer command in progress
    r,          \* handle_nobody: the outcome of the last operation
    p_addr,     \* session->p_addr # NULL: a PORT address is waiting
    listen_fd,  \* session->listen_fd
    data_fd,    \* session->data_fd
    socks,      \* the listening and data sockets that are open
    listeners,  \* history: those of them that tcp_server made
    p2n, n2p,   \* the socket pair: private to nobody, nobody to private
    replies,    \* the reply codes sent for the last command
    announced   \* the port number of the last 227 reply

vars == <<quit, pPc, nPc, cmd, r, p_addr, listen_fd, data_fd, socks,
          listeners, p2n, n2p, replies, announced>>
nobodyVars == <<nPc, r, listen_fd, socks, listeners>>
privateVars == <<pPc, cmd, p_addr, data_fd, replies, announced>>

-----------------------------------------------------------------------------
\* The server binds its end of a data connection to port 20.  The port of a
\* PORT command only passes through: one value stands for them all.
DataPort == 20
ClientPort == 200
IpBuffer == 16

Transfers == {"RETR", "STOR", "LIST"} \cap Commands
Socket == {SockBytes(h) : h \in Handles}
FreeSockets == Socket \ socks

AddressRequest ==
    IntBytes(IpSize) \o [i \in 1..IpSize |-> 46] \o IntBytes(ClientPort)

\* The final reply of a transfer that does not start.
Refusal(c) == CASE c = "RETR" -> <<550>>
                [] c = "STOR" -> <<553>>
                [] c = "LIST" -> << >>

\* The final replies of one that does; a listing is reported sent in any case.
Outcomes(c) == CASE c = "RETR" -> {226, 451}
                 [] c = "STOR" -> {226, 426, 451}
                 [] c = "LIST" -> {226}

Init == /\ quit = FALSE
        /\ pPc = "loop" /\ nPc = "loop"
        /\ cmd = "none"
        /\ r = "SUCCEEDED"
        /\ p_addr = FALSE
        /\ listen_fd = NoSock /\ data_fd = NoSock
        /\ socks = {} /\ listeners = {}
        /\ p2n = << >> /\ n2p = << >>
        /\ replies = <<220>>
        /\ announced = IntBytes(0)

-----------------------------------------------------------------------------
(***************************************************************************)
(* The private thread.                                                     *)
(***************************************************************************)

\* while (!should_exit()): then block in readline.
PrivateLoop ==
    /\ pPc = "loop"
    /\ pPc' = IF quit THEN "done" ELSE "readline"
    /\ UNCHANGED <<quit, cmd, p_addr, data_fd, replies, announced, p2n, n2p>>
    /\ UNCHANGED nobodyVars

\* A command that is answered at once and touches nothing modelled here
\* (NOOP, a command nobody knows, one without a handler, a bad PORT).
OtherCommand ==
    /\ pPc = "readline" /\ "NOOP" \in Commands
    /\ \E code \in {220, 500, 502} : replies' = <<code>>
    /\ pPc' = "loop"
    /\ UNCHANGED <<quit, cmd, p_addr, data_fd, announced, p2n, n2p>>
    /\ UNCHANGED nobodyVars

\* PORT: remember the client's address, dropping one remembered before.
\* Without memory for it the old one is dropped all the same, unanswered.
DoPort ==
    /\ pPc = "readline" /\ "PORT" \in Commands
    /\ \/ p_addr' = TRUE /\ replies' = <<200>>
       \/ "malloc" \in Faults /\ p_addr' = FALSE /\ replies' = << >>
    /\ pPc' = "loop"
    /\ UNCHANGED <<quit, cmd, data_fd, announced, p2n, n2p>>
    /\ UNCHANGED nobodyVars

\* QUIT, or the client closes or resets the control connection.
LeaveProto ==
    /\ pPc = "readline"
    /\ \/ "QUIT" \in Commands /\ replies' = <<221>>
       \/ replies' = << >>
    /\ pPc' = "done"
    /\ UNCHANGED <<quit, cmd, p_addr, data_fd, announced, p2n, n2p>>
    /\ UNCHANGED nobodyVars

\* PASV: ask the nobody thread to listen, then wait for its result ...
DoPasv ==
    /\ pPc = "readline" /\ "PASV" \in Commands
    /\ FreeSockets # {} /\ Len(n2p) <= MaxSkew
    /\ p2n' = p2n \o <<PASV_LISTEN>>
    /\ replies' = << >>
    /\ pPc' = "pasv_result"
    /\ UNCHANGED <<quit, cmd, p_addr, data_fd, announced, n2p>>
    /\ UNCHANGED nobodyVars

RecvPasvResult ==
    /\ pPc = "pasv_result" /\ Readable(n2p, 1)
    /\ n2p' = Drop(n2p, 1)
    /\ IF n2p[1] = RESULT_BAD
       THEN pPc' = "loop" /\ replies' = <<500>>
       ELSE pPc' = "pasv_int" /\ UNCHANGED replies
    /\ UNCHANGED <<quit, cmd, p_addr, data_fd, announced, p2n>>
    /\ UNCHANGED nobodyVars

\* ... and for the port, which is announced to the client, or, if
\* get_local_ip has no address to go with it, refused: the listener stays.
RecvPasvPort ==
    /\ pPc = "pasv_int" /\ Readable(n2p, IntSize)
    /\ n2p' = Drop(n2p, IntSize)
    /\ \/ announced' = Take(n2p, IntSize) /\ replies' = <<227>>
       \/ "local_ip" \in Faults /\ replies' = <<500>> /\ UNCHANGED announced
    /\ pPc' = "loop"
    /\ UNCHANGED <<quit, cmd, p_addr, data_fd, p2n>>
    /\ UNCHANGED nobodyVars

\* RETR, STOR (and APPE), LIST (and NLST) start by asking whether the
\* nobody thread has a listener: is_pasv_active.
StartTransfer(c) ==
    /\ pPc = "readline"
    /\ FreeSockets # {} /\ Len(n2p) <= MaxSkew
    /\ cmd' = c
    /\ p2n' = p2n \o <<PASV_ACTIVE>>
    /\ replies' = << >>
    /\ pPc' = "active_int"
    /\ UNCHANGED <<quit, p_addr, data_fd, announced, n2p>>
    /\ UNCHANGED nobodyVars

\* get_trans_data_fd: neither mode is active.
NoMode(active) ==
    /\ ~p_addr /\ ~active
    /\ replies' = <<425>> \o Refusal(cmd)
    /\ pPc' = "loop"
    /\ UNCHANGED p2n

\* get_trans_data_fd: both modes are active, which is only logged.
BothModes(active) ==
    /\ p_addr /\ active
    /\ replies' = Refusal(cmd)
    /\ pPc' = "loop"
    /\ UNCHANGED p2n

\* Mutant: the port is sent ahead of the address.
AskConnect_PortFirst(active) ==
    /\ p_addr /\ ~active
    /\ p2n' = p2n \o <<GET_DATA_SOCK>> \o IntBytes(ClientPort)
                  \o IntBytes(IpSize) \o [i \in 1..IpSize |-> 46]
    /\ pPc' = "port_result"
    /\ UNCHANGED replies

\* get_port_data_fd: send the command, the address and the port.
AskConnect(active) ==
    /\ p_addr /\ ~active
    /\ p2n' = p2n \o <<GET_DATA_SOCK>> \o AddressRequest
    /\ pPc' = "port_result"
    /\ UNCHANGED replies

\* Mutant: PASV is taken although a PORT address is waiting.
AskAccept_AnyMode(active) ==
    /\ active
    /\ p2n' = p2n \o <<PASV_ACCEPT>>
    /\ pPc' = "accept_result"
    /\ UNCHANGED replies

\* get_pasv_data_fd: send the command.
AskAccept(active) ==
    /\ ~p_addr /\ active
    /\ p2n' = p2n \o <<PASV_ACCEPT>>
    /\ pPc' = "accept_result"
    /\ UNCHANGED replies

GetTransDataFd ==
    /\ pPc = "active_int" /\ Readable(n2p, IntSize)
    /\ n2p' = Drop(n2p, IntSize)
    /\ LET active == IntVal(Take(n2p, IntSize)) # 0
       IN  \/ NoMode(active)
           \/ BothModes(active)
           \/ AskConnect(active)
           \/ AskAccept(active)
    /\ UNCHANGED <<quit, cmd, p_addr, data_fd, announced>>
    /\ UNCHANGED nobodyVars

\* The result of the connect or the accept; a bad one is reported, and the
\* handler goes on.
RecvDataResult(from, to) ==
    /\ pPc = from /\ Readable(n2p, 1)
    /\ n2p' = Drop(n2p, 1)
    /\ replies' = IF n2p[1] = RESULT_BAD THEN Append(replies, 500) ELSE replies
    /\ pPc' = to
    /\ UNCHANGED <<quit, cmd, p_addr, data_fd, announced, p2n>>
    /\ UNCHANGED nobodyVars

\* Mutant: the socket is read as if it were an int.
RecvDataFd_AsInt(from) ==
    /\ pPc = from /\ Readable(n2p, IntSize)
    /\ n2p' = Drop(n2p, IntSize)
    /\ data_fd' = Take(n2p, IntSize)
    /\ p_addr' = IF from = "port_fd" THEN FALSE ELSE p_addr
    /\ pPc' = "transfer"
    /\ UNCHANGED <<quit, cmd, replies, announced, p2n>>
    /\ UNCHANGED nobodyVars

\* The socket; whatever data_fd held before is overwritten.
RecvDataFd(from) ==
    /\ pPc = from /\ Readable(n2p, SockSize)
    /\ n2p' = Drop(n2p, SockSize)
    /\ data_fd' = Take(n2p, SockSize)
    /\ p_addr' = IF from = "port_fd" THEN FALSE ELSE p_addr
    /\ pPc' = "transfer"
    /\ UNCHANGED <<quit, cmd, replies, announced, p2n>>
    /\ UNCHANGED nobodyVars

\* Mutant: data_fd is reset without being closed.
Transfer_NoClose ==
    /\ pPc = "transfer"
    /\ data_fd' = NoSock
    /\ \E code \in Outcomes(cmd) : replies' = replies \o <<150, code>>
    /\ pPc' = "loop"
    /\ UNCHANGED <<quit, cmd, p_addr, announced, p2n, n2p>>
    /\ UNCHANGED nobodyVars

\* The data is sent or received, or the connection breaks on the way; the
\* data socket is closed and the outcome reported.
Transfer ==
    /\ pPc = "transfer"
    /\ socks' = socks \ {data_fd}
    /\ listeners' = listeners \ {data_fd}
    /\ data_fd' = NoSock
    /\ \E code \in Outcomes(cmd) : replies' = replies \o <<150, code>>
    /\ pPc' = "loop"
    /\ UNCHANGED <<quit, cmd, p_addr, announced, p2n, n2p>>
    /\ UNCHANGED <<nPc, r, listen_fd>>

\* The file cannot be opened or is not a regular file (refused), or cannot
\* be positioned (no reply at all): the data socket stays open.
TransferRefused ==
    /\ pPc = "transfer" /\ "file" \in Faults /\ cmd # "LIST"
    /\ \/ replies' = replies \o Refusal(cmd)
       \/ UNCHANGED replies
    /\ pPc' = "loop"
    /\ UNCHANGED <<quit, cmd, p_addr, data_fd, announced, p2n, n2p>>
    /\ UNCHANGED nobodyVars

Private ==
    \/ PrivateLoop
    \/ RecvPasvResult
    \/ RecvPasvPort
    \/ GetTransDataFd
    \/ RecvDataResult("port_result", "port_fd")
    \/ RecvDataResult("accept_result", "accept_fd")
    \/ RecvDataFd("port_fd")
    \/ RecvDataFd("accept_fd")
    \/ Transfer
    \/ TransferRefused

Client ==
    \/ OtherCommand
    \/ DoPort
    \/ DoPasv
    \/ LeaveProto
    \/ \E c \in Transfers : StartTransfer(c)

-----------------------------------------------------------------------------
(***************************************************************************)
(* The nobody thread.                                                      *)
(***************************************************************************)

\* while (!should_exit()): then block in priv_sock_recv_cmd.
NobodyLoop ==
    /\ nPc = "loop"
    /\ nPc' = IF quit THEN "wait" ELSE "recv_cmd"
    /\ UNCHANGED <<quit, r, listen_fd, socks, listeners, p2n, n2p>>
    /\ UNCHANGED privateVars

\* The next command is c; receiving it sets r.
Receives(c) ==
    /\ nPc = "recv_cmd" /\ Readable(p2n, 1)
    /\ p2n[1] = c
    /\ p2n' = Drop(p2n, 1)

\* Mutant: only a listener that exists is reported.
PasvActive_OnlyTrue ==
    /\ Receives(PASV_ACTIVE)
    /\ n2p' = IF listen_fd # NoSock THEN n2p \o IntBytes(1) ELSE n2p
    /\ r' = "SUCCEEDED"
    /\ nPc' = "loop"
    /\ UNCHANGED <<quit, listen_fd, socks, listeners>>
    /\ UNCHANGED privateVars

\* privop_pasv_active
PasvActive ==
    /\ Receives(PASV_ACTIVE)
    /\ n2p' = n2p \o IntBytes(IF listen_fd # NoSock THEN 1 ELSE 0)
    /\ r' = "SUCCEEDED"
    /\ nPc' = "loop"
    /\ UNCHANGED <<quit, listen_fd, socks, listeners>>
    /\ UNCHANGED privateVars

\* Mutant: the port is sent without the result.
PasvListen_NoResult ==
    /\ Receives(PASV_LISTEN)
    /\ \E s \in FreeSockets :
           /\ listen_fd' = s
           /\ socks' = socks \cup {s}
           /\ listeners' = listeners \cup {s}
    /\ n2p' = n2p \o IntBytes(DataPort)
    /\ r' = "SUCCEEDED"
    /\ nPc' = "loop"
    /\ UNCHANGED quit
    /\ UNCHANGED privateVars

\* privop_pasv_listen: a listener held before is overwritten.
PasvListen ==
    /\ Receives(PASV_LISTEN)
    /\ \E s \in FreeSockets :
           /\ listen_fd' = s
           /\ socks' = socks \cup {s}
           /\ listeners' = listeners \cup {s}
    /\ n2p' = n2p \o <<RESULT_OK>> \o IntBytes(DataPort)
    /\ r' = "SUCCEEDED"
    /\ nPc' = "loop"
    /\ UNCHANGED quit
    /\ UNCHANGED privateVars

\* Mutant: what tcp_server returns is not looked at.
PasvListenFails_Unchecked ==
    /\ "listen" \in Faults
    /\ Receives(PASV_LISTEN)
    /\ listen_fd' = NoSock
    /\ n2p' = n2p \o <<RESULT_OK>> \o IntBytes(DataPort)
    /\ r' = "SUCCEEDED"
    /\ nPc' = "loop"
    /\ UNCHANGED <<quit, socks, listeners>>
    /\ UNCHANGED privateVars

\* tcp_server fails, so does getsockname, and nothing is sent.
PasvListenFails ==
    /\ "listen" \in Faults
    /\ Receives(PASV_LISTEN)
    /\ listen_fd' = NoSock
    /\ r' = "FAILED"
    /\ nPc' = "loop"
    /\ UNCHANGED <<quit, socks, listeners, n2p>>
    /\ UNCHANGED privateVars

\* privop_pasv_get_data_sock reads the address and the port ...
GetDataSock ==
    /\ Receives(GET_DATA_SOCK)
    /\ r' = "SUCCEEDED"
    /\ nPc' = "recv_str"
    /\ UNCHANGED <<quit, listen_fd, socks, listeners, n2p>>
    /\ UNCHANGED privateVars

RecvAddress ==
    LET n == IntVal(Take(p2n, IntSize))
    IN  /\ nPc = "recv_str" /\ Readable(p2n, IntSize)
        /\ IF n > IpBuffer
           THEN /\ p2n' = Drop(p2n, IntSize)
                /\ nPc' = "loop"
                /\ r' = "FAILED"
           ELSE /\ Readable(p2n, IntSize + n + IntSize)
                /\ p2n' = Drop(p2n, IntSize + n + IntSize)
                /\ nPc' = "connect"
                /\ UNCHANGED r
        /\ UNCHANGED <<quit, listen_fd, socks, listeners, n2p>>
        /\ UNCHANGED privateVars

\* Mutant: the socket is sent without the result.
Connect_NoResult ==
    /\ nPc = "connect"
    /\ \E s \in FreeSockets :
           /\ socks' = socks \cup {s}
           /\ n2p' = n2p \o s
    /\ nPc' = "loop"
    /\ UNCHANGED <<quit, r, listen_fd, listeners, p2n>>
    /\ UNCHANGED privateVars

\* ... connects, and sends the socket.
Connect ==
    /\ nPc = "connect"
    /\ \E s \in FreeSockets :
           /\ socks' = socks \cup {s}
           /\ n2p' = n2p \o <<RESULT_OK>> \o s
    /\ nPc' = "loop"
    /\ UNCHANGED <<quit, r, listen_fd, listeners, p2n>>
    /\ UNCHANGED privateVars

\* Either tcp_client gives no socket, or connect fails and the socket it
\* gave stays open; nothing is sent.
ConnectFails ==
    /\ nPc = "connect" /\ "connect" \in Faults
    /\ \/ UNCHANGED socks
       \/ \E s \in FreeSockets : socks' = socks \cup {s}
    /\ r' = "FAILED"
    /\ nPc' = "loop"
    /\ UNCHANGED <<quit, listen_fd, listeners, p2n, n2p>>
    /\ UNCHANGED privateVars

\* privop_pasv_accept blocks in accept_timeout ...
PasvAccept ==
    /\ Receives(PASV_ACCEPT)
    /\ r' = "SUCCEEDED"
    /\ nPc' = "accept"
    /\ UNCHANGED <<quit, listen_fd, socks, listeners, n2p>>
    /\ UNCHANGED privateVars

\* Mutant: listen_fd keeps the closed handle.
CloseListener_NoReset(opened) ==
    /\ nPc = "accept"
    /\ socks' = (socks \ {listen_fd}) \cup opened
    /\ listeners' = listeners \ {listen_fd}
    /\ nPc' = "loop"
    /\ UNCHANGED <<quit, listen_fd, p2n>>
    /\ UNCHANGED privateVars

\* ... closes the listener whatever the outcome ...
CloseListener(opened) ==
    /\ nPc = "accept"
    /\ socks' = (socks \ {listen_fd}) \cup opened
    /\ listeners' = listeners \ {listen_fd}
    /\ listen_fd' = NoSock
    /\ nPc' = "loop"
    /\ UNCHANGED <<quit, p2n>>
    /\ UNCHANGED privateVars

\* ... and sends the accepted socket ...
AcceptReturns ==
    /\ listen_fd # NoSock
    /\ \E s \in FreeSockets :
           /\ CloseListener({s})
           /\ n2p' = n2p \o <<RESULT_OK>> \o s
    /\ UNCHANGED r

\* Mutant: the handler goes on after a timeout as after any other error.
AcceptTimesOut_NoReturn ==
    /\ "accept_timeout" \in Faults /\ listen_fd # NoSock
    /\ CloseListener({})
    /\ n2p' = n2p \o <<RESULT_BAD>> \o <<RESULT_OK>> \o NoSock
    /\ r' = "FAILED"

\* ... or only a bad result after a timeout ...
AcceptTimesOut ==
    /\ "accept_timeout" \in Faults /\ listen_fd # NoSock
    /\ CloseListener({})
    /\ n2p' = n2p \o <<RESULT_BAD>>
    /\ r' = "FAILED"

\* Mutant: nothing follows the bad result.
AcceptFails_NoSocket ==
    /\ "accept" \in Faults \/ listen_fd = NoSock
    /\ CloseListener({})
    /\ n2p' = n2p \o <<RESULT_BAD>>
    /\ UNCHANGED r

\* ... or, after any other error, a bad result, a good one and the invalid
\* socket.  Without a listener the call can only fail.
AcceptFails ==
    /\ "accept" \in Faults \/ listen_fd = NoSock
    /\ CloseListener({})
    /\ n2p' = n2p \o <<RESULT_BAD>> \o <<RESULT_OK>> \o NoSock
    /\ UNCHANGED r

\* session_thread waits for the private thread and frees the session.
SessionFree ==
    /\ nPc = "wait" /\ pPc = "done"
    /\ socks' = socks \ {listen_fd, data_fd}
    /\ listeners' = listeners \ {listen_fd, data_fd}
    /\ listen_fd' = NoSock /\ data_fd' = NoSock
    /\ p_addr' = FALSE
    /\ p2n' = << >> /\ n2p' = << >>
    /\ nPc' = "freed"
    /\ UNCHANGED <<quit, pPc, cmd, r, replies, announced>>

Nobody ==
    \/ NobodyLoop
    \/ PasvActive
    \/ PasvListen
    \/ PasvListenFails
    \/ GetDataSock
    \/ RecvAddress
    \/ Connect
    \/ ConnectFails
    \/ PasvAccept
    \/ AcceptReturns
    \/ AcceptTimesOut
    \/ AcceptFails
    \/ SessionFree

-----------------------------------------------------------------------------
\* exit_loop, on another thread.
ExitLoop ==
    /\ ~quit
    /\ quit' = TRUE
    /\ UNCHANGED <<p2n, n2p>>
    /\ UNCHANGED nobodyVars
    /\ UNCHANGED privateVars

Next == Private \/ Client \/ Nobody \/ ExitLoop

Spec == Init /\ [][Next]_vars

\* The system runs every thread that is not blocked.  The client connects to
\* a listener it was told of, or accept_timeout expires; when it sends
\* commands is its choice.  How long a transfer takes is not assumed: the
\* loops of download_file and writen may not end when the connection breaks.
FairSpec == Spec /\ WF_vars(Private /\ pPc # "transfer") /\ WF_vars(Nobody)

-----------------------------------------------------------------------------
(***************************************************************************)
(* Properties.                                                             *)
(***************************************************************************)

AtRest == {"loop", "readline", "done"}

TypeOK ==
    /\ quit \in BOOLEAN
    /\ pPc \in AtRest \cup {"pasv_result", "pasv_int", "active_int",
                             "port_result", "port_fd",
                             "accept_result", "accept_fd", "transfer"}
    /\ nPc \in {"loop", "recv_cmd", "recv_str", "connect", "accept",
                "wait", "freed"}
    /\ cmd \in {"none"} \cup Transfers
    /\ r \in {"SUCCEEDED", "FAILED"}
    /\ p_addr \in BOOLEAN
    /\ listen_fd \in Socket \cup {NoSock}
    /\ data_fd \in [1..SockSize -> Byte]
    /\ socks \subseteq Socket /\ listeners \subseteq socks
    /\ p2n \in Seq(Byte) /\ n2p \in Seq(Byte)
    /\ replies \in Seq(Nat)
    /\ announced \in [1..IntSize -> Byte]

\* Between two commands nothing is in flight on the socket pair, so that the
\* answer to one request is never read as the answer to another (every
\* priv_sock_recv_* of the private thread, trans_data.c, command_map.c).
NoCrossTalk == pPc \in AtRest => p2n = << >> /\ n2p = << >>

\* However the answers of the nobody thread get out of step, the requests do
\* not: it never meets a command or an address it cannot read (the default
\* case of handle_nobody, the length test of priv_sock_recv_str).
RequestsInStep ==
    /\ nPc = "recv_cmd" /\ p2n # << >> =>
           p2n[1] \in {GET_DATA_SOCK, PASV_ACTIVE, PASV_LISTEN, PASV_ACCEPT}
    /\ nPc = "recv_str" => Take(p2n, Len(AddressRequest)) = AddressRequest

\* A 227 reply announces the port of a listener that is open when the client
\* reads the reply (do_pasv, privop_pasv_listen).
PassiveReplyIsTrue ==
    replies = <<227>> /\ pPc \in {"loop", "readline"} =>
        announced = IntBytes(DataPort) /\ listen_fd \in listeners

\* A transfer runs on a connected socket that is still open and that nothing
\* else uses, and it has used up the PORT or the PASV that made it, so that
\* the next transfer needs a new one (get_trans_data_fd).
DataSocketIsOurs ==
    pPc = "transfer" =>
        /\ data_fd \in socks \ listeners
        /\ ~p_addr /\ listen_fd = NoSock

\* The socket on its way from the nobody thread to the private thread.
InFlight == {s \in Socket : \/ pPc \in {"port_result", "accept_result"}
                                /\ n2p = <<RESULT_OK>> \o s
                            \/ pPc \in {"port_fd", "accept_fd"} /\ n2p = s}

\* Open sockets in no field of the session and not in flight: nothing will
\* ever close them, session_free included.
Lost == socks \ (InFlight \cup {listen_fd, data_fd})

\* A socket drops out of reach in three ways only: a second PASV replaces the
\* listener, a connect fails, or a new data connection replaces one whose
\* file could not be opened (privop_pasv_listen, get_port_data_fd,
\* get_pasv_data_fd).  All that a transfer used is closed.
SocketsLost ==
    [][ \A s \in Lost' \ Lost :
            \/ s \in listeners /\ nPc = "recv_cmd"
            \/ s \notin socks /\ r' = "FAILED"
            \/ s = data_fd /\ pPc \in {"port_fd", "accept_fd"} ]_vars

\* How many bytes the private thread is blocked for.
Awaited == CASE pPc \in {"pasv_result", "port_result", "accept_result"} -> 1
             [] pPc \in {"pasv_int", "active_int"} -> IntSize
             [] pPc \in {"port_fd", "accept_fd"} -> SockSize
             [] OTHER -> 0

\* Each thread waits for the other, for good.
Stuck == /\ Len(n2p) < Awaited
         /\ \/ nPc = "recv_cmd" /\ p2n = << >>
            \/ nPc = "wait"

\* The two threads wait for each other only after an operation that failed
\* without the answer the private thread waits for, or after the nobody
\* thread left on shutdown before the private thread did.
StuckExplained == Stuck => r = "FAILED" \/ nPc = "wait"

\* Whatever the client sends, the private thread gets its data connection or
\* comes back for the next command, unless an operation failed or the server
\* shuts down meanwhile.
Served == pPc \in AtRest \cup {"transfer"}
CommandFinishes == ~Served ~> Served \/ quit \/ r = "FAILED"

\* Once PORT and PASV are both armed no transfer takes either, and they stay
\* so until the session ends, with two exceptions, each of a command that
\* fails for want of resources: a PASV whose listen fails takes the listener
\* away, and a PORT without memory the address, unanswered
\* (get_trans_data_fd, do_port, do_pasv, privop_pasv_listen).
BothArmed == p_addr /\ listen_fd # NoSock
BothStayArmed ==
    [][ BothArmed =>
            /\ pPc' # "transfer"
            /\ \/ BothArmed'
               \/ nPc = "recv_cmd" /\ p_addr' /\ listen_fd' = NoSock
               \/ /\ pPc = "readline" /\ replies' = << >>
                  /\ ~p_addr' /\ listen_fd' # NoSock
               \/ nPc' = "freed" ]_vars

\* priv_sock.c:120, "Proto close!": the nobody thread notices that the
\* private thread is gone, and the session is freed.
ProtoCloseFreesSession == pPc = "done" ~> nPc = "freed"

-----------------------------------------------------------------------------
(***************************************************************************)
(* Refinement.  The socket changes hands, and the mode is used up, when    *)
(* the nobody thread sends it.                                             *)
(***************************************************************************)
HandingOver ==
    \/ /\ pPc \in {"port_result", "accept_result"}
       /\ n2p # << >> /\ n2p[1] = RESULT_OK
    \/ pPc \in {"port_fd", "accept_fd"} /\ n2p # << >>

Abstract == INSTANCE DataConn WITH
                port <- p_addr /\ ~HandingOver,
                pasv <- listen_fd # NoSock,
                data <- data_fd # NoSock \/ HandingOver

\* The session keeps the promise of DataConn (PORT, PASV and the transfer
\* commands; privop_pasv_listen, privop_pasv_accept,
\* privop_pasv_get_data_sock).
ImplementsDataConn == Abstract!Spec
=============================================================================
