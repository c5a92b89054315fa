---------------------------- MODULE CommandLine -----------------------------
(***************************************************************************)
(* handle_proto (ftp_proto.c) reading commands: readline peeks at what has *)
(* arrived, looks for a line feed, and then reads up to it or all of it    *)
(* (recv_peek, readn, readline of sysutil.c).  The bytes of the client     *)
(* arrive one at a time, so that the stream is cut in every possible way.  *)
(* The handlers are modelled by what they may leave behind, or by never    *)
(* coming back.                                                            *)
(***************************************************************************)
EXTENDS Integers, Sequences

CONSTANTS LF, CR, NUL,    \* the bytes: line feed, carriage return, zero,
          Others,         \* and the rest
          MaxCommand,     \* MAX_COMMAND, the size of session->command: 1024
          Faults,         \* what may happen to connections
          MaxSent         \* bound: the bytes a client sends

Bytes == {LF, CR, NUL} \cup Others

ASSUME CommandAssumption == MaxCommand \in Nat /\ MaxCommand > 1
ASSUME BytesAssumption ==
    LF # CR /\ NUL \notin {LF, CR} /\ {LF, CR, NUL} \cap Others = {}
ASSUME LineFaultsAssumption == Faults \subseteq {"reset", "abort", "stuck"}

VARIABLES
    sent,       \* history: the bytes the client has sent
    inbox,      \* those that arrived and were not read
    conn,       \* the control connection: "open", "closed" by the client,
                \* "reset", or "aborted" by the system
    pc,         \* "peek", "read", "command", "stuck" in a handler, or "ended"
    want,       \* how many bytes readn is to take
    buf,        \* session->command
    lastError,  \* WSAGetLastError of this thread: "aborted", or "other"
    got,        \* history: what readline returned
    outside,    \* history: str_trim_crlf has looked before the buffer
    spin        \* history: changes whenever a call is tried again in vain

vars == <<sent, inbox, conn, pc, want, buf, lastError, got, outside, spin>>

\* should_exit may hold at once.
Init == /\ sent = << >> /\ inbox = << >>
        /\ conn = "open"
        /\ pc \in {"peek", "ended"} /\ want = 0 /\ buf = << >>
        /\ lastError = "other"
        /\ got = << >> /\ outside = FALSE /\ spin = FALSE

-----------------------------------------------------------------------------
\* The client sends, leaves, or the connection breaks; a reset throws away
\* what had arrived.
Arrive ==
    /\ conn = "open" /\ Len(sent) < MaxSent
    /\ \E x \in Bytes : sent' = Append(sent, x) /\ inbox' = Append(inbox, x)
    /\ UNCHANGED <<conn, pc, want, buf, lastError, got, outside, spin>>

Close ==
    /\ conn = "open" /\ conn' = "closed"
    /\ UNCHANGED <<sent, inbox, pc, want, buf, lastError, got, outside, spin>>

Reset ==
    /\ conn \in {"open", "closed"} /\ "reset" \in Faults
    /\ conn' = "reset" /\ inbox' = << >>
    /\ UNCHANGED <<sent, pc, want, buf, lastError, got, outside, spin>>

Abort ==
    /\ conn \in {"open", "closed"} /\ "abort" \in Faults
    /\ conn' = "aborted"
    /\ UNCHANGED <<sent, inbox, pc, want, buf, lastError, got, outside, spin>>

Client == Arrive \/ Close \/ Reset \/ Abort

-----------------------------------------------------------------------------
\* Mutant: no room is kept for the terminating zero.
Room_All == MaxCommand - Len(buf)

\* nleft of readline.
Room == MaxCommand - 1 - Len(buf)

\* Mutant: readn takes all that was peeked.
Wanted_AllPeeked(p) == {Len(p)}

\* What readn is to take of the bytes p: up to the first line feed, or all.
Wanted(p) ==
    {k \in 1..Len(p) : /\ p[k] = LF \/ (k = Len(p) /\ \A j \in 1..k : p[j] # LF)
                       /\ \A j \in 1..k - 1 : p[j] # LF}

\* Mutant: only a whole line is read.
Peek_WholeLine ==
    /\ pc = "peek" /\ conn \in {"open", "closed"} /\ lastError # "aborted"
    /\ \E n \in {k \in 1..Room : k = Len(inbox) \/ (k = Room /\ k <= Len(inbox))} :
           \E k \in Wanted(SubSeq(inbox, 1, n)) : inbox[k] = LF /\ want' = k
    /\ pc' = "read"
    /\ UNCHANGED <<sent, inbox, conn, buf, lastError, got, outside, spin>>

\* recv_peek returns what has arrived, up to nleft bytes.  Its test for an
\* aborted connection also holds after a success, if that was the last error
\* of the thread: then it peeks again, for ever.
Peek ==
    /\ pc = "peek" /\ conn \in {"open", "closed"} /\ lastError # "aborted"
    /\ \E n \in {k \in 1..Room : k = Len(inbox) \/ (k = Room /\ k <= Len(inbox))} :
           want' \in Wanted(SubSeq(inbox, 1, n))
    /\ pc' = "read"
    /\ UNCHANGED <<sent, inbox, conn, buf, lastError, got, outside, spin>>

\* Mutant: a carriage return ends a line as well.
Complete_AtCR(line) ==
    line[Len(line)] \in {LF, CR} \/ Len(line) = MaxCommand - 1

\* readline returns.
Complete(line) == line[Len(line)] = LF \/ Len(line) = MaxCommand - 1

\* readn; on an aborted connection it tries again for ever.
Read ==
    /\ pc = "read" /\ conn \in {"open", "closed"}
    /\ LET line == buf \o SubSeq(inbox, 1, want)
       IN  /\ buf' = line
           /\ pc' = IF Complete(line) THEN "command" ELSE "peek"
    /\ inbox' = SubSeq(inbox, want + 1, Len(inbox))
    /\ want' = 0
    /\ UNCHANGED <<sent, conn, lastError, got, outside, spin>>

\* Mutant: the end of the stream is taken for nothing yet.
ReadEnds_TryAgain ==
    /\ pc \in {"peek", "read"} /\ conn = "reset"
    /\ pc' = "ended" /\ buf' = << >> /\ want' = 0
    /\ UNCHANGED <<sent, inbox, conn, lastError, got, outside, spin>>

\* The client has left, and part of a line is thrown away; or the connection
\* was reset (-1): handle_proto returns.
ReadEnds ==
    /\ \/ /\ pc = "peek" /\ conn = "closed" /\ inbox = << >>
          /\ lastError # "aborted"
       \/ pc \in {"peek", "read"} /\ conn = "reset"
    /\ pc' = "ended" /\ buf' = << >> /\ want' = 0
    /\ UNCHANGED <<sent, inbox, conn, lastError, got, outside, spin>>

\* recv_peek and readn try again, for ever, after an abort: of this connection,
\* or, for recv_peek, of any before it, even if recv returns something now.
Retry ==
    /\ \/ pc \in {"peek", "read"} /\ conn = "aborted"
       \/ /\ pc = "peek" /\ lastError = "aborted" /\ conn \in {"open", "closed"}
          /\ inbox # << >> \/ conn = "closed"
    /\ spin' = ~spin
    /\ UNCHANGED <<sent, inbox, conn, pc, want, buf, lastError, got, outside>>

\* str_trim_crlf starts at the end of the line's text, which is where its first
\* zero is, leaves nothing of the text, and goes on before its start.
Blank(line) == \A k \in 1..Len(line) : \/ line[k] \in {LF, CR}
                                      \/ \E j \in 1..k : line[j] = NUL

\* The command is obeyed, and may be QUIT, or find should_exit after it.  A
\* transfer may leave the error of an aborted data connection behind.  Or the
\* handler never returns: the nobody thread does not answer it, or its
\* transfer goes on for ever.
Command ==
    /\ pc = "command"
    /\ got' = Append(got, buf)
    /\ outside' = (outside \/ Blank(buf))
    /\ buf' = << >>
    /\ pc' \in {"peek", "ended"} \cup ({"stuck"} \cap Faults)
    /\ lastError' \in {"other"} \cup (IF "abort" \in Faults THEN {"aborted"} ELSE {})
    /\ UNCHANGED <<sent, inbox, conn, want, spin>>

Server == Peek \/ Read \/ ReadEnds \/ Retry \/ Command

Next == Client \/ Server

\* The thread of the session runs.  That a handler returns is not assumed: it
\* does, sooner or later, or it is one of those that are stuck.
Spec == Init /\ [][Next]_vars /\ WF_vars(Server)

-----------------------------------------------------------------------------
(***************************************************************************)
(* Properties.                                                             *)
(***************************************************************************)

\* Types; above all, a command and its terminating zero fit the buffer, and
\* readn asks for no more than has arrived.
TypeOK ==
    /\ sent \in Seq(Bytes) /\ inbox \in Seq(Bytes) /\ buf \in Seq(Bytes)
    /\ Len(buf) < MaxCommand
    /\ conn \in {"open", "closed", "reset", "aborted"}
    /\ pc \in {"peek", "read", "command", "stuck", "ended"}
    /\ want \in Nat /\ (conn # "reset" => want <= Len(inbox))
    /\ lastError \in {"other", "aborted"}
    /\ got \in Seq(Seq(Bytes))
    /\ outside \in BOOLEAN /\ spin \in BOOLEAN

\* However the stream was cut, the session obeys its lines: in order, each
\* once, none before it is complete (readline).
Abstract == INSTANCE Lines WITH
                MaxLine <- MaxCommand - 1,
                input <- IF pc = "ended" \/ (conn = "reset" /\ pc # "command")
                         THEN << >> ELSE buf \o inbox,
                over <- conn = "reset" \/ pc = "ended"
ImplementsLines == Abstract!Spec

\* The client has sent a line without text before its first zero, or one too
\* long for the buffer.
OddLine ==
    \E k \in 1..Len(sent) :
        \E m \in 0..k - 1 :
            /\ m = 0 \/ sent[m] = LF
            /\ \A j \in m + 1..k - 1 : sent[j] # LF
            /\ \/ sent[k] = LF /\ Blank(SubSeq(sent, m + 1, k))
               \/ k - m >= MaxCommand - 1

\* str_trim_crlf looks at, and may overwrite, the memory before the buffer
\* only after a line that has no text, be it empty or a zero its first byte, or
\* one that fills the buffer, so that what is left of it comes as a command of
\* its own.
OutsideExplained == outside => OddLine

\* A whole line, or a full buffer, is obeyed, unless the session ends, the
\* connection is reset or aborted, a data connection before it was aborted, or
\* the handler of a command before it never returns.
HasLine == \E k \in 1..Len(buf \o inbox) :
               (buf \o inbox)[k] = LF \/ k = MaxCommand - 1
Hangs == conn = "aborted" \/ lastError = "aborted" \/ pc = "stuck"
LineIsObeyed ==
    \A k \in 0..MaxSent :
        Len(got) = k /\ HasLine ~> Len(got) > k \/ pc = "ended" \/ Hangs
                                   \/ conn = "reset"

\* A session notices that its client has left or its connection was reset,
\* unless it hangs on an aborted one, on the error of one, or in a handler.
EndIsNoticed == conn \in {"closed", "reset"} ~> pc = "ended" \/ Hangs
=============================================================================
