------------------------------ MODULE ServerLoop ------------------------------
(***************************************************************************)
(* The server around its sessions: the main thread (start_loop), the       *)
(* console handler (exit_loop), the accept loop (loop_thread) and the two  *)
(* threads of every session (session_thread, private_thread), with the     *)
(* session registry (session_manager.c) and the life of a Session_t.       *)
(*                                                                         *)
(* What two threads of a session say to each other is in PrivSession.      *)
(* Here a command of the client either needs the nobody thread, and wakes  *)
(* it, or does not.  Each Session_t is used once: Sessions bounds how many *)
(* clients are accepted.                                                   *)
(***************************************************************************)
EXTENDS Naturals, FiniteSets

CONSTANTS Sessions,     \* the sessions that may be accepted
          Handles,      \* the socket handles the process may be given
          Faults        \* the calls to the system that may fail

ASSUME SessionsAssumption == Sessions \cap {"nobody", "server"} = {}
ASSUME HandlesAssumption == Handles \cap {"zero", "invalid"} = {}
ASSUME FaultsAssumption ==
    Faults \subseteq {"listen", "accept", "timeout", "malloc", "thread"}

VARIABLES
    quit,       \* should_exit()
    mPc,        \* where the main thread is
    hPc,        \* where the console handler is
    lPc,        \* where the accept loop is
    listen_fd,  \* the static listen_fd of main.c
    hFd, lFd,   \* the value of it that each thread has read
    t,          \* loop_thread: accept_timeout has timed out
    cur,        \* loop_thread: the session being started
    owner,      \* whose socket each handle is
    manager,    \* the registry and its critical section
    entries,    \* the length of its vector
    waitFor,    \* wait_sessions: the threads whose handles it waits on
    mem,        \* the memory of each Session_t
    fds,        \* the sockets each Session_t holds
    nPc, pPc    \* where the two threads of each session are

vars == <<quit, mPc, hPc, lPc, listen_fd, hFd, lFd, t, cur, owner, manager,
          entries, waitFor, mem, fds, nPc, pPc>>
serverVars == <<quit, mPc, hPc, lPc, listen_fd, hFd, lFd, t, cur, manager,
                entries, waitFor>>
sessionVars == <<mem, fds, nPc, pPc>>
handlerVars == <<quit, hPc, hFd>>
loopVars == <<lPc, lFd, t, cur, manager, entries, waitFor>>

-----------------------------------------------------------------------------
\* What listen_fd holds before tcp_server sets it, and INVALID_SOCKET.
Zero == "zero"
NoFd == "invalid"

Open(h) == h \in Handles /\ owner[h] # "nobody"
Listening(h) == h \in Handles /\ owner[h] = "server"
FreeHandles == {h \in Handles : owner[h] = "nobody"}

\* closesocket on each of the handles in H, whoever owns it by now.
Close(H) == owner' = [h \in Handles |-> IF h \in H THEN "nobody" ELSE owner[h]]

Init == /\ quit = FALSE
        /\ mPc = "sleep" /\ hPc = "idle" /\ lPc = "init"
        /\ listen_fd = Zero /\ hFd = NoFd /\ lFd = NoFd
        /\ t = FALSE
        /\ cur = "nobody"
        /\ owner = [h \in Handles |-> "nobody"]
        /\ manager = "none" /\ entries = 0 /\ waitFor = {}
        /\ mem = [s \in Sessions |-> "none"]
        /\ fds = [s \in Sessions |-> {}]
        /\ nPc = [s \in Sessions |-> "none"]
        /\ pPc = [s \in Sessions |-> "none"]

-----------------------------------------------------------------------------
(***************************************************************************)
(* The main thread and the console handler.                                *)
(***************************************************************************)

\* start_loop polls should_exit(), waits for the accept loop, and returns;
\* the process ends, and every thread with it.
MainPoll ==
    /\ mPc = "sleep" /\ quit
    /\ mPc' = "wait"
    /\ UNCHANGED <<listen_fd, owner>>
    /\ UNCHANGED handlerVars /\ UNCHANGED loopVars /\ UNCHANGED sessionVars

MainReturn ==
    /\ mPc = "wait" /\ lPc = "done"
    /\ mPc' = "returned"
    /\ UNCHANGED <<listen_fd, owner>>
    /\ UNCHANGED handlerVars /\ UNCHANGED loopVars /\ UNCHANGED sessionVars

\* exit_loop: s_close(&listen_fd) tests, closes and resets; then quit is set.
HandlerTest ==
    /\ hPc = "idle"
    /\ hFd' = listen_fd
    /\ hPc' = IF listen_fd # NoFd THEN "close" ELSE "quit"
    /\ UNCHANGED <<quit, mPc, listen_fd, owner>>
    /\ UNCHANGED loopVars /\ UNCHANGED sessionVars

\* *s is read a second time, or kept from the test.
HandlerClose ==
    /\ hPc = "close"
    /\ \E h \in {hFd, listen_fd} : Close({h}) /\ hFd' = h
    /\ hPc' = "reset"
    /\ UNCHANGED <<quit, mPc, listen_fd>>
    /\ UNCHANGED loopVars /\ UNCHANGED sessionVars

HandlerReset ==
    /\ hPc = "reset"
    /\ listen_fd' = NoFd
    /\ hPc' = "quit"
    /\ UNCHANGED <<quit, mPc, hFd, owner>>
    /\ UNCHANGED loopVars /\ UNCHANGED sessionVars

HandlerQuit ==
    /\ hPc = "quit"
    /\ quit' = TRUE
    /\ hPc' = "done"
    /\ UNCHANGED <<mPc, listen_fd, hFd, owner>>
    /\ UNCHANGED loopVars /\ UNCHANGED sessionVars

-----------------------------------------------------------------------------
(***************************************************************************)
(* The accept loop.                                                        *)
(***************************************************************************)

LoopInit ==
    /\ lPc = "init"
    /\ manager' = "live" /\ entries' = 0
    /\ lPc' = "listen"
    /\ UNCHANGED <<mPc, listen_fd, lFd, t, cur, owner, waitFor>>
    /\ UNCHANGED handlerVars /\ UNCHANGED sessionVars

\* listen_fd = tcp_server(...), which gives INVALID_SOCKET when it fails.
LoopListen ==
    /\ lPc = "listen"
    /\ \/ \E h \in FreeHandles :
              listen_fd' = h /\ owner' = [owner EXCEPT ![h] = "server"]
       \/ "listen" \in Faults /\ listen_fd' = NoFd /\ UNCHANGED owner
    /\ lPc' = "loop"
    /\ UNCHANGED <<mPc, lFd, t, cur, manager, entries, waitFor>>
    /\ UNCHANGED handlerVars /\ UNCHANGED sessionVars

\* Mutant: only a failing accept ends the loop.
LoopCheck_Always ==
    /\ lPc = "loop"
    /\ lPc' = "accept"
    /\ lFd' = listen_fd
    /\ UNCHANGED <<mPc, listen_fd, t, cur, owner, manager, entries, waitFor>>
    /\ UNCHANGED handlerVars /\ UNCHANGED sessionVars

\* while (!should_exit()): call accept_timeout with the listen_fd of now.
LoopCheck ==
    /\ lPc = "loop"
    /\ lPc' = IF quit THEN "test" ELSE "accept"
    /\ lFd' = IF quit THEN lFd ELSE listen_fd
    /\ UNCHANGED <<mPc, listen_fd, t, cur, owner, manager, entries, waitFor>>
    /\ UNCHANGED handlerVars /\ UNCHANGED sessionVars

\* Mutant: what accept_timeout returns is not looked at.
Accept_Unchecked(s) ==
    /\ lPc = "accept"
    /\ mem[s] = "none"
    /\ \E h \in IF Open(lFd) THEN FreeHandles ELSE {NoFd} :
           /\ owner' = [k \in Handles |-> IF k = h THEN s ELSE owner[k]]
           /\ fds' = [fds EXCEPT ![s] = {h}]
    /\ mem' = [mem EXCEPT ![s] = "live"]
    /\ entries' = entries + 1
    /\ cur' = s
    /\ lPc' = "start"
    /\ UNCHANGED <<mPc, listen_fd, lFd, t, manager, waitFor, nPc, pPc>>
    /\ UNCHANGED handlerVars

\* A client is accepted, its session is allocated and registered.
Accept(s) ==
    /\ lPc = "accept" /\ Open(lFd)
    /\ mem[s] = "none"
    /\ \E h \in FreeHandles : /\ owner' = [owner EXCEPT ![h] = s]
                              /\ fds' = [fds EXCEPT ![s] = {h}]
    /\ mem' = [mem EXCEPT ![s] = "live"]
    /\ entries' = entries + 1
    /\ cur' = s
    /\ lPc' = "start"
    /\ UNCHANGED <<mPc, listen_fd, lFd, t, manager, waitFor, nPc, pPc>>
    /\ UNCHANGED handlerVars

\* There is no memory for the session: its socket is closed, the loop ends.
AcceptNoMemory ==
    /\ lPc = "accept" /\ Open(lFd) /\ "malloc" \in Faults
    /\ lPc' = "test"
    /\ UNCHANGED <<mPc, listen_fd, lFd, t, cur, owner, manager, entries, waitFor>>
    /\ UNCHANGED handlerVars /\ UNCHANGED sessionVars

\* Nobody connects in time: t is set, and is never reset.
AcceptTimesOut ==
    /\ lPc = "accept" /\ Open(lFd) /\ "timeout" \in Faults
    /\ t' = TRUE
    /\ lPc' = "loop"
    /\ UNCHANGED <<mPc, listen_fd, lFd, cur, owner, manager, entries, waitFor>>
    /\ UNCHANGED handlerVars /\ UNCHANGED sessionVars

\* Any other failure ends the loop, unless t was set before.
AcceptFails ==
    /\ lPc = "accept"
    /\ "accept" \in Faults \/ ~Listening(lFd)
    /\ lPc' = IF t THEN "loop" ELSE "test"
    /\ UNCHANGED <<mPc, listen_fd, lFd, t, cur, owner, manager, entries, waitFor>>
    /\ UNCHANGED handlerVars /\ UNCHANGED sessionVars

\* start_session, then session->handle = handle.
StartSession ==
    /\ lPc = "start"
    /\ nPc' = [nPc EXCEPT ![cur] = "begin"]
    /\ lPc' = "handle"
    /\ UNCHANGED <<mPc, listen_fd, lFd, t, cur, owner, manager, entries, waitFor>>
    /\ UNCHANGED <<mem, fds, pPc>>
    /\ UNCHANGED handlerVars

\* Without a thread the session is freed, and the loop ends.
StartSessionFails ==
    /\ lPc = "start" /\ "thread" \in Faults
    /\ Close(fds[cur])
    /\ mem' = [mem EXCEPT ![cur] = "freed"]
    /\ fds' = [fds EXCEPT ![cur] = {}]
    /\ lPc' = "test"
    /\ UNCHANGED <<mPc, listen_fd, lFd, t, cur, manager, entries, waitFor>>
    /\ UNCHANGED <<nPc, pPc>>
    /\ UNCHANGED handlerVars

SetHandle ==
    /\ lPc = "handle"
    /\ lPc' = "loop"
    /\ UNCHANGED <<mPc, listen_fd, lFd, t, cur, owner, manager, entries, waitFor>>
    /\ UNCHANGED handlerVars /\ UNCHANGED sessionVars

\* Mutant: the listener is closed only on shutdown.
LoopTest_OnlyOnQuit ==
    /\ lPc = "test"
    /\ lFd' = listen_fd
    /\ lPc' = IF quit /\ listen_fd # NoFd THEN "close" ELSE "dump"
    /\ UNCHANGED <<mPc, listen_fd, t, cur, owner, manager, entries, waitFor>>
    /\ UNCHANGED handlerVars /\ UNCHANGED sessionVars

\* s_close(&listen_fd), as in exit_loop.
LoopTest ==
    /\ lPc = "test"
    /\ lFd' = listen_fd
    /\ lPc' = IF listen_fd # NoFd THEN "close" ELSE "dump"
    /\ UNCHANGED <<mPc, listen_fd, t, cur, owner, manager, entries, waitFor>>
    /\ UNCHANGED handlerVars /\ UNCHANGED sessionVars

LoopClose ==
    /\ lPc = "close"
    /\ \E h \in {lFd, listen_fd} : Close({h}) /\ lFd' = h
    /\ lPc' = "reset"
    /\ UNCHANGED <<mPc, listen_fd, t, cur, manager, entries, waitFor>>
    /\ UNCHANGED handlerVars /\ UNCHANGED sessionVars

LoopReset ==
    /\ lPc = "reset"
    /\ listen_fd' = NoFd
    /\ lPc' = "dump"
    /\ UNCHANGED <<mPc, lFd, t, cur, owner, manager, entries, waitFor>>
    /\ UNCHANGED handlerVars /\ UNCHANGED sessionVars

\* wait_sessions: the vector holds zeros (add_session copies the first bytes
\* of the session, not its address), so the array of handles is left as
\* malloc gave it.  The wait fails at once, or waits for threads whose
\* handles happen to be in that memory.
WaitSessions ==
    /\ lPc = "dump"
    /\ \E W \in SUBSET {s \in Sessions : nPc[s] # "none"} :
           waitFor' = IF entries = 0 THEN {} ELSE W
    /\ lPc' = "wait"
    /\ UNCHANGED <<mPc, listen_fd, lFd, t, cur, owner, manager, entries>>
    /\ UNCHANGED handlerVars /\ UNCHANGED sessionVars

\* Mutant: the wait ends with the first thread that ends.
DestroyManager_AnyEnds ==
    /\ lPc = "wait"
    /\ waitFor = {} \/ \E s \in waitFor : nPc[s] = "done"
    /\ manager' = "destroyed"
    /\ lPc' = "done"
    /\ UNCHANGED <<mPc, listen_fd, lFd, t, cur, owner, entries, waitFor>>
    /\ UNCHANGED handlerVars /\ UNCHANGED sessionVars

DestroyManager ==
    /\ lPc = "wait"
    /\ \A s \in waitFor : nPc[s] = "done"
    /\ manager' = "destroyed"
    /\ lPc' = "done"
    /\ UNCHANGED <<mPc, listen_fd, lFd, t, cur, owner, entries, waitFor>>
    /\ UNCHANGED handlerVars /\ UNCHANGED sessionVars

-----------------------------------------------------------------------------
(***************************************************************************)
(* The two threads of session s.                                           *)
(***************************************************************************)

\* limit_num_clients never replies, for curr_clients is 0 in every session,
\* and would not stop the session if it did.  The private thread starts.
NobodyBegin(s) ==
    /\ nPc[s] = "begin"
    /\ nPc' = [nPc EXCEPT ![s] = "loop"]
    /\ pPc' = [pPc EXCEPT ![s] = "loop"]
    /\ UNCHANGED <<owner, mem, fds>>
    /\ UNCHANGED serverVars

\* It cannot be started: the session is freed.
NobodyBeginFails(s) ==
    /\ nPc[s] = "begin" /\ "thread" \in Faults
    /\ nPc' = [nPc EXCEPT ![s] = "remove"]
    /\ UNCHANGED <<owner, mem, fds, pPc>>
    /\ UNCHANGED serverVars

\* Mutant: the thread also leaves when the private thread has ended.
NobodyLoop_SeesEnd(s) ==
    /\ nPc[s] = "loop"
    /\ nPc' = [nPc EXCEPT ![s] = IF quit \/ pPc[s] = "done" THEN "join" ELSE "recv"]
    /\ UNCHANGED <<owner, mem, fds, pPc>>
    /\ UNCHANGED serverVars

\* handle_nobody: while (!should_exit()).
NobodyLoop(s) ==
    /\ nPc[s] = "loop"
    /\ nPc' = [nPc EXCEPT ![s] = IF quit THEN "join" ELSE "recv"]
    /\ UNCHANGED <<owner, mem, fds, pPc>>
    /\ UNCHANGED serverVars

\* Mutant: it does not wait.
NobodyJoin_NoWait(s) ==
    /\ nPc[s] = "join"
    /\ nPc' = [nPc EXCEPT ![s] = "remove"]
    /\ UNCHANGED <<owner, mem, fds, pPc>>
    /\ UNCHANGED serverVars

\* WaitForSingleObject on the private thread.
NobodyJoin(s) ==
    /\ nPc[s] = "join" /\ pPc[s] = "done"
    /\ nPc' = [nPc EXCEPT ![s] = "remove"]
    /\ UNCHANGED <<owner, mem, fds, pPc>>
    /\ UNCHANGED serverVars

\* session_free: remove_session finds no entry to remove.  Once the registry
\* is destroyed, it enters a deleted critical section and walks freed memory.
RemoveSession(s) ==
    /\ nPc[s] = "remove"
    /\ nPc' = [nPc EXCEPT ![s] = "free"]
    /\ UNCHANGED <<owner, mem, fds, pPc>>
    /\ UNCHANGED serverVars

RemoveSessionCrashes(s) ==
    /\ nPc[s] = "remove" /\ manager = "destroyed"
    /\ mPc' = "crashed"
    /\ UNCHANGED <<listen_fd, owner>>
    /\ UNCHANGED handlerVars /\ UNCHANGED loopVars /\ UNCHANGED sessionVars

\* session_free: the sockets, then the memory.
FreeSession(s) ==
    /\ nPc[s] = "free"
    /\ Close(fds[s])
    /\ fds' = [fds EXCEPT ![s] = {}]
    /\ mem' = [mem EXCEPT ![s] = "freed"]
    /\ nPc' = [nPc EXCEPT ![s] = "done"]
    /\ UNCHANGED pPc
    /\ UNCHANGED serverVars

\* handle_proto: while (!should_exit()).
PrivateLoop(s) ==
    /\ pPc[s] = "loop"
    /\ pPc' = [pPc EXCEPT ![s] = IF quit THEN "done" ELSE "readline"]
    /\ UNCHANGED <<owner, mem, fds, nPc>>
    /\ UNCHANGED serverVars

\* A command that needs no answer of the nobody thread.
Command(s) ==
    /\ pPc[s] = "readline"
    /\ pPc' = [pPc EXCEPT ![s] = "loop"]
    /\ UNCHANGED <<owner, mem, fds, nPc>>
    /\ UNCHANGED serverVars

\* Mutant: a socket that is closed is not reset.
Request_NoReset(s) ==
    /\ pPc[s] = "readline" /\ nPc[s] = "recv"
    /\ \/ \E h \in FreeHandles : /\ owner' = [owner EXCEPT ![h] = s]
                                 /\ fds' = [fds EXCEPT ![s] = @ \cup {h}]
       \/ \E h \in fds[s] : /\ Cardinality(fds[s]) > 1
                            /\ Close({h})
                            /\ UNCHANGED fds
    /\ nPc' = [nPc EXCEPT ![s] = "loop"]
    /\ pPc' = [pPc EXCEPT ![s] = "loop"]
    /\ UNCHANGED mem
    /\ UNCHANGED serverVars

\* PASV or a transfer: the nobody thread serves it, and a socket is opened,
\* closed, or neither; one, the control connection, always remains.
Request(s) ==
    /\ pPc[s] = "readline" /\ nPc[s] = "recv"
    /\ \/ \E h \in FreeHandles : /\ owner' = [owner EXCEPT ![h] = s]
                                 /\ fds' = [fds EXCEPT ![s] = @ \cup {h}]
       \/ \E h \in fds[s] : /\ Cardinality(fds[s]) > 1
                            /\ Close({h})
                            /\ fds' = [fds EXCEPT ![s] = @ \ {h}]
       \/ UNCHANGED <<owner, fds>>
    /\ nPc' = [nPc EXCEPT ![s] = "loop"]
    /\ pPc' = [pPc EXCEPT ![s] = "loop"]
    /\ UNCHANGED mem
    /\ UNCHANGED serverVars

\* The nobody thread has left: there is nobody to answer.
RequestUnanswered(s) ==
    /\ pPc[s] = "readline" /\ nPc[s] = "join"
    /\ pPc' = [pPc EXCEPT ![s] = "stuck"]
    /\ UNCHANGED <<owner, mem, fds, nPc>>
    /\ UNCHANGED serverVars

\* QUIT, or the control connection ends.
Leave(s) ==
    /\ pPc[s] = "readline"
    /\ pPc' = [pPc EXCEPT ![s] = "done"]
    /\ UNCHANGED <<owner, mem, fds, nPc>>
    /\ UNCHANGED serverVars

-----------------------------------------------------------------------------
Running == mPc \notin {"returned", "crashed"}

Main == MainPoll \/ MainReturn

Handler == HandlerClose \/ HandlerReset \/ HandlerQuit

Loop == \/ LoopInit
        \/ LoopListen
        \/ LoopCheck
        \/ \E s \in Sessions : Accept(s)
        \/ AcceptNoMemory
        \/ AcceptTimesOut
        \/ AcceptFails
        \/ StartSession
        \/ StartSessionFails
        \/ SetHandle
        \/ LoopTest
        \/ LoopClose
        \/ LoopReset
        \/ WaitSessions
        \/ DestroyManager

Nobody(s) == \/ NobodyBegin(s)
             \/ NobodyBeginFails(s)
             \/ NobodyLoop(s)
             \/ NobodyJoin(s)
             \/ RemoveSession(s)
             \/ RemoveSessionCrashes(s)
             \/ FreeSession(s)

Client(s) == \/ Command(s)
             \/ Request(s)
             \/ RequestUnanswered(s)
             \/ Leave(s)

Next == Running /\ \/ Main
                   \/ HandlerTest
                   \/ Handler
                   \/ Loop
                   \/ \E s \in Sessions : Nobody(s) \/ PrivateLoop(s) \/ Client(s)

Spec == Init /\ [][Next]_vars

\* The system runs every thread that is not blocked.  Whether the console
\* handler is called, and what the clients send, is their choice.
FairSpec == /\ Spec
            /\ WF_vars(Running /\ Main)
            /\ WF_vars(Running /\ Handler)
            /\ WF_vars(Running /\ Loop)
            /\ \A s \in Sessions : /\ WF_vars(Running /\ Nobody(s))
                                   /\ WF_vars(Running /\ PrivateLoop(s))

-----------------------------------------------------------------------------
(***************************************************************************)
(* Properties.                                                             *)
(***************************************************************************)

\* The threads of session s that may still touch it.
NobodyAlive(s) == nPc[s] \in {"begin", "loop", "recv", "join", "remove", "free"}
PrivateAlive(s) == pPc[s] \in {"loop", "readline", "stuck"}

\* The accept loop has been left.
Left == {"test", "close", "reset", "dump", "wait", "done"}

TypeOK ==
    /\ quit \in BOOLEAN /\ t \in BOOLEAN
    /\ mPc \in {"sleep", "wait", "returned", "crashed"}
    /\ hPc \in {"idle", "close", "reset", "quit", "done"}
    /\ lPc \in {"init", "listen", "loop", "accept", "start", "handle"} \cup Left
    /\ {listen_fd, hFd, lFd} \subseteq Handles \cup {Zero, NoFd}
    /\ cur \in Sessions \cup {"nobody"}
    /\ owner \in [Handles -> Sessions \cup {"nobody", "server"}]
    /\ manager \in {"none", "live", "destroyed"}
    /\ entries \in Nat
    /\ waitFor \subseteq Sessions
    /\ mem \in [Sessions -> {"none", "live", "freed"}]
    /\ fds \in [Sessions -> SUBSET Handles]
    /\ nPc \in [Sessions -> {"none", "begin", "loop", "recv", "join",
                             "remove", "free", "done"}]
    /\ pPc \in [Sessions -> {"none", "loop", "readline", "stuck", "done"}]

\* A Session_t lives as long as either of its threads may touch it
\* (session_thread waits for the private thread before session_free).
SessionOutlivesThreads ==
    \A s \in Sessions : NobodyAlive(s) \/ PrivateAlive(s) => mem[s] = "live"

\* Why that is so, and why the next property holds: in which order the two
\* threads of a session and its memory come and go, and what loop_thread knows
\* of the session it is starting.
LifeOf(s) ==
    /\ NobodyAlive(s) => mem[s] = "live"
    /\ PrivateAlive(s) => nPc[s] \in {"loop", "recv", "join"}
    /\ nPc[s] \in {"none", "begin"} => pPc[s] = "none"
    /\ mem[s] = "none" => nPc[s] = "none"
    /\ mem[s] = "freed" => nPc[s] \in {"none", "done"}
    /\ pPc[s] # "none" /\ nPc[s] \in {"join", "remove", "free", "done"} => quit

LifeInv ==
    /\ \A s \in Sessions : LifeOf(s)
    /\ lPc \in {"start", "handle"} => cur \in Sessions
    /\ lPc = "start" => mem[cur] = "live" /\ nPc[cur] = "none"
    /\ lPc = "handle" => nPc[cur] # "none"

\* loop_thread stores the thread handle in a session that is already freed
\* only if its thread could not start a private thread, or if quit was set
\* after the loop last looked (main.c:230-234).
HandleStoreExplained ==
    lPc = "handle" /\ mem[cur] = "freed" => quit \/ pPc[cur] = "none"

\* wait_sessions hardly ever waits, so that a session may be left in
\* remove_session with a registry that is destroyed: any session that it did
\* not wait for, once the server shuts down, and before that, when the accept
\* loop gave up by itself, only one whose private thread never started; a
\* session that serves a client, or has lost it, is not yet there.
RegistryUseExplained ==
    \A s \in Sessions :
        manager = "destroyed" /\ nPc[s] = "remove" =>
            s \notin waitFor /\ (quit \/ pPc[s] = "none")

\* A socket of a session is closed behind its back.
ForeignClose ==
    \E s \in Sessions : \E h \in fds[s] \cap fds'[s] :
        owner[h] = s /\ owner'[h] = "nobody"

\* That happens only because exit_loop and loop_thread both run
\* s_close(&listen_fd) (main.c:77-88), which is not atomic.
ForeignCloseIsTheRace == [][ForeignClose => hPc # "idle" /\ lPc \in Left]_vars

\* Once the accept loop is left nothing listens any more, unless exit_loop
\* looked at listen_fd before tcp_server had set it.
ListenerClosed ==
    lPc \in {"dump", "wait", "done"} =>
        hFd = Zero \/ \A h \in Handles : owner[h] # "server"

\* The accept loop waits for a session that has not ended.
Awaiting == lPc = "wait" /\ \E s \in waitFor : nPc[s] # "done"

\* After exit_loop the process ends, whatever state the accept loop was in,
\* unless the wait for the sessions really waits.
ShutdownEnds == hPc = "done" ~> ~Running \/ Awaiting
=============================================================================
