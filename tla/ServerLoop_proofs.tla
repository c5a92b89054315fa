--------------------------- MODULE ServerLoop_proofs ---------------------------
(***************************************************************************)
(* Theorems about ServerLoop, for any number of sessions and handles and   *)
(* whatever fails.  TypeOK and LifeInv together are inductive; relative to *)
(* them, so are ListenInv, AwaitedInv and RaceInv.                         *)
(***************************************************************************)
EXTENDS ServerLoop, TLAPS

\* A step of the main thread or of the console handler.
LEMMA MainType == TypeOK /\ (Main \/ HandlerTest \/ Handler) => TypeOK'
<1> SUFFICES ASSUME TypeOK, Main \/ HandlerTest \/ Handler PROVE TypeOK'
  OBVIOUS
<1> USE DEF TypeOK, Left, NoFd, Zero
<1>1. CASE Main
  BY <1>1 DEF Main, MainPoll, MainReturn, handlerVars, loopVars, sessionVars
<1>2. CASE HandlerTest
  BY <1>2 DEF HandlerTest, loopVars, sessionVars
<1>3. CASE HandlerClose
  BY <1>3 DEF HandlerClose, Close, loopVars, sessionVars
<1>4. CASE HandlerReset
  BY <1>4 DEF HandlerReset, loopVars, sessionVars
<1>5. CASE HandlerQuit
  BY <1>5 DEF HandlerQuit, loopVars, sessionVars
<1> QED
  BY <1>1, <1>2, <1>3, <1>4, <1>5 DEF Handler

\* A step of the accept loop.
LEMMA LoopType == TypeOK /\ LifeInv /\ Loop => TypeOK'
<1> SUFFICES ASSUME TypeOK, LifeInv, Loop PROVE TypeOK'
  OBVIOUS
<1> USE DEF TypeOK, Left, NoFd, Zero, handlerVars, sessionVars
<1>1. CASE LoopInit
  BY <1>1 DEF LoopInit
<1>2. CASE LoopListen
  BY <1>2 DEF LoopListen, FreeHandles
<1>3. CASE LoopCheck
  BY <1>3 DEF LoopCheck
<1>4. ASSUME NEW s \in Sessions, Accept(s) PROVE TypeOK'
  <2>1. PICK h \in FreeHandles : /\ owner' = [owner EXCEPT ![h] = s]
                                 /\ fds' = [fds EXCEPT ![s] = {h}]
    BY <1>4 DEF Accept
  <2>2. h \in Handles
    BY DEF FreeHandles
  <2>3. owner' \in [Handles -> Sessions \cup {"nobody", "server"}]
        /\ fds' \in [Sessions -> SUBSET Handles]
    BY <2>1, <2>2
  <2>4. /\ mem' \in [Sessions -> {"none", "live", "freed"}]
        /\ entries' \in Nat /\ cur' \in Sessions /\ lPc' = "start"
        /\ UNCHANGED <<mPc, listen_fd, lFd, t, manager, waitFor, nPc, pPc,
                       quit, hPc, hFd>>
    BY <1>4 DEF Accept
  <2> QED
    BY <2>3, <2>4
<1>5. CASE AcceptNoMemory \/ AcceptTimesOut \/ AcceptFails
  <2>1. t' \in BOOLEAN /\ lPc' \in {"loop", "test"}
    BY <1>5 DEF AcceptNoMemory, AcceptTimesOut, AcceptFails
  <2>2. /\ UNCHANGED <<mPc, listen_fd, lFd, cur, owner, manager, entries, waitFor>>
        /\ UNCHANGED handlerVars /\ UNCHANGED sessionVars
    BY <1>5 DEF AcceptNoMemory, AcceptTimesOut, AcceptFails
  <2> QED
    BY <2>1, <2>2
<1>6. CASE StartSession
  BY <1>6 DEF StartSession
<1>7. CASE StartSessionFails
  BY <1>7 DEF StartSessionFails, Close
<1>8. CASE SetHandle \/ LoopTest \/ LoopReset
  BY <1>8 DEF SetHandle, LoopTest, LoopReset
<1>9. CASE LoopClose
  BY <1>9 DEF LoopClose, Close
<1>10. CASE WaitSessions
  BY <1>10 DEF WaitSessions
<1>11. CASE DestroyManager
  BY <1>11 DEF DestroyManager
<1> QED
  BY <1>1, <1>2, <1>3, <1>4, <1>5, <1>6, <1>7, <1>8, <1>9, <1>10, <1>11 DEF Loop

\* A step of one of the threads of a session.
LEMMA SessionType ==
  ASSUME TypeOK, NEW s \in Sessions, Nobody(s) \/ PrivateLoop(s) \/ Client(s)
  PROVE  TypeOK'
<1> USE DEF TypeOK, Left, NoFd, Zero, serverVars
<1>1. CASE NobodyBegin(s)
  BY <1>1 DEF NobodyBegin
<1>2. CASE NobodyBeginFails(s) \/ NobodyLoop(s) \/ NobodyJoin(s) \/ RemoveSession(s)
  BY <1>2 DEF NobodyBeginFails, NobodyLoop, NobodyJoin, RemoveSession
<1>3. CASE RemoveSessionCrashes(s)
  BY <1>3 DEF RemoveSessionCrashes, handlerVars, loopVars, sessionVars
<1>4. CASE FreeSession(s)
  BY <1>4 DEF FreeSession, Close
<1>5. CASE PrivateLoop(s) \/ Command(s) \/ RequestUnanswered(s) \/ Leave(s)
  BY <1>5 DEF PrivateLoop, Command, RequestUnanswered, Leave
<1>6. CASE Request(s)
  BY <1>6 DEF Request, Close, FreeHandles
<1> QED
  BY <1>1, <1>2, <1>3, <1>4, <1>5, <1>6 DEF Nobody, Client

-----------------------------------------------------------------------------
\* The main thread and the console handler touch no session; quit is never
\* reset.
LEMMA MainLife == TypeOK /\ LifeInv /\ (Main \/ HandlerTest \/ Handler) => LifeInv'
<1> SUFFICES ASSUME TypeOK, LifeInv, Main \/ HandlerTest \/ Handler PROVE LifeInv'
  OBVIOUS
<1>1. /\ UNCHANGED <<mem, nPc, pPc, lPc, cur>> /\ (quit => quit')
  BY DEF Main, Handler, MainPoll, MainReturn, HandlerTest, HandlerClose,
     HandlerReset, HandlerQuit, handlerVars, loopVars, sessionVars
<1> QED
  BY <1>1 DEF LifeInv, LifeOf, NobodyAlive, PrivateAlive

\* The accept loop allocates a session, starts its thread, or frees it.
LEMMA LoopLife == TypeOK /\ LifeInv /\ Loop => LifeInv'
<1> SUFFICES ASSUME TypeOK, LifeInv, Loop PROVE LifeInv'
  OBVIOUS
<1> USE DEF TypeOK, LifeInv, LifeOf, NobodyAlive, PrivateAlive, handlerVars,
            sessionVars
<1>1. CASE LoopInit \/ LoopListen \/ LoopCheck \/ AcceptNoMemory
          \/ AcceptTimesOut \/ AcceptFails
  <2>1. /\ UNCHANGED <<mem, nPc, pPc, cur, quit>>
        /\ lPc' \notin {"start", "handle"}
    BY <1>1 DEF LoopInit, LoopListen, LoopCheck, AcceptNoMemory,
         AcceptTimesOut, AcceptFails
  <2> QED
    BY <2>1
<1>2. CASE SetHandle \/ LoopTest \/ LoopClose \/ LoopReset \/ WaitSessions
          \/ DestroyManager
  <2>1. /\ UNCHANGED <<mem, nPc, pPc, cur, quit>>
        /\ lPc' \notin {"start", "handle"}
    BY <1>2 DEF SetHandle, LoopTest, LoopClose, LoopReset, WaitSessions,
         DestroyManager
  <2> QED
    BY <2>1
<1>3. ASSUME NEW s \in Sessions, Accept(s) PROVE LifeInv'
  <2>1. /\ mem[s] = "none" /\ mem' = [mem EXCEPT ![s] = "live"]
        /\ UNCHANGED <<nPc, pPc, quit>> /\ cur' = s /\ lPc' = "start"
    BY <1>3 DEF Accept
  <2> QED
    BY <2>1
<1>4. CASE StartSession
  <2>1. /\ lPc = "start" /\ nPc' = [nPc EXCEPT ![cur] = "begin"]
        /\ UNCHANGED <<mem, pPc, quit, cur>> /\ lPc' = "handle"
    BY <1>4 DEF StartSession
  <2> QED
    BY <2>1
<1>5. CASE StartSessionFails
  <2>1. /\ lPc = "start" /\ mem' = [mem EXCEPT ![cur] = "freed"]
        /\ UNCHANGED <<nPc, pPc, quit, cur>> /\ lPc' = "test"
    BY <1>5 DEF StartSessionFails
  <2> QED
    BY <2>1
<1> QED
  BY <1>1, <1>2, <1>3, <1>4, <1>5 DEF Loop

\* The threads of a session leave in order, and the last one frees it.
LEMMA SessionLife ==
  ASSUME TypeOK, LifeInv, NEW s \in Sessions,
         Nobody(s) \/ PrivateLoop(s) \/ Client(s)
  PROVE  LifeInv'
<1> USE DEF TypeOK, LifeInv, LifeOf, NobodyAlive, PrivateAlive, serverVars
<1>1. CASE NobodyBegin(s)
  BY <1>1 DEF NobodyBegin
<1>2. CASE NobodyBeginFails(s)
  <2>1. /\ nPc[s] = "begin" /\ nPc' = [nPc EXCEPT ![s] = "remove"]
        /\ UNCHANGED <<mem, pPc, quit, lPc, cur>>
    BY <1>2 DEF NobodyBeginFails
  <2> QED
    BY <2>1
<1>3. CASE NobodyLoop(s)
  BY <1>3 DEF NobodyLoop
<1>4. CASE NobodyJoin(s)
  BY <1>4 DEF NobodyJoin
<1>5. CASE RemoveSession(s)
  BY <1>5 DEF RemoveSession
<1>6. CASE RemoveSessionCrashes(s)
  BY <1>6 DEF RemoveSessionCrashes, handlerVars, loopVars, sessionVars
<1>7. CASE FreeSession(s)
  BY <1>7 DEF FreeSession
<1>8. CASE PrivateLoop(s)
  BY <1>8 DEF PrivateLoop
<1>9. CASE Command(s) \/ RequestUnanswered(s) \/ Leave(s)
  BY <1>9 DEF Command, RequestUnanswered, Leave
<1>10. CASE Request(s)
  <2>1. /\ pPc[s] = "readline" /\ nPc[s] = "recv"
        /\ nPc' = [nPc EXCEPT ![s] = "loop"] /\ pPc' = [pPc EXCEPT ![s] = "loop"]
        /\ UNCHANGED <<mem, quit, lPc, cur>>
    BY <1>10 DEF Request
  <2> QED
    BY <2>1
<1> QED
  BY <1>1, <1>2, <1>3, <1>4, <1>5, <1>6, <1>7, <1>8, <1>9, <1>10
     DEF Nobody, Client

-----------------------------------------------------------------------------
\* Types and the life of every session, whatever fails and whenever the
\* console handler runs.
THEOREM LifeCorrect == Spec => [](TypeOK /\ LifeInv)
<1>1. Init => TypeOK /\ LifeInv
  <2> SUFFICES ASSUME Init PROVE TypeOK /\ LifeInv
    OBVIOUS
  <2>1. /\ owner \in [Handles -> Sessions \cup {"nobody", "server"}]
        /\ mem \in [Sessions -> {"none", "live", "freed"}]
        /\ fds \in [Sessions -> SUBSET Handles]
    BY DEF Init
  <2>2. TypeOK
    BY <2>1 DEF Init, TypeOK, Left, NoFd, Zero
  <2>3. LifeInv
    BY DEF Init, LifeInv, LifeOf, NobodyAlive, PrivateAlive
  <2> QED
    BY <2>2, <2>3
<1>2. TypeOK /\ LifeInv /\ [Next]_vars => (TypeOK /\ LifeInv)'
  <2> SUFFICES ASSUME TypeOK, LifeInv, [Next]_vars PROVE (TypeOK /\ LifeInv)'
    OBVIOUS
  <2>1. CASE Main \/ HandlerTest \/ Handler
    BY <2>1, MainType, MainLife
  <2>2. CASE Loop
    BY <2>2, LoopType, LoopLife
  <2>3. ASSUME NEW s \in Sessions, Nobody(s) \/ PrivateLoop(s) \/ Client(s)
        PROVE  (TypeOK /\ LifeInv)'
    BY <2>3, SessionType, SessionLife
  <2>4. CASE UNCHANGED vars
    BY <2>4 DEF vars, TypeOK, LifeInv, LifeOf, NobodyAlive, PrivateAlive
  <2> QED
    BY <2>1, <2>2, <2>3, <2>4 DEF Next
<1> QED
  BY <1>1, <1>2, PTL DEF Spec

\* session_free never runs while a thread of the session may still touch it.
THEOREM SessionOutlivesThreadsCorrect == Spec => []SessionOutlivesThreads
<1>1. TypeOK /\ LifeInv => SessionOutlivesThreads
  BY DEF LifeInv, LifeOf, NobodyAlive, PrivateAlive, SessionOutlivesThreads
<1> QED
  BY <1>1, LifeCorrect, PTL

\* loop_thread stores a handle in freed memory only during shutdown or when
\* a private thread could not be started.
THEOREM HandleStoreCorrect == Spec => []HandleStoreExplained
<1>1. TypeOK /\ LifeInv => HandleStoreExplained
  BY DEF LifeInv, LifeOf, HandleStoreExplained
<1> QED
  BY <1>1, LifeCorrect, PTL

\* Every state of the server is well typed.
THEOREM ServerTypeCorrect == Spec => []TypeOK
<1> QED
  BY LifeCorrect, PTL

-----------------------------------------------------------------------------
(***************************************************************************)
(* The listener.  ListenInv says which thread still knows of it: a         *)
(* listening socket is in listen_fd, unless exit_loop missed it.           *)
(***************************************************************************)

\* exit_loop ran before tcp_server had set listen_fd.
Missed == hFd = Zero /\ hPc \in {"quit", "done"}

\* What each thread knows of a listening socket h.
KnownOf(h) ==
    /\ lPc \notin {"init", "listen"}
    /\ listen_fd = h \/ Missed
    /\ hPc = "close" => hFd \in {h, Zero}
    /\ hPc = "reset" => hFd = Zero
    /\ lPc = "close" => listen_fd # h \/ lFd = h
    /\ lPc \in {"reset", "dump", "wait", "done"} => Missed

ListenInv ==
    /\ lPc \in {"init", "listen"} =>
         /\ hPc # "idle" => hFd = Zero
         /\ hPc \in {"idle", "close"} => listen_fd = Zero
    /\ \A h \in Handles : owner[h] = "server" => KnownOf(h)

(***************************************************************************)
(* The sockets of the sessions.  Until exit_loop and loop_thread have both *)
(* begun to close the listener, every socket of a session is its own and   *)
(* what they are about to close listens.                                   *)
(***************************************************************************)
Race == hPc # "idle" /\ lPc \in Left

Listens(f) == f \in Handles => owner[f] = "server"

OwnSockets ==
    /\ \A s \in Sessions : \A h \in fds[s] : owner[h] = s
    /\ /\ hPc \in {"idle", "close"}
       /\ lPc \notin {"reset", "dump", "wait", "done"}
       => Listens(listen_fd)
    /\ hPc = "close" => Listens(hFd)
    /\ lPc = "close" => Listens(lFd)

RaceInv == Race \/ OwnSockets

\* A thread that wait_sessions waited for has ended when the registry goes.
AwaitedInv ==
    manager = "destroyed" =>
        lPc = "done" /\ \A s \in waitFor : nPc[s] = "done"

-----------------------------------------------------------------------------
\* The sentinels are no handles, and no session is the server or nobody.
LEMMA Names ==
  /\ Zero \notin Handles /\ NoFd \notin Handles /\ Zero # NoFd
  /\ "nobody" \notin Sessions /\ "server" \notin Sessions
BY HandlesAssumption, SessionsAssumption DEF Zero, NoFd

\* Only tcp_server makes a socket listen: every other step leaves the owner of
\* a handle alone, gives it to a session or closes it.
LEMMA OnlyLoopListens ==
  ASSUME TypeOK, [Next]_vars, ~LoopListen, NEW h \in Handles,
         owner'[h] = "server"
  PROVE  owner[h] = "server"
<1> USE Names DEF TypeOK
<1>1. CASE Main \/ HandlerTest \/ HandlerReset \/ HandlerQuit
  BY <1>1 DEF Main, MainPoll, MainReturn, HandlerTest, HandlerReset, HandlerQuit
<1>2. CASE HandlerClose \/ LoopClose \/ StartSessionFails
  <2>1. \E H : Close(H)
    BY <1>2 DEF HandlerClose, LoopClose, StartSessionFails
  <2> QED
    BY <2>1 DEF Close
<1>3. ASSUME NEW s \in Sessions, Accept(s)
      PROVE  owner[h] = "server"
  <2>1. PICK k \in FreeHandles : owner' = [owner EXCEPT ![k] = s]
    BY <1>3 DEF Accept
  <2> QED
    BY <1>3, <2>1
<1>4. CASE LoopInit \/ LoopCheck \/ AcceptNoMemory \/ AcceptTimesOut
           \/ AcceptFails \/ StartSession \/ SetHandle \/ LoopTest \/ LoopReset
           \/ WaitSessions \/ DestroyManager
  BY <1>4 DEF LoopInit, LoopCheck, AcceptNoMemory, AcceptTimesOut, AcceptFails,
     StartSession, SetHandle, LoopTest, LoopReset, WaitSessions, DestroyManager
<1>5. ASSUME NEW s \in Sessions, Nobody(s) \/ PrivateLoop(s) \/ Client(s)
      PROVE  owner[h] = "server"
  <2>1. \/ owner' = owner
        \/ \E k \in FreeHandles : owner' = [owner EXCEPT ![k] = s]
        \/ \E H : Close(H)
    BY <1>5 DEF Nobody, Client, NobodyBegin, NobodyBeginFails, NobodyLoop,
       NobodyJoin, RemoveSession, RemoveSessionCrashes, FreeSession,
       PrivateLoop, Command, Request, RequestUnanswered, Leave
  <2> QED
    BY <1>5, <2>1 DEF Close
<1>6. CASE UNCHANGED vars
  BY <1>6 DEF vars
<1> QED
  BY <1>1, <1>2, <1>3, <1>4, <1>5, <1>6 DEF Next, Handler, Loop

\* A step that is neither of the console handler nor of the accept loop
\* changes nothing ListenInv speaks of but owners.
LEMMA SessionsLeaveTheServer ==
  ASSUME NEW s \in Sessions, Nobody(s) \/ PrivateLoop(s) \/ Client(s)
  PROVE  UNCHANGED <<hPc, hFd, lPc, lFd, listen_fd, manager, waitFor, quit>>
BY DEF Nobody, Client, NobodyBegin, NobodyBeginFails, NobodyLoop, NobodyJoin,
   RemoveSession, RemoveSessionCrashes, FreeSession, PrivateLoop, Command,
   Request, RequestUnanswered, Leave, serverVars, handlerVars, loopVars

LEMMA HandlerKeepsListenInv ==
  ASSUME TypeOK, ListenInv, [Next]_vars, HandlerTest \/ Handler
  PROVE  ListenInv'
<1> USE Names DEF TypeOK, ListenInv, KnownOf, Missed, Left
<1>0. UNCHANGED lPc /\ UNCHANGED lFd
  BY DEF Handler, HandlerTest, HandlerClose, HandlerReset, HandlerQuit, loopVars
<1>1. ~LoopListen
  BY <1>0 DEF LoopListen
<1>2. \A h \in Handles : owner'[h] = "server" => owner[h] = "server"
  BY <1>1, OnlyLoopListens
<1>3. CASE HandlerTest
  BY <1>0, <1>2, <1>3 DEF HandlerTest
<1>4. CASE HandlerClose
  <2>1. PICK f \in {hFd, listen_fd} : Close({f}) /\ hFd' = f
    BY <1>4 DEF HandlerClose
  <2>2. \A h \in Handles : owner'[h] = "server" => h # f
    BY <2>1 DEF Close
  <2>3. hPc = "close" /\ hPc' = "reset" /\ UNCHANGED listen_fd
    BY <1>4 DEF HandlerClose
  <2> QED
    BY <1>0, <1>2, <2>1, <2>2, <2>3
<1>5. CASE HandlerReset
  BY <1>0, <1>2, <1>5 DEF HandlerReset
<1>6. CASE HandlerQuit
  BY <1>0, <1>2, <1>6 DEF HandlerQuit
<1> QED
  BY <1>3, <1>4, <1>5, <1>6 DEF Handler

LEMMA LoopKeepsListenInv ==
  ASSUME TypeOK, ListenInv, [Next]_vars, Loop
  PROVE  ListenInv'
<1> USE Names DEF TypeOK, ListenInv, KnownOf, Missed, Left
<1>0. UNCHANGED <<hPc, hFd>>
  BY DEF Loop, LoopInit, LoopListen, LoopCheck, Accept, AcceptNoMemory,
     AcceptTimesOut, AcceptFails, StartSession, StartSessionFails, SetHandle,
     LoopTest, LoopClose, LoopReset, WaitSessions, DestroyManager, handlerVars
<1>1. CASE LoopListen
  <2>1. \A h \in Handles : owner[h] # "server"
    BY <1>1 DEF LoopListen
  <2>2. \A h \in Handles : owner'[h] = "server" => listen_fd' = h
    BY <1>1, <2>1 DEF LoopListen, FreeHandles
  <2>3. lPc = "listen" /\ lPc' = "loop"
    BY <1>1 DEF LoopListen
  <2> QED
    BY <1>0, <2>2, <2>3
<1> SUFFICES ASSUME ~LoopListen PROVE ListenInv'
  BY <1>1
<1>2. \A h \in Handles : owner'[h] = "server" => owner[h] = "server"
  BY OnlyLoopListens
<1>3. CASE LoopInit
  BY <1>0, <1>2, <1>3 DEF LoopInit
<1>4. CASE \/ LoopCheck \/ \E s \in Sessions : Accept(s)
           \/ AcceptNoMemory \/ AcceptTimesOut \/ AcceptFails
           \/ StartSession \/ StartSessionFails \/ SetHandle
  <2>1. /\ lPc \notin {"init", "listen"} /\ UNCHANGED listen_fd
        /\ lPc' \in {"accept", "start", "handle", "loop", "test"}
    BY <1>4 DEF LoopCheck, Accept, AcceptNoMemory, AcceptTimesOut, AcceptFails,
       StartSession, StartSessionFails, SetHandle
  <2> QED
    BY <1>0, <1>2, <2>1
<1>5. CASE LoopTest
  BY <1>0, <1>2, <1>5 DEF LoopTest
<1>6. CASE LoopClose
  <2>1. PICK f \in {lFd, listen_fd} : Close({f}) /\ lFd' = f
    BY <1>6 DEF LoopClose
  <2>2. \A h \in Handles : owner'[h] = "server" => h # f
    BY <2>1 DEF Close
  <2>3. lPc = "close" /\ lPc' = "reset" /\ UNCHANGED listen_fd
    BY <1>6 DEF LoopClose
  <2> QED
    BY <1>0, <1>2, <2>1, <2>2, <2>3
<1>7. CASE LoopReset
  BY <1>0, <1>2, <1>7 DEF LoopReset
<1>8. CASE WaitSessions \/ DestroyManager
  BY <1>0, <1>2, <1>8 DEF WaitSessions, DestroyManager
<1> QED
  BY <1>3, <1>4, <1>5, <1>6, <1>7, <1>8 DEF Loop

\* Once the accept loop is left nothing listens, unless exit_loop looked at
\* listen_fd too early: for any number of handles, whatever fails.
THEOREM ListenerClosedCorrect == Spec => []ListenerClosed
<1>1. Init => ListenInv
  BY Names DEF Init, ListenInv, KnownOf
<1>2. TypeOK /\ ListenInv /\ [Next]_vars => ListenInv'
  <2> SUFFICES ASSUME TypeOK, ListenInv, [Next]_vars PROVE ListenInv'
    OBVIOUS
  <2>1. CASE Main \/ UNCHANGED vars
    BY <2>1 DEF Main, MainPoll, MainReturn, vars, handlerVars, loopVars,
       ListenInv, KnownOf, Missed
  <2>2. CASE HandlerTest \/ Handler
    BY <2>2, HandlerKeepsListenInv
  <2>3. CASE Loop
    BY <2>3, LoopKeepsListenInv
  <2>4. ASSUME NEW s \in Sessions, Nobody(s) \/ PrivateLoop(s) \/ Client(s)
        PROVE  ListenInv'
    <3>1. UNCHANGED <<hPc, hFd, lPc, lFd, listen_fd>>
      BY <2>4, SessionsLeaveTheServer
    <3>2. CASE ~LoopListen
      <4>1. \A h \in Handles : owner'[h] = "server" => owner[h] = "server"
        BY <3>2, OnlyLoopListens
      <4> QED
        BY <3>1, <4>1 DEF ListenInv, KnownOf, Missed
    <3>3. CASE LoopListen
      BY <3>1, <3>3 DEF LoopListen
    <3> QED
      BY <3>2, <3>3
  <2> QED
    BY <2>1, <2>2, <2>3, <2>4 DEF Next
<1>3. ListenInv => ListenerClosed
  BY DEF ListenInv, KnownOf, Missed, ListenerClosed
<1> QED
  BY <1>1, <1>2, <1>3, ServerTypeCorrect, PTL DEF Spec

-----------------------------------------------------------------------------
\* A session meets the destroyed registry only if it was not waited for, and
\* before the shutdown only if its private thread never started: nothing undoes
\* the end of a thread that was waited for (AwaitedInv), and no other thread of
\* a session leaves before quit is set (LifeInv).
THEOREM RegistryUseCorrect == Spec => []RegistryUseExplained
<1>1. Init => AwaitedInv
  BY DEF Init, AwaitedInv
<1>2. TypeOK /\ LifeInv /\ AwaitedInv /\ [Next]_vars => AwaitedInv'
  <2> SUFFICES ASSUME TypeOK, LifeInv, AwaitedInv, [Next]_vars PROVE AwaitedInv'
    OBVIOUS
  <2> USE DEF TypeOK, AwaitedInv
  <2>1. CASE Main \/ HandlerTest \/ Handler \/ UNCHANGED vars
    BY <2>1 DEF Main, Handler, MainPoll, MainReturn, HandlerTest, HandlerClose,
       HandlerReset, HandlerQuit, vars, loopVars, sessionVars
  <2>2. CASE Loop
    <3>1. lPc # "done"
      BY <2>2 DEF Loop, LoopInit, LoopListen, LoopCheck, Accept, AcceptNoMemory,
         AcceptTimesOut, AcceptFails, StartSession, StartSessionFails,
         SetHandle, LoopTest, LoopClose, LoopReset, WaitSessions, DestroyManager
    <3>2. CASE DestroyManager
      BY <3>2 DEF DestroyManager, sessionVars
    <3>3. CASE ~DestroyManager
      <4>1. manager' = "destroyed" => manager = "destroyed"
        BY <2>2, <3>3 DEF Loop, LoopInit, LoopListen, LoopCheck, Accept,
           AcceptNoMemory, AcceptTimesOut, AcceptFails, StartSession,
           StartSessionFails, SetHandle, LoopTest, LoopClose, LoopReset,
           WaitSessions
      <4> QED
        BY <3>1, <4>1
    <3> QED
      BY <3>2, <3>3
  <2>3. ASSUME NEW s \in Sessions, Nobody(s) \/ PrivateLoop(s) \/ Client(s)
        PROVE  AwaitedInv'
    <3>1. UNCHANGED <<lPc, manager, waitFor>>
      BY <2>3, SessionsLeaveTheServer
    <3>2. \A r \in Sessions : nPc[r] = "done" => nPc'[r] = "done"
      BY <2>3 DEF Nobody, Client, NobodyBegin, NobodyBeginFails, NobodyLoop,
         NobodyJoin, RemoveSession, RemoveSessionCrashes, FreeSession,
         PrivateLoop, Command, Request, RequestUnanswered, Leave, sessionVars
    <3> QED
      BY <3>1, <3>2
  <2> QED
    BY <2>1, <2>2, <2>3 DEF Next
<1>3. TypeOK /\ LifeInv /\ AwaitedInv => RegistryUseExplained
  BY DEF LifeInv, LifeOf, AwaitedInv, RegistryUseExplained
<1> QED
  BY <1>1, <1>2, <1>3, LifeCorrect, PTL DEF Spec

-----------------------------------------------------------------------------
\* A session is given a free handle; or closes some of its own.
Opens(s) ==
    \E h \in FreeHandles : \E F \in SUBSET fds[s] :
        /\ owner' = [owner EXCEPT ![h] = s]
        /\ fds' = [fds EXCEPT ![s] = F \cup {h}]
Closes(s) ==
    \E H \in SUBSET fds[s] : Close(H) /\ fds' = [fds EXCEPT ![s] = @ \ H]

\* Neither takes a socket from another session or from the accept loop.
LEMMA OwnSteps ==
  ASSUME TypeOK, OwnSockets, NEW s \in Sessions, Opens(s) \/ Closes(s)
  PROVE  /\ \A r \in Sessions : \A h \in fds'[r] : owner'[h] = r
         /\ ~ForeignClose
         /\ \A h \in Handles : owner[h] = "server" => owner'[h] = "server"
<1> USE Names DEF TypeOK
<1>0. \A r \in Sessions : fds[r] \subseteq Handles /\ \A h \in fds[r] : owner[h] = r
  BY DEF OwnSockets
<1>1. CASE Opens(s)
  <2>1. PICK h \in FreeHandles, F \in SUBSET fds[s] :
           /\ owner' = [owner EXCEPT ![h] = s]
           /\ fds' = [fds EXCEPT ![s] = F \cup {h}]
    BY <1>1 DEF Opens
  <2>2. h \in Handles /\ owner[h] = "nobody"
    BY DEF FreeHandles
  <2>3. \A r \in Sessions : \A k \in fds'[r] : owner'[k] = r
    BY <1>0, <2>1, <2>2
  <2>4. ~ForeignClose
    BY <1>0, <2>1, <2>2 DEF ForeignClose
  <2>5. \A k \in Handles : owner[k] = "server" => owner'[k] = "server"
    BY <2>1, <2>2
  <2> QED
    BY <2>3, <2>4, <2>5
<1>2. CASE Closes(s)
  <2>1. PICK H \in SUBSET fds[s] :
           Close(H) /\ fds' = [fds EXCEPT ![s] = @ \ H]
    BY <1>2 DEF Closes
  <2>2. \A h \in H : h \in Handles /\ owner[h] = s
    BY <1>0
  <2>3. /\ \A h \in Handles : h \notin H => owner'[h] = owner[h]
        /\ fds'[s] = fds[s] \ H
        /\ \A r \in Sessions \ {s} : fds'[r] = fds[r]
    BY <2>1 DEF Close
  <2>4. \A r \in Sessions : fds'[r] \cap H = {}
    BY <1>0, <2>2, <2>3
  <2>5. \A r \in Sessions : \A k \in fds'[r] : owner'[k] = r
    BY <1>0, <2>3, <2>4
  <2>6. ~ForeignClose
    BY <2>5 DEF ForeignClose
  <2>7. \A k \in Handles : owner[k] = "server" => owner'[k] = "server"
    BY <2>2, <2>3
  <2> QED
    BY <2>5, <2>6, <2>7
<1> QED
  BY <1>1, <1>2

\* Closing a handle that no session holds.
LEMMA ClosingTheListener ==
  ASSUME TypeOK, OwnSockets, NEW f, Listens(f), f \in Handles \cup {Zero, NoFd},
         Close({f}), UNCHANGED fds
  PROVE  /\ \A r \in Sessions : \A h \in fds'[r] : owner'[h] = r
         /\ ~ForeignClose
<1> USE Names DEF TypeOK
<1>1. \A r \in Sessions : fds[r] \subseteq Handles /\ \A h \in fds[r] : owner[h] = r
  BY DEF OwnSockets
<1>2. \A r \in Sessions : f \notin fds[r]
  BY <1>1 DEF Listens
<1>3. \A r \in Sessions : \A h \in fds'[r] : owner'[h] = r
  BY <1>1, <1>2 DEF Close
<1> QED
  BY <1>3 DEF ForeignClose

\* Once it has begun, the race goes on.
LEMMA RaceStays == ASSUME Race, [Next]_vars PROVE Race'
<1> USE DEF Race, Left
<1>1. CASE Main \/ UNCHANGED vars
  BY <1>1 DEF Main, MainPoll, MainReturn, vars, handlerVars, loopVars
<1>2. CASE HandlerTest \/ Handler
  BY <1>2 DEF Handler, HandlerTest, HandlerClose, HandlerReset, HandlerQuit,
     loopVars
<1>3. CASE Loop
  BY <1>3 DEF Loop, LoopInit, LoopListen, LoopCheck, Accept, AcceptNoMemory,
     AcceptTimesOut, AcceptFails, StartSession, StartSessionFails, SetHandle,
     LoopTest, LoopClose, LoopReset, WaitSessions, DestroyManager, handlerVars
<1>4. ASSUME NEW s \in Sessions, Nobody(s) \/ PrivateLoop(s) \/ Client(s)
      PROVE  Race'
  BY <1>4, SessionsLeaveTheServer
<1> QED
  BY <1>1, <1>2, <1>3, <1>4 DEF Next

\* Until then every socket stays with its session.
LEMMA HandlerRespects ==
  ASSUME TypeOK, OwnSockets, ~Race, HandlerTest \/ Handler
  PROVE  RaceInv' /\ ~ForeignClose
<1> USE DEF TypeOK
<1>0. UNCHANGED <<lPc, lFd, fds>>
  BY DEF Handler, HandlerTest, HandlerClose, HandlerReset, HandlerQuit,
     loopVars, sessionVars
<1>1. CASE HandlerClose
  <2>1. PICK f \in {hFd, listen_fd} : Close({f}) /\ hFd' = f
    BY <1>1 DEF HandlerClose
  <2>2. hPc = "close" /\ hPc' = "reset" /\ lPc \notin Left
    BY <1>1 DEF HandlerClose, Race
  <2>3. Listens(f)
    BY <2>1, <2>2 DEF OwnSockets, Left
  <2>4. /\ \A r \in Sessions : \A h \in fds'[r] : owner'[h] = r
        /\ ~ForeignClose
    BY <1>0, <2>1, <2>3, ClosingTheListener
  <2> QED
    BY <1>0, <2>2, <2>4 DEF RaceInv, OwnSockets, Left
<1>2. CASE HandlerTest
  <2>1. UNCHANGED owner /\ UNCHANGED listen_fd /\ hFd' = listen_fd
        /\ hPc = "idle" /\ hPc' \in {"close", "quit"}
    BY <1>2 DEF HandlerTest
  <2>2. ~ForeignClose
    BY <2>1, Names DEF ForeignClose
  <2> QED
    BY <1>0, <2>1, <2>2 DEF RaceInv, Race, OwnSockets, Listens, Left
<1>3. CASE HandlerReset \/ HandlerQuit
  <2>1. UNCHANGED owner /\ hPc' \in {"quit", "done"} /\ lPc \notin Left
    BY <1>3 DEF HandlerReset, HandlerQuit, Race
  <2>2. ~ForeignClose
    BY <2>1, Names DEF ForeignClose
  <2> QED
    BY <1>0, <2>1, <2>2 DEF RaceInv, OwnSockets, Left
<1> QED
  BY <1>1, <1>2, <1>3 DEF Handler

LEMMA LoopRespects ==
  ASSUME TypeOK, LifeInv, OwnSockets, ~Race, Loop
  PROVE  RaceInv' /\ ~ForeignClose
<1> USE DEF TypeOK
<1>0. UNCHANGED <<hPc, hFd>>
  BY DEF Loop, LoopInit, LoopListen, LoopCheck, Accept, AcceptNoMemory,
     AcceptTimesOut, AcceptFails, StartSession, StartSessionFails, SetHandle,
     LoopTest, LoopClose, LoopReset, WaitSessions, DestroyManager, handlerVars
<1>1. CASE LoopClose
  <2>1. PICK f \in {lFd, listen_fd} : Close({f}) /\ lFd' = f
    BY <1>1 DEF LoopClose
  <2>2. lPc = "close" /\ lPc' = "reset" /\ hPc = "idle" /\ UNCHANGED fds
    BY <1>1 DEF LoopClose, Race, Left, sessionVars
  <2>3. Listens(f)
    BY <2>1, <2>2 DEF OwnSockets
  <2>4. /\ \A r \in Sessions : \A h \in fds'[r] : owner'[h] = r
        /\ ~ForeignClose
    BY <2>1, <2>2, <2>3, ClosingTheListener
  <2> QED
    BY <1>0, <2>2, <2>4 DEF RaceInv, OwnSockets
<1>2. CASE LoopListen
  <2>1. UNCHANGED fds /\ lPc' = "loop"
    BY <1>2 DEF LoopListen, sessionVars
  <2>2. \A h \in Handles : owner[h] # "nobody" => owner'[h] = owner[h]
    BY <1>2 DEF LoopListen, FreeHandles
  <2>3. Listens(listen_fd)'
    BY <1>2, Names DEF LoopListen, Listens, FreeHandles
  <2>4. \A r \in Sessions : \A h \in fds'[r] : owner'[h] = r
    BY <2>1, <2>2, Names DEF OwnSockets
  <2>5. ~ForeignClose
    BY <2>4, Names DEF ForeignClose
  <2>6. hPc' = "close" => Listens(hFd)'
    BY <1>0, <2>2 DEF OwnSockets, Listens
  <2> QED
    BY <2>1, <2>3, <2>4, <2>5, <2>6 DEF RaceInv, OwnSockets
<1>3. ASSUME NEW s \in Sessions, Accept(s) \/ (StartSessionFails /\ s = cur)
      PROVE  RaceInv' /\ ~ForeignClose
  <2>1. Opens(s) \/ Closes(s)
    <3>1. CASE Accept(s)
      <4>1. PICK h \in FreeHandles : /\ owner' = [owner EXCEPT ![h] = s]
                                     /\ fds' = [fds EXCEPT ![s] = {h}]
        BY <3>1 DEF Accept
      <4>2. {} \in SUBSET fds[s] /\ fds' = [fds EXCEPT ![s] = {} \cup {h}]
        BY <4>1
      <4> QED
        BY <4>1, <4>2 DEF Opens
    <3>2. CASE StartSessionFails /\ s = cur
      <4>1. Close(fds[s]) /\ fds' = [fds EXCEPT ![s] = fds[s] \ fds[s]]
        BY <3>2 DEF StartSessionFails
      <4> QED
        BY <4>1 DEF Closes
    <3> QED
      BY <1>3, <3>1, <3>2
  <2>2. /\ lPc \notin Left /\ lPc' \in {"start", "test"}
        /\ UNCHANGED <<listen_fd, lFd>>
    BY <1>3 DEF Accept, StartSessionFails, Left
  <2>3. /\ \A r \in Sessions : \A h \in fds'[r] : owner'[h] = r
        /\ ~ForeignClose
        /\ \A h \in Handles : owner[h] = "server" => owner'[h] = "server"
    BY <2>1, OwnSteps
  <2> QED
    BY <1>0, <2>2, <2>3 DEF RaceInv, OwnSockets, Listens, Left
<1>4. CASE \/ LoopInit \/ LoopCheck \/ AcceptNoMemory \/ AcceptTimesOut
           \/ AcceptFails \/ StartSession \/ SetHandle
           \/ LoopTest \/ LoopReset \/ WaitSessions \/ DestroyManager
  <2>1. UNCHANGED <<owner, fds>>
    BY <1>4 DEF LoopInit, LoopCheck, AcceptNoMemory, AcceptTimesOut,
       AcceptFails, StartSession, SetHandle, LoopTest, LoopReset,
       WaitSessions, DestroyManager, sessionVars
  <2>2. ~ForeignClose
    BY <2>1, Names DEF ForeignClose
  <2>3. CASE LoopTest \/ LoopReset \/ WaitSessions \/ DestroyManager
    BY <1>0, <2>1, <2>2, <2>3, Names
       DEF LoopTest, LoopReset, WaitSessions, DestroyManager, RaceInv, Race,
           OwnSockets, Listens, Left
  <2>4. CASE ~(LoopTest \/ LoopReset \/ WaitSessions \/ DestroyManager)
    <3>1. /\ lPc \notin Left /\ UNCHANGED listen_fd
          /\ lPc' \notin {"close", "reset", "dump", "wait", "done"}
      BY <1>4, <2>4 DEF LoopInit, LoopCheck, AcceptNoMemory, AcceptTimesOut,
         AcceptFails, StartSession, SetHandle, Left
    <3> QED
      BY <1>0, <2>1, <2>2, <3>1 DEF RaceInv, OwnSockets, Listens, Left
  <2> QED
    BY <2>3, <2>4
<1>5. CASE StartSessionFails
  BY <1>3, <1>5 DEF StartSessionFails, LifeInv
<1> QED
  BY <1>1, <1>2, <1>3, <1>4, <1>5 DEF Loop

LEMMA SessionRespects ==
  ASSUME TypeOK, OwnSockets, ~Race, NEW s \in Sessions,
         Nobody(s) \/ PrivateLoop(s) \/ Client(s)
  PROVE  RaceInv' /\ ~ForeignClose
<1> USE DEF TypeOK
<1>1. UNCHANGED <<hPc, hFd, lPc, lFd, listen_fd>>
  BY SessionsLeaveTheServer
<1>2. UNCHANGED <<owner, fds>> \/ Opens(s) \/ Closes(s)
  <2>1. CASE FreeSession(s)
    <3>1. Close(fds[s]) /\ fds' = [fds EXCEPT ![s] = fds[s] \ fds[s]]
      BY <2>1 DEF FreeSession
    <3> QED
      BY <3>1 DEF Closes
  <2>2. CASE Request(s)
    <3>1. CASE \E h \in FreeHandles : /\ owner' = [owner EXCEPT ![h] = s]
                                      /\ fds' = [fds EXCEPT ![s] = @ \cup {h}]
      BY <3>1 DEF Opens
    <3>2. CASE \E h \in fds[s] : /\ Cardinality(fds[s]) > 1
                                 /\ Close({h})
                                 /\ fds' = [fds EXCEPT ![s] = @ \ {h}]
      BY <3>2 DEF Closes
    <3> QED
      BY <2>2, <3>1, <3>2 DEF Request
  <2>3. CASE ~FreeSession(s) /\ ~Request(s)
    BY <2>3 DEF Nobody, Client, NobodyBegin, NobodyBeginFails, NobodyLoop,
       NobodyJoin, RemoveSession, RemoveSessionCrashes, PrivateLoop, Command,
       RequestUnanswered, Leave, sessionVars
  <2> QED
    BY <2>1, <2>2, <2>3
<1>3. CASE UNCHANGED <<owner, fds>>
  <2>1. ~ForeignClose
    BY <1>3, Names DEF ForeignClose
  <2> QED
    BY <1>1, <1>3, <2>1 DEF RaceInv, OwnSockets, Listens
<1>4. CASE Opens(s) \/ Closes(s)
  <2>1. /\ \A r \in Sessions : \A h \in fds'[r] : owner'[h] = r
        /\ ~ForeignClose
        /\ \A h \in Handles : owner[h] = "server" => owner'[h] = "server"
    BY <1>4, OwnSteps
  <2> QED
    BY <1>1, <2>1 DEF RaceInv, OwnSockets, Listens
<1> QED
  BY <1>2, <1>3, <1>4

\* A socket is closed behind the back of its session only when exit_loop and
\* loop_thread have both begun to close the listener.
THEOREM ForeignCloseCorrect == Spec => ForeignCloseIsTheRace
<1> DEFINE Explained == ForeignClose => hPc # "idle" /\ lPc \in Left
<1>1. Init => RaceInv
  BY Names DEF Init, RaceInv, OwnSockets, Listens
<1>2. TypeOK /\ LifeInv /\ RaceInv /\ [Next]_vars => RaceInv' /\ [Explained]_vars
  <2> SUFFICES ASSUME TypeOK, LifeInv, RaceInv, [Next]_vars
               PROVE  RaceInv' /\ [Explained]_vars
    OBVIOUS
  <2>1. CASE Race
    BY <2>1, RaceStays DEF RaceInv, Race
  <2>2. CASE ~Race /\ (Main \/ UNCHANGED vars)
    <3>1. UNCHANGED <<hPc, hFd, lPc, lFd, listen_fd, owner, fds>>
      BY <2>2 DEF Main, MainPoll, MainReturn, vars, handlerVars, loopVars,
         sessionVars
    <3>2. ~ForeignClose
      BY <3>1, Names DEF ForeignClose
    <3> QED
      BY <2>2, <3>1, <3>2 DEF RaceInv, OwnSockets, Listens
  <2>3. CASE ~Race /\ (HandlerTest \/ Handler)
    BY <2>3, HandlerRespects DEF RaceInv
  <2>4. CASE ~Race /\ Loop
    BY <2>4, LoopRespects DEF RaceInv
  <2>5. ASSUME ~Race, NEW s \in Sessions,
               Nobody(s) \/ PrivateLoop(s) \/ Client(s)
        PROVE  RaceInv' /\ [Explained]_vars
    BY <2>5, SessionRespects DEF RaceInv
  <2> QED
    BY <2>1, <2>2, <2>3, <2>4, <2>5 DEF Next
<1>3. [][Explained]_vars => ForeignCloseIsTheRace
  BY PTL DEF ForeignCloseIsTheRace
<1> QED
  BY <1>1, <1>2, <1>3, LifeCorrect, PTL DEF Spec

-----------------------------------------------------------------------------
(***************************************************************************)
(* Why the process ends after exit_loop (ShutdownEnds, but for its         *)
(* fairness): once quit is set the accept loop only goes forward, whoever  *)
(* still connects and whatever accept does.                                *)
(***************************************************************************)

\* The steps the accept loop can take once quit is set: it may still start the
\* session it is about to accept.
LoopLeft == CASE lPc = "init" -> 12
              [] lPc = "listen" -> 11
              [] lPc = "accept" -> 10
              [] lPc = "start" -> 9
              [] lPc = "handle" -> 8
              [] lPc = "loop" -> 7
              [] lPc = "test" -> 6
              [] lPc = "close" -> 5
              [] lPc = "reset" -> 4
              [] lPc = "dump" -> 3
              [] lPc = "wait" -> 2
              [] OTHER -> 1

MainLeft == CASE mPc = "sleep" -> 2
              [] mPc = "wait" -> 1
              [] OTHER -> 0

\* No session and no handler sets the end of the process back.
ShutdownAdvances ==
    [][quit => /\ quit' /\ LoopLeft + MainLeft \in Nat
               /\ LoopLeft' + MainLeft' <= LoopLeft + MainLeft
               /\ Main \/ Loop => LoopLeft' + MainLeft' < LoopLeft + MainLeft]_vars

LEMMA LeftType ==
  ASSUME TypeOK
  PROVE  LoopLeft \in 1..12 /\ MainLeft \in 0..2
<1>1. LoopLeft \in 1..12
  BY DEF TypeOK, Left, LoopLeft
<1>2. MainLeft \in 0..2
  BY DEF TypeOK, MainLeft
<1> QED
  BY <1>1, <1>2

LEMMA LoopGoesOn ==
  ASSUME TypeOK, quit, Loop
  PROVE  quit' /\ MainLeft' = MainLeft /\ LoopLeft' \in 0..LoopLeft - 1
<1>1. quit' /\ mPc' = mPc
  BY DEF Loop, LoopInit, LoopListen, LoopCheck, Accept, AcceptNoMemory,
     AcceptTimesOut, AcceptFails, StartSession, StartSessionFails, SetHandle,
     LoopTest, LoopClose, LoopReset, WaitSessions, DestroyManager, handlerVars
<1>2. \/ lPc = "init" /\ lPc' = "listen"
      \/ lPc = "listen" /\ lPc' = "loop"
      \/ lPc = "loop" /\ lPc' = "test"
      \/ lPc = "accept" /\ lPc' \in {"start", "loop", "test"}
      \/ lPc = "start" /\ lPc' \in {"handle", "test"}
      \/ lPc = "handle" /\ lPc' = "loop"
      \/ lPc = "test" /\ lPc' \in {"close", "dump"}
      \/ lPc = "close" /\ lPc' = "reset"
      \/ lPc = "reset" /\ lPc' = "dump"
      \/ lPc = "dump" /\ lPc' = "wait"
      \/ lPc = "wait" /\ lPc' = "done"
  BY DEF Loop, LoopInit, LoopListen, LoopCheck, Accept, AcceptNoMemory,
     AcceptTimesOut, AcceptFails, StartSession, StartSessionFails, SetHandle,
     LoopTest, LoopClose, LoopReset, WaitSessions, DestroyManager
<1>3. LoopLeft' \in 0..LoopLeft - 1
  BY <1>2 DEF LoopLeft
<1>4. MainLeft' = MainLeft
  BY <1>1 DEF MainLeft
<1> QED
  BY <1>1, <1>3, <1>4

LEMMA MainGoesOn ==
  ASSUME TypeOK, quit, Main
  PROVE  quit' /\ LoopLeft' = LoopLeft /\ MainLeft' \in 0..MainLeft - 1
<1>1. /\ quit' /\ lPc' = lPc
      /\ \/ mPc = "sleep" /\ mPc' = "wait"
         \/ mPc = "wait" /\ mPc' = "returned"
  BY DEF Main, MainPoll, MainReturn, handlerVars, loopVars
<1>2. LoopLeft' = LoopLeft /\ MainLeft' \in 0..MainLeft - 1
  BY <1>1 DEF LoopLeft, MainLeft
<1> QED
  BY <1>1, <1>2

\* The others leave the two alone, or end the process by a crash.
LEMMA OthersKeepOut ==
  ASSUME TypeOK, quit, Next, ~Main, ~Loop
  PROVE  quit' /\ LoopLeft' = LoopLeft /\ MainLeft' \in 0..MainLeft
<1>1. CASE HandlerTest \/ Handler
  <2>1. quit' /\ lPc' = lPc /\ mPc' = mPc
    BY <1>1 DEF Handler, HandlerTest, HandlerClose, HandlerReset, HandlerQuit, loopVars
  <2>2. LoopLeft' = LoopLeft /\ MainLeft' \in 0..MainLeft
    BY <2>1 DEF MainLeft, LoopLeft
  <2> QED
    BY <2>1, <2>2
<1>2. ASSUME NEW s \in Sessions, Nobody(s) \/ PrivateLoop(s) \/ Client(s)
      PROVE  quit' /\ LoopLeft' = LoopLeft /\ MainLeft' \in 0..MainLeft
  <2>1. quit' /\ lPc' = lPc /\ (mPc' = mPc \/ mPc' = "crashed")
    BY <1>2 DEF Nobody, NobodyBegin, NobodyBeginFails, NobodyLoop, NobodyJoin,
       RemoveSession, RemoveSessionCrashes, FreeSession, PrivateLoop, Client,
       Command, Request, RequestUnanswered, Leave, serverVars, handlerVars, loopVars
  <2>2. LoopLeft' = LoopLeft /\ MainLeft' \in 0..MainLeft
    BY <2>1 DEF MainLeft, LoopLeft
  <2> QED
    BY <2>1, <2>2
<1> QED
  BY <1>1, <1>2 DEF Next

\* After exit_loop has set quit it stays set, and each step of the accept loop
\* and of the main thread lowers a number that bounds the steps until the
\* process ends, which nothing else raises; for any number of sessions.
THEOREM ShutdownOnlyAdvances == Spec => ShutdownAdvances
<1>1. TypeOK /\ [Next]_vars =>
          [quit => /\ quit' /\ LoopLeft + MainLeft \in Nat
                   /\ LoopLeft' + MainLeft' <= LoopLeft + MainLeft
                   /\ Main \/ Loop =>
                          LoopLeft' + MainLeft' < LoopLeft + MainLeft]_vars
  <2> SUFFICES ASSUME TypeOK, Next, quit
               PROVE  /\ quit' /\ LoopLeft + MainLeft \in Nat
                      /\ LoopLeft' + MainLeft' <= LoopLeft + MainLeft
                      /\ Main \/ Loop =>
                             LoopLeft' + MainLeft' < LoopLeft + MainLeft
    OBVIOUS
  <2>1. LoopLeft \in 1..12 /\ MainLeft \in 0..2
    BY LeftType
  <2>2. CASE Loop
    BY <2>1, <2>2, LoopGoesOn
  <2>3. CASE Main
    BY <2>1, <2>3, MainGoesOn
  <2>4. CASE ~Main /\ ~Loop
    BY <2>1, <2>4, OthersKeepOut
  <2> QED
    BY <2>2, <2>3, <2>4
<1> QED
  BY <1>1, ServerTypeCorrect, PTL DEF Spec, ShutdownAdvances
=============================================================================
