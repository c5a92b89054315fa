---------------------------- MODULE ClientLimits ----------------------------
(***************************************************************************)
(* The forking server of main-org.c, which limits its clients: the parent  *)
(* counts them, all and by address, and the handler of SIGCHLD counts them *)
(* down again, at whatever point the parent has reached (ftp_assist.c).    *)
(*                                                                         *)
(* The two hash tables are the maps that HashTable implements.             *)
(***************************************************************************)
EXTENDS Integers, FiniteSets

CONSTANTS Ips, Pids,   \* addresses and process ids
          Buckets,     \* of the table of the pids
          MaxClients,  \* tunable_max_clients; 0: no limit
          MaxPerIp,    \* tunable_max_per_ip; 0: no limit
          MaxCount     \* bound: how high the counts may drift

ASSUME PidsAssumption == Pids \subseteq Nat \ {0} /\ Buckets \in Nat \ {0}
ASSUME LimitsAssumption == MaxClients \in Nat /\ MaxPerIp \in Nat

VARIABLES
    pc,              \* of the parent: "accept", "late", "load", "store",
                     \* "copy", "look", "count", "fork", or "add"
    reg,             \* the value it has loaded and is about to store
    sess,            \* its Session_t: ip, curr_clients, curr_ip_clients
    pid,             \* what fork returned
    num_of_clients,
    ip_to_clients,   \* table: how many clients an address has
    pid_to_ip,       \* table: the address of a child
    child,           \* the children: what they do, their address, and
                     \* whether they were refused
    ended,           \* why the parent has ended: "no", "error", "assert"; or
                     \* is lost: "torn" (it meets a freed node of a table),
                     \* "heap" (freed into while it allocates), "errno" (it
                     \* takes a timeout for an error)
    raced            \* history: the handler ran between a load and its store

vars == <<pc, reg, sess, pid, num_of_clients, ip_to_clients, pid_to_ip, child,
          ended, raced>>

IpMap == INSTANCE ShadowMap WITH
             Keys <- Ips, Values <- Nat, vals <- ip_to_clients
PidMap == INSTANCE ShadowMap WITH
             Keys <- Pids, Values <- Ips, vals <- pid_to_ip

NoChild == [state |-> "none"]

\* init_hash
Init == /\ pc = "accept" /\ reg = 0 /\ pid = 0
        /\ sess \in [ip : Ips, curr_clients : {0}, curr_ip_clients : {0}]
        /\ num_of_clients = 0
        /\ IpMap!Init /\ PidMap!Init
        /\ child = [p \in Pids |-> NoChild]
        /\ ended = "no" /\ raced = FALSE

Alive == {p \in Pids : child[p].state # "none"}
Of(a) == {p \in Alive : child[p].ip = a}
CountOf(a) == IF IpMap!Has(a) THEN IpMap!Lookup(a) ELSE 0

-----------------------------------------------------------------------------
(***************************************************************************)
(* The parent.  ++num_of_clients and ++*p_value are a load and a store.    *)
(***************************************************************************)

\* accept_timeout returns a client; or it fails, other than by timeout.
Accept ==
    /\ pc = "accept"
    /\ \/ /\ num_of_clients < MaxCount
          /\ \E a \in Ips : CountOf(a) < MaxCount /\ sess' = [sess EXCEPT !.ip = a]
          /\ pc' = "load" /\ UNCHANGED ended
       \/ ended' = "error" /\ UNCHANGED <<pc, sess>>
    /\ UNCHANGED <<reg, pid, num_of_clients, ip_to_clients, pid_to_ip, child, raced>>

\* accept_timeout returns -1, and errno is ETIMEDOUT ...
TimesOut ==
    /\ pc = "accept" /\ pc' = "late"
    /\ UNCHANGED <<reg, sess, pid, num_of_clients, ip_to_clients, pid_to_ip, child,
                   ended, raced>>

\* ... still, when main looks.
Again ==
    /\ pc = "late" /\ pc' = "accept"
    /\ UNCHANGED <<reg, sess, pid, num_of_clients, ip_to_clients, pid_to_ip, child,
                   ended, raced>>

\* add_clients_to_hash
Load ==
    /\ pc = "load" /\ pc' = "store"
    /\ reg' = num_of_clients
    /\ UNCHANGED <<sess, pid, num_of_clients, ip_to_clients, pid_to_ip, child,
                   ended, raced>>

Store ==
    /\ pc = "store" /\ pc' = "copy"
    /\ num_of_clients' = reg + 1
    /\ reg' = 0
    /\ UNCHANGED <<sess, pid, ip_to_clients, pid_to_ip, child, ended, raced>>

Copy ==
    /\ pc = "copy" /\ pc' = "look"
    /\ sess' = [sess EXCEPT !.curr_clients = num_of_clients]
    /\ UNCHANGED <<reg, pid, num_of_clients, ip_to_clients, pid_to_ip, child,
                   ended, raced>>

\* add_ip_to_hash loads the count of the address, which may not be there ...
Look ==
    /\ pc = "look" /\ pc' = "count"
    /\ reg' = CountOf(sess.ip)
    /\ UNCHANGED <<sess, pid, num_of_clients, ip_to_clients, pid_to_ip, child,
                   ended, raced>>

\* ... and stores it one higher.
Count ==
    /\ pc = "count" /\ pc' = "fork"
    /\ IF IpMap!Has(sess.ip) THEN IpMap!Update(sess.ip, reg + 1)
                             ELSE IpMap!Add(sess.ip, 1)
    /\ sess' = [sess EXCEPT !.curr_ip_clients = reg + 1]
    /\ reg' = 0
    /\ UNCHANGED <<pid, num_of_clients, pid_to_ip, child, ended, raced>>

\* Mutant: one client more is let in.
TooMany_OffByOne(s) == \/ MaxClients > 0 /\ s.curr_clients > MaxClients + 1
                       \/ MaxPerIp > 0 /\ s.curr_ip_clients > MaxPerIp + 1

\* limit_num_clients, which the child calls on its copy of the session: 421.
TooMany(s) == \/ MaxClients > 0 /\ s.curr_clients > MaxClients
              \/ MaxPerIp > 0 /\ s.curr_ip_clients > MaxPerIp

Fork ==
    /\ pc = "fork"
    /\ \/ \E p \in Pids \ Alive :
              /\ pid' = p /\ pc' = "add"
              /\ child' = [child EXCEPT ![p] =
                      [state |-> "running", ip |-> sess.ip, refused |-> TooMany(sess)]]
              /\ UNCHANGED ended
       \/ ended' = "error" /\ UNCHANGED <<pc, pid, child>>
    /\ UNCHANGED <<reg, sess, num_of_clients, ip_to_clients, pid_to_ip, raced>>

\* Mutant: only the first child of an address is entered.
AddPid_NewIpOnly ==
    /\ pc = "add" /\ pc' = "accept"
    /\ IF sess.curr_ip_clients = 1 THEN PidMap!Add(pid, sess.ip) ELSE UNCHANGED pid_to_ip
    /\ UNCHANGED <<reg, sess, pid, num_of_clients, ip_to_clients, child, ended,
                   raced>>

\* add_tid_ip_to_hash (add_pid_ip_to_hash in main-org.c).
AddPid ==
    /\ pc = "add" /\ pc' = "accept"
    /\ PidMap!Add(pid, sess.ip)
    /\ UNCHANGED <<reg, sess, pid, num_of_clients, ip_to_clients, child, ended,
                   raced>>

-----------------------------------------------------------------------------
\* A child ends: its client has left, or was refused.
End(p) ==
    /\ child[p].state = "running"
    /\ child' = [child EXCEPT ![p].state = "zombie"]
    /\ UNCHANGED <<pc, reg, sess, pid, num_of_clients, ip_to_clients, pid_to_ip,
                   ended, raced>>

\* The pid and its address are in the tables.
Known(p) == PidMap!Has(p) /\ CountOf(PidMap!Lookup(p)) > 0

\* An assert of handle_sigchld fails.
ReapUnknown(p) ==
    /\ child[p].state = "zombie" /\ ~Known(p)
    /\ ended' = "assert"
    /\ num_of_clients' = num_of_clients - 1
    /\ UNCHANGED <<pc, reg, sess, pid, ip_to_clients, pid_to_ip, child, raced>>

\* Mutant: the address is not counted down.
Reap_TotalOnly(p) ==
    /\ child[p].state = "zombie" /\ Known(p)
    /\ num_of_clients' = num_of_clients - 1
    /\ raced' = (raced \/ pc = "store")
    /\ PidMap!Free(p)
    /\ child' = [child EXCEPT ![p] = NoChild]
    /\ UNCHANGED <<pc, reg, sess, pid, ip_to_clients, ended>>

\* hash_add_entry is at work: for an address that is new, or for a pid.
Adding == pc = "add" \/ (pc = "count" /\ ~IpMap!Has(sess.ip))

\* After the last child, waitpid leaves ECHILD in errno.
SpoilsErrno(p) == pc = "late" /\ Alive = {p}

\* handle_sigchld counts the child down, by the address of its entry, and
\* frees the entry, wherever the parent is: it may have looked at that entry
\* as the head of a bucket already, or be in malloc while the handler is in
\* free, which need not do harm, or not have tested errno yet.
Reap(p) ==
    /\ child[p].state = "zombie" /\ Known(p)
    /\ num_of_clients' = num_of_clients - 1
    /\ LET a == PidMap!Lookup(p)
       IN  /\ IpMap!Update(a, CountOf(a) - 1)
           /\ raced' = (raced \/ pc = "store" \/ (pc = "count" /\ sess.ip = a))
    /\ PidMap!Free(p)
    /\ child' = [child EXCEPT ![p] = NoChild]
    /\ \/ UNCHANGED ended /\ ~SpoilsErrno(p)
       \/ pc = "add" /\ p % Buckets = pid % Buckets /\ ended' = "torn"
       \/ Adding /\ ended' = "heap"
       \/ SpoilsErrno(p) /\ ended' = "errno"
    /\ UNCHANGED <<pc, reg, sess, pid>>

Parent == Accept \/ TimesOut \/ Again \/ Load \/ Store \/ Copy \/ Look \/ Count \/ Fork \/ AddPid

Handler == \E p \in Pids : Reap(p) \/ ReapUnknown(p)

Next == /\ ended = "no"
        /\ Parent \/ Handler \/ \E p \in Pids : End(p)

Spec == Init /\ [][Next]_vars

-----------------------------------------------------------------------------
(***************************************************************************)
(* Properties.                                                             *)
(***************************************************************************)

\* The client the parent is about to fork for is counted already.
Counted == IF pc \in {"copy", "look", "count", "fork"} THEN 1 ELSE 0

\* The counts are those of the children, as long as the handler has not run
\* between a load and its store; and even then they are never too low, which
\* would let in too many (handle_sigchld, add_clients_to_hash).
CountsHold ==
    ended = "no" =>
        LET all == Cardinality(Alive) + Counted
            of(a) == Cardinality(Of(a)) + (IF pc = "fork" /\ sess.ip = a THEN 1 ELSE 0)
        IN  /\ num_of_clients >= all /\ \A a \in Ips : CountOf(a) >= of(a)
            /\ ~raced => num_of_clients = all /\ \A a \in Ips : CountOf(a) = of(a)

\* Whenever the signals come, no more clients than the limits allow are let
\* in without a 421 (limit_num_clients).
Served == {p \in Alive : ~child[p].refused}
NeverTooMany ==
    /\ MaxClients > 0 => Cardinality(Served) <= MaxClients
    /\ MaxPerIp > 0 => \A a \in Ips : Cardinality(Served \cap Of(a)) <= MaxPerIp

\* An assert of handle_sigchld (main-org.c:34, 38) fails for one child only:
\* the one just forked, if it has ended before add_pid_ip_to_hash has entered
\* it.  Every other child has its entry, and its address a count to take it
\* from, whatever races there were.
AssertExplained == ended = "assert" => pc = "add" /\ child[pid].state = "zombie"
=============================================================================
