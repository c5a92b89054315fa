------------------------ MODULE ClientLimits_proofs -------------------------
(***************************************************************************)
(* Proofs about ClientLimits, for any number of addresses and processes,   *)
(* every limit, and SIGCHLD between any two steps.                         *)
(***************************************************************************)
EXTENDS ClientLimits, Sequences, FiniteSetTheorems, TLAPS

Places == {"accept", "late", "load", "store", "copy", "look", "count", "fork", "add"}

Child == [state : {"running", "zombie"}, ip : Ips, refused : BOOLEAN]

TypeInv ==
    /\ pc \in Places
    /\ reg \in Int /\ num_of_clients \in Int
    /\ sess \in [ip : Ips, curr_clients : Int, curr_ip_clients : Int]
    /\ ip_to_clients \in [Ips -> {<< >>} \cup {<<n>> : n \in Int}]
    /\ pid_to_ip \in [Pids -> {<< >>} \cup {<<a>> : a \in Ips}]
    /\ child \in [Pids -> {NoChild} \cup Child]
    /\ IsFiniteSet(Alive)

\* The table of the pids holds the children, but for the one just forked.
Entered(p) == p \in Alive /\ ~(pc = "add" /\ p = pid)
PidInv ==
    /\ \A p \in Pids : pid_to_ip[p] = IF Entered(p) THEN <<child[p].ip>> ELSE << >>
    /\ pc = "add" => pid \in Alive /\ child[pid].ip = sess.ip

\* What the parent has loaded, and copied into the session, is not too low.
LoadedInv ==
    /\ pc = "store" => reg >= Cardinality(Alive) /\ (~raced => reg = num_of_clients)
    /\ pc \in {"look", "count", "fork"} => sess.curr_clients >= Cardinality(Alive) + 1
    /\ \A a \in Ips :
           a = sess.ip =>
               /\ pc = "count" => /\ reg >= Cardinality(Of(a))
                                  /\ ~raced => reg = CountOf(a)
               /\ pc = "fork" => sess.curr_ip_clients >= Cardinality(Of(a)) + 1

\* The inductive invariant; after the end of the parent nothing moves.
Inv == /\ TypeInv
       /\ CountsHold
       /\ ended = "no" => PidInv /\ LoadedInv
       /\ NeverTooMany
       /\ AssertExplained

-----------------------------------------------------------------------------
(***************************************************************************)
(* The two tables.                                                         *)
(***************************************************************************)

\* The count of an address is a number, and 0 where there is none.
LEMMA CountIsInt ==
  ASSUME TypeInv, NEW a \in Ips
  PROVE  CountOf(a) \in Int /\ (CountOf(a) > 0 => IpMap!Has(a))
<1>1. CASE ip_to_clients[a] = << >>
  BY <1>1 DEF CountOf, IpMap!Has
<1>2. CASE ip_to_clients[a] # << >>
  <2>1. PICK n \in Int : ip_to_clients[a] = <<n>>
    BY <1>2 DEF TypeInv
  <2> QED
    BY <2>1 DEF CountOf, IpMap!Has, IpMap!Lookup
<1> QED
  BY <1>1, <1>2

\* Whether the value of an address is stored or entered, it is what the
\* address then has, and the others keep theirs.
LEMMA CountStored ==
  ASSUME TypeInv, NEW a \in Ips, NEW n \in Int,
         IpMap!Update(a, n) \/ (~IpMap!Has(a) /\ IpMap!Add(a, n))
  PROVE  /\ ip_to_clients' \in [Ips -> {<< >>} \cup {<<m>> : m \in Int}]
         /\ \A b \in Ips : CountOf(b)' = IF b = a THEN n ELSE CountOf(b)
<1>1. ip_to_clients' = [ip_to_clients EXCEPT ![a] = <<n>>]
  <2>1. CASE IpMap!Update(a, n)
    <3>1. PICK m \in Int : ip_to_clients[a] = <<m>>
      BY <2>1 DEF TypeInv, IpMap!Update, IpMap!Has
    <3>2. <<n>> \o Tail(<<m>>) = <<n>>
      OBVIOUS
    <3> QED
      BY <2>1, <3>1, <3>2 DEF TypeInv, IpMap!Update
  <2>2. CASE ~IpMap!Has(a) /\ IpMap!Add(a, n)
    <3>1. <<n>> \o << >> = <<n>>
      OBVIOUS
    <3> QED
      BY <2>2, <3>1 DEF TypeInv, IpMap!Add, IpMap!Has
  <2> QED
    BY <2>1, <2>2
<1>2. <<n>> # << >> /\ Head(<<n>>) = n
  OBVIOUS
<1> QED
  BY <1>1, <1>2 DEF TypeInv, CountOf, IpMap!Has, IpMap!Lookup

\* The entry of a child is made once, and freed.
LEMMA PidEntered ==
  ASSUME TypeInv, NEW p \in Pids, NEW a \in Ips,
         pid_to_ip[p] = << >>, PidMap!Add(p, a)
  PROVE  pid_to_ip' = [pid_to_ip EXCEPT ![p] = <<a>>]
<1>1. <<a>> \o << >> = <<a>>
  OBVIOUS
<1> QED
  BY <1>1 DEF TypeInv, PidMap!Add

LEMMA PidFreed ==
  ASSUME TypeInv, NEW p \in Pids, PidMap!Free(p)
  PROVE  pid_to_ip' = [pid_to_ip EXCEPT ![p] = << >>]
<1>1. PICK a \in Ips : pid_to_ip[p] = <<a>>
  BY DEF TypeInv, PidMap!Free, PidMap!Has
<1>2. Tail(<<a>>) = << >>
  OBVIOUS
<1> QED
  BY <1>1, <1>2 DEF TypeInv, PidMap!Free

-----------------------------------------------------------------------------
(***************************************************************************)
(* The sets of children.                                                   *)
(***************************************************************************)
LEMMA OneMore ==
  ASSUME NEW S, NEW x, IsFiniteSet(S)
  PROVE  /\ IsFiniteSet(S \cup {x}) /\ Cardinality(S \cup {x}) \in Nat
         /\ Cardinality(S \cup {x}) <= Cardinality(S) + 1
         /\ x \notin S => Cardinality(S \cup {x}) = Cardinality(S) + 1
<1>1. Cardinality(S) \in Nat
  BY FS_CardinalityType
<1>2. /\ IsFiniteSet(S \cup {x})
      /\ Cardinality(S \cup {x}) = IF x \in S THEN Cardinality(S) ELSE Cardinality(S) + 1
  BY FS_AddElement
<1> QED
  BY <1>1, <1>2

LEMMA OneLess ==
  ASSUME NEW S, NEW x, IsFiniteSet(S)
  PROVE  /\ IsFiniteSet(S \ {x}) /\ Cardinality(S \ {x}) \in Nat
         /\ Cardinality(S \ {x}) <= Cardinality(S)
         /\ x \in S => Cardinality(S \ {x}) = Cardinality(S) - 1
         /\ x \notin S => Cardinality(S \ {x}) = Cardinality(S)
<1>1. Cardinality(S) \in Nat
  BY FS_CardinalityType
<1>2. /\ IsFiniteSet(S \ {x})
      /\ Cardinality(S \ {x}) = IF x \in S THEN Cardinality(S) - 1 ELSE Cardinality(S)
  BY FS_RemoveElement
<1>3. Cardinality(S \ {x}) \in Nat
  BY <1>2, FS_CardinalityType
<1> QED
  BY <1>1, <1>2, <1>3

LEMMA OfFinite ==
  ASSUME TypeInv
  PROVE  /\ Cardinality(Alive) \in Nat
         /\ \A a : /\ IsFiniteSet(Of(a)) /\ Cardinality(Of(a)) \in Nat
                   /\ Of(a) \subseteq Alive
<1>1. IsFiniteSet(Alive) /\ Cardinality(Alive) \in Nat
  BY FS_CardinalityType DEF TypeInv
<1>2. ASSUME NEW a
      PROVE  /\ IsFiniteSet(Of(a)) /\ Cardinality(Of(a)) \in Nat
             /\ Of(a) \subseteq Alive
  <2>1. Of(a) \in SUBSET Alive
    BY DEF Of
  <2> QED
    BY <1>1, <2>1, FS_Subset, FS_CardinalityType
<1> QED
  BY <1>1, <1>2

LEMMA ServedFinite ==
  ASSUME TypeInv
  PROVE  /\ IsFiniteSet(Served) /\ Cardinality(Served) \in Nat
         /\ Cardinality(Served) <= Cardinality(Alive)
         /\ \A a : /\ IsFiniteSet(Served \cap Of(a))
                   /\ Cardinality(Served \cap Of(a)) \in Nat
                   /\ Cardinality(Served \cap Of(a)) <= Cardinality(Of(a))
<1>1. Served \in SUBSET Alive /\ IsFiniteSet(Alive)
  BY DEF Served, TypeInv
<1>2. \A a : Served \cap Of(a) \in SUBSET Of(a) /\ IsFiniteSet(Of(a))
  BY OfFinite
<1> QED
  BY <1>1, <1>2, FS_Subset, FS_CardinalityType

\* What one child more, or one less, does to the sets.
LEMMA ChildForked ==
  ASSUME TypeInv, NEW p \in Pids \ Alive, NEW a \in Ips, NEW refused \in BOOLEAN,
         child' = [child EXCEPT ![p] =
                      [state |-> "running", ip |-> a, refused |-> refused]]
  PROVE  /\ Alive' = Alive \cup {p}
         /\ \A b \in Ips : Of(b)' = IF b = a THEN Of(b) \cup {p} ELSE Of(b)
         /\ Served' = IF refused THEN Served ELSE Served \cup {p}
         /\ \A b \in Ips : (Served \cap Of(b))' =
                IF b = a /\ ~refused THEN (Served \cap Of(b)) \cup {p}
                                     ELSE Served \cap Of(b)
<1>1. Alive' = Alive \cup {p}
  BY DEF TypeInv, Alive, NoChild
<1>2. \A q \in Alive : child'[q] = child[q]
  BY DEF TypeInv
<1>3. child'[p].ip = a /\ child'[p].refused = refused
  BY DEF TypeInv
<1>4. Of(a)' = Of(a) \cup {p} /\ \A b : b # a => Of(b)' = Of(b)
  BY <1>1, <1>2, <1>3 DEF Of
<1>5. Served' = IF refused THEN Served ELSE Served \cup {p}
  BY <1>1, <1>2, <1>3 DEF Served
<1>6. \A b : p \notin Of(b) /\ p \notin Served
  BY DEF Of, Served
<1> QED
  BY <1>1, <1>4, <1>5, <1>6

LEMMA ChildReaped ==
  ASSUME TypeInv, NEW p \in Alive, child' = [child EXCEPT ![p] = NoChild]
  PROVE  /\ Alive' = Alive \ {p}
         /\ \A b \in Ips : Of(b)' = Of(b) \ {p}
         /\ Served' = Served \ {p}
<1>1. Alive' = Alive \ {p}
  BY DEF TypeInv, Alive, NoChild
<1>2. \A q \in Alive \ {p} : child'[q] = child[q]
  BY DEF TypeInv, Alive
<1> QED
  BY <1>1, <1>2 DEF Of, Served

LEMMA ChildEnds ==
  ASSUME TypeInv, NEW p \in Alive, child' = [child EXCEPT ![p].state = "zombie"]
  PROVE  /\ Alive' = Alive /\ Served' = Served
         /\ \A b \in Ips : Of(b)' = Of(b)
         /\ \A q \in Alive : child'[q].ip = child[q].ip
         /\ child' \in [Pids -> {NoChild} \cup Child]
<1>1. child[p] \in Child
  BY DEF TypeInv, Alive, NoChild, Child
<1>2. /\ child'[p].state = "zombie" /\ child'[p].ip = child[p].ip
      /\ child'[p].refused = child[p].refused
      /\ child'[p] \in Child
  BY <1>1 DEF TypeInv, Alive, Child
<1>3. \A q \in Pids \ {p} : child'[q] = child[q]
  BY DEF TypeInv
<1>4. Alive' = Alive
  BY <1>2, <1>3 DEF Alive
<1>5. \A q \in Alive : child'[q].ip = child[q].ip /\ child'[q].refused = child[q].refused
  BY <1>2, <1>3 DEF Alive
<1> QED
  BY <1>2, <1>3, <1>4, <1>5 DEF Of, Served, TypeInv
LEMMA SameChildren ==
  ASSUME UNCHANGED child
  PROVE  /\ Alive' = Alive /\ Served' = Served
         /\ \A b \in Ips : Of(b)' = Of(b)
BY DEF Alive, Served, Of

-----------------------------------------------------------------------------
(***************************************************************************)
(* The invariant.                                                          *)
(***************************************************************************)
LEMMA InitInv == Init => Inv
<1> SUFFICES ASSUME Init
             PROVE  Inv
  OBVIOUS
<1>1. Alive = {}
  BY DEF Init, Alive, NoChild
<1>2. Served = {} /\ \A b : Of(b) = {}
  BY <1>1 DEF Served, Of
<1>3. Cardinality({}) = 0 /\ IsFiniteSet({})
  BY FS_EmptySet
<1>4. TypeInv
  BY <1>1, <1>3 DEF Init, TypeInv, Places, IpMap!Init, PidMap!Init
<1>5. \A a \in Ips : CountOf(a) = 0
  BY DEF Init, CountOf, IpMap!Has, IpMap!Init
<1>6. CountsHold
  BY <1>1, <1>2, <1>3, <1>5 DEF Init, CountsHold, Counted
<1>7. PidInv /\ LoadedInv
  BY <1>1 DEF Init, PidInv, LoadedInv, Entered, PidMap!Init
<1>8. NeverTooMany
  BY <1>2, <1>3, LimitsAssumption DEF NeverTooMany
<1>9. AssertExplained
  BY DEF Init, AssertExplained
<1> QED
  BY <1>4, <1>6, <1>7, <1>8, <1>9 DEF Inv

\* Steps of the parent that make no child.
LEMMA ParentStep ==
  ASSUME Inv, ended = "no",
         \/ Accept \/ TimesOut \/ Again \/ Load \/ Store \/ Copy \/ Look \/ Count
         \/ AddPid
  PROVE  Inv'
<1>1. /\ UNCHANGED child /\ UNCHANGED raced
      /\ ended' \in {"no", "error"}
  BY DEF Accept, TimesOut, Again, Load, Store, Copy, Look, Count, AddPid
<1>2. /\ Alive' = Alive /\ Served' = Served
      /\ \A b \in Ips : Of(b)' = Of(b)
  BY <1>1, SameChildren
<1>3. TypeInv /\ PidInv /\ LoadedInv /\ CountsHold /\ sess.ip \in Ips
  BY DEF Inv, TypeInv
<1>4. /\ Cardinality(Alive) \in Nat
      /\ \A b \in Ips : Cardinality(Of(b)) \in Nat
      /\ \A b \in Ips : CountOf(b) \in Int
  BY <1>3, OfFinite, CountIsInt
<1>5. NeverTooMany'
  BY <1>2 DEF Inv, NeverTooMany
<1>6. AssertExplained'
  BY <1>1 DEF AssertExplained
<1>7. CASE Accept
  <2>1. TypeInv'
    BY <1>1, <1>2, <1>3, <1>7 DEF TypeInv, Accept, Places
  <2>2. \A b \in Ips : CountOf(b)' = CountOf(b)
    BY <1>7 DEF Accept, CountOf, IpMap!Has, IpMap!Lookup
  <2>3. CountsHold'
    BY <1>2, <1>3, <1>7, <2>2 DEF CountsHold, Counted, Accept
  <2>4. (PidInv /\ LoadedInv)'
    BY <1>1, <1>2, <1>3, <1>7 DEF PidInv, LoadedInv, Entered, Accept
  <2> QED
    BY <1>5, <1>6, <2>1, <2>3, <2>4 DEF Inv
<1>8. CASE Load
  <2>1. TypeInv'
    BY <1>1, <1>2, <1>3, <1>8 DEF TypeInv, Load, Places
  <2>2. \A b \in Ips : CountOf(b)' = CountOf(b)
    BY <1>8 DEF Load, CountOf, IpMap!Has, IpMap!Lookup
  <2>3. CountsHold'
    BY <1>2, <1>3, <1>8, <2>2 DEF CountsHold, Counted, Load
  <2>4. (PidInv /\ LoadedInv)'
    BY <1>1, <1>2, <1>3, <1>4, <1>8
       DEF PidInv, LoadedInv, Entered, Load, CountsHold, Counted, TypeInv
  <2> QED
    BY <1>5, <1>6, <2>1, <2>3, <2>4 DEF Inv
<1>9. CASE Store
  <2>1. TypeInv'
    BY <1>1, <1>2, <1>3, <1>9 DEF TypeInv, Store, Places
  <2>2. \A b \in Ips : CountOf(b)' = CountOf(b)
    BY <1>9 DEF Store, CountOf, IpMap!Has, IpMap!Lookup
  <2>3. CountsHold'
    BY <1>1, <1>2, <1>3, <1>4, <1>9, <2>2
       DEF CountsHold, Counted, LoadedInv, Store, TypeInv
  <2>4. (PidInv /\ LoadedInv)'
    BY <1>1, <1>2, <1>3, <1>9 DEF PidInv, LoadedInv, Entered, Store
  <2> QED
    BY <1>5, <1>6, <2>1, <2>3, <2>4 DEF Inv
<1>10. CASE Copy
  <2>1. TypeInv'
    BY <1>1, <1>2, <1>3, <1>10 DEF TypeInv, Copy, Places
  <2>2. \A b \in Ips : CountOf(b)' = CountOf(b)
    BY <1>10 DEF Copy, CountOf, IpMap!Has, IpMap!Lookup
  <2>3. CountsHold'
    BY <1>2, <1>3, <1>10, <2>2 DEF CountsHold, Counted, Copy, TypeInv
  <2>4. sess'.ip = sess.ip /\ sess'.curr_clients = num_of_clients
    BY <1>3, <1>10 DEF TypeInv, Copy
  <2>5. (PidInv /\ LoadedInv)'
    BY <1>1, <1>2, <1>3, <1>10, <2>4
       DEF PidInv, LoadedInv, Entered, Copy, CountsHold, Counted
  <2> QED
    BY <1>5, <1>6, <2>1, <2>3, <2>5 DEF Inv
<1>11. CASE Look
  <2>1. TypeInv'
    BY <1>1, <1>2, <1>3, <1>4, <1>11 DEF TypeInv, Look, Places
  <2>2. \A b \in Ips : CountOf(b)' = CountOf(b)
    BY <1>11 DEF Look, CountOf, IpMap!Has, IpMap!Lookup
  <2>3. CountsHold'
    BY <1>2, <1>3, <1>11, <2>2 DEF CountsHold, Counted, Look
  <2>4. CountOf(sess.ip) >= Cardinality(Of(sess.ip))
    BY <1>3, <1>4, <1>11 DEF CountsHold, Look
  <2>5. (PidInv /\ LoadedInv)'
    BY <1>1, <1>2, <1>3, <1>11, <2>2, <2>4 DEF PidInv, LoadedInv, Entered, Look
  <2> QED
    BY <1>5, <1>6, <2>1, <2>3, <2>5 DEF Inv
<1>12. CASE Count
  <2>1. PICK n \in Int :
            /\ IpMap!Update(sess.ip, n) \/ (~IpMap!Has(sess.ip) /\ IpMap!Add(sess.ip, n))
            /\ IF IpMap!Has(sess.ip) THEN n = reg + 1 ELSE n = 1
    <3>1. CASE IpMap!Has(sess.ip)
      <4>1. reg + 1 \in Int /\ IpMap!Update(sess.ip, reg + 1)
        BY <1>3, <1>12, <3>1 DEF Count, TypeInv
      <4> QED
        BY <3>1, <4>1
    <3>2. CASE ~IpMap!Has(sess.ip)
      <4>1. 1 \in Int /\ IpMap!Add(sess.ip, 1)
        BY <1>12, <3>2 DEF Count
      <4> QED
        BY <3>2, <4>1
    <3> QED
      BY <3>1, <3>2
  <2>2. /\ ip_to_clients' \in [Ips -> {<< >>} \cup {<<m>> : m \in Int}]
        /\ \A b \in Ips : CountOf(b)' = IF b = sess.ip THEN n ELSE CountOf(b)
    BY <1>3, <2>1, CountStored
  <2>3. TypeInv'
    BY <1>1, <1>2, <1>3, <1>12, <2>2 DEF TypeInv, Count, Places
  <2>4. /\ n >= Cardinality(Of(sess.ip)) + 1 /\ reg >= Cardinality(Of(sess.ip))
        /\ ~raced => n = Cardinality(Of(sess.ip)) + 1
    <3>1. ~IpMap!Has(sess.ip) => CountOf(sess.ip) = 0
      BY DEF CountOf
    <3> QED
      BY <1>3, <1>4, <1>12, <2>1, <3>1 DEF CountsHold, LoadedInv, Count, TypeInv
  <2>5. sess'.ip = sess.ip /\ sess'.curr_ip_clients = reg + 1
        /\ sess'.curr_clients = sess.curr_clients
    BY <1>3, <1>12 DEF TypeInv, Count
  <2>6. CountsHold'
    BY <1>1, <1>2, <1>3, <1>4, <1>12, <2>2, <2>4, <2>5
       DEF CountsHold, Counted, Count
  <2>7. (PidInv /\ LoadedInv)'
    BY <1>1, <1>2, <1>3, <1>4, <1>12, <2>4, <2>5
       DEF PidInv, LoadedInv, Entered, Count, TypeInv
  <2> QED
    BY <1>5, <1>6, <2>3, <2>6, <2>7 DEF Inv
<1>13. CASE AddPid
  <2>1. pid \in Pids /\ pid \in Alive /\ child[pid].ip = sess.ip /\ pid_to_ip[pid] = << >>
    BY <1>3, <1>13 DEF AddPid, PidInv, Entered, Alive
  <2>2. pid_to_ip' = [pid_to_ip EXCEPT ![pid] = <<sess.ip>>]
    BY <1>3, <1>13, <2>1, PidEntered DEF AddPid
  <2>3. TypeInv'
    BY <1>1, <1>2, <1>3, <1>13, <2>1, <2>2 DEF TypeInv, AddPid, Places
  <2>4. \A b \in Ips : CountOf(b)' = CountOf(b)
    BY <1>13 DEF AddPid, CountOf, IpMap!Has, IpMap!Lookup
  <2>5. CountsHold'
    BY <1>2, <1>3, <1>13, <2>4 DEF CountsHold, Counted, AddPid
  <2>6. PidInv'
    BY <1>1, <1>2, <1>3, <1>13, <2>1, <2>2 DEF PidInv, Entered, AddPid, TypeInv
  <2>7. LoadedInv'
    BY <1>13 DEF LoadedInv, AddPid
  <2> QED
    BY <1>5, <1>6, <2>3, <2>5, <2>6, <2>7 DEF Inv
<1>14. CASE TimesOut \/ Again
  <2>1. TypeInv'
    BY <1>1, <1>2, <1>3, <1>14 DEF TypeInv, TimesOut, Again, Places
  <2>2. \A b \in Ips : CountOf(b)' = CountOf(b)
    BY <1>14 DEF TimesOut, Again, CountOf, IpMap!Has, IpMap!Lookup
  <2>3. CountsHold'
    BY <1>2, <1>3, <1>14, <2>2 DEF CountsHold, Counted, TimesOut, Again
  <2>4. (PidInv /\ LoadedInv)'
    BY <1>1, <1>2, <1>3, <1>14 DEF PidInv, LoadedInv, Entered, TimesOut, Again
  <2> QED
    BY <1>5, <1>6, <2>1, <2>3, <2>4 DEF Inv
<1> QED
  BY <1>7, <1>8, <1>9, <1>10, <1>11, <1>12, <1>13, <1>14

\* A child more, counted by the parent before; or no child.
LEMMA ForkStep ==
  ASSUME Inv, ended = "no", Fork
  PROVE  Inv'
<1>1. TypeInv /\ PidInv /\ LoadedInv /\ CountsHold /\ NeverTooMany /\ sess.ip \in Ips
  BY DEF Inv, TypeInv
<1>2. /\ Cardinality(Alive) \in Nat
      /\ \A b \in Ips : Cardinality(Of(b)) \in Nat
      /\ \A b \in Ips : CountOf(b) \in Int
  BY <1>1, OfFinite, CountIsInt
<1>3. CASE ended' = "error" /\ UNCHANGED <<pc, pid, child>>
  <2>1. /\ Alive' = Alive /\ Served' = Served
        /\ \A b \in Ips : Of(b)' = Of(b)
    BY <1>3, SameChildren
  <2>2. TypeInv'
    BY <1>1, <1>3, <2>1 DEF TypeInv, Fork
  <2>3. CountsHold' /\ AssertExplained'
    BY <1>3 DEF CountsHold, AssertExplained
  <2>4. NeverTooMany'
    BY <1>1, <2>1 DEF NeverTooMany
  <2> QED
    BY <1>3, <2>2, <2>3, <2>4 DEF Inv
<1>4. ASSUME NEW p \in Pids \ Alive,
             pid' = p /\ pc' = "add" /\ UNCHANGED ended,
             child' = [child EXCEPT ![p] =
                 [state |-> "running", ip |-> sess.ip, refused |-> TooMany(sess)]]
      PROVE  Inv'
  <2> DEFINE refused == TooMany(sess)
  <2>1. refused \in BOOLEAN
    BY DEF TooMany
  <2>2. pc = "fork" /\ UNCHANGED <<reg, sess, num_of_clients, ip_to_clients, pid_to_ip, raced>>
    BY DEF Fork
  <2>3. ended' = "no"
    BY <1>4
  <2>4. ~refused => /\ MaxClients > 0 => sess.curr_clients <= MaxClients
                    /\ MaxPerIp > 0 => sess.curr_ip_clients <= MaxPerIp
    BY <1>1, LimitsAssumption DEF TooMany, TypeInv
  <2> HIDE DEF refused
  <2>5. /\ Alive' = Alive \cup {p}
        /\ \A b \in Ips : Of(b)' = IF b = sess.ip THEN Of(b) \cup {p} ELSE Of(b)
        /\ Served' = IF refused THEN Served ELSE Served \cup {p}
        /\ \A b \in Ips : (Served \cap Of(b))' =
               IF b = sess.ip /\ ~refused THEN (Served \cap Of(b)) \cup {p}
                                          ELSE Served \cap Of(b)
    BY <1>1, <1>4, <2>1, ChildForked DEF refused
  <2>6. /\ Cardinality(Alive)' = Cardinality(Alive) + 1
        /\ IsFiniteSet(Alive)'
    BY <1>1, <2>5, FS_AddElement DEF TypeInv
  <2>7. \A b \in Ips : Cardinality(Of(b))' = Cardinality(Of(b)) + IF b = sess.ip THEN 1 ELSE 0
    <3>1. \A b : p \notin Of(b) /\ IsFiniteSet(Of(b))
      BY <1>1, OfFinite
    <3>2. \A b : Cardinality(Of(b) \cup {p}) = Cardinality(Of(b)) + 1
      BY <3>1, FS_AddElement
    <3> QED
      BY <1>2, <2>5, <3>2
  <2>8. TypeInv'
    BY <1>1, <1>4, <2>1, <2>2, <2>6 DEF TypeInv, Places, Child, refused
  <2>9. \A b \in Ips : CountOf(b)' = CountOf(b)
    BY <2>2 DEF CountOf, IpMap!Has, IpMap!Lookup
  <2>10. CountsHold'
    <3>1. Counted = 1 /\ Counted' = 0 /\ pc = "fork" /\ pc' = "add"
      BY <1>4, <2>2 DEF Counted
    <3>2. /\ num_of_clients >= Cardinality(Alive) + 1
          /\ \A b \in Ips : CountOf(b) >= Cardinality(Of(b)) + (IF b = sess.ip THEN 1 ELSE 0)
          /\ ~raced => /\ num_of_clients = Cardinality(Alive) + 1
                       /\ \A b \in Ips : CountOf(b) =
                              Cardinality(Of(b)) + (IF b = sess.ip THEN 1 ELSE 0)
      BY <1>1, <3>1 DEF CountsHold
    <3> QED
      BY <1>2, <2>2, <2>6, <2>7, <2>9, <3>1, <3>2 DEF CountsHold
  <2>11. PidInv'
    <3>1. \A q \in Pids : Entered(q)' = Entered(q)
      BY <1>4, <2>2, <2>5 DEF Entered
    <3>2. \A q \in Alive : child'[q] = child[q]
      BY <1>1, <1>4 DEF TypeInv
    <3>3. child'[p].ip = sess.ip /\ p \in Alive'
      BY <1>1, <1>4, <2>5 DEF TypeInv
    <3>4. \A q \in Pids :
              pid_to_ip'[q] = IF Entered(q)' THEN <<child'[q].ip>> ELSE << >>
      BY <1>1, <2>2, <3>1, <3>2 DEF PidInv, Entered
    <3> QED
      BY <1>4, <2>2, <3>3, <3>4 DEF PidInv
  <2>12. LoadedInv'
    BY <1>4 DEF LoadedInv
  <2>13. AssertExplained'
    BY <1>4 DEF AssertExplained
  <2>14. NeverTooMany'
    <3>1. /\ Cardinality(Served)' <= Cardinality(Served) + 1
          /\ Cardinality(Served)' \in Nat
          /\ refused => Cardinality(Served)' = Cardinality(Served)
      <4>1. IsFiniteSet(Served) /\ Cardinality(Served) \in Nat
        BY <1>1, ServedFinite
      <4>2. /\ Cardinality(Served \cup {p}) <= Cardinality(Served) + 1
            /\ Cardinality(Served \cup {p}) \in Nat
        BY <4>1, OneMore
      <4> QED
        BY <2>5, <4>1, <4>2
    <3>2. ASSUME NEW b \in Ips
          PROVE  /\ Cardinality(Served \cap Of(b))' <= Cardinality(Served \cap Of(b)) + 1
                 /\ Cardinality(Served \cap Of(b))' \in Nat
                 /\ refused \/ b # sess.ip =>
                        Cardinality(Served \cap Of(b))' = Cardinality(Served \cap Of(b))
      <4> DEFINE S == Served \cap Of(b)
      <4>1. IsFiniteSet(S) /\ Cardinality(S) \in Nat
        BY <1>1, ServedFinite
      <4>2. S' = IF b = sess.ip /\ ~refused THEN S \cup {p} ELSE S
        BY <2>5
      <4> HIDE DEF S
      <4>3. Cardinality(S \cup {p}) <= Cardinality(S) + 1 /\ Cardinality(S \cup {p}) \in Nat
        BY <4>1, OneMore
      <4>4. /\ Cardinality(S)' <= Cardinality(S) + 1
            /\ Cardinality(S)' \in Nat
            /\ refused \/ b # sess.ip => Cardinality(S)' = Cardinality(S)
        BY <4>1, <4>2, <4>3
      <4> QED
        BY <4>4 DEF S
    <3>3. /\ sess.curr_clients >= Cardinality(Alive) + 1
          /\ sess.curr_ip_clients >= Cardinality(Of(sess.ip)) + 1
          /\ sess.curr_clients \in Int /\ sess.curr_ip_clients \in Int
      BY <1>1, <2>2 DEF LoadedInv, TypeInv
    <3>4. MaxClients > 0 => Cardinality(Served)' <= MaxClients
      <4>1. CASE refused
        BY <1>1, <3>1, <4>1 DEF NeverTooMany
      <4>2. CASE ~refused
        <5>1. Cardinality(Served) <= Cardinality(Alive) /\ Cardinality(Served) \in Nat
          BY <1>1, ServedFinite
        <5> QED
          BY <1>2, <2>4, <3>1, <3>3, <4>2, <5>1, LimitsAssumption
      <4> QED
        BY <4>1, <4>2
    <3>5. ASSUME NEW b \in Ips, MaxPerIp > 0
          PROVE  Cardinality(Served \cap Of(b))' <= MaxPerIp
      <4>1. CASE refused \/ b # sess.ip
        BY <1>1, <3>2, <3>5, <4>1 DEF NeverTooMany
      <4>2. CASE ~refused /\ b = sess.ip
        <5>1. /\ Cardinality(Served \cap Of(b)) <= Cardinality(Of(b))
              /\ Cardinality(Served \cap Of(b)) \in Nat
              /\ Cardinality(Served \cap Of(b))' <= Cardinality(Served \cap Of(b)) + 1
              /\ Cardinality(Served \cap Of(b))' \in Nat
          BY <1>1, <3>2, ServedFinite
        <5> QED
          BY <1>2, <2>4, <3>3, <3>5, <4>2, <5>1, LimitsAssumption
      <4> QED
        BY <4>1, <4>2
    <3> QED
      BY <3>4, <3>5 DEF NeverTooMany
  <2> QED
    BY <1>4, <2>8, <2>10, <2>11, <2>12, <2>13, <2>14 DEF Inv
<1> QED
  BY <1>3, <1>4 DEF Fork

\* SIGCHLD: a child less, counted down everywhere.
LEMMA ReapStep ==
  ASSUME Inv, ended = "no", NEW p \in Pids, Reap(p)
  PROVE  Inv'
<1> DEFINE a == child[p].ip
<1>1. TypeInv /\ PidInv /\ LoadedInv /\ CountsHold /\ NeverTooMany /\ sess.ip \in Ips
  BY DEF Inv, TypeInv
<1>2. /\ Cardinality(Alive) \in Nat /\ IsFiniteSet(Alive)
      /\ \A b \in Ips : IsFiniteSet(Of(b)) /\ Cardinality(Of(b)) \in Nat
      /\ \A b \in Ips : CountOf(b) \in Int
  BY <1>1, OfFinite, CountIsInt DEF TypeInv
<1>3. p \in Alive /\ child[p] \in Child /\ a \in Ips
  BY <1>1 DEF Reap, Alive, TypeInv, NoChild, Child
<1>4. PidMap!Lookup(p) = a /\ Entered(p)
  <2>1. pid_to_ip[p] # << >>
    BY DEF Reap, Known, PidMap!Has
  <2>2. Entered(p) /\ pid_to_ip[p] = <<a>>
    BY <1>1, <2>1 DEF PidInv
  <2> QED
    BY <2>2 DEF PidMap!Lookup
<1>5. /\ IpMap!Update(a, CountOf(a) - 1) /\ PidMap!Free(p)
      /\ num_of_clients' = num_of_clients - 1
      /\ raced' = (raced \/ pc = "store" \/ (pc = "count" /\ sess.ip = a))
      /\ child' = [child EXCEPT ![p] = NoChild]
      /\ ended' \in {"no", "torn", "heap", "errno"}
      /\ UNCHANGED <<pc, reg, sess, pid>>
  BY <1>4 DEF Reap
<1> HIDE DEF a
<1>6. /\ ip_to_clients' \in [Ips -> {<< >>} \cup {<<m>> : m \in Int}]
      /\ \A b \in Ips : CountOf(b)' = CountOf(b) - IF b = a THEN 1 ELSE 0
  BY <1>1, <1>2, <1>3, <1>5, CountStored
<1>7. pid_to_ip' = [pid_to_ip EXCEPT ![p] = << >>]
  BY <1>1, <1>5, PidFreed
<1>8. /\ Alive' = Alive \ {p}
      /\ \A b \in Ips : Of(b)' = Of(b) \ {p}
      /\ Served' = Served \ {p}
  BY <1>1, <1>3, <1>5, ChildReaped
<1>9. IsFiniteSet(Alive)' /\ Cardinality(Alive)' = Cardinality(Alive) - 1
  BY <1>2, <1>3, <1>8, OneLess
<1>10. \A b \in Ips : Cardinality(Of(b))' = Cardinality(Of(b)) - IF b = a THEN 1 ELSE 0
  <2>1. \A b \in Ips : p \in Of(b) <=> b = a
    BY <1>3 DEF Of, a
  <2>2. \A b \in Ips : Cardinality(Of(b) \ {p}) = Cardinality(Of(b)) - IF b = a THEN 1 ELSE 0
    <3> TAKE b \in Ips
    <3>1. IsFiniteSet(Of(b)) /\ Cardinality(Of(b)) \in Nat
      BY <1>2
    <3>2. /\ p \in Of(b) => Cardinality(Of(b) \ {p}) = Cardinality(Of(b)) - 1
          /\ p \notin Of(b) => Cardinality(Of(b) \ {p}) = Cardinality(Of(b))
      BY <3>1, OneLess
    <3> QED
      BY <2>1, <3>1, <3>2
  <2> QED
    BY <1>8, <2>2
<1>11. TypeInv'
  BY <1>1, <1>5, <1>6, <1>7, <1>9 DEF TypeInv, Places
<1>12. CountsHold'
  <2>1. /\ Counted' = Counted /\ Counted \in 0..1 /\ num_of_clients \in Int
        /\ ~raced' => ~raced
    <3>1. ~raced' => ~raced
      BY <1>5
    <3> QED
      BY <1>1, <1>5, <3>1 DEF Counted, TypeInv
  <2> DEFINE fork(b) == IF pc = "fork" /\ sess.ip = b THEN 1 ELSE 0
  <2>2. /\ num_of_clients >= Cardinality(Alive) + Counted
        /\ ~raced => num_of_clients = Cardinality(Alive) + Counted
        /\ \A b \in Ips : CountOf(b) >= Cardinality(Of(b)) + fork(b)
        /\ ~raced => \A b \in Ips : CountOf(b) = Cardinality(Of(b)) + fork(b)
    BY <1>1 DEF CountsHold
  <2>3. \A b \in Ips : fork(b)' = fork(b) /\ fork(b) \in 0..1
    BY <1>5
  <2> HIDE DEF fork
  <2>4. /\ num_of_clients' >= Cardinality(Alive)' + Counted'
        /\ ~raced' => num_of_clients' = Cardinality(Alive)' + Counted'
    BY <1>2, <1>5, <1>9, <2>1, <2>2
  <2>5. ASSUME NEW b \in Ips
        PROVE  /\ CountOf(b)' >= Cardinality(Of(b))' + fork(b)'
               /\ ~raced' => CountOf(b)' = Cardinality(Of(b))' + fork(b)'
    BY <1>2, <1>6, <1>10, <2>1, <2>2, <2>3
  <2> QED
    BY <2>4, <2>5 DEF CountsHold, fork
<1>13. PidInv'
  <2>1. \A q \in Pids : Entered(q)' = (Entered(q) /\ q # p)
    BY <1>5, <1>8 DEF Entered
  <2>2. \A q \in Pids \ {p} : child'[q] = child[q]
    BY <1>1, <1>5 DEF TypeInv
  <2>3. \A q \in Pids : pid_to_ip'[q] = IF Entered(q)' THEN <<child'[q].ip>> ELSE << >>
    BY <1>1, <1>7, <2>1, <2>2 DEF PidInv, TypeInv
  <2>4. pc' = "add" => pid' \in Alive' /\ child'[pid'].ip = sess'.ip
    BY <1>1, <1>4, <1>5, <1>8, <2>2 DEF PidInv, Entered, Alive
  <2> QED
    BY <2>3, <2>4 DEF PidInv
<1>14. LoadedInv'
  <2>1. /\ ~raced' => ~raced /\ pc # "store" /\ (pc = "count" => sess.ip # a)
        /\ reg \in Int /\ sess.curr_clients \in Int /\ sess.curr_ip_clients \in Int
    BY <1>1, <1>5 DEF TypeInv
  <2>2. /\ pc' = "store" => reg' >= Cardinality(Alive)' /\ (~raced' => reg' = num_of_clients')
        /\ pc' \in {"look", "count", "fork"} => sess'.curr_clients >= Cardinality(Alive)' + 1
    BY <1>1, <1>2, <1>5, <1>9, <2>1 DEF LoadedInv
  <2>3. ASSUME NEW b \in Ips, b = sess'.ip
        PROVE  /\ pc' = "count" => /\ reg' >= Cardinality(Of(b))'
                                   /\ ~raced' => reg' = CountOf(b)'
               /\ pc' = "fork" => sess'.curr_ip_clients >= Cardinality(Of(b))' + 1
    BY <1>1, <1>2, <1>5, <1>6, <1>10, <2>1, <2>3 DEF LoadedInv
  <2> QED
    BY <2>2, <2>3 DEF LoadedInv
<1>15. NeverTooMany'
  <2>1. Cardinality(Served)' <= Cardinality(Served) /\ Cardinality(Served)' \in Nat
    BY <1>1, <1>8, OneLess, ServedFinite
  <2>2. ASSUME NEW b \in Ips
        PROVE  /\ Cardinality(Served \cap Of(b))' <= Cardinality(Served \cap Of(b))
               /\ Cardinality(Served \cap Of(b))' \in Nat
    <3> DEFINE S == Served \cap Of(b)
    <3>1. IsFiniteSet(S)
      BY <1>1, ServedFinite
    <3>2. S' = S \ {p}
      BY <1>8
    <3> HIDE DEF S
    <3>3. Cardinality(S)' <= Cardinality(S) /\ Cardinality(S)' \in Nat
      BY <3>1, <3>2, OneLess
    <3> QED
      BY <3>3 DEF S
  <2>3. /\ Cardinality(Served) \in Nat
        /\ \A b \in Ips : Cardinality(Served \cap Of(b)) \in Nat
    BY <1>1, ServedFinite
  <2>4. MaxClients > 0 => Cardinality(Served)' <= MaxClients
    BY <1>1, <2>1, <2>3, LimitsAssumption DEF NeverTooMany
  <2>5. ASSUME NEW b \in Ips, MaxPerIp > 0
        PROVE  Cardinality(Served \cap Of(b))' <= MaxPerIp
    <3>1. Cardinality(Served \cap Of(b)) <= MaxPerIp
      BY <1>1, <2>5 DEF NeverTooMany
    <3>2. /\ Cardinality(Served \cap Of(b))' <= Cardinality(Served \cap Of(b))
          /\ Cardinality(Served \cap Of(b))' \in Nat
      BY <2>2
    <3>3. Cardinality(Served \cap Of(b)) \in Nat
      BY <2>3
    <3> QED
      BY <3>1, <3>2, <3>3, LimitsAssumption
  <2> QED
    BY <2>4, <2>5 DEF NeverTooMany
<1>16. AssertExplained'
  BY <1>5 DEF AssertExplained
<1> QED
  BY <1>11, <1>12, <1>13, <1>14, <1>15, <1>16 DEF Inv

\* A child whose pid is not in the table is the one just forked.
LEMMA ReapUnknownStep ==
  ASSUME Inv, ended = "no", NEW p \in Pids, ReapUnknown(p)
  PROVE  Inv'
<1>1. TypeInv /\ PidInv /\ CountsHold /\ NeverTooMany
  BY DEF Inv
<1>2. UNCHANGED <<pc, reg, sess, pid, ip_to_clients, pid_to_ip, child, raced>>
  BY DEF ReapUnknown
<1>3. /\ Alive' = Alive /\ Served' = Served
      /\ \A b \in Ips : Of(b)' = Of(b)
  BY <1>2, SameChildren
<1>4. p \in Alive
  BY DEF ReapUnknown, Alive
<1>5. pc = "add" /\ p = pid
  <2>1. SUFFICES ASSUME Entered(p)
                 PROVE  Known(p)
    BY <1>4 DEF Entered, ReapUnknown
  <2> DEFINE a == child[p].ip
  <2>2. a \in Ips /\ p \in Of(a) /\ pid_to_ip[p] = <<a>>
    BY <1>1, <1>4, <2>1 DEF TypeInv, Alive, Of, PidInv, Child, NoChild
  <2>3. IsFiniteSet(Of(a)) /\ Cardinality(Of(a)) \in Nat
    BY <1>1, OfFinite
  <2>4. Cardinality(Of(a)) # 0
    BY <2>2, <2>3, FS_EmptySet
  <2>5. CountOf(a) \in Int /\ CountOf(a) >= Cardinality(Of(a))
    <3>1. CountOf(a) \in Int
      BY <1>1, <2>2, CountIsInt
    <3> QED
      BY <1>1, <2>2, <2>3, <3>1 DEF CountsHold
  <2> HIDE DEF a
  <2>6. PidMap!Has(p) /\ PidMap!Lookup(p) = a
    BY <2>2 DEF PidMap!Has, PidMap!Lookup
  <2> QED
    BY <2>3, <2>4, <2>5, <2>6 DEF Known
<1>6. TypeInv'
  BY <1>1, <1>2, <1>3 DEF TypeInv, ReapUnknown
<1>7. NeverTooMany'
  BY <1>1, <1>3 DEF NeverTooMany
<1>8. ended' = "assert" /\ child[p].state = "zombie"
  BY DEF ReapUnknown
<1>9. CountsHold' /\ AssertExplained'
  BY <1>2, <1>5, <1>8 DEF CountsHold, AssertExplained
<1> QED
  BY <1>6, <1>7, <1>8, <1>9 DEF Inv

\* The end of a child changes nothing that is counted.
LEMMA EndStep ==
  ASSUME Inv, ended = "no", NEW p \in Pids, End(p)
  PROVE  Inv'
<1>1. TypeInv /\ PidInv /\ LoadedInv /\ CountsHold /\ NeverTooMany
  BY DEF Inv
<1>2. UNCHANGED <<pc, reg, sess, pid, num_of_clients, ip_to_clients, pid_to_ip,
                  ended, raced>>
  BY DEF End
<1>3. /\ Alive' = Alive /\ Served' = Served
      /\ \A b \in Ips : Of(b)' = Of(b)
      /\ \A q \in Alive : child'[q].ip = child[q].ip
      /\ child' \in [Pids -> {NoChild} \cup Child]
  <2>1. p \in Alive
    BY DEF End, Alive
  <2> QED
    BY <1>1, <2>1, ChildEnds DEF End
<1>4. \A b \in Ips : CountOf(b)' = CountOf(b)
  BY <1>2 DEF CountOf, IpMap!Has, IpMap!Lookup
<1>5. TypeInv'
  BY <1>1, <1>2, <1>3 DEF TypeInv
<1>6. CountsHold'
  BY <1>1, <1>2, <1>3, <1>4 DEF CountsHold, Counted
<1>7. PidInv'
  BY <1>1, <1>2, <1>3 DEF PidInv, Entered
<1>8. LoadedInv'
  BY <1>1, <1>2, <1>3, <1>4 DEF LoadedInv
<1>9. NeverTooMany' /\ AssertExplained'
  BY <1>1, <1>2, <1>3 DEF NeverTooMany, AssertExplained
<1> QED
  BY <1>5, <1>6, <1>7, <1>8, <1>9 DEF Inv

LEMMA StepInv == Inv /\ [Next]_vars => Inv'
<1>1. ASSUME Inv, UNCHANGED vars
      PROVE  Inv'
  <2>1. /\ Alive' = Alive /\ Served' = Served
        /\ \A b \in Ips : Of(b)' = Of(b)
    BY <1>1, SameChildren DEF vars
  <2>2. \A b \in Ips : CountOf(b)' = CountOf(b)
    BY <1>1 DEF vars, CountOf, IpMap!Has, IpMap!Lookup
  <2>3. (TypeInv /\ CountsHold /\ NeverTooMany /\ AssertExplained)'
    BY <1>1, <2>1, <2>2
       DEF vars, Inv, TypeInv, CountsHold, Counted, NeverTooMany, AssertExplained
  <2>4. ended' = "no" => PidInv' /\ LoadedInv'
    BY <1>1, <2>1, <2>2 DEF vars, Inv, PidInv, LoadedInv, Entered
  <2> QED
    BY <2>3, <2>4 DEF Inv
<1>2. ASSUME Inv, Next
      PROVE  Inv'
  BY <1>2, ParentStep, ForkStep, ReapStep, ReapUnknownStep, EndStep
     DEF Next, Parent, Handler
<1> QED
  BY <1>1, <1>2

LEMMA InvHolds == Spec => []Inv
BY InitInv, StepInv, PTL DEF Spec

-----------------------------------------------------------------------------
\* Wherever SIGCHLD comes, the counts are never too low, and they are exact
\* until it comes between a load and its store (add_clients_to_hash,
\* add_ip_to_hash, handle_sigchld).
THEOREM CountsHoldCorrect == Spec => []CountsHold
<1>1. Inv => CountsHold
  BY DEF Inv
<1> QED
  BY <1>1, InvHolds, PTL

\* No more clients than the limits allow are let in, all and by address
\* (limit_num_clients).
THEOREM NeverTooManyCorrect == Spec => []NeverTooMany
<1>1. Inv => NeverTooMany
  BY DEF Inv
<1> QED
  BY <1>1, InvHolds, PTL

\* The child an assert of handle_sigchld fails for is the one just forked
\* (main-org.c:34, 38).
THEOREM AssertExplainedCorrect == Spec => []AssertExplained
<1>1. Inv => AssertExplained
  BY DEF Inv
<1> QED
  BY <1>1, InvHolds, PTL
=============================================================================
