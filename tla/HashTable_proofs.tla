-------------------------- MODULE HashTable_proofs --------------------------
(***************************************************************************)
(* Proofs about HashTable, for any keys, values, buckets and nodes.        *)
(***************************************************************************)
EXTENDS HashTable, FiniteSetTheorems, SequenceTheorems, WellFoundedInduction, TLAPS

C == Cardinality(Nodes)

-----------------------------------------------------------------------------
(***************************************************************************)
(* Induction, over sets of numbers.                                        *)
(***************************************************************************)
LEMMA LeastNumber ==
  ASSUME NEW S \in SUBSET Nat, S # {}
  PROVE  \E n \in S : \A m \in S : n <= m
<1> DEFINE Less == OpToRel(<, Nat)
<1>1. IsWellFoundedOn(Less, Nat)
  BY NatLessThanWellFounded
<1>2. \A m, n \in Nat : m < n => <<m, n>> \in Less
  BY DEF OpToRel
<1> HIDE DEF Less
<1>3. PICK n \in S : \A m \in S : ~(<<m, n>> \in Less)
  BY <1>1, WFMin
<1>4. ASSUME NEW m \in S
      PROVE  n <= m
  <2>1. m \in Nat /\ n \in Nat
    OBVIOUS
  <2>2. ~(m < n)
    BY <1>2, <1>3, <2>1
  <2> QED
    BY <2>1, <2>2
<1> QED
  BY <1>4

LEMMA Induction ==
  ASSUME NEW S, 0 \in S, \A n \in Nat : n \in S => n + 1 \in S
  PROVE  Nat \subseteq S
<1> SUFFICES ASSUME Nat \ S # {}
             PROVE  FALSE
  OBVIOUS
<1>1. PICK n \in Nat \ S : \A m \in Nat \ S : n <= m
  BY LeastNumber
<1>2. n - 1 \in Nat /\ n - 1 \notin Nat \ S
  BY <1>1
<1> QED
  BY <1>1, <1>2

-----------------------------------------------------------------------------
(***************************************************************************)
(* The walk through a bucket, from its head, in a heap.                    *)
(***************************************************************************)
LEMMA Constants ==
  /\ C \in Nat /\ IsFiniteSet(Nodes) /\ NULL \notin Nodes
  /\ \A k \in Keys : hash_func(k) \in 0..Buckets - 1
BY NodesAssumption, FS_CardinalityType, BucketsAssumption, KeysAssumption
   DEF C, hash_func

Step(f, i, h, heap) ==
    IF i = 0 THEN h ELSE IF f[i - 1] = NULL THEN NULL ELSE heap[f[i - 1]].next

IsWalk(f, h, heap) == f = [i \in 0..C |-> Step(f, i, h, heap)]

LEMMA WalkExists ==
  ASSUME NEW h, NEW heap
  PROVE  \E f : IsWalk(f, h, heap)
<1> DEFINE S == {n \in Nat : \E f : f = [i \in 0..n |-> Step(f, i, h, heap)]}
<1>1. 0 \in S
  <2> DEFINE f == [i \in 0..0 |-> h]
  <2>1. \A i \in 0..0 : Step(f, i, h, heap) = h
    BY DEF Step
  <2>2. f = [i \in 0..0 |-> Step(f, i, h, heap)]
    BY <2>1
  <2> QED
    BY <2>2
<1>2. ASSUME NEW n \in Nat, n \in S
      PROVE  n + 1 \in S
  <2>1. PICK f : f = [i \in 0..n |-> Step(f, i, h, heap)]
    BY <1>2
  <2> DEFINE g == [i \in 0..n + 1 |-> IF i <= n THEN f[i] ELSE Step(f, i, h, heap)]
  <2>2. \A i \in 0..n : g[i] = f[i]
    OBVIOUS
  <2> HIDE DEF g
  <2>3. \A i \in 0..n + 1 : Step(g, i, h, heap) = Step(f, i, h, heap)
    <3> TAKE i \in 0..n + 1
    <3>1. i = 0 \/ i - 1 \in 0..n
      OBVIOUS
    <3> QED
      BY <2>2, <3>1 DEF Step
  <2>4. \A i \in 0..n : f[i] = Step(f, i, h, heap)
    BY <2>1
  <2>5. g = [i \in 0..n + 1 |-> Step(g, i, h, heap)]
    BY <2>3, <2>4 DEF g
  <2> QED
    BY <2>5
<1> HIDE DEF S
<1>3. C \in S
  BY <1>1, <1>2, Induction, Constants
<1> QED
  BY <1>3 DEF S, IsWalk

LEMMA WalkUnique ==
  ASSUME NEW h, NEW heap, NEW f, NEW g, IsWalk(f, h, heap), IsWalk(g, h, heap)
  PROVE  f = g
<1>1. /\ \A i \in 0..C : f[i] = Step(f, i, h, heap) /\ g[i] = Step(g, i, h, heap)
      /\ f = [i \in 0..C |-> f[i]] /\ g = [i \in 0..C |-> g[i]]
  BY DEF IsWalk
<1> DEFINE D == {i \in 0..C : f[i] # g[i]}
<1> SUFFICES ASSUME D # {}
             PROVE  FALSE
  BY <1>1
<1>2. D \in SUBSET Nat
  BY Constants
<1> HIDE DEF D
<1>3. PICK n \in D : \A m \in D : n <= m
  BY <1>2, LeastNumber
<1>4. n \in 0..C /\ f[n] # g[n] /\ n - 1 \notin D
  BY <1>2, <1>3 DEF D
<1>5. n = 0 \/ (n - 1 \in 0..C /\ f[n - 1] = g[n - 1])
  BY <1>4, Constants DEF D
<1> QED
  BY <1>1, <1>4, <1>5 DEF Step

LEMMA WalkIs ==
  /\ \A b : IsWalk(Walk(b), head[b], node)
  /\ \A b : IsWalk(Walk(b), head[b], node)'
<1>1. \A b : IsWalk(Walk(b), head[b], node)
  <2> TAKE b
  <2>1. \E f : IsWalk(f, head[b], node)
    BY WalkExists
  <2> QED
    BY <2>1 DEF Walk, IsWalk, Step, C
<1>2. \A b : IsWalk(Walk(b), head[b], node)'
  <2> TAKE b
  <2>1. \E f : IsWalk(f, head'[b], node')
    BY WalkExists
  <2> QED
    BY <2>1 DEF Walk, IsWalk, Step, C
<1> QED
  BY <1>1, <1>2

\* What the walk returns, used in place of its definition.
LEMMA WalkSteps ==
  /\ \A b : /\ Walk(b)[0] = head[b]
            /\ \A i \in 1..C : Walk(b)[i] = IF Walk(b)[i - 1] = NULL THEN NULL
                                            ELSE node[Walk(b)[i - 1]].next
  /\ \A b, f : (IsWalk(f, head[b], node))' => Walk(b)' = f
<1>1. ASSUME NEW b
      PROVE  /\ Walk(b)[0] = head[b]
             /\ \A i \in 1..C : Walk(b)[i] = IF Walk(b)[i - 1] = NULL THEN NULL
                                             ELSE node[Walk(b)[i - 1]].next
  <2>1. Walk(b) = [i \in 0..C |-> Step(Walk(b), i, head[b], node)]
    BY WalkIs DEF IsWalk
  <2>2. \A i \in 0..C : Walk(b)[i] = Step(Walk(b), i, head[b], node)
    BY <2>1
  <2> QED
    BY <2>2, Constants DEF Step
<1>2. ASSUME NEW b, NEW f, IsWalk(f, head'[b], node')
      PROVE  Walk(b)' = f
  <2>1. IsWalk(Walk(b)', head'[b], node')
    BY WalkIs
  <2> QED
    BY <1>2, <2>1, WalkUnique
<1> QED
  BY <1>1, <1>2

-----------------------------------------------------------------------------
(***************************************************************************)
(* The invariant: the walk through a bucket goes once through the nodes    *)
(* whose keys belong there, and back the same way.                         *)
(***************************************************************************)
Node == [key : Keys \cup {0}, value : Values \cup {0},
         pre : Nodes \cup {NULL}, next : Nodes \cup {NULL}]

HeapOK ==
    /\ state \in {"live", "destroyed", "aborted"}
    /\ live \subseteq Nodes
    /\ node \in [Nodes -> Node]
    /\ head \in [0..Buckets - 1 -> Nodes \cup {NULL}]
    /\ \A n \in live : node[n].key \in Keys /\ node[n].value \in Values

BucketOK(b) ==
    /\ \A i \in 0..C :
           /\ Walk(b)[i] \in live \cup {NULL}
           /\ Walk(b)[i] # NULL =>
                  /\ hash_func(node[Walk(b)[i]].key) = b
                  /\ node[Walk(b)[i]].pre = IF i = 0 THEN NULL ELSE Walk(b)[i - 1]
    /\ \A i, j \in 0..C : Walk(b)[i] = Walk(b)[j] => i = j \/ Walk(b)[i] = NULL

NoneIsLost ==
    \A n \in live : \E b \in 0..Buckets - 1 :
        b = hash_func(node[n].key) /\ \E i \in 0..C : Walk(b)[i] = n

Inv == HeapOK /\ (\A b \in 0..Buckets - 1 : BucketOK(b)) /\ NoneIsLost

\* Behind the end of a walk there is nothing, and it ends.
LEMMA WalkEnds ==
  ASSUME NEW b, BucketOK(b), live \subseteq Nodes
  PROVE  /\ \A i, j \in 0..C : i <= j /\ Walk(b)[i] = NULL => Walk(b)[j] = NULL
         /\ Walk(b)[C] = NULL
         /\ live # Nodes /\ C # 0 => Walk(b)[C - 1] = NULL
<1> USE Constants
<1>1. ASSUME NEW i \in 0..C, NEW j \in 0..C, i <= j, Walk(b)[i] = NULL, Walk(b)[j] # NULL
      PROVE  FALSE
  <2> DEFINE D == {m \in i..C : Walk(b)[m] # NULL}
  <2>1. D \in SUBSET Nat /\ D # {}
    BY <1>1
  <2> HIDE DEF D
  <2>2. PICK n \in D : \A m \in D : n <= m
    BY <2>1, LeastNumber
  <2>3. n \in i..C /\ Walk(b)[n] # NULL /\ n - 1 \notin D
    BY <2>1, <2>2 DEF D
  <2>4. n # i /\ n \in 1..C /\ Walk(b)[n - 1] = NULL
    BY <1>1, <2>3 DEF D
  <2> QED
    BY <2>3, <2>4, WalkSteps
<1>2. ASSUME NEW k \in 0..C, Walk(b)[k] # NULL
      PROVE  k + 1 <= Cardinality(live)
  <2> DEFINE f == [i \in 0..k |-> Walk(b)[i]]
  <2>1. \A i \in 0..k : i \in 0..C /\ Walk(b)[i] # NULL
    BY <1>1, <1>2
  <2>2. \A i \in 0..k : Walk(b)[i] \in live
    BY <2>1 DEF BucketOK
  <2>3. \A i, j \in 0..k : Walk(b)[i] = Walk(b)[j] => i = j
    BY <2>1 DEF BucketOK
  <2>4. f \in Injection(0..k, live)
    BY <2>2, <2>3 DEF Injection, IsInjective
  <2> HIDE DEF f
  <2>5. IsFiniteSet(live)
    BY FS_Subset
  <2>6. Cardinality(0..k) <= Cardinality(live)
    BY <2>4, <2>5, FS_Injection
  <2>7. Cardinality(0..k) = k + 1
    BY FS_Interval
  <2> QED
    BY <2>6, <2>7
<1>3. /\ Cardinality(live) \in Nat /\ Cardinality(live) <= C
      /\ live # Nodes => Cardinality(live) < C
  BY FS_Subset, FS_CardinalityType DEF C
<1> QED
  BY <1>1, <1>2, <1>3

LEMMA InvIsTypeOK == Inv => TypeOK
<1> SUFFICES ASSUME Inv PROVE TypeOK
  OBVIOUS
<1> USE Constants
<1>0. \A n \in live : /\ n # NULL /\ node[n].key \in Keys /\ node[n].value \in Values
                      /\ hash_func(node[n].key) \in 0..Buckets - 1
  BY DEF Inv, HeapOK
<1>1. \A b \in 0..Buckets - 1 : /\ BucketOK(b) /\ Walk(b)[C] = NULL
                                /\ Walk(b)[0] = head[b]
                                /\ \A i \in 1..C : Walk(b)[i] = IF Walk(b)[i - 1] = NULL THEN NULL
                                                                ELSE node[Walk(b)[i - 1]].next
  BY WalkEnds, WalkSteps DEF Inv, HeapOK
<1>2. \A b \in 0..Buckets - 1 : head[b] # NULL => node[head[b]].pre = NULL
  BY <1>1 DEF BucketOK
<1>3. ASSUME NEW n \in live
      PROVE  n \in InBucket(hash_func(node[n].key))
  BY <1>0 DEF Inv, NoneIsLost, InBucket, C
<1>4. live = UNION {InBucket(b) : b \in 0..Buckets - 1}
  <2>1. \A b \in 0..Buckets - 1 : InBucket(b) \subseteq live
    BY <1>1 DEF InBucket, BucketOK, C
  <2> QED
    BY <1>0, <1>3, <2>1
<1>5. ASSUME NEW n \in live
      PROVE  /\ {node[n].pre, node[n].next} \subseteq live \cup {NULL}
             /\ node[n].next # NULL => node[node[n].next].pre = n
             /\ node[n].pre = NULL => head[hash_func(node[n].key)] = n
  <2> DEFINE b == hash_func(node[n].key)
             at == Walk(b)
  <2>1. PICK i \in 0..C : at[i] = n
    BY DEF Inv, NoneIsLost
  <2>2. b \in 0..Buckets - 1 /\ n # NULL
    BY <1>0
  <2> HIDE DEF b
  <2>3. /\ \A j \in 0..C : /\ at[j] \in live \cup {NULL}
                           /\ at[j] # NULL => node[at[j]].pre = IF j = 0 THEN NULL ELSE at[j - 1]
        /\ at[C] = NULL /\ at[0] = head[b]
        /\ \A j \in 1..C : at[j] = IF at[j - 1] = NULL THEN NULL ELSE node[at[j - 1]].next
    BY <1>1, <2>2 DEF BucketOK
  <2> HIDE DEF at
  <2>4. i + 1 \in 1..C /\ at[i + 1] = node[n].next
    BY <2>1, <2>2, <2>3
  <2>5. node[n].next \in live \cup {NULL} /\ (node[n].next # NULL => node[node[n].next].pre = n)
    <3>1. i + 1 \in 0..C /\ i + 1 # 0 /\ (i + 1) - 1 = i
      BY <2>4
    <3> QED
      BY <2>1, <2>3, <2>4, <3>1
  <2>6. node[n].pre \in live \cup {NULL}
    BY <2>1, <2>2, <2>3
  <2>7. node[n].pre = NULL => head[b] = n
    <3>1. CASE i = 0
      BY <2>1, <2>3, <3>1
    <3>2. CASE i # 0
      <4>1. i - 1 \in 0..C /\ at[i - 1] # NULL
        BY <2>1, <2>2, <2>3, <3>2
      <4> QED
        BY <2>1, <2>2, <2>3, <3>2, <4>1
    <3> QED
      BY <3>1, <3>2
  <2> QED
    BY <2>5, <2>6, <2>7 DEF b
<1>6. head \in [0..Buckets - 1 -> live \cup {NULL}]
  <2>1. \A b \in 0..Buckets - 1 : head[b] \in live \cup {NULL}
    BY <1>1 DEF BucketOK
  <2> QED
    BY <2>1 DEF Inv, HeapOK
<1> QED
  BY <1>0, <1>2, <1>3, <1>4, <1>5, <1>6 DEF TypeOK, Inv, HeapOK

-----------------------------------------------------------------------------
(***************************************************************************)
(* The steps.                                                              *)
(***************************************************************************)
LEMMA WalkKept ==
  ASSUME NEW b, head'[b] = head[b],
         \A i \in 0..C : Walk(b)[i] # NULL => node'[Walk(b)[i]].next = node[Walk(b)[i]].next
  PROVE  Walk(b)' = Walk(b)
<1> DEFINE f == Walk(b)
<1>1. f = [i \in 0..C |-> Step(f, i, head[b], node)]
  BY WalkIs DEF IsWalk
<1>2. \A i \in 0..C : Step(f, i, head[b], node) = Step(f, i, head'[b], node')
  <2> TAKE i \in 0..C
  <2>1. i = 0 \/ i - 1 \in 0..C
    BY Constants
  <2> QED
    BY <2>1 DEF Step
<1> HIDE DEF f
<1>3. IsWalk(f, head'[b], node')
  BY <1>1, <1>2 DEF IsWalk
<1> QED
  BY <1>3, WalkSteps DEF f

LEMMA InitInv == Init => Inv
<1> SUFFICES ASSUME Init PROVE Inv
  OBVIOUS
<1> USE Constants DEF Init
<1>1. HeapOK
  BY DEF HeapOK, Node, Blank
<1>2. ASSUME NEW b \in 0..Buckets - 1
      PROVE  BucketOK(b)
  <2>1. ASSUME NEW i \in 0..C
        PROVE  Walk(b)[i] = NULL
    <3> DEFINE S == {n \in Nat : n \in 0..C => Walk(b)[n] = NULL}
    <3>1. 0 \in S
      BY WalkSteps
    <3>2. ASSUME NEW n \in Nat, n \in S
          PROVE  n + 1 \in S
      <4>1. n + 1 \in 1..C => n \in 0..C /\ (n + 1) - 1 = n
        OBVIOUS
      <4> QED
        BY <3>2, <4>1, WalkSteps
    <3> HIDE DEF S
    <3>3. i \in S
      BY <3>1, <3>2, Induction
    <3> QED
      BY <3>3 DEF S
  <2> QED
    BY <2>1 DEF BucketOK
<1> QED
  BY <1>1, <1>2 DEF Inv, NoneIsLost

LEMMA AddWalk ==
  ASSUME Inv, NEW k \in Keys, NEW v, NEW n \in Nodes \ live, node' = Linked(n, k, v),
         head' = [head EXCEPT ![hash_func(k)] = n]
  PROVE  /\ Walk(hash_func(k))' =
                [i \in 0..C |-> IF i = 0 THEN n ELSE Walk(hash_func(k))[i - 1]]
         /\ \A b \in 0..Buckets - 1 : b # hash_func(k) => Walk(b)' = Walk(b)
<1> USE Constants
<1>1. /\ \A m \in live : node'[m].next = node[m].next
      /\ node'[n].next = head[hash_func(k)]
  BY DEF Linked, Inv, HeapOK, Node
<1>2. \A b \in 0..Buckets - 1 : \A i \in 0..C : Walk(b)[i] \in live \cup {NULL}
  BY DEF Inv, BucketOK
<1>3. ASSUME NEW b \in 0..Buckets - 1, b # hash_func(k)
      PROVE  Walk(b)' = Walk(b)
  <2>1. head'[b] = head[b]
    BY <1>3 DEF Inv, HeapOK
  <2> QED
    BY <1>1, <1>2, <2>1, WalkKept
<1> DEFINE b == hash_func(k)
           at == Walk(b)
           f == [i \in 0..C |-> IF i = 0 THEN n ELSE at[i - 1]]
<1>4. /\ b \in 0..Buckets - 1 /\ head'[b] = n
      /\ \A i \in 0..C : at[i] \in live \cup {NULL}
      /\ at[0] = head[b]
      /\ \A i \in 1..C : at[i] = IF at[i - 1] = NULL THEN NULL ELSE node[at[i - 1]].next
  BY <1>2, WalkSteps DEF Inv, HeapOK
<1> HIDE DEF b, at
<1>5. ASSUME NEW i \in 0..C
      PROVE  f[i] = Step(f, i, head'[b], node')
  <2>1. CASE i = 0
    BY <1>4, <2>1 DEF Step
  <2>2. CASE i = 1
    BY <1>1, <1>4, <2>2 DEF Step, b
  <2>3. CASE i > 1
    <3>1. i - 1 \in 1..C /\ i - 2 \in 0..C /\ f[i] = at[i - 1] /\ f[i - 1] = at[i - 2]
      BY <2>3
    <3>2. at[i - 1] = IF at[i - 2] = NULL THEN NULL ELSE node[at[i - 2]].next
      BY <1>4, <3>1
    <3>3. at[i - 2] # NULL => node'[at[i - 2]].next = node[at[i - 2]].next
      BY <1>1, <1>4, <3>1
    <3> HIDE DEF f
    <3> QED
      BY <2>3, <3>1, <3>2, <3>3 DEF Step
  <2> QED
    BY <2>1, <2>2, <2>3
<1>6. f = [i \in 0..C |-> Step(f, i, head'[b], node')]
  BY <1>5
<1> HIDE DEF f
<1>7. Walk(b)' = f
  BY <1>6, WalkSteps DEF IsWalk
<1> QED
  BY <1>3, <1>7 DEF f, at, b

LEMMA AddStep ==
  ASSUME Inv, NEW k \in Keys, NEW v \in Values, hash_add_entry(k, v)
  PROVE  Inv'
<1> USE Constants
<1>1. PICK n \in Nodes \ live :
          /\ node' = Linked(n, k, v)
          /\ head' = [head EXCEPT ![hash_func(k)] = n]
          /\ live' = live \cup {n} /\ state' = state
  BY DEF hash_add_entry
<1> DEFINE h == hash_func(k)
           at == Walk(h)
<1>2. h \in 0..Buckets - 1 /\ n # NULL /\ n \notin live
  OBVIOUS
<1>3. /\ node'[n] = [key |-> k, value |-> v, pre |-> NULL, next |-> head[h]]
      /\ \A m \in live : /\ node'[m].key = node[m].key /\ node'[m].value = node[m].value
                         /\ node'[m].pre = IF m = head[h] THEN n ELSE node[m].pre
  BY <1>1 DEF Linked, Inv, HeapOK, Node
<1>4. HeapOK'
  <2>1. node' \in [Nodes -> Node]
    <3>1. head[h] \in Nodes \cup {NULL}
      BY <1>2 DEF Inv, HeapOK
    <3>2. \A m \in Nodes : [node[m] EXCEPT !.pre = n] \in Node
      BY DEF Inv, HeapOK, Node
    <3>3. [key |-> k, value |-> v, pre |-> NULL, next |-> head[h]] \in Node
      BY <3>1 DEF Node
    <3> HIDE DEF h
    <3> QED
      BY <1>1, <3>2, <3>3 DEF Linked, Inv, HeapOK, h
  <2>2. head' \in [0..Buckets - 1 -> Nodes \cup {NULL}]
    BY <1>1, <1>2 DEF Inv, HeapOK
  <2>3. \A m \in live' : node'[m].key \in Keys /\ node'[m].value \in Values
    BY <1>1, <1>3 DEF Inv, HeapOK
  <2> QED
    BY <1>1, <2>1, <2>2, <2>3 DEF Inv, HeapOK
<1>5. /\ Walk(h)' = [i \in 0..C |-> IF i = 0 THEN n ELSE at[i - 1]]
      /\ \A b \in 0..Buckets - 1 : b # h => Walk(b)' = Walk(b)
  BY <1>1, AddWalk
<1>6. \A b \in 0..Buckets - 1 :
          /\ Walk(b)[0] = head[b] /\ Walk(b)[C] = NULL
          /\ \A i \in 0..C :
                 /\ Walk(b)[i] \in live \cup {NULL}
                 /\ Walk(b)[i] # NULL =>
                        /\ hash_func(node[Walk(b)[i]].key) = b
                        /\ node[Walk(b)[i]].pre = IF i = 0 THEN NULL ELSE Walk(b)[i - 1]
          /\ \A i, j \in 0..C : Walk(b)[i] = Walk(b)[j] => i = j \/ Walk(b)[i] = NULL
  BY WalkSteps, WalkEnds DEF Inv, HeapOK, BucketOK
<1> HIDE DEF h
<1>7. BucketOK(h)'
  <2> DEFINE f == Walk(h)'
  <2>1. /\ f[0] = n
        /\ \A i \in 1..C : f[i] = at[i - 1] /\ i - 1 \in 0..C
    BY <1>5
  <2>2. /\ at[0] = head[h]
        /\ \A i \in 0..C :
               /\ at[i] \in live \cup {NULL}
               /\ at[i] # NULL => /\ hash_func(node[at[i]].key) = h
                                  /\ node[at[i]].pre = IF i = 0 THEN NULL ELSE at[i - 1]
        /\ \A i, j \in 0..C : at[i] = at[j] => i = j \/ at[i] = NULL
    BY <1>2, <1>6
  <2> HIDE DEF f, at
  <2>3. ASSUME NEW i \in 0..C
        PROVE  /\ f[i] \in live' \cup {NULL}
               /\ f[i] # NULL =>
                      /\ hash_func(node'[f[i]].key) = h
                      /\ node'[f[i]].pre = IF i = 0 THEN NULL ELSE f[i - 1]
    <3>1. CASE i = 0
      BY <1>1, <1>3, <2>1, <3>1 DEF h
    <3>2. CASE i = 1
      BY <1>1, <1>3, <2>1, <2>2, <3>2
    <3>3. CASE i > 1
      <4>1. i - 1 \in 1..C /\ i \in 1..C /\ (i - 1) - 1 = i - 2
        BY <3>3
      <4>2. f[i] = at[i - 1] /\ f[i - 1] = at[i - 2] /\ i - 1 \in 0..C /\ i - 1 # 0
        BY <2>1, <4>1
      <4>3. at[i - 1] # NULL => at[i - 1] # head[h] /\ at[i - 1] \in live
        BY <2>2, <4>2
      <4>4. at[i - 1] # NULL => /\ hash_func(node[at[i - 1]].key) = h
                                /\ node[at[i - 1]].pre = at[i - 2]
        BY <2>2, <4>1, <4>2
      <4> QED
        BY <1>1, <1>3, <2>2, <3>3, <4>2, <4>3, <4>4
    <3> QED
      BY <3>1, <3>2, <3>3
  <2>4. ASSUME NEW i \in 0..C, NEW j \in 0..C, f[i] = f[j]
        PROVE  i = j \/ f[i] = NULL
    <3>1. \A m \in 1..C : f[m] # n
      BY <1>2, <2>1, <2>2
    <3>2. CASE i # 0 /\ j # 0
      <4>1. i \in 1..C /\ j \in 1..C
        BY <3>2
      <4>2. at[i - 1] = at[j - 1] /\ i - 1 \in 0..C /\ j - 1 \in 0..C
        BY <2>1, <2>4, <4>1
      <4> QED
        BY <2>1, <2>2, <4>1, <4>2
    <3> QED
      BY <2>1, <2>4, <3>1, <3>2
  <2> QED
    BY <2>3, <2>4 DEF BucketOK, f
<1>8. ASSUME NEW b \in 0..Buckets - 1, b # h
      PROVE  BucketOK(b)'
  <2>1. head[h] # NULL => hash_func(node[head[h]].key) = h
    BY <1>2, <1>6
  <2>2. \A i \in 0..C : Walk(b)[i] # NULL => Walk(b)[i] # head[h] /\ Walk(b)[i] \in live
    BY <1>6, <1>8, <2>1
  <2>3. \A i \in 0..C :
            /\ Walk(b)[i] \in live' \cup {NULL}
            /\ Walk(b)[i] # NULL =>
                   /\ hash_func(node'[Walk(b)[i]].key) = b
                   /\ node'[Walk(b)[i]].pre = IF i = 0 THEN NULL ELSE Walk(b)[i - 1]
    BY <1>1, <1>3, <1>6, <2>2
  <2>4. Walk(b)' = Walk(b)
    BY <1>5, <1>8
  <2> QED
    BY <1>6, <2>3, <2>4 DEF BucketOK
<1>9. NoneIsLost'
  <2>1. ASSUME NEW m \in live
        PROVE  \E b \in 0..Buckets - 1 :
                   b = hash_func(node'[m].key) /\ \E i \in 0..C : Walk(b)'[i] = m
    <3>1. PICK b \in 0..Buckets - 1 :
              b = hash_func(node[m].key) /\ \E i \in 0..C : Walk(b)[i] = m
      BY DEF Inv, NoneIsLost
    <3>2. PICK i \in 0..C : Walk(b)[i] = m
      BY <3>1
    <3>3. hash_func(node'[m].key) = b /\ m # NULL
      BY <1>3, <3>1 DEF Inv, HeapOK
    <3>4. CASE b # h
      BY <1>5, <3>2, <3>3, <3>4
    <3>5. CASE b = h
      <4>1. i + 1 \in 0..C /\ i + 1 # 0 /\ (i + 1) - 1 = i
        BY <1>6, <3>2, <3>3
      <4>2. Walk(h)'[i + 1] = m
        BY <1>5, <3>2, <3>5, <4>1
      <4> QED
        BY <3>3, <3>5, <4>1, <4>2
    <3> QED
      BY <3>4, <3>5
  <2>2. Walk(h)'[0] = n /\ hash_func(node'[n].key) = h
    BY <1>3, <1>5 DEF h
  <2> QED
    BY <1>1, <1>2, <2>1, <2>2 DEF NoneIsLost
<1> QED
  BY <1>4, <1>7, <1>8, <1>9 DEF Inv

\* The search stops at the first node with the key.
LEMMA FoundIs ==
  ASSUME NEW k
  PROVE  /\ Found(k) = NULL => \A i \in 0..C : LET n == Walk(hash_func(k))[i]
                                               IN  n = NULL \/ node[n].key # k
         /\ Found(k) # NULL => \E j \in 0..C :
                /\ Walk(hash_func(k))[j] = Found(k) /\ node[Found(k)].key = k
                /\ \A i \in 0..j - 1 : LET n == Walk(hash_func(k))[i]
                                       IN  n = NULL \/ node[n].key # k
<1> USE Constants
<1> DEFINE at == Walk(hash_func(k))
           hits == {i \in 0..C : at[i] # NULL /\ node[at[i]].key = k}
<1>1. DOMAIN at = 0..C
  BY WalkIs DEF IsWalk
<1>2. Found(k) = IF hits = {} THEN NULL ELSE at[Min(hits)]
  BY <1>1 DEF Found
<1>3. CASE hits = {}
  BY <1>2, <1>3
<1>4. CASE hits # {}
  <2>1. hits \in SUBSET Nat
    OBVIOUS
  <2> HIDE DEF hits
  <2>2. Min(hits) \in hits /\ \A m \in hits : Min(hits) <= m
    BY <1>4, <2>1, LeastNumber DEF Min
  <2> DEFINE j == Min(hits)
  <2>3. j \in 0..C /\ at[j] # NULL /\ node[at[j]].key = k /\ Found(k) = at[j]
    BY <1>2, <1>4, <2>2 DEF hits
  <2>4. ASSUME NEW i \in 0..j - 1
        PROVE  at[i] = NULL \/ node[at[i]].key # k
    <3>1. i \in 0..C /\ ~(j <= i)
      BY <2>3
    <3>2. i \notin hits
      BY <2>2, <3>1
    <3> QED
      BY <3>1, <3>2 DEF hits
  <2> QED
    BY <2>3, <2>4
<1> QED
  BY <1>3, <1>4

LEMMA UpdateStep ==
  ASSUME Inv, NEW k \in Keys, NEW v \in Values, Update(k, v)
  PROVE  Inv' /\ \A b \in 0..Buckets - 1 : Walk(b)' = Walk(b)
<1> USE Constants
<1>1. /\ Found(k) # NULL /\ node' = [node EXCEPT ![Found(k)].value = v]
      /\ head' = head /\ live' = live /\ state' = state
  BY DEF Update
<1>2. \A m \in Nodes : /\ node'[m].key = node[m].key /\ node'[m].pre = node[m].pre
                       /\ node'[m].next = node[m].next
                       /\ node'[m].value \in {v, node[m].value} /\ node'[m] \in Node
  BY <1>1 DEF Inv, HeapOK, Node
<1>3. HeapOK'
  <2>1. node' \in [Nodes -> Node]
    BY <1>1, <1>2 DEF Inv, HeapOK
  <2> QED
    BY <1>1, <1>2, <2>1 DEF Inv, HeapOK
<1>4. ASSUME NEW b \in 0..Buckets - 1
      PROVE  Walk(b)' = Walk(b) /\ BucketOK(b)'
  <2>1. BucketOK(b) /\ live \subseteq Nodes
    BY DEF Inv, HeapOK
  <2>2. Walk(b)' = Walk(b)
    BY <1>1, <1>2, <2>1, WalkKept DEF BucketOK
  <2> QED
    BY <1>1, <1>2, <2>1, <2>2 DEF BucketOK
<1>5. NoneIsLost'
  <2>1. \A m \in live : node'[m].key = node[m].key
    BY <1>2 DEF Inv, HeapOK
  <2> QED
    BY <1>1, <1>4, <2>1 DEF Inv, NoneIsLost
<1> QED
  BY <1>3, <1>4, <1>5 DEF Inv

\* n, at place j, is taken out.
LEMMA FreeWalk ==
  ASSUME Inv, NEW k \in Keys, NEW n \in live, node' = Unlinked(n),
         NEW j \in 0..C, Walk(hash_func(k))[j] = n,
         head' = IF node[n].pre = NULL
                 THEN [head EXCEPT ![hash_func(k)] = node[n].next] ELSE head
  PROVE  /\ Walk(hash_func(k))' =
                [i \in 0..C |-> IF i < j THEN Walk(hash_func(k))[i]
                                ELSE IF i < C THEN Walk(hash_func(k))[i + 1] ELSE NULL]
         /\ \A b \in 0..Buckets - 1 : b # hash_func(k) => Walk(b)' = Walk(b)
<1> USE Constants
<1> DEFINE h == hash_func(k)
           at == Walk(h)
           f == [i \in 0..C |-> IF i < j THEN at[i] ELSE IF i < C THEN at[i + 1] ELSE NULL]
<1>1. /\ h \in 0..Buckets - 1 /\ n # NULL
      /\ at[0] = head[h] /\ at[C] = NULL
      /\ \A i \in 1..C : at[i] = IF at[i - 1] = NULL THEN NULL ELSE node[at[i - 1]].next
      /\ \A i \in 0..C :
             /\ at[i] \in live \cup {NULL}
             /\ at[i] # NULL => /\ hash_func(node[at[i]].key) = h
                                /\ node[at[i]].pre = IF i = 0 THEN NULL ELSE at[i - 1]
      /\ \A x, y \in 0..C : at[x] = at[y] => x = y \/ at[x] = NULL
  BY WalkSteps, WalkEnds DEF Inv, HeapOK, BucketOK
<1>2. \A m \in live \ {n, node[n].pre} : node'[m].next = node[m].next
  BY DEF Unlinked, Inv, HeapOK, Node
<1>3. node[n].pre \in live => node[n].pre = n \/ node'[node[n].pre].next = node[n].next
  BY DEF Unlinked, Inv, HeapOK, Node
<1>4. /\ at[j] = n /\ j < C /\ node[n].pre = (IF j = 0 THEN NULL ELSE at[j - 1])
      /\ node[n].next = at[j + 1]
  <2>1. at[j] = n /\ j # C
    BY <1>1
  <2>2. j + 1 \in 1..C /\ (j + 1) - 1 = j
    BY <2>1
  <2> HIDE DEF at, h
  <2> QED
    BY <1>1, <2>1, <2>2
<1>5. ASSUME NEW b \in 0..Buckets - 1, b # h
      PROVE  Walk(b)' = Walk(b)
  <2>1. head'[b] = head[b]
    BY <1>5 DEF Inv, HeapOK
  <2>2. ASSUME NEW i \in 0..C, Walk(b)[i] # NULL
        PROVE  Walk(b)[i] \in live /\ Walk(b)[i] # n /\ Walk(b)[i] # node[n].pre
    <3>1. Walk(b)[i] \in live /\ hash_func(node[Walk(b)[i]].key) = b
      BY <2>2 DEF Inv, BucketOK
    <3>2. hash_func(node[n].key) = h
      BY <1>1, <1>4
    <3>3. node[n].pre # NULL => hash_func(node[node[n].pre].key) = h
      <4>1. j # 0 => j - 1 \in 0..C
        OBVIOUS
      <4> HIDE DEF at, h
      <4> QED
        BY <1>1, <1>4, <4>1
    <3> QED
      BY <1>5, <2>2, <3>1, <3>2, <3>3
  <2> QED
    BY <1>2, <2>1, <2>2, WalkKept
<1>6. ASSUME NEW i \in 0..C
      PROVE  f[i] = Step(f, i, head'[h], node')
  <2>0. head'[h] = IF j = 0 THEN at[1] ELSE at[0]
    <3>1. j # 0 => node[n].pre # NULL
      <4>1. j # 0 => j - 1 \in 0..C /\ j \in 1..C
        OBVIOUS
      <4> HIDE DEF at, h
      <4> QED
        BY <1>1, <1>4, <4>1
    <3>2. j + 1 = 1 <=> j = 0
      OBVIOUS
    <3> HIDE DEF at
    <3> QED
      BY <1>1, <1>4, <3>1, <3>2 DEF Inv, HeapOK
  <2> HIDE DEF at, h
  <2>1. CASE i = 0
    BY <1>1, <1>4, <2>0, <2>1 DEF Step
  <2>2. CASE i # 0 /\ i < j
    <3>1. f[i] = at[i] /\ f[i - 1] = at[i - 1] /\ i \in 1..C /\ i - 1 \in 0..C
      BY <2>2
    <3>2. at[i - 1] # NULL => at[i - 1] \in live \ {n, node[n].pre}
      <4>1. j - 1 \in 0..C /\ i - 1 # j - 1 /\ i - 1 # j
        BY <2>2
      <4> QED
        BY <1>1, <1>4, <2>2, <3>1, <4>1
    <3> HIDE DEF f
    <3> QED
      BY <1>1, <1>2, <2>2, <3>1, <3>2 DEF Step
  <2>3. CASE i # 0 /\ i = j
    <3>1. f[i] = at[j + 1] /\ f[i - 1] = at[j - 1] /\ j \in 1..C /\ j - 1 \in 0..C
      BY <1>4, <2>3
    <3>2. at[j - 1] # NULL /\ at[j - 1] = node[n].pre /\ at[j - 1] \in live /\ at[j - 1] # n
      BY <1>1, <1>4, <2>3, <3>1
    <3> HIDE DEF f
    <3> QED
      BY <1>3, <1>4, <2>3, <3>1, <3>2 DEF Step
  <2>4. CASE i > j /\ i < C
    <3>1. /\ f[i] = at[i + 1] /\ f[i - 1] = at[i] /\ i + 1 \in 1..C /\ (i + 1) - 1 = i
          /\ i # 0
      BY <2>4
    <3>2. at[i] # NULL => at[i] \in live \ {n, node[n].pre}
      <4>1. i # j /\ (j # 0 => j - 1 \in 0..C /\ i # j - 1)
        BY <2>4
      <4> QED
        BY <1>1, <1>4, <4>1
    <3>3. at[i + 1] = IF at[i] = NULL THEN NULL ELSE node[at[i]].next
      BY <1>1, <3>1
    <3> HIDE DEF f
    <3> QED
      BY <1>2, <3>1, <3>2, <3>3 DEF Step
  <2>5. CASE i > j /\ i = C
    <3>1. f[i] = NULL /\ f[i - 1] = at[i] /\ i # 0
      BY <2>5
    <3> HIDE DEF f
    <3> QED
      BY <1>1, <2>5, <3>1 DEF Step
  <2> QED
    BY <2>1, <2>2, <2>3, <2>4, <2>5
<1>7. f = [i \in 0..C |-> Step(f, i, head'[h], node')]
  BY <1>6
<1> HIDE DEF f
<1>8. Walk(h)' = f
  BY <1>7, WalkSteps DEF IsWalk
<1> QED
  BY <1>5, <1>8 DEF f, at, h

\* hash_free_entry finds its node at the place j of its bucket, the first
\* with the key.
LEMMA FreeFinds ==
  ASSUME Inv, NEW k \in Keys, hash_free_entry(k), state' = state, state = "live"
  PROVE  /\ Found(k) \in live /\ node' = Unlinked(Found(k)) /\ live' = live \ {Found(k)}
         /\ head' = IF node[Found(k)].pre = NULL
                    THEN [head EXCEPT ![hash_func(k)] = node[Found(k)].next] ELSE head
         /\ \E j \in 0..C :
                /\ Walk(hash_func(k))[j] = Found(k) /\ node[Found(k)].key = k
                /\ \A i \in 0..j - 1 : LET n == Walk(hash_func(k))[i]
                                       IN  n = NULL \/ node[n].key # k
<1>1. /\ Found(k) # NULL /\ node' = Unlinked(Found(k)) /\ live' = live \ {Found(k)}
      /\ head' = IF node[Found(k)].pre = NULL
                 THEN [head EXCEPT ![hash_func(k)] = node[Found(k)].next] ELSE head
  BY DEF hash_free_entry
<1>2. PICK j \in 0..C :
          /\ Walk(hash_func(k))[j] = Found(k) /\ node[Found(k)].key = k
          /\ \A i \in 0..j - 1 : LET n == Walk(hash_func(k))[i]
                                 IN  n = NULL \/ node[n].key # k
  BY <1>1, FoundIs
<1>3. Found(k) \in live
  BY <1>1, <1>2, Constants DEF Inv, BucketOK
<1> QED
  BY <1>1, <1>2, <1>3

LEMMA FreeStep ==
  ASSUME Inv, NEW k \in Keys, hash_free_entry(k), state = "live"
  PROVE  Inv'
<1> USE Constants
<1>1. CASE state' # state
  <2>1. UNCHANGED <<head, node, live>> /\ state' = "aborted"
    BY <1>1 DEF hash_free_entry
  <2>2. \A b \in 0..Buckets - 1 : Walk(b)' = Walk(b)
    BY <2>1, WalkKept
  <2>3. HeapOK' /\ (\A b \in 0..Buckets - 1 : BucketOK(b)')
    BY <2>1, <2>2 DEF Inv, HeapOK, BucketOK
  <2>4. NoneIsLost'
    BY <2>1, <2>2 DEF Inv, NoneIsLost
  <2> QED
    BY <2>3, <2>4 DEF Inv
<1>2. CASE state' = state
  <2> DEFINE n == Found(k)
             h == hash_func(k)
             at == Walk(h)
  <2>1. /\ n \in live /\ node' = Unlinked(n) /\ live' = live \ {n}
        /\ head' = IF node[n].pre = NULL THEN [head EXCEPT ![h] = node[n].next] ELSE head
    BY <1>2, FreeFinds
  <2>2. PICK j \in 0..C : at[j] = n
    BY <1>2, FreeFinds
  <2> HIDE DEF n
  <2>3. /\ Walk(h)' = [i \in 0..C |-> IF i < j THEN at[i]
                                      ELSE IF i < C THEN at[i + 1] ELSE NULL]
        /\ \A b \in 0..Buckets - 1 : b # h => Walk(b)' = Walk(b)
    BY <2>1, <2>2, FreeWalk
  <2>4. h \in 0..Buckets - 1 /\ n # NULL
    BY <2>1 DEF Inv, HeapOK
  <2> HIDE DEF h
  <2>5. \A b \in 0..Buckets - 1 :
            /\ Walk(b)[0] = head[b] /\ Walk(b)[C] = NULL
            /\ \A i \in 1..C : Walk(b)[i] = IF Walk(b)[i - 1] = NULL THEN NULL
                                            ELSE node[Walk(b)[i - 1]].next
            /\ \A i \in 0..C :
                   /\ Walk(b)[i] \in live \cup {NULL}
                   /\ Walk(b)[i] # NULL =>
                          /\ hash_func(node[Walk(b)[i]].key) = b
                          /\ node[Walk(b)[i]].pre = IF i = 0 THEN NULL ELSE Walk(b)[i - 1]
            /\ \A x, y \in 0..C : Walk(b)[x] = Walk(b)[y] => x = y \/ Walk(b)[x] = NULL
    BY WalkSteps, WalkEnds DEF Inv, HeapOK, BucketOK
  <2>6. /\ at[0] = head[h] /\ at[C] = NULL
        /\ \A i \in 1..C : at[i] = IF at[i - 1] = NULL THEN NULL ELSE node[at[i - 1]].next
        /\ \A i \in 0..C :
               /\ at[i] \in live \cup {NULL}
               /\ at[i] # NULL => /\ hash_func(node[at[i]].key) = h
                                  /\ node[at[i]].pre = IF i = 0 THEN NULL ELSE at[i - 1]
        /\ \A x, y \in 0..C : at[x] = at[y] => x = y \/ at[x] = NULL
    BY <2>4, <2>5
  <2> DEFINE f == [i \in 0..C |-> IF i < j THEN at[i] ELSE IF i < C THEN at[i + 1] ELSE NULL]
  <2>7. /\ Walk(h)' = f
        /\ \A i \in 0..C : /\ i < j => f[i] = at[i]
                           /\ i >= j /\ i < C => f[i] = at[i + 1] /\ i + 1 \in 0..C
                           /\ i >= j /\ ~(i < C) => f[i] = NULL
    BY <2>3
  <2> HIDE DEF f, at
  <2>8. /\ j < C /\ node[n].next = at[j + 1] /\ node[n].pre = (IF j = 0 THEN NULL ELSE at[j - 1])
    <3>1. j < C /\ j + 1 \in 1..C /\ (j + 1) - 1 = j
      BY <2>2, <2>4, <2>6
    <3> QED
      BY <2>2, <2>4, <2>6, <3>1
  <2>9. \A m \in live \ {n} :
            /\ node'[m].key = node[m].key /\ node'[m].value = node[m].value
            /\ m # node[n].next => node'[m].pre = node[m].pre
            /\ m = node[n].next /\ m # node[n].pre => node'[m].pre = node[n].pre
    BY <2>1 DEF Unlinked, Inv, HeapOK, Node
  <2>10. HeapOK'
    <3>1. node' \in [Nodes -> Node]
      <4>1. node[n].pre \in Nodes \cup {NULL} /\ node[n].next \in Nodes \cup {NULL}
        BY <2>1 DEF Inv, HeapOK, Node
      <4>2. \A m \in Nodes : /\ [node[m] EXCEPT !.next = node[n].next] \in Node
                             /\ [node[m] EXCEPT !.pre = node[n].pre] \in Node
                             /\ node[m] \in Node
        BY <4>1 DEF Inv, HeapOK, Node
      <4>3. Blank \in Node
        BY DEF Blank, Node
      <4> QED
        BY <2>1, <4>2, <4>3 DEF Unlinked
    <3>2. head' \in [0..Buckets - 1 -> Nodes \cup {NULL}]
      <4>1. node[n].next \in Nodes \cup {NULL}
        BY <2>1 DEF Inv, HeapOK, Node
      <4> QED
        BY <2>1, <4>1 DEF Inv, HeapOK
    <3>3. \A m \in live' : node'[m].key \in Keys /\ node'[m].value \in Values
      BY <2>1, <2>9 DEF Inv, HeapOK
    <3> QED
      BY <1>2, <2>1, <3>1, <3>2, <3>3 DEF Inv, HeapOK
  <2>11. ASSUME NEW i \in 0..C
         PROVE  /\ f[i] \in live' \cup {NULL}
                /\ f[i] # NULL =>
                       /\ hash_func(node'[f[i]].key) = h
                       /\ node'[f[i]].pre = IF i = 0 THEN NULL ELSE f[i - 1]
    <3>1. CASE i < j
      <4>1. f[i] = at[i] /\ (i # 0 => i - 1 \in 0..C /\ f[i - 1] = at[i - 1])
        <5>1. i # 0 => i - 1 \in 0..C /\ i - 1 < j
          BY <3>1
        <5> QED
          BY <2>7, <3>1, <5>1
      <4>2. at[i] # NULL => at[i] \in live \ {n} /\ at[i] # node[n].next
        <5>1. j + 1 \in 0..C /\ i # j /\ i # j + 1
          BY <2>8, <3>1
        <5> QED
          BY <2>2, <2>6, <2>8, <5>1
      <4> QED
        BY <2>1, <2>6, <2>9, <4>1, <4>2
    <3>2. CASE i >= j /\ i < C
      <4>1. f[i] = at[i + 1] /\ i + 1 \in 0..C /\ i + 1 # 0 /\ (i + 1) - 1 = i
        BY <2>7, <3>2
      <4>2. at[i + 1] # NULL => /\ at[i + 1] \in live \ {n}
                                /\ hash_func(node[at[i + 1]].key) = h
                                /\ node[at[i + 1]].pre = at[i]
        <5>1. i + 1 # j
          BY <3>2
        <5> QED
          BY <2>2, <2>6, <4>1, <5>1
      <4>3. CASE i = j
        <5>1. j # 0 => j - 1 \in 0..C /\ f[j - 1] = at[j - 1] /\ i + 1 # j - 1
          <6>1. j # 0 => j - 1 \in 0..C /\ j - 1 < j /\ j + 1 # j - 1
            OBVIOUS
          <6> QED
            BY <2>7, <4>3, <6>1
        <5>2. at[i + 1] # NULL => at[i + 1] = node[n].next /\ at[i + 1] # node[n].pre
          BY <2>6, <2>8, <4>1, <4>3, <5>1
        <5> QED
          BY <2>1, <2>8, <2>9, <4>1, <4>2, <4>3, <5>1, <5>2
      <4>4. CASE i > j
        <5>1. i - 1 \in 0..C /\ i - 1 >= j /\ i - 1 < C /\ (i - 1) + 1 = i /\ i # 0
          BY <4>4
        <5>2. f[i - 1] = at[i]
          BY <2>7, <5>1
        <5>3. at[i + 1] # NULL => at[i + 1] # node[n].next
          <6>1. j + 1 \in 0..C /\ i + 1 # j + 1
            BY <2>8, <4>4
          <6> QED
            BY <2>6, <2>8, <4>1, <6>1
        <5> QED
          BY <2>1, <2>9, <4>1, <4>2, <5>1, <5>2, <5>3
      <4> QED
        BY <3>2, <4>3, <4>4
    <3>3. CASE i >= j /\ ~(i < C)
      BY <2>7, <3>3
    <3> QED
      BY <3>1, <3>2, <3>3
  <2>12. ASSUME NEW x \in 0..C, NEW y \in 0..C, f[x] = f[y], f[x] # NULL
         PROVE  x = y
    <3> DEFINE o(i) == IF i < j THEN i ELSE i + 1
    <3>1. ASSUME NEW i \in 0..C, f[i] # NULL
          PROVE  o(i) \in 0..C /\ f[i] = at[o(i)]
      BY <2>7, <3>1
    <3>2. o(x) = o(y)
      <4>1. /\ o(x) \in 0..C /\ f[x] = at[o(x)]
            /\ o(y) \in 0..C /\ f[y] = at[o(y)]
        BY <2>12, <3>1
      <4> HIDE DEF o
      <4> QED
        BY <2>6, <2>12, <4>1
    <3> QED
      BY <3>2
  <2>13. BucketOK(h)'
    BY <2>7, <2>11, <2>12 DEF BucketOK
  <2>14. ASSUME NEW b \in 0..Buckets - 1, b # h
         PROVE  BucketOK(b)'
    <3>1. /\ hash_func(node[n].key) = h
          /\ node[n].next # NULL => hash_func(node[node[n].next].key) = h
      <4>1. j + 1 \in 0..C
        BY <2>8
      <4> QED
        BY <2>2, <2>4, <2>6, <2>8, <4>1
    <3>2. \A i \in 0..C : Walk(b)[i] # NULL =>
              /\ Walk(b)[i] \in live \ {n} /\ Walk(b)[i] # node[n].next
      BY <2>5, <2>14, <3>1
    <3>3. \A i \in 0..C :
              /\ Walk(b)[i] \in live' \cup {NULL}
              /\ Walk(b)[i] # NULL =>
                     /\ hash_func(node'[Walk(b)[i]].key) = b
                     /\ node'[Walk(b)[i]].pre = IF i = 0 THEN NULL ELSE Walk(b)[i - 1]
      BY <2>1, <2>5, <2>9, <3>2
    <3>4. Walk(b)' = Walk(b)
      BY <2>3, <2>14
    <3> QED
      BY <2>5, <3>3, <3>4 DEF BucketOK
  <2>15. NoneIsLost'
    <3>1. ASSUME NEW m \in live \ {n}
          PROVE  \E b \in 0..Buckets - 1 :
                     b = hash_func(node'[m].key) /\ \E i \in 0..C : Walk(b)'[i] = m
      <4>1. PICK b \in 0..Buckets - 1 :
                b = hash_func(node[m].key) /\ \E i \in 0..C : Walk(b)[i] = m
        BY DEF Inv, NoneIsLost
      <4>2. PICK i \in 0..C : Walk(b)[i] = m
        BY <4>1
      <4>3. hash_func(node'[m].key) = b /\ m # NULL
        BY <2>9, <4>1 DEF Inv, HeapOK
      <4>4. CASE b # h
        BY <2>3, <4>2, <4>3, <4>4
      <4>5. CASE b = h
        <5>1. at[i] = m /\ i # j
          BY <2>2, <4>2, <4>5 DEF at
        <5>2. CASE i < j
          BY <2>7, <4>3, <4>5, <5>1, <5>2
        <5>3. CASE i > j
          <6>1. i - 1 \in 0..C /\ i - 1 >= j /\ i - 1 < C /\ (i - 1) + 1 = i
            BY <5>3
          <6>2. f[i - 1] = m
            BY <2>7, <5>1, <6>1
          <6> QED
            BY <2>7, <4>3, <4>5, <6>1, <6>2
        <5> QED
          BY <5>1, <5>2, <5>3
      <4> QED
        BY <4>4, <4>5
    <3> QED
      BY <2>1, <3>1 DEF NoneIsLost
  <2> QED
    BY <2>10, <2>13, <2>14, <2>15 DEF Inv
<1> QED
  BY <1>1, <1>2

LEMMA ClearStep ==
  ASSUME Inv, hash_clear_entry
  PROVE  Inv' /\ live' = {} /\ \A b \in 0..Buckets - 1 : \A i \in 0..C : Walk(b)'[i] = NULL
<1> USE Constants
<1>1. /\ live' = {} /\ state' \in {"live", "destroyed"}
      /\ head' = [b \in 0..Buckets - 1 |-> NULL]
      /\ node' \in [Nodes -> Node]
  <2>1. live = UNION {InBucket(b) : b \in 0..Buckets - 1}
    BY InvIsTypeOK DEF TypeOK
  <2>2. Blank \in Node
    BY DEF Blank, Node
  <2> QED
    BY <2>1, <2>2 DEF hash_clear_entry, Inv, HeapOK
<1>2. ASSUME NEW b \in 0..Buckets - 1
      PROVE  Walk(b)' = [i \in 0..C |-> NULL]
  <2> DEFINE f == [i \in 0..C |-> NULL]
  <2>1. \A i \in 0..C : Step(f, i, head'[b], node') = NULL
    <3> TAKE i \in 0..C
    <3>1. i = 0 \/ f[i - 1] = NULL
      OBVIOUS
    <3> HIDE DEF f
    <3> QED
      BY <1>1, <3>1 DEF Step
  <2>2. IsWalk(f, head'[b], node')
    BY <2>1 DEF IsWalk
  <2> QED
    BY <2>2, WalkSteps
<1>3. HeapOK'
  BY <1>1 DEF HeapOK
<1>4. ASSUME NEW b \in 0..Buckets - 1
      PROVE  BucketOK(b)'
  BY <1>2 DEF BucketOK
<1> QED
  BY <1>1, <1>2, <1>3, <1>4 DEF Inv, NoneIsLost

LEMMA NextInv == Inv /\ [Next]_vars => Inv'
<1> SUFFICES ASSUME Inv, [Next]_vars
             PROVE  Inv'
  OBVIOUS
<1>1. CASE UNCHANGED vars
  <2>1. UNCHANGED <<head, node, live, state>>
    BY <1>1 DEF vars
  <2>2. \A b \in 0..Buckets - 1 : Walk(b)' = Walk(b)
    BY <2>1, WalkKept
  <2>3. HeapOK' /\ (\A b \in 0..Buckets - 1 : BucketOK(b)')
    BY <2>1, <2>2 DEF Inv, HeapOK, BucketOK
  <2>4. NoneIsLost'
    BY <2>1, <2>2 DEF Inv, NoneIsLost
  <2> QED
    BY <2>3, <2>4 DEF Inv
<1>2. CASE Next
  BY <1>2, AddStep, UpdateStep, FreeStep, ClearStep DEF Next
<1> QED
  BY <1>1, <1>2

\* Inv holds in every state of the table (all of hash.c).
THEOREM Safety == Spec => []Inv
<1> QED
  BY InitInv, NextInv, PTL DEF Spec

\* Whatever is added, freed and cleared, the buckets of hash.c are doubly
\* linked lists of the nodes that are allocated, each where its key belongs.
THEOREM LinksCorrect == Spec => []TypeOK
<1> QED
  BY InvIsTypeOK, Safety, PTL

-----------------------------------------------------------------------------
(***************************************************************************)
(* The values of a key.                                                    *)
(***************************************************************************)
Collect(g, i, at, heap, k) ==
    IF i = 0 THEN << >>
    ELSE IF at[i - 1] # NULL /\ heap[at[i - 1]].key = k
    THEN Append(g[i - 1], heap[at[i - 1]].value)
    ELSE g[i - 1]

AreOf(g, at, heap, k) == g = [i \in 0..C |-> Collect(g, i, at, heap, k)]

LEMMA ValuesExist ==
  ASSUME NEW at, NEW heap, NEW k
  PROVE  \E g : AreOf(g, at, heap, k)
<1> DEFINE S == {n \in Nat : \E f : f = [i \in 0..n |-> Collect(f, i, at, heap, k)]}
<1>1. 0 \in S
  <2> DEFINE f == [i \in 0..0 |-> << >>]
  <2>1. \A i \in 0..0 : Collect(f, i, at, heap, k) = << >>
    BY DEF Collect
  <2>2. f = [i \in 0..0 |-> Collect(f, i, at, heap, k)]
    BY <2>1
  <2> QED
    BY <2>2
<1>2. ASSUME NEW n \in Nat, n \in S
      PROVE  n + 1 \in S
  <2>1. PICK f : f = [i \in 0..n |-> Collect(f, i, at, heap, k)]
    BY <1>2
  <2> DEFINE g == [i \in 0..n + 1 |-> IF i <= n THEN f[i] ELSE Collect(f, i, at, heap, k)]
  <2>2. \A i \in 0..n : g[i] = f[i]
    OBVIOUS
  <2> HIDE DEF g
  <2>3. \A i \in 0..n + 1 : Collect(g, i, at, heap, k) = Collect(f, i, at, heap, k)
    <3> TAKE i \in 0..n + 1
    <3>1. i = 0 \/ i - 1 \in 0..n
      OBVIOUS
    <3> QED
      BY <2>2, <3>1 DEF Collect
  <2>4. \A i \in 0..n : f[i] = Collect(f, i, at, heap, k)
    BY <2>1
  <2>5. g = [i \in 0..n + 1 |-> Collect(g, i, at, heap, k)]
    BY <2>3, <2>4 DEF g
  <2> QED
    BY <2>5
<1> HIDE DEF S
<1>3. C \in S
  BY <1>1, <1>2, Induction, Constants
<1> QED
  BY <1>3 DEF S, AreOf

\* Contents is the last of a sequence of sequences, each of which has one
\* node more than the one before it.
LEMMA ContentsAre ==
  ASSUME NEW k
  PROVE  /\ \E g : /\ Contents(k) = g[C] /\ g[0] = << >>
                   /\ \A i \in 1..C : g[i] = Collect(g, i, Walk(hash_func(k)), node, k)
         /\ \E g : /\ Contents(k)' = g[C] /\ g[0] = << >>
                   /\ \A i \in 1..C : g[i] = Collect(g, i, Walk(hash_func(k))', node', k)
<1>1. \E g : AreOf(g, Walk(hash_func(k)), node, k) /\ Contents(k) = g[C]
  <2>1. \E g : AreOf(g, Walk(hash_func(k)), node, k)
    BY ValuesExist
  <2> QED
    BY <2>1 DEF Contents, AreOf, Collect, C
<1>2. \E g : AreOf(g, Walk(hash_func(k))', node', k) /\ Contents(k)' = g[C]
  <2>1. \E g : AreOf(g, Walk(hash_func(k))', node', k)
    BY ValuesExist
  <2> QED
    BY <2>1 DEF Contents, AreOf, Collect, C
<1>3. ASSUME NEW at, NEW heap, NEW g, AreOf(g, at, heap, k)
      PROVE  g[0] = << >> /\ \A i \in 1..C : g[i] = Collect(g, i, at, heap, k)
  <2>1. \A i \in 0..C : g[i] = Collect(g, i, at, heap, k)
    BY <1>3 DEF AreOf
  <2>2. Collect(g, 0, at, heap, k) = << >>
    BY DEF Collect
  <2> QED
    BY <2>1, <2>2, Constants
<1> QED
  BY <1>1, <1>2, <1>3

Hit(at, heap, k, i) == at[i] # NULL /\ heap[at[i]].key = k

Collects(g, at, heap, k) ==
    /\ g[0] = << >>
    /\ \A i \in 0..C - 1 : g[i + 1] = IF Hit(at, heap, k, i) THEN Append(g[i], heap[at[i]].value)
                                      ELSE g[i]

LEMMA ContentsCollect ==
  ASSUME NEW k
  PROVE  /\ \E g : Contents(k) = g[C] /\ Collects(g, Walk(hash_func(k)), node, k)
         /\ \E g : Contents(k)' = g[C] /\ Collects(g, Walk(hash_func(k))', node', k)
<1>1. ASSUME NEW at, NEW heap, NEW g, g[0] = << >>,
             \A i \in 1..C : g[i] = Collect(g, i, at, heap, k)
      PROVE  Collects(g, at, heap, k)
  <2>1. ASSUME NEW i \in 0..C - 1
        PROVE  g[i + 1] = IF Hit(at, heap, k, i) THEN Append(g[i], heap[at[i]].value)
                          ELSE g[i]
    <3>1. i + 1 \in 1..C /\ i + 1 # 0 /\ (i + 1) - 1 = i
      BY Constants
    <3>2. g[i + 1] = Collect(g, i + 1, at, heap, k)
      BY <1>1, <3>1
    <3> QED
      BY <3>1, <3>2 DEF Collect, Hit
  <2> QED
    BY <1>1, <2>1 DEF Collects
<1> QED
  BY <1>1, ContentsAre

\* Before the first hit there is no value.
LEMMA NoHits ==
  ASSUME NEW g, NEW at, NEW heap, NEW k, Collects(g, at, heap, k), NEW j \in 0..C,
         \A i \in 0..j - 1 : ~Hit(at, heap, k, i)
  PROVE  g[j] = << >>
<1> USE Constants
<1> DEFINE S == {n \in Nat : n <= j => g[n] = << >>}
<1>1. 0 \in S
  BY DEF Collects
<1>2. ASSUME NEW n \in Nat, n \in S
      PROVE  n + 1 \in S
  <2>1. SUFFICES ASSUME n + 1 <= j
                 PROVE  g[n + 1] = << >>
    OBVIOUS
  <2>2. n \in 0..C - 1 /\ n \in 0..j - 1 /\ g[n] = << >>
    BY <1>2, <2>1
  <2> QED
    BY <2>2 DEF Collects
<1> HIDE DEF S
<1>3. j \in S
  BY <1>1, <1>2, Induction
<1> QED
  BY <1>3 DEF S

LEMMA AppendBehind ==
  ASSUME NEW r \in Seq(Values), NEW u \in Seq(Values), NEW x \in Values
  PROVE  Append(r \o u, x) = r \o Append(u, x) /\ Append(u, x) \in Seq(Values)
<1>1. r \o u \in Seq(Values) /\ << x >> \in Seq(Values)
  BY ConcatProperties
<1>2. Append(r \o u, x) = (r \o u) \o << x >>
  BY <1>1, AppendIsConcat
<1>3. Append(u, x) = u \o << x >> /\ Append(u, x) \in Seq(Values)
  BY AppendIsConcat, AppendProperties
<1> DEFINE e == << x >>
<1> HIDE DEF e
<1>4. e \in Seq(Values)
  BY <1>1 DEF e
<1>5. (r \o u) \o e = r \o (u \o e)
  BY <1>4, ConcatAssociative
<1> QED
  BY <1>2, <1>3, <1>5 DEF e

\* The walk at2 meets from b on the values of k that the walk at meets from a
\* on, for len nodes.
Alike(at, heap, a, at2, heap2, b, len, k) ==
    \A i \in 0..len - 1 :
        /\ Hit(at2, heap2, k, b + i) <=> Hit(at, heap, k, a + i)
        /\ Hit(at, heap, k, a + i) => /\ heap[at[a + i]].value \in Values
                                      /\ heap2[at2[b + i]].value = heap[at[a + i]].value

\* One sequence is p, the other q, and then they go on alike.
Behind(p, q, x, y) == \E u \in Seq(Values) : x = p \o u /\ y = q \o u

\* Two walks that meet the same values from a and from b on collect the same
\* sequence behind p and q.
LEMMA SameBehind ==
  ASSUME NEW k, NEW g, NEW at, NEW heap, Collects(g, at, heap, k),
         NEW g2, NEW at2, NEW heap2, Collects(g2, at2, heap2, k),
         NEW a \in 0..C, NEW b \in 0..C, NEW a2 \in 0..C, NEW b2 \in 0..C,
         NEW len \in Nat, a2 = a + len, b2 = b + len,
         Alike(at, heap, a, at2, heap2, b, len, k)
  PROVE  \A p, q \in Seq(Values) : Behind(p, q, g[a], g2[b]) => Behind(p, q, g[a2], g2[b2])
<1> USE Constants
<1> SUFFICES ASSUME NEW p \in Seq(Values), NEW q \in Seq(Values), Behind(p, q, g[a], g2[b])
             PROVE  Behind(p, q, g[a2], g2[b2])
  OBVIOUS
<1> DEFINE P(n) == Behind(p, q, g[a + n], g2[b + n])
           S == {n \in Nat : n <= len => P(n)}
<1>1. P(0)
  <2>1. a + 0 = a /\ b + 0 = b
    OBVIOUS
  <2> QED
    BY <2>1
<1>2. ASSUME NEW n \in Nat, n + 1 <= len, P(n)
      PROVE  P(n + 1)
  <2>1. PICK u \in Seq(Values) : g[a + n] = p \o u /\ g2[b + n] = q \o u
    BY <1>2 DEF Behind
  <2>2. /\ n \in 0..len - 1 /\ a + n \in 0..C - 1 /\ b + n \in 0..C - 1
        /\ a + (n + 1) = (a + n) + 1 /\ b + (n + 1) = (b + n) + 1
    BY <1>2
  <2>3. /\ g[a + (n + 1)] = IF Hit(at, heap, k, a + n) THEN Append(g[a + n], heap[at[a + n]].value)
                            ELSE g[a + n]
        /\ g2[b + (n + 1)] = IF Hit(at2, heap2, k, b + n)
                             THEN Append(g2[b + n], heap2[at2[b + n]].value) ELSE g2[b + n]
    BY <2>2 DEF Collects
  <2>4. /\ Hit(at2, heap2, k, b + n) <=> Hit(at, heap, k, a + n)
        /\ Hit(at, heap, k, a + n) => /\ heap[at[a + n]].value \in Values
                                      /\ heap2[at2[b + n]].value = heap[at[a + n]].value
    BY <2>2 DEF Alike
  <2>5. CASE ~Hit(at, heap, k, a + n)
    BY <2>1, <2>3, <2>4, <2>5 DEF Behind
  <2>6. CASE Hit(at, heap, k, a + n)
    <3> DEFINE x == heap[at[a + n]].value
    <3>1. /\ x \in Values
          /\ g[a + (n + 1)] = Append(p \o u, x) /\ g2[b + (n + 1)] = Append(q \o u, x)
      BY <2>1, <2>3, <2>4, <2>6
    <3> HIDE DEF x
    <3>2. /\ Append(p \o u, x) = p \o Append(u, x) /\ Append(q \o u, x) = q \o Append(u, x)
          /\ Append(u, x) \in Seq(Values)
      BY <3>1, AppendBehind
    <3> QED
      BY <3>1, <3>2 DEF Behind
  <2> QED
    BY <2>5, <2>6
<1> HIDE DEF P
<1>3. 0 \in S
  BY <1>1
<1>4. \A n \in Nat : n \in S => n + 1 \in S
  BY <1>2
<1> HIDE DEF S
<1>5. len \in S
  BY <1>3, <1>4, Induction
<1>6. P(len)
  BY <1>5 DEF S
<1> QED
  BY <1>6 DEF P

LEMMA NoValues ==
  /\ << >> \in Seq(Values)
  /\ \A v \in Values : << v >> \in Seq(Values) /\ << v >> \o << >> = << v >>
BY EmptySeq, ConcatEmptySeq

\* How a comparison begins and what it says in the end.
LEMMA BehindStart ==
  /\ Behind(<< >>, << >>, << >>, << >>)
  /\ \A v \in Values : Behind(<< >>, << v >>, << >>, << v >>)
BY NoValues, EmptySeq, ConcatEmptySeq DEF Behind

LEMMA BehindEnd ==
  ASSUME NEW x, NEW y
  PROVE  /\ Behind(<< >>, << >>, x, y) => y = x
         /\ \A v \in Values : Behind(<< >>, << v >>, x, y) => y = << v >> \o x
BY NoValues, EmptySeq, ConcatEmptySeq DEF Behind

\* What the walks meet.
LEMMA Met ==
  ASSUME Inv, NEW k \in Keys, NEW i \in 0..C
  PROVE  LET n == Walk(hash_func(k))[i]
         IN  n # NULL => n \in live /\ node[n].value \in Values
BY Constants DEF Inv, BucketOK, HeapOK

LEMMA ContentsKept ==
  ASSUME Inv, NEW k \in Keys, Walk(hash_func(k))' = Walk(hash_func(k)),
         \A i \in 0..C : Walk(hash_func(k))[i] # NULL =>
             LET n == Walk(hash_func(k))[i]
             IN  /\ node'[n].key = node[n].key
                 /\ node[n].key = k => node'[n].value = node[n].value
  PROVE  Contents(k)' = Contents(k)
<1> USE Constants
<1> DEFINE at == Walk(hash_func(k))
<1>1. PICK g : Contents(k) = g[C] /\ Collects(g, at, node, k)
  BY ContentsCollect
<1>2. PICK g2 : Contents(k)' = g2[C] /\ Collects(g2, at, node', k)
  <2>1. \E g2 : Contents(k)' = g2[C] /\ Collects(g2, Walk(hash_func(k))', node', k)
    BY ContentsCollect
  <2> QED
    BY <2>1
<1>3. \A i \in 0..C : at[i] # NULL =>
          /\ node[at[i]].value \in Values
          /\ node'[at[i]].key = node[at[i]].key
          /\ node[at[i]].key = k => node'[at[i]].value = node[at[i]].value
  BY Met
<1> HIDE DEF at
<1>4. \A i \in 0..C - 1 : i \in 0..C /\ 0 + i = i
  OBVIOUS
<1>5. Alike(at, node, 0, at, node', 0, C, k)
  BY <1>3, <1>4 DEF Hit, Alike
<1>6. g[0] = << >> /\ g2[0] = << >>
  BY <1>1, <1>2 DEF Collects
<1>7. C \in 0..C /\ 0 \in 0..C /\ C = 0 + C /\ C \in Nat
  OBVIOUS
<1>8. Behind(<< >>, << >>, g[C], g2[C])
  <2>1. \A p, q \in Seq(Values) : Behind(p, q, g[0], g2[0]) => Behind(p, q, g[C], g2[C])
    BY <1>1, <1>2, <1>5, <1>7, SameBehind
  <2>2. Behind(<< >>, << >>, g[0], g2[0])
    BY <1>6, BehindStart
  <2> QED
    BY <2>1, <2>2, EmptySeq
<1> QED
  BY <1>1, <1>2, <1>8, BehindEnd

\* The new node is the first that a search meets.
LEMMA AddContents ==
  ASSUME Inv, NEW k \in Keys, NEW v \in Values, hash_add_entry(k, v), NEW x \in Keys
  PROVE  Contents(x)' = IF x = k THEN << v >> \o Contents(x) ELSE Contents(x)
<1> USE Constants
<1>1. PICK n \in Nodes \ live :
          /\ node' = Linked(n, k, v)
          /\ head' = [head EXCEPT ![hash_func(k)] = n]
  BY DEF hash_add_entry
<1>2. /\ n # NULL /\ node'[n].key = k /\ node'[n].value = v
      /\ \A m \in live : /\ node'[m].key = node[m].key /\ node'[m].value = node[m].value
  BY <1>1 DEF Linked, Inv, HeapOK, Node
<1>3. CASE hash_func(x) # hash_func(k)
  <2>1. Walk(hash_func(x))' = Walk(hash_func(x))
    BY <1>1, <1>3, AddWalk
  <2> QED
    BY <1>2, <1>3, <2>1, Met, ContentsKept
<1>4. CASE hash_func(x) = hash_func(k)
  <2> DEFINE at == Walk(hash_func(x))
             at2 == Walk(hash_func(x))'
  <2>1. PICK g : Contents(x) = g[C] /\ Collects(g, at, node, x)
    BY ContentsCollect
  <2>2. PICK g2 : Contents(x)' = g2[C] /\ Collects(g2, at2, node', x)
    BY ContentsCollect
  <2>3. Walk(hash_func(k))' = [i \in 0..C |-> IF i = 0 THEN n ELSE Walk(hash_func(k))[i - 1]]
    BY <1>1, AddWalk
  <2>4. at2 = [i \in 0..C |-> IF i = 0 THEN n ELSE at[i - 1]]
    BY <1>4, <2>3
  <2>5. /\ C - 1 \in 0..C /\ at[C - 1] = NULL /\ C # 0
        /\ \A i \in 0..C : at[i] # NULL => at[i] \in live /\ node[at[i]].value \in Values
    <3>1. C # 0
      BY FS_EmptySet DEF C
    <3>2. BucketOK(hash_func(x)) /\ live \subseteq Nodes /\ live # Nodes
      BY DEF Inv, HeapOK
    <3> QED
      BY <3>1, <3>2, WalkEnds, Met
  <2> HIDE DEF at, at2
  <2>6. Alike(at, node, 0, at2, node', 1, C - 1, x)
    <3> SUFFICES ASSUME NEW i \in 0..(C - 1) - 1
                 PROVE  /\ Hit(at2, node', x, 1 + i) <=> Hit(at, node, x, 0 + i)
                        /\ Hit(at, node, x, 0 + i) =>
                               /\ node[at[0 + i]].value \in Values
                               /\ node'[at2[1 + i]].value = node[at[0 + i]].value
      BY DEF Alike
    <3>1. 1 + i \in 0..C /\ 1 + i # 0 /\ (1 + i) - 1 = i /\ 0 + i = i /\ i \in 0..C
      BY <2>5
    <3>2. at2[1 + i] = at[i]
      BY <2>4, <3>1
    <3> QED
      BY <1>2, <2>5, <3>1, <3>2 DEF Hit
  <2>7. /\ g2[0] = << >> /\ g[0] = << >> /\ at2[0] = n
        /\ g2[1] = IF Hit(at2, node', x, 0) THEN Append(g2[0], node'[at2[0]].value) ELSE g2[0]
    <3>1. 0 \in 0..C - 1 /\ 0 + 1 = 1
      BY <2>5
    <3>2. g2[0 + 1] = IF Hit(at2, node', x, 0) THEN Append(g2[0], node'[at2[0]].value)
                      ELSE g2[0]
      BY <2>2, <3>1 DEF Collects
    <3> QED
      BY <2>1, <2>2, <2>4, <3>1, <3>2 DEF Collects
  <2>8. g[C] = g[C - 1]
    <3>1. C - 1 \in 0..C - 1 /\ (C - 1) + 1 = C
      BY <2>5
    <3> QED
      BY <2>1, <2>5, <3>1 DEF Collects, Hit
  <2>9. /\ 0 \in 0..C /\ 1 \in 0..C /\ C \in 0..C /\ C - 1 \in Nat
        /\ C - 1 = 0 + (C - 1) /\ C = 1 + (C - 1)
    BY <2>5
  <2>10. \A p, q \in Seq(Values) : Behind(p, q, g[0], g2[1]) => Behind(p, q, g[C - 1], g2[C])
    BY <2>1, <2>2, <2>5, <2>6, <2>9, SameBehind
  <2>11. CASE x = k
    <3>1. Behind(<< >>, << v >>, g[0], g2[1])
      <4>1. Append(<< >>, v) = << v >>
        BY AppendIsConcat, EmptySeq, ConcatEmptySeq, NoValues
      <4>2. g2[1] = << v >>
        BY <1>2, <2>7, <2>11, <4>1 DEF Hit
      <4> QED
        BY <2>7, <4>2, BehindStart
    <3>2. Behind(<< >>, << v >>, g[C - 1], g2[C])
      BY <2>10, <3>1, NoValues
    <3> QED
      BY <2>1, <2>2, <2>8, <2>11, <3>2, BehindEnd
  <2>12. CASE x # k
    <3>1. Behind(<< >>, << >>, g[0], g2[1])
      BY <1>2, <2>7, <2>12, BehindStart DEF Hit
    <3>2. Behind(<< >>, << >>, g[C - 1], g2[C])
      BY <2>10, <3>1, NoValues
    <3> QED
      BY <2>1, <2>2, <2>8, <2>12, <3>2, BehindEnd
  <2> QED
    BY <2>11, <2>12
<1> QED
  BY <1>3, <1>4

\* What a search that finds something has passed: nodes without the key, and
\* then one that has it, behind which the list goes on.
LEMMA FoundFirst ==
  ASSUME NEW g, NEW at, NEW heap, NEW k, Collects(g, at, heap, k), NEW j \in 0..C,
         at[C] = NULL, at[j] # NULL, heap[at[j]].key = k, heap[at[j]].value \in Values,
         \A i \in 0..j - 1 : ~Hit(at, heap, k, i)
  PROVE  /\ j \in 0..C - 1 /\ j + 1 \in 0..C /\ C - (j + 1) \in Nat
         /\ C = (j + 1) + (C - (j + 1)) /\ C \in 0..C
         /\ g[j] = << >> /\ g[j + 1] = << heap[at[j]].value >>
<1> USE Constants
<1>1. /\ j \in 0..C - 1 /\ j + 1 \in 0..C /\ C - (j + 1) \in Nat
      /\ C = (j + 1) + (C - (j + 1)) /\ C \in 0..C
  <2>1. j # C
    OBVIOUS
  <2> QED
    BY <2>1
<1>2. g[j] = << >>
  BY NoHits
<1>3. g[j + 1] = Append(<< >>, heap[at[j]].value)
  BY <1>1, <1>2 DEF Collects, Hit
<1>4. Append(<< >>, heap[at[j]].value) = << heap[at[j]].value >>
  BY AppendIsConcat, EmptySeq, ConcatEmptySeq, NoValues
<1> QED
  BY <1>1, <1>2, <1>3, <1>4

\* What is the first of a key's values, and what is behind it.
LEMMA BehindFirst ==
  ASSUME NEW x, NEW y, NEW old \in Values
  PROVE  /\ Behind(<< old >>, << >>, x, y) => x # << >> /\ y = Tail(x)
         /\ \A v \in Values : Behind(<< old >>, << v >>, x, y) =>
                x # << >> /\ y = << v >> \o Tail(x)
<1>1. ASSUME NEW u \in Seq(Values)
      PROVE  << old >> \o u # << >> /\ Tail(<< old >> \o u) = u /\ << >> \o u = u
  OBVIOUS
<1> QED
  BY <1>1 DEF Behind

LEMMA UpdateContents ==
  ASSUME Inv, NEW k \in Keys, NEW v \in Values, Update(k, v), NEW x \in Keys
  PROVE  /\ x = k => Contents(k) # << >> /\ Contents(k)' = << v >> \o Tail(Contents(k))
         /\ x # k => Contents(x)' = Contents(x)
<1> USE Constants
<1> DEFINE n == Found(k)
<1>1. /\ n # NULL /\ node' = [node EXCEPT ![n].value = v]
      /\ Walk(hash_func(x))' = Walk(hash_func(x))
  BY UpdateStep DEF Update
<1>2. PICK j \in 0..C :
          /\ Walk(hash_func(k))[j] = n /\ node[n].key = k
          /\ \A i \in 0..j - 1 : LET m == Walk(hash_func(k))[i] IN m = NULL \/ node[m].key # k
  BY <1>1, FoundIs
<1> HIDE DEF n
<1>3. n \in live /\ node[n].value \in Values
  BY <1>1, <1>2, Met
<1>4. /\ node'[n].value = v
      /\ \A m \in live : /\ node'[m].key = node[m].key
                         /\ m # n => node'[m].value = node[m].value
  BY <1>1, <1>3 DEF Inv, HeapOK, Node
<1>5. CASE x # k
  BY <1>1, <1>2, <1>4, <1>5, Met, ContentsKept
<1>6. CASE x = k
  <2> DEFINE at == Walk(hash_func(k))
  <2>1. PICK g : Contents(k) = g[C] /\ Collects(g, at, node, k)
    BY ContentsCollect
  <2>2. PICK g2 : Contents(k)' = g2[C] /\ Collects(g2, at, node', k)
    <3>1. \E g2 : Contents(k)' = g2[C] /\ Collects(g2, Walk(hash_func(k))', node', k)
      BY ContentsCollect
    <3> QED
      BY <1>1, <1>6, <3>1
  <2>3. /\ at[C] = NULL
        /\ \A i \in 0..C : at[i] # NULL => at[i] \in live /\ node[at[i]].value \in Values
        /\ \A i \in 0..C : at[i] = at[j] => i = j
    <3>1. BucketOK(hash_func(k)) /\ live \subseteq Nodes
      BY DEF Inv, HeapOK
    <3> QED
      BY <1>1, <1>2, <3>1, WalkEnds, Met DEF BucketOK
  <2>4. at[j] = n /\ \A i \in 0..j - 1 : i \in 0..C /\ ~Hit(at, node, k, i)
    BY <1>2 DEF Hit
  <2> HIDE DEF at
  <2>5. \A i \in 0..j - 1 : ~Hit(at, node', k, i)
    BY <1>4, <2>3, <2>4 DEF Hit
  <2>6. /\ j \in 0..C - 1 /\ j + 1 \in 0..C /\ C - (j + 1) \in Nat
        /\ C = (j + 1) + (C - (j + 1)) /\ C \in 0..C
        /\ g[j + 1] = << node[n].value >>
    <3>1. /\ at[j] # NULL /\ node[at[j]].key = k /\ node[at[j]].value \in Values
          /\ \A i \in 0..j - 1 : ~Hit(at, node, k, i)
      BY <1>1, <1>2, <1>3, <2>4
    <3> QED
      BY <2>1, <2>3, <2>4, <3>1, FoundFirst
  <2>7. g2[j + 1] = << v >>
    <3>1. at[j] # NULL /\ node'[at[j]].key = k /\ node'[at[j]].value \in Values
      BY <1>1, <1>2, <1>3, <1>4, <2>4
    <3> QED
      BY <1>4, <2>2, <2>3, <2>4, <2>5, <3>1, FoundFirst
  <2>8. Alike(at, node, j + 1, at, node', j + 1, C - (j + 1), k)
    <3> SUFFICES ASSUME NEW i \in 0..(C - (j + 1)) - 1
                 PROVE  /\ Hit(at, node', k, (j + 1) + i) <=> Hit(at, node, k, (j + 1) + i)
                        /\ Hit(at, node, k, (j + 1) + i) =>
                               /\ node[at[(j + 1) + i]].value \in Values
                               /\ node'[at[(j + 1) + i]].value = node[at[(j + 1) + i]].value
      BY DEF Alike
    <3>1. (j + 1) + i \in 0..C /\ (j + 1) + i # j
      BY <2>6
    <3> QED
      BY <1>4, <2>3, <2>4, <3>1 DEF Hit
  <2>9. \A p, q \in Seq(Values) : Behind(p, q, g[j + 1], g2[j + 1]) => Behind(p, q, g[C], g2[C])
    <3> DEFINE len == C - (j + 1)
               from == j + 1
    <3>1. /\ Alike(at, node, from, at, node', from, len, k)
          /\ from \in 0..C /\ C \in 0..C /\ len \in Nat /\ C = from + len
      BY <2>6, <2>8
    <3> HIDE DEF len, from
    <3>2. \A p, q \in Seq(Values) : Behind(p, q, g[from], g2[from]) => Behind(p, q, g[C], g2[C])
      BY <2>1, <2>2, <3>1, SameBehind
    <3> QED
      BY <3>2 DEF from
  <2>10. Behind(<< node[n].value >>, << v >>, g[j + 1], g2[j + 1])
    BY <1>3, <2>6, <2>7, NoValues, EmptySeq DEF Behind
  <2>11. Behind(<< node[n].value >>, << v >>, g[C], g2[C])
    BY <1>3, <2>9, <2>10, NoValues
  <2> QED
    BY <1>3, <1>6, <2>1, <2>2, <2>11, BehindFirst
<1> QED
  BY <1>5, <1>6

LEMMA FreeContents ==
  ASSUME Inv, NEW k \in Keys, hash_free_entry(k), state' = state, state = "live", NEW x \in Keys
  PROVE  /\ x = k => Contents(k) # << >> /\ Contents(k)' = Tail(Contents(k))
         /\ x # k => Contents(x)' = Contents(x)
<1> USE Constants
<1> DEFINE n == Found(k)
<1>1. /\ n \in live /\ node' = Unlinked(n)
      /\ head' = IF node[n].pre = NULL THEN [head EXCEPT ![hash_func(k)] = node[n].next] ELSE head
  BY FreeFinds
<1>2. PICK j \in 0..C :
          /\ Walk(hash_func(k))[j] = n /\ node[n].key = k
          /\ \A i \in 0..j - 1 : LET m == Walk(hash_func(k))[i] IN m = NULL \/ node[m].key # k
  BY FreeFinds
<1> HIDE DEF n
<1>3. n # NULL /\ node[n].value \in Values
  BY <1>1 DEF Inv, HeapOK
<1>4. \A m \in live : m # n => node'[m].key = node[m].key /\ node'[m].value = node[m].value
  BY <1>1 DEF Inv, HeapOK, Node, Unlinked
<1>5. CASE hash_func(x) # hash_func(k)
  <2>1. Walk(hash_func(x))' = Walk(hash_func(x))
    BY <1>1, <1>2, <1>5, FreeWalk
  <2>2. \A i \in 0..C : Walk(hash_func(x))[i] # NULL =>
            /\ Walk(hash_func(x))[i] \in live
            /\ hash_func(node[Walk(hash_func(x))[i]].key) = hash_func(x)
    BY DEF Inv, BucketOK
  <2>3. \A i \in 0..C : Walk(hash_func(x))[i] # NULL =>
            Walk(hash_func(x))[i] \in live /\ Walk(hash_func(x))[i] # n
    BY <1>2, <1>5, <2>2
  <2> QED
    BY <1>4, <1>5, <2>1, <2>3, ContentsKept
<1>6. CASE hash_func(x) = hash_func(k)
  <2> DEFINE at == Walk(hash_func(x))
             at2 == Walk(hash_func(x))'
  <2>1. PICK g : Contents(x) = g[C] /\ Collects(g, at, node, x)
    BY ContentsCollect
  <2>2. PICK g2 : Contents(x)' = g2[C] /\ Collects(g2, at2, node', x)
    BY ContentsCollect
  <2>3. /\ at[j] = n
        /\ at2 = [i \in 0..C |-> IF i < j THEN at[i] ELSE IF i < C THEN at[i + 1] ELSE NULL]
    <3>1. Walk(hash_func(k))' =
              [i \in 0..C |-> IF i < j THEN Walk(hash_func(k))[i]
                              ELSE IF i < C THEN Walk(hash_func(k))[i + 1] ELSE NULL]
      BY <1>1, <1>2, FreeWalk
    <3> QED
      BY <1>2, <1>6, <3>1
  <2>4. /\ at[C] = NULL
        /\ \A i \in 0..C : at[i] # NULL => at[i] \in live /\ node[at[i]].value \in Values
        /\ \A i \in 0..C : at[i] = n => i = j
    <3>1. BucketOK(hash_func(x)) /\ live \subseteq Nodes
      BY DEF Inv, HeapOK
    <3> QED
      BY <1>3, <2>3, <3>1, WalkEnds, Met DEF BucketOK
  <2>5. ASSUME x = k
        PROVE  \A i \in 0..j - 1 : i \in 0..C /\ ~Hit(at, node, x, i)
    BY <1>2, <2>5 DEF Hit
  <2> HIDE DEF at, at2
  <2>6. j \in 0..C - 1 /\ j + 1 \in 0..C /\ C \in 0..C /\ C - 1 \in 0..C /\ 0 \in 0..C
    <3>1. j # C
      BY <1>3, <2>3, <2>4
    <3> QED
      BY <3>1
  <2>7. Alike(at, node, 0, at2, node', 0, j, x)
    <3> SUFFICES ASSUME NEW i \in 0..j - 1
                 PROVE  /\ Hit(at2, node', x, 0 + i) <=> Hit(at, node, x, 0 + i)
                        /\ Hit(at, node, x, 0 + i) =>
                               /\ node[at[0 + i]].value \in Values
                               /\ node'[at2[0 + i]].value = node[at[0 + i]].value
      BY DEF Alike
    <3>1. 0 + i = i /\ i \in 0..C /\ i # j /\ i < j
      OBVIOUS
    <3>2. at2[i] = at[i]
      BY <2>3, <3>1
    <3> QED
      BY <1>4, <2>4, <3>1, <3>2 DEF Hit
  <2>8. Alike(at, node, j + 1, at2, node', j, C - (j + 1), x)
    <3> SUFFICES ASSUME NEW i \in 0..(C - (j + 1)) - 1
                 PROVE  /\ Hit(at2, node', x, j + i) <=> Hit(at, node, x, (j + 1) + i)
                        /\ Hit(at, node, x, (j + 1) + i) =>
                               /\ node[at[(j + 1) + i]].value \in Values
                               /\ node'[at2[j + i]].value = node[at[(j + 1) + i]].value
      BY DEF Alike
    <3>1. /\ (j + 1) + i \in 0..C /\ (j + 1) + i # j
          /\ j + i \in 0..C /\ ~(j + i < j) /\ j + i < C /\ (j + i) + 1 = (j + 1) + i
      BY <2>6
    <3>2. at2[j + i] = at[(j + 1) + i]
      BY <2>3, <3>1
    <3> QED
      BY <1>4, <2>4, <3>1, <3>2 DEF Hit
  <2>9. \A p, q \in Seq(Values) : Behind(p, q, g[j + 1], g2[j]) => Behind(p, q, g[C], g2[C - 1])
    <3> DEFINE len == C - (j + 1)
               from == j + 1
               last == C - 1
    <3>1. /\ Alike(at, node, from, at2, node', j, len, x)
          /\ from \in 0..C /\ C \in 0..C /\ len \in Nat /\ C = from + len
          /\ last \in 0..C /\ last = j + len
      BY <2>6, <2>8
    <3> HIDE DEF len, from, last
    <3>2. \A p, q \in Seq(Values) : Behind(p, q, g[from], g2[j]) => Behind(p, q, g[C], g2[last])
      BY <2>1, <2>2, <3>1, SameBehind
    <3> QED
      BY <3>2 DEF from, last
  <2>10. g2[C] = g2[C - 1]
    <3>1. /\ C - 1 \in 0..C - 1 /\ (C - 1) + 1 = C /\ C - 1 \in 0..C
          /\ ~(C - 1 < j) /\ C - 1 < C
      BY <2>6
    <3>2. at2[C - 1] = NULL
      BY <2>3, <2>4, <3>1
    <3> QED
      BY <2>2, <3>1, <3>2 DEF Collects, Hit
  <2>11. CASE x = k
    <3>1. /\ at[j] # NULL /\ node[at[j]].key = x /\ node[at[j]].value \in Values
          /\ \A i \in 0..j - 1 : ~Hit(at, node, x, i)
      BY <1>2, <1>3, <2>3, <2>5, <2>11
    <3>2. g[j + 1] = << node[n].value >>
      BY <2>1, <2>3, <2>4, <3>1, FoundFirst
    <3>3. g2[j] = << >>
      <4>1. \A i \in 0..j - 1 : ~Hit(at2, node', x, i)
        <5> TAKE i \in 0..j - 1
        <5>1. i \in 0..C /\ i < j /\ i # j
          OBVIOUS
        <5>2. at2[i] = at[i] /\ ~Hit(at, node, x, i)
          BY <2>3, <3>1, <5>1
        <5> QED
          BY <1>4, <2>4, <5>1, <5>2 DEF Hit
      <4> QED
        BY <2>2, <4>1, NoHits
    <3>4. Behind(<< node[n].value >>, << >>, g[j + 1], g2[j])
      BY <1>3, <3>2, <3>3, NoValues, EmptySeq, ConcatEmptySeq DEF Behind
    <3>5. Behind(<< node[n].value >>, << >>, g[C], g2[C - 1])
      BY <1>3, <2>9, <3>4, NoValues
    <3> QED
      BY <1>3, <2>1, <2>2, <2>10, <2>11, <3>5, BehindFirst
  <2>12. CASE x # k
    <3>1. g[0] = << >> /\ g2[0] = << >>
      BY <2>1, <2>2 DEF Collects
    <3>2. \A p, q \in Seq(Values) : Behind(p, q, g[0], g2[0]) => Behind(p, q, g[j], g2[j])
      <4>1. j \in Nat /\ j = 0 + j
        OBVIOUS
      <4> QED
        BY <2>1, <2>2, <2>6, <2>7, <4>1, SameBehind
    <3>3. Behind(<< >>, << >>, g[j], g2[j])
      BY <3>1, <3>2, BehindStart, NoValues
    <3>4. g[j + 1] = g[j]
      BY <1>2, <2>1, <2>3, <2>6, <2>12 DEF Collects, Hit
    <3>5. Behind(<< >>, << >>, g[C], g2[C - 1])
      BY <2>9, <3>3, <3>4, NoValues
    <3> QED
      BY <2>1, <2>2, <2>10, <2>12, <3>5, BehindEnd
  <2> QED
    BY <2>11, <2>12
<1> QED
  BY <1>5, <1>6

\* A key none of whose nodes can be met has no values.
LEMMA NoContents ==
  ASSUME NEW k
  PROVE  /\ (\A i \in 0..C : Walk(hash_func(k))[i] = NULL) => Contents(k) = << >>
         /\ (\A i \in 0..C : Walk(hash_func(k))'[i] = NULL) => Contents(k)' = << >>
<1>1. C \in 0..C /\ \A i \in 0..C - 1 : i \in 0..C
  BY Constants
<1>2. ASSUME NEW at, NEW heap, NEW g, Collects(g, at, heap, k), \A i \in 0..C : at[i] = NULL
      PROVE  g[C] = << >>
  <2>1. \A i \in 0..C - 1 : ~Hit(at, heap, k, i)
    BY <1>1, <1>2 DEF Hit
  <2> QED
    BY <1>1, <1>2, <2>1, NoHits
<1>3. PICK g : Contents(k) = g[C] /\ Collects(g, Walk(hash_func(k)), node, k)
  BY ContentsCollect
<1>4. PICK h : Contents(k)' = h[C] /\ Collects(h, Walk(hash_func(k))', node', k)
  BY ContentsCollect
<1> QED
  BY <1>2, <1>3, <1>4

\* For any number of buckets and nodes, and any keys, hash.c is the map
\* whose users add, look up and free under a key without regard to the keys
\* that share its bucket.
THEOREM TableIsMap == Spec => ImplementsShadowMap
<1> USE Constants
<1> DEFINE vals == [k \in Keys |-> Contents(k)]
<1>1. Init => Abstract!Init
  <2> SUFFICES ASSUME Init
               PROVE  \A k \in Keys : Contents(k) = << >>
    BY DEF Abstract!Init
  <2>1. Inv /\ live = {}
    BY InitInv DEF Init
  <2> QED
    BY <2>1, NoContents DEF Inv, BucketOK
<1>2. Inv /\ [Next]_vars => [Abstract!Next]_vals
  <2> SUFFICES ASSUME Inv, [Next]_vars
               PROVE  Abstract!Next \/ vals' = vals
    OBVIOUS
  <2>1. ASSUME UNCHANGED <<head, node>>
        PROVE  vals' = vals
    <3>1. \A k \in Keys : Walk(hash_func(k))' = Walk(hash_func(k))
      BY <2>1, WalkKept
    <3> QED
      BY <2>1, <3>1, ContentsKept
  <2>2. CASE UNCHANGED vars
    BY <2>1, <2>2 DEF vars
  <2>3. ASSUME NEW k \in Keys, NEW v \in Values, hash_add_entry(k, v)
        PROVE  Abstract!Next
    <3>1. Abstract!Add(k, v)
      BY <2>3, AddContents DEF Abstract!Add
    <3> QED
      BY <3>1 DEF Abstract!Next
  <2>4. ASSUME NEW k \in Keys, NEW v \in Values, Update(k, v)
        PROVE  Abstract!Next
    <3>1. Abstract!Update(k, v)
      BY <2>4, UpdateContents DEF Abstract!Update, Abstract!Has
    <3> QED
      BY <3>1 DEF Abstract!Next
  <2>5. ASSUME NEW k \in Keys, hash_free_entry(k), state = "live"
        PROVE  Abstract!Next \/ vals' = vals
    <3>1. CASE state' # state
      BY <2>1, <2>5, <3>1 DEF hash_free_entry
    <3>2. CASE state' = state
      <4>1. Abstract!Free(k)
        BY <2>5, <3>2, FreeContents DEF Abstract!Free, Abstract!Has
      <4> QED
        BY <4>1 DEF Abstract!Next
    <3> QED
      BY <3>1, <3>2
  <2>6. ASSUME hash_clear_entry
        PROVE  Abstract!Next
    <3>1. Abstract!Clear
      BY <2>6, ClearStep, NoContents DEF Abstract!Clear
    <3> QED
      BY <3>1 DEF Abstract!Next
  <2>7. CASE Next
    BY <2>3, <2>4, <2>5, <2>6, <2>7 DEF Next
  <2> QED
    BY <2>2, <2>7
<1> QED
  BY <1>1, <1>2, Safety, PTL DEF Spec, ImplementsShadowMap, Abstract!Spec
=============================================================================
