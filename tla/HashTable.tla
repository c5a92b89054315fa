----------------------------- MODULE HashTable ------------------------------
(***************************************************************************)
(* The hash table of hash.c: an array of buckets, each a doubly linked     *)
(* list of nodes on the heap.  A node is added at the head of its bucket,  *)
(* also if its key is there already.                                       *)
(***************************************************************************)
EXTENDS Integers, Sequences, FiniteSets, FiniteSetsExt

CONSTANTS Keys,      \* numbers, as pids and addresses are
          Values,
          Buckets,   \* 256 in ftp_assist.c
          Nodes,     \* bound: the blocks malloc can give
          NULL

ASSUME BucketsAssumption == Buckets \in Nat \ {0}
ASSUME KeysAssumption == Keys \subseteq Nat
ASSUME NodesAssumption == IsFiniteSet(Nodes) /\ NULL \notin Nodes

VARIABLES head,      \* hash->nodes
          node,      \* the contents of the nodes
          live,      \* those allocated
          state      \* "live", "destroyed", or "aborted" by an assert

vars == <<head, node, live, state>>

\* hash_func of ftp_assist.c
hash_func(key) == key % Buckets

\* A node after memset; what a freed one holds is not looked at.
Blank == [key |-> 0, value |-> 0, pre |-> NULL, next |-> NULL]

\* hash_alloc
Init == /\ head = [b \in 0..Buckets - 1 |-> NULL]
        /\ node = [n \in Nodes |-> Blank]
        /\ live = {} /\ state = "live"

\* The i-th node of bucket b, from 0; NULL behind the last.
Walk(b) ==
    LET at[i \in 0..Cardinality(Nodes)] ==
            IF i = 0 THEN head[b]
            ELSE IF at[i - 1] = NULL THEN NULL ELSE node[at[i - 1]].next
    IN  at

InBucket(b) == {Walk(b)[i] : i \in 0..Cardinality(Nodes)} \ {NULL}

\* Mutant: the search goes on to the last node with the key.
Found_Oldest(k) ==
    LET at == Walk(hash_func(k))
        hits == {i \in DOMAIN at : at[i] # NULL /\ node[at[i]].key = k}
    IN  IF hits = {} THEN NULL ELSE at[Max(hits)]

\* hash_get_node_by_key
Found(k) ==
    LET at == Walk(hash_func(k))
        hits == {i \in DOMAIN at : at[i] # NULL /\ node[at[i]].key = k}
    IN  IF hits = {} THEN NULL ELSE at[Min(hits)]

-----------------------------------------------------------------------------
\* Mutant: the old head is not linked back to the new node.
Linked_OneWay(n, k, v) ==
    [node EXCEPT ![n] = [key |-> k, value |-> v, pre |-> NULL,
                         next |-> head[hash_func(k)]]]

\* n becomes the first node of its bucket.
Linked(n, k, v) ==
    [m \in Nodes |->
        IF m = n THEN [key |-> k, value |-> v, pre |-> NULL,
                       next |-> head[hash_func(k)]]
        ELSE IF m = head[hash_func(k)] THEN [node[m] EXCEPT !.pre = n]
        ELSE node[m]]

\* hash_add_entry; without memory for the node nothing happens, and nobody
\* is told.
hash_add_entry(k, v) ==
    \E n \in Nodes \ live :
        /\ node' = Linked(n, k, v)
        /\ head' = [head EXCEPT ![hash_func(k)] = n]
        /\ live' = live \cup {n}
        /\ UNCHANGED state

\* The user of hash_lookup_value_by_key stores a value.
Update(k, v) ==
    /\ Found(k) # NULL
    /\ node' = [node EXCEPT ![Found(k)].value = v]
    /\ UNCHANGED <<head, live, state>>

\* n is taken out of its list.
Unlinked(n) ==
    [m \in Nodes |->
        IF m = n THEN Blank
        ELSE IF m = node[n].pre THEN [node[m] EXCEPT !.next = node[n].next]
        ELSE IF m = node[n].next THEN [node[m] EXCEPT !.pre = node[n].pre]
        ELSE node[m]]

\* hash_free_entry; a key that is not there fails the assert.
hash_free_entry(k) ==
    LET n == Found(k)
    IN  \/ n = NULL /\ state' = "aborted" /\ UNCHANGED <<head, node, live>>
        \/ /\ n # NULL
           /\ node' = Unlinked(n)
           /\ head' = IF node[n].pre = NULL
                      THEN [head EXCEPT ![hash_func(k)] = node[n].next]
                      ELSE head
           /\ live' = live \ {n}
           /\ UNCHANGED state

\* hash_clear_entry frees what it meets in the buckets; hash_destroy does the
\* same, and then the table is gone.
hash_clear_entry ==
    LET met == UNION {InBucket(b) : b \in 0..Buckets - 1}
    IN  /\ live' = live \ met
        /\ node' = [n \in Nodes |-> IF n \in met THEN Blank ELSE node[n]]
        /\ head' = [b \in 0..Buckets - 1 |-> NULL]
        /\ state' \in {"live", "destroyed"}

Next == /\ state = "live"
        /\ \/ \E k \in Keys, v \in Values : hash_add_entry(k, v) \/ Update(k, v)
           \/ \E k \in Keys : hash_free_entry(k)
           \/ hash_clear_entry

Spec == Init /\ [][Next]_vars

-----------------------------------------------------------------------------
(***************************************************************************)
(* Properties.                                                             *)
(***************************************************************************)

\* Every allocated node is in the bucket of its key, once, and the links
\* forward and back agree: none leads to a freed node, and none is lost.
TypeOK ==
    /\ state \in {"live", "destroyed", "aborted"}
    /\ head \in [0..Buckets - 1 -> live \cup {NULL}]
    /\ \A b \in 0..Buckets - 1 : head[b] # NULL => node[head[b]].pre = NULL
    /\ live = UNION {InBucket(b) : b \in 0..Buckets - 1}
    /\ \A n \in live :
           /\ node[n].key \in Keys /\ node[n].value \in Values
           /\ n \in InBucket(hash_func(node[n].key))
           /\ {node[n].pre, node[n].next} \subseteq live \cup {NULL}
           /\ node[n].next # NULL => node[node[n].next].pre = n
           /\ node[n].pre = NULL => head[hash_func(node[n].key)] = n

\* The values of k, in the order in which the search meets them: of[i] are
\* those of the first i nodes of the bucket.
Contents(k) ==
    LET at == Walk(hash_func(k))
        of[i \in 0..Cardinality(Nodes)] ==
            IF i = 0 THEN << >>
            ELSE IF at[i - 1] # NULL /\ node[at[i - 1]].key = k
            THEN Append(of[i - 1], node[at[i - 1]].value)
            ELSE of[i - 1]
    IN  of[Cardinality(Nodes)]

Abstract == INSTANCE ShadowMap WITH vals <- [k \in Keys |-> Contents(k)]

\* Whatever keys collide or are added twice, the table is the map it stands
\* for (all of hash.c).
ImplementsShadowMap == Abstract!Spec
=============================================================================
