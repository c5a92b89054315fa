----------------------------- MODULE ShadowMap ------------------------------
(***************************************************************************)
(* What the hash table of hash.c is to its users: a map in which a value   *)
(* added under a key that is there already hides the older one until it is *)
(* freed.                                                                  *)
(***************************************************************************)
EXTENDS Naturals, Sequences

CONSTANTS Keys, Values

VARIABLE vals   \* the values of each key, the latest first

Init == vals = [k \in Keys |-> << >>]

Has(k) == vals[k] # << >>

\* hash_lookup_value_by_key
Lookup(k) == Head(vals[k])

\* hash_add_entry
Add(k, v) == vals' = [vals EXCEPT ![k] = <<v>> \o @]

\* The user stores through the pointer that the lookup returned.
Update(k, v) == Has(k) /\ vals' = [vals EXCEPT ![k] = <<v>> \o Tail(@)]

\* hash_free_entry
Free(k) == Has(k) /\ vals' = [vals EXCEPT ![k] = Tail(@)]

\* hash_clear_entry, hash_destroy
Clear == vals' = [k \in Keys |-> << >>]

Next == \/ \E k \in Keys, v \in Values : Add(k, v) \/ Update(k, v)
        \/ \E k \in Keys : Free(k)
        \/ Clear

Spec == Init /\ [][Next]_vals
=============================================================================
