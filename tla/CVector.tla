------------------------------- MODULE CVector -------------------------------
(***************************************************************************)
(* The growable vector of cvector.c, which holds the session registry.     *)
(* Its block has tot slots, of which the first len are in use; it doubles  *)
(* when it is full and halves when a quarter of it is used.                *)
(*                                                                         *)
(* realloc may find no memory, and may move the block, which leaves the    *)
(* iterators of the caller pointing into the old one.                      *)
(***************************************************************************)
EXTENDS Integers, Sequences

CONSTANTS Elems,    \* what the caller stores
          Junk,     \* what a slot that was never set holds
          MinLen,   \* MIN_LEN, 256 in the code
          MaxTot    \* bound: the largest block

ASSUME JunkAssumption == Junk \notin Elems
ASSUME MinLenAssumption == MinLen \in Nat \ {0}
ASSUME MaxTotAssumption == MaxTot \in Nat

VARIABLES tot,      \* cv_tot_len
          len,      \* cv_len
          slot,     \* the slots of cv_pdata
          ret,      \* what the last operation returned
          past,     \* history: it touched the slot after the last one
          lost      \* history: it lost the block, or used it after it moved

vars == <<tot, len, slot, ret, past, lost>>

-----------------------------------------------------------------------------
CVESUCCESS == 0
CVEFAILED == -1
CVEPUSHBACK == 1
CVEPOPBACK == 2
CVEINSERT == 3
CVERM == 4

Value == Elems \cup {Junk}

Init == /\ tot = MinLen /\ len = 0
        /\ slot = [i \in 0..MinLen - 1 |-> Junk]
        /\ ret = CVESUCCESS
        /\ past = FALSE /\ lost = FALSE

\* realloc keeps what fits; the rest is not set.
Realloc(slots, n) == [i \in 0..n - 1 |-> IF i < tot THEN slots[i] ELSE Junk]

\* The operation returns r and changes nothing.
Refuse(r) == /\ ret' = r /\ past' = FALSE
             /\ UNCHANGED <<tot, len, slot, lost>>

\* The operation is done, on a block of n slots, up to the slot at last.
Done(last, n) == past' = (last >= n) /\ UNCHANGED lost

-----------------------------------------------------------------------------
\* Mutant: a full block is not noticed.
HasRoom_OffByOne == len <= tot

HasRoom == len < tot

\* A full block is doubled, if there is memory.
CanDouble == len >= tot /\ 2 * tot <= MaxTot

\* cvector_pushback
PushBack(e) ==
    \/ /\ HasRoom
       /\ UNCHANGED tot
       /\ slot' = [slot EXCEPT ![len] = e]
       /\ len' = len + 1 /\ ret' = CVESUCCESS
       /\ Done(len, tot)
    \/ /\ CanDouble
       /\ tot' = 2 * tot
       /\ slot' = [Realloc(slot, 2 * tot) EXCEPT ![len] = e]
       /\ len' = len + 1 /\ ret' = CVESUCCESS
       /\ Done(len, 2 * tot)
    \/ len >= tot /\ Refuse(CVEPUSHBACK)

\* Mutant: the block is halved as soon as half of it will do.
Shrink_AtHalf(slots, r) ==
    IF tot >= 2 * MinLen /\ 2 * len' <= tot
    THEN \/ /\ tot' = tot \div 2
            /\ slot' = Realloc(slots, tot \div 2)
            /\ ret' = CVESUCCESS
         \/ UNCHANGED tot /\ slot' = slots /\ ret' = r
    ELSE UNCHANGED tot /\ slot' = slots /\ ret' = CVESUCCESS

\* An element is gone, and the block holds slots.  If the smaller block is
\* not to be had, the operation returns r, but it is done.
Shrink(slots, r) ==
    IF tot >= 4 * MinLen /\ len' <= tot \div 4
    THEN \/ /\ tot' = tot \div 2
            /\ slot' = Realloc(slots, tot \div 2)
            /\ ret' = CVESUCCESS
         \/ UNCHANGED tot /\ slot' = slots /\ ret' = r
    ELSE UNCHANGED tot /\ slot' = slots /\ ret' = CVESUCCESS

\* cvector_popback
PopBack ==
    \/ len <= 0 /\ Refuse(CVEPOPBACK)
    \/ /\ len > 0
       /\ len' = len - 1
       /\ Shrink(slot, CVEPOPBACK)
       /\ Done(len - 1, tot)

\* Mutant: the slots are copied in ascending order.
Shifted_Ascending(slots, i, e) ==
    [j \in DOMAIN slots |-> IF j < i \/ j > len + 1 THEN slots[j]
                            ELSE IF j = i THEN e ELSE slots[i]]

\* cvmemove_foreward moves the slots from i to len, one more than is in use,
\* and e takes the place of the one at i.
Shifted(slots, i, e) ==
    [j \in DOMAIN slots |-> IF j < i \/ j > len + 1 THEN slots[j]
                            ELSE IF j = i THEN e ELSE slots[j - 1]]

\* cvector_insert: an iterator outside the elements is refused with r, and
\* no memory with s.  After realloc the iterator is used as it was: if the
\* block has moved, memory is overwritten that no longer belongs to it.
Inserting(i, e, r, s) ==
    \/ i >= len /\ Refuse(r)
    \/ /\ i < len /\ HasRoom
       /\ UNCHANGED tot
       /\ slot' = Shifted(slot, i, e)
       /\ len' = len + 1 /\ ret' = CVESUCCESS
       /\ Done(len + 1, tot)
    \/ /\ i < len /\ CanDouble
       /\ tot' = 2 * tot
       /\ slot' = Shifted(Realloc(slot, 2 * tot), i, e)
       /\ len' = len + 1 /\ ret' = CVESUCCESS
       /\ Done(len + 1, 2 * tot)
    \/ /\ i < len /\ CanDouble
       /\ lost' = TRUE
       /\ UNCHANGED <<tot, len, slot, ret, past>>
    \/ i < len /\ len >= tot /\ Refuse(s)

Insert(i, e) == Inserting(i, e, CVEFAILED, CVEINSERT)

\* The sizes the block may double to until it holds n elements and more.
Doubled(n) == {t \in n + 1..MaxTot :
                   t <= 2 * n /\ \E k \in 1..n + 1 : t = tot * 2^k}

\* cvector_insert_at: inside the block it is cvector_insert, whatever that
\* returns.  Outside, the block grows; if it cannot, cv_pdata is gone.
InsertAt(i, e) ==
    \/ i < tot /\ Inserting(i, e, CVESUCCESS, CVESUCCESS)
    \/ /\ i >= tot
       /\ \E t \in Doubled(i + 1) :
              tot' = t /\ slot' = [Realloc(slot, t) EXCEPT ![i] = e]
       /\ len' = i + 1 /\ ret' = CVESUCCESS
       /\ Done(i, tot')
    \/ /\ i >= tot
       /\ lost' = TRUE
       /\ UNCHANGED <<tot, len, slot, ret, past>>

\* The slots after i move down, one more than is in use.
Closed(i) == [j \in DOMAIN slot |-> IF j < i \/ j >= len THEN slot[j]
                                    ELSE IF j + 1 < tot THEN slot[j + 1] ELSE Junk]

\* cvector_rm, and cvector_rm_at, which calls it.
Rm(i) ==
    \/ i >= len /\ Refuse(CVEFAILED)
    \/ /\ i < len
       /\ len' = len - 1
       /\ Shrink(Closed(i), CVERM)
       /\ Done(len, tot)

Next == /\ ~lost
        /\ \/ \E e \in Elems : PushBack(e)
           \/ PopBack
           \/ \E i \in 0..MaxTot, e \in Elems : Insert(i, e) \/ InsertAt(i, e)
           \/ \E i \in 0..MaxTot : Rm(i)

Spec == Init /\ [][Next]_vars

-----------------------------------------------------------------------------
(***************************************************************************)
(* Properties.                                                             *)
(***************************************************************************)

TypeOK ==
    /\ tot \in Nat /\ tot >= MinLen
    /\ len \in 0..tot
    /\ slot \in [0..tot - 1 -> Value]
    /\ ret \in {CVESUCCESS, CVEFAILED, CVEPUSHBACK, CVEPOPBACK, CVEINSERT, CVERM}
    /\ past \in BOOLEAN /\ lost \in BOOLEAN

\* A block that has just grown is at least half full and one that has just
\* shrunk at most half, so that an element more and an element less never
\* make it grow and shrink in turn (cvector_pushback, cvector_rm).
KeepsDistance == /\ tot' > tot => 2 * len' >= tot'
                 /\ tot' < tot => 2 * len' <= tot'
NoThrash == [][KeepsDistance]_vars

\* The memory behind the block is touched at the edge only: by an insertion
\* that fills the block, and by a removal from a full one (cvmemove_foreward,
\* cvmemove_backward; cvector_pushback and cvector_popback stay inside).
EdgeOnly ==
    [][ past' /\ ~lost' =>
            \/ len' > len /\ len' = tot'
            \/ len' < len /\ len = tot ]_vars

Contents == [j \in 1..len |-> slot[j - 1]]

Abstract == INSTANCE VectorSeq WITH s <- Contents

\* The vector is a sequence, whatever grows, shrinks, fails or is refused,
\* up to the moment its block is lost (all of cvector.c).
ImplementsVector == Abstract!Spec
=============================================================================
