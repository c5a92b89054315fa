------------------------------ MODULE VectorSeq ------------------------------
(***************************************************************************)
(* What cvector.h offers its callers: a sequence, changed at its end or at *)
(* one of its elements.                                                    *)
(***************************************************************************)
EXTENDS Naturals, Sequences

CONSTANTS Elems, Junk

Value == Elems \cup {Junk}

VARIABLE s

Init == s = << >>

Longer == Len(s') = Len(s) + 1
Shorter == Len(s') = Len(s) - 1

PushBack == /\ Longer /\ s'[Len(s')] \in Elems
            /\ \A j \in 1..Len(s) : s'[j] = s[j]

PopBack == Shorter /\ \A j \in 1..Len(s') : s'[j] = s[j]

\* The new element takes the place of the one at i.
Insert == Longer /\ \E i \in 1..Len(s) :
              /\ s'[i] \in Elems
              /\ \A j \in 1..i - 1 : s'[j] = s[j]
              /\ \A j \in i..Len(s) : s'[j + 1] = s[j]

Remove == Shorter /\ \E i \in 1..Len(s) :
              /\ \A j \in 1..i - 1 : s'[j] = s[j]
              /\ \A j \in i..Len(s') : s'[j] = s[j + 1]

\* An element is put far past the end; those in between were never set.
Extend == /\ Len(s') > Len(s) /\ s'[Len(s')] \in Elems
          /\ \A j \in 1..Len(s) : s'[j] = s[j]

Next == s' \in Seq(Value) /\ (PushBack \/ PopBack \/ Insert \/ Remove \/ Extend)

Spec == Init /\ [][Next]_s
=============================================================================
