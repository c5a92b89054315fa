---------------------------- MODULE CVector_proofs ----------------------------
(***************************************************************************)
(* The vector for every MIN_LEN and every kind of element: its shape, the  *)
(* distance between growing and shrinking, and that it is a sequence.      *)
(***************************************************************************)
EXTENDS CVector, TLAPS, SequenceTheorems

LEMMA ReallocType ==
  ASSUME TypeOK, NEW n \in Nat, NEW slots \in [0..tot - 1 -> Value]
  PROVE  /\ Realloc(slots, n) \in [0..n - 1 -> Value]
         /\ \A i \in 0..n - 1 : i < tot => Realloc(slots, n)[i] = slots[i]
BY DEF Realloc, TypeOK, Value

\* Every branch of an operation keeps the block and what it holds in shape.
LEMMA TypeStep == TypeOK /\ [Next]_vars => TypeOK'
<1> SUFFICES ASSUME TypeOK, [Next]_vars PROVE TypeOK'
  OBVIOUS
<1> USE MinLenAssumption, MaxTotAssumption
<1>0. /\ tot \in Nat /\ tot >= MinLen /\ tot > 0
      /\ len \in Nat /\ len <= tot
      /\ slot \in [0..tot - 1 -> Value]
      /\ {CVESUCCESS, CVEFAILED, CVEPUSHBACK, CVEPOPBACK, CVEINSERT, CVERM} \subseteq Int
  BY DEF TypeOK, CVESUCCESS, CVEFAILED, CVEPUSHBACK, CVEPOPBACK, CVEINSERT, CVERM
<1>1. \A r : r \in {CVESUCCESS, CVEFAILED, CVEPUSHBACK, CVEPOPBACK, CVEINSERT, CVERM}
               /\ Refuse(r) => TypeOK'
  BY DEF Refuse, TypeOK
<1>2. \A last, n : Done(last, n) => past' \in BOOLEAN /\ lost' \in BOOLEAN
  BY DEF Done, TypeOK
<1>3. ASSUME NEW e \in Elems, PushBack(e) PROVE TypeOK'
  <2>1. CASE /\ HasRoom
             /\ UNCHANGED tot
             /\ slot' = [slot EXCEPT ![len] = e]
             /\ len' = len + 1 /\ ret' = CVESUCCESS
             /\ Done(len, tot)
    BY <2>1, <1>0, <1>2 DEF HasRoom, TypeOK, Value
  <2>2. CASE /\ CanDouble
             /\ tot' = 2 * tot
             /\ slot' = [Realloc(slot, 2 * tot) EXCEPT ![len] = e]
             /\ len' = len + 1 /\ ret' = CVESUCCESS
             /\ Done(len, 2 * tot)
    <3>1. Realloc(slot, 2 * tot) \in [0..2 * tot - 1 -> Value]
      BY <1>0, ReallocType
    <3> QED
      BY <2>2, <3>1, <1>0, <1>2 DEF TypeOK, Value
  <2>3. CASE len >= tot /\ Refuse(CVEPUSHBACK)
    BY <2>3, <1>1
  <2> QED
    BY <1>3, <2>1, <2>2, <2>3 DEF PushBack
<1>4. ASSUME NEW slots \in [0..tot - 1 -> Value], NEW last, NEW r,
             r \in {CVEPOPBACK, CVERM}, len > 0, len' = len - 1,
             Shrink(slots, r), Done(last, tot)
      PROVE  TypeOK'
  <2>1. CASE /\ tot >= 4 * MinLen /\ len' <= tot \div 4
             /\ tot' = tot \div 2
             /\ slot' = Realloc(slots, tot \div 2)
             /\ ret' = CVESUCCESS
    <3>1. tot \div 2 \in Nat /\ tot \div 2 >= MinLen /\ tot \div 4 <= tot \div 2
      BY <1>0, <2>1
    <3>2. Realloc(slots, tot \div 2) \in [0..(tot \div 2) - 1 -> Value]
      BY <3>1, ReallocType
    <3>3. len' \in 0..tot \div 2
      BY <3>1, <2>1, <1>4, <1>0
    <3> QED
      BY <2>1, <3>1, <3>2, <3>3, <1>4, <1>2 DEF TypeOK
  <2>2. CASE UNCHANGED tot /\ slot' = slots /\ ret' \in {r, CVESUCCESS}
    BY <2>2, <1>4, <1>0, <1>2 DEF TypeOK
  <2> QED
    BY <1>4, <2>1, <2>2 DEF Shrink
<1>5. ASSUME PopBack PROVE TypeOK'
  <2>1. CASE len <= 0 /\ Refuse(CVEPOPBACK)
    BY <2>1, <1>1
  <2>2. CASE len > 0 /\ len' = len - 1 /\ Shrink(slot, CVEPOPBACK)
             /\ Done(len - 1, tot) /\ UNCHANGED lost
    BY <2>2, <1>4, <1>0
  <2> QED
    BY <1>5, <2>1, <2>2 DEF PopBack, Done
<1>6. ASSUME NEW n \in Nat, NEW slots \in [0..n - 1 -> Value],
             NEW i \in Nat, NEW e \in Elems, i < len
      PROVE  Shifted(slots, i, e) \in [0..n - 1 -> Value]
  BY <1>6, <1>0 DEF Shifted, Value
<1>7. ASSUME NEW i \in Nat, NEW e \in Elems, NEW r, NEW s,
             r \in {CVEFAILED, CVESUCCESS}, s \in {CVEINSERT, CVESUCCESS},
             Inserting(i, e, r, s)
      PROVE  TypeOK'
  <2>1. CASE i >= len /\ Refuse(r)
    BY <2>1, <1>7, <1>1
  <2>2. CASE /\ i < len /\ HasRoom
             /\ UNCHANGED tot
             /\ slot' = Shifted(slot, i, e)
             /\ len' = len + 1 /\ ret' = CVESUCCESS
             /\ Done(len + 1, tot)
    <3>1. slot' \in [0..tot - 1 -> Value]
      BY <2>2, <1>6, <1>0
    <3> QED
      BY <2>2, <3>1, <1>0, <1>2 DEF TypeOK, HasRoom
  <2>3. CASE /\ i < len /\ CanDouble
             /\ tot' = 2 * tot
             /\ slot' = Shifted(Realloc(slot, 2 * tot), i, e)
             /\ len' = len + 1 /\ ret' = CVESUCCESS
             /\ Done(len + 1, 2 * tot)
    <3>1. Realloc(slot, 2 * tot) \in [0..2 * tot - 1 -> Value] /\ 2 * tot \in Nat
      BY <1>0, ReallocType
    <3>2. slot' \in [0..2 * tot - 1 -> Value]
      BY <2>3, <3>1, <1>6
    <3> QED
      BY <2>3, <3>2, <1>0, <1>2 DEF TypeOK
  <2>4. CASE lost' = TRUE /\ UNCHANGED <<tot, len, slot, ret, past>>
    BY <2>4 DEF TypeOK
  <2>5. CASE i < len /\ len >= tot /\ Refuse(s)
    BY <2>5, <1>7, <1>1
  <2> QED
    BY <1>7, <2>1, <2>2, <2>3, <2>4, <2>5 DEF Inserting
<1>8. ASSUME NEW i \in Nat, NEW e \in Elems, InsertAt(i, e) PROVE TypeOK'
  <2>1. CASE i < tot /\ Inserting(i, e, CVESUCCESS, CVESUCCESS)
    BY <2>1, <1>7
  <2>2. CASE /\ i >= tot
             /\ \E t \in Doubled(i + 1) :
                    tot' = t /\ slot' = [Realloc(slot, t) EXCEPT ![i] = e]
             /\ len' = i + 1 /\ ret' = CVESUCCESS
             /\ Done(i, tot')
    <3>1. PICK t \in Doubled(i + 1) :
              tot' = t /\ slot' = [Realloc(slot, t) EXCEPT ![i] = e]
      BY <2>2
    <3>2. t \in Nat /\ t > i + 1
      BY DEF Doubled
    <3>3. Realloc(slot, t) \in [0..t - 1 -> Value]
      BY <3>2, <1>0, ReallocType
    <3> QED
      BY <2>2, <3>1, <3>2, <3>3, <1>0, <1>2 DEF TypeOK, Value
  <2>3. CASE lost' = TRUE /\ UNCHANGED <<tot, len, slot, ret, past>>
    BY <2>3 DEF TypeOK
  <2> QED
    BY <1>8, <2>1, <2>2, <2>3 DEF InsertAt
<1>9. ASSUME NEW i \in Nat, Rm(i) PROVE TypeOK'
  <2>1. CASE i >= len /\ Refuse(CVEFAILED)
    BY <2>1, <1>1
  <2>2. CASE i < len /\ len' = len - 1 /\ Shrink(Closed(i), CVERM) /\ Done(len, tot)
    <3>1. Closed(i) \in [0..tot - 1 -> Value]
      BY <1>0 DEF Closed, Value
    <3> QED
      BY <2>2, <3>1, <1>0, <1>4
  <2> QED
    BY <1>9, <2>1, <2>2 DEF Rm
<1>10. CASE UNCHANGED vars
  BY <1>10 DEF vars, TypeOK
<1> QED
  BY <1>3, <1>5, <1>7, <1>8, <1>9, <1>10 DEF Next, Insert

\* The shape of the vector: never more in use than its block has (every
\* operation of cvector.c).
THEOREM VectorTypeCorrect == Spec => []TypeOK
<1>1. Init => TypeOK
  <2> SUFFICES ASSUME Init PROVE TypeOK
    OBVIOUS
  <2>1. slot \in [0..tot - 1 -> Value]
    BY MinLenAssumption DEF Init, Value
  <2>2. tot \in Nat /\ tot >= MinLen /\ len \in 0..tot
    BY MinLenAssumption DEF Init
  <2> QED
    BY <2>1, <2>2 DEF Init, TypeOK
<1> QED
  BY <1>1, TypeStep, PTL DEF Spec

-----------------------------------------------------------------------------
\* What a step may do to the size of the block.
LEMMA ThrashStep == TypeOK /\ [Next]_vars => [KeepsDistance]_vars
<1> SUFFICES ASSUME TypeOK, Next
             PROVE  /\ tot' > tot => 2 * len' >= tot'
                    /\ tot' < tot => 2 * len' <= tot'
  BY DEF KeepsDistance
<1>0. tot \in Nat /\ len \in Nat /\ tot > 0
  BY MinLenAssumption DEF TypeOK
<1>1. ASSUME NEW e \in Elems, PushBack(e)
      PROVE  tot' = tot \/ (tot' = 2 * tot /\ len' = len + 1 /\ len >= tot)
  BY <1>1 DEF PushBack, CanDouble, Refuse
<1>2. ASSUME NEW slots, NEW r, len' \in Nat, Shrink(slots, r)
      PROVE  tot' = tot \/ (tot' = tot \div 2 /\ 2 * len' <= tot')
  <2>1. CASE tot' = tot
    BY <2>1
  <2>2. CASE len' <= tot \div 4 /\ tot' = tot \div 2
    <3>1. \A x, l \in Nat : l <= x \div 4 => 2 * l <= x \div 2
      OBVIOUS
    <3> QED
      BY <2>2, <3>1, <1>2, <1>0
  <2> QED
    BY <1>2, <2>1, <2>2 DEF Shrink
<1>3. ASSUME PopBack
      PROVE  tot' = tot \/ (tot' = tot \div 2 /\ 2 * len' <= tot')
  BY <1>3, <1>2, <1>0 DEF PopBack, Refuse
<1>4. ASSUME NEW i \in Nat, NEW e, NEW r, NEW s, Inserting(i, e, r, s)
      PROVE  tot' = tot \/ (tot' = 2 * tot /\ len' = len + 1 /\ len >= tot)
  BY <1>4 DEF Inserting, CanDouble, Refuse
<1>5. ASSUME NEW i \in Nat, NEW e, InsertAt(i, e)
      PROVE  \/ tot' = tot
             \/ tot' = 2 * tot /\ len' = len + 1 /\ len >= tot
             \/ tot' \in Nat /\ tot' > tot /\ 2 * len' >= tot'
  <2>1. CASE i < tot
    BY <2>1, <1>5, <1>4, <1>0 DEF InsertAt
  <2>2. CASE i >= tot /\ len' = i + 1 /\ tot' \in Doubled(i + 1)
    BY <2>2, <1>0, MaxTotAssumption DEF Doubled
  <2> QED
    BY <1>5, <1>0, <2>1, <2>2 DEF InsertAt
<1>6. ASSUME NEW i \in Nat, Rm(i)
      PROVE  tot' = tot \/ (tot' = tot \div 2 /\ 2 * len' <= tot')
  BY <1>6, <1>2, <1>0 DEF Rm, Refuse
<1>7. \/ tot' = tot
      \/ tot' = 2 * tot /\ len' = len + 1 /\ len >= tot
      \/ tot' = tot \div 2 /\ 2 * len' <= tot'
      \/ tot' \in Nat /\ tot' > tot /\ 2 * len' >= tot'
  BY <1>1, <1>3, <1>4, <1>5, <1>6, MaxTotAssumption DEF Next, Insert
<1>8. CASE tot' = tot
  BY <1>8, <1>0
<1>9. CASE tot' = 2 * tot /\ len' = len + 1 /\ len >= tot
  BY <1>9, <1>0
<1>10. CASE tot' = tot \div 2 /\ 2 * len' <= tot'
  <2>1. \A x \in Nat : x \div 2 <= x /\ x \div 2 \in Nat
    OBVIOUS
  <2>2. tot' <= tot /\ tot' \in Nat
    BY <1>10, <2>1, <1>0
  <2> QED
    BY <1>10, <2>2, <1>0
<1>11. CASE tot' \in Nat /\ tot' > tot /\ 2 * len' >= tot'
  BY <1>11, <1>0
<1> QED
  BY <1>7, <1>8, <1>9, <1>10, <1>11

\* Growing and shrinking stay apart (cvector_pushback, cvector_insert_at,
\* cvector_popback, cvector_rm).
THEOREM NoThrashCorrect == Spec => NoThrash
BY ThrashStep, VectorTypeCorrect, PTL DEF Spec, NoThrash

-----------------------------------------------------------------------------
\* How far an operation reaches, block by block.
AtEdge == \/ len' > len /\ len' = tot'
          \/ len' < len /\ len = tot

LEMMA EdgeStep == TypeOK /\ [Next]_vars => [past' /\ ~lost' => AtEdge]_vars
<1> SUFFICES ASSUME TypeOK, Next, past', ~lost' PROVE AtEdge
  OBVIOUS
<1>0. tot \in Nat /\ len \in Nat /\ len <= tot /\ tot > 0
  BY MinLenAssumption DEF TypeOK
<1>1. \A r : ~Refuse(r)
  BY DEF Refuse
<1>2. \A last, n : Done(last, n) => last >= n
  BY DEF Done
<1>3. ASSUME NEW e \in Elems, PushBack(e) PROVE FALSE
  BY <1>0, <1>1, <1>2, <1>3 DEF PushBack, HasRoom, CanDouble
<1>4. ASSUME PopBack PROVE FALSE
  BY <1>0, <1>1, <1>2, <1>4 DEF PopBack
<1>5. ASSUME NEW i \in Nat, NEW e, NEW r, NEW s, Inserting(i, e, r, s)
      PROVE  len' > len /\ len' = tot'
  <2>1. CASE HasRoom /\ tot' = tot /\ len' = len + 1 /\ Done(len + 1, tot)
    BY <1>0, <1>2, <2>1 DEF HasRoom
  <2>2. CASE /\ CanDouble /\ tot' = 2 * tot /\ len' = len + 1
             /\ Done(len + 1, 2 * tot)
    BY <1>0, <1>2, <2>2 DEF CanDouble
  <2> QED
    BY <1>1, <1>5, <2>1, <2>2 DEF Inserting
<1>6. ASSUME NEW i \in Nat, NEW e, InsertAt(i, e)
      PROVE  len' > len /\ len' = tot'
  <2>1. CASE i < tot
    <3>1. ~(i >= tot)
      BY <1>0, <2>1
    <3>2. Inserting(i, e, CVESUCCESS, CVESUCCESS)
      BY <1>6, <3>1, Zenon DEF InsertAt
    <3> QED
      BY <1>5, <3>2
  <2>2. CASE tot' \in Doubled(i + 1) /\ Done(i, tot')
    BY <1>2, <2>2, MaxTotAssumption DEF Doubled
  <2> QED
    BY <1>0, <1>6, <2>1, <2>2 DEF InsertAt
<1>7. ASSUME NEW i \in Nat, Rm(i)
      PROVE  len' < len /\ len = tot
  BY <1>0, <1>1, <1>2, <1>7 DEF Rm
<1> QED
  BY <1>3, <1>4, <1>5, <1>6, <1>7, MaxTotAssumption DEF Next, Insert, AtEdge

\* The memory behind the block is touched by an insertion that fills it and
\* by a removal from a full one, and by nothing else.
THEOREM EdgeOnlyCorrect == Spec => EdgeOnly
BY EdgeStep, VectorTypeCorrect, PTL DEF Spec, EdgeOnly, AtEdge

-----------------------------------------------------------------------------
LEMMA SlotsSeq ==
  ASSUME NEW n \in Nat, NEW f, \A j \in 0..n - 1 : f[j] \in Value,
         NEW c, c = [j \in 1..n |-> f[j - 1]]
  PROVE  /\ c \in Seq(Value) /\ Len(c) = n
         /\ \A j \in 1..n : c[j] = f[j - 1]
<1>1. \A j \in 1..n : f[j - 1] \in Value
  OBVIOUS
<1>2. c \in [1..n -> Value]
  BY <1>1
<1>3. c \in Seq(Value)
  BY <1>2, SeqDef
<1> QED
  BY <1>2, <1>3, LenProperties

\* The slots in use are slots of the block.
LEMMA InUse ==
  \A t \in Nat : \A l \in 0..t, f \in [0..t - 1 -> Value] :
      l \in Nat /\ \A j \in 0..l - 1 : f[j] \in Value
OBVIOUS

LEMMA Below ==
  \A l, q, h, t \in Nat : l <= q /\ q <= h /\ h <= t
      => \A j \in 0..l - 1 : j \in 0..h - 1 /\ j < t
OBVIOUS

\* The elements, before and after a step that keeps the shape.
LEMMA ContentsSeq ==
  ASSUME TypeOK, TypeOK'
  PROVE  /\ Contents \in Seq(Value) /\ Len(Contents) = len
         /\ \A j \in 1..len : Contents[j] = slot[j - 1]
         /\ Contents' \in Seq(Value) /\ Len(Contents') = len'
         /\ \A j \in 1..len' : Contents'[j] = slot'[j - 1]
<1>1. len \in Nat /\ \A j \in 0..len - 1 : slot[j] \in Value
  BY DEF TypeOK
<1>2. len' \in Nat /\ \A j \in 0..len' - 1 : slot'[j] \in Value
  <2>1. tot' \in Nat /\ len' \in 0..tot'
    BY DEF TypeOK
  <2>2. slot' \in [0..tot' - 1 -> Value]
    BY DEF TypeOK, Value
  <2> QED
    BY <2>1, <2>2, InUse, Zenon
<1>3. Contents = [j \in 1..len |-> slot[j - 1]]
  BY DEF Contents
<1>4. Contents' = [j \in 1..len' |-> slot'[j - 1]]
  BY DEF Contents
<1>5. /\ Contents \in Seq(Value) /\ Len(Contents) = len
      /\ \A j \in 1..len : Contents[j] = slot[j - 1]
  BY <1>1, <1>3, SlotsSeq
<1>6. /\ Contents' \in Seq(Value) /\ Len(Contents') = len'
      /\ \A j \in 1..len' : Contents'[j] = slot'[j - 1]
  BY <1>2, <1>4, SlotsSeq
<1> QED
  BY <1>5, <1>6

LEMMA RefusedKeeps == \A r : Refuse(r) => UNCHANGED Contents
BY DEF Refuse, Contents

LEMMA ShrinkKeeps ==
  ASSUME TypeOK, NEW slots \in [0..tot - 1 -> Value], NEW r,
         len' \in Nat, len' <= tot, Shrink(slots, r)
  PROVE  \A j \in 0..len' - 1 : slot'[j] = slots[j]
<1>0. tot \in Nat
  BY DEF TypeOK
<1>1. CASE slot' = slots
  BY <1>1
<1>2. CASE len' <= tot \div 4 /\ slot' = Realloc(slots, tot \div 2)
  <2>1. /\ tot \div 2 \in Nat /\ tot \div 4 \in Nat
        /\ tot \div 4 <= tot \div 2 /\ tot \div 2 <= tot
    BY <1>0
  <2>2. \A j \in 0..(tot \div 2) - 1 :
            j < tot => Realloc(slots, tot \div 2)[j] = slots[j]
    BY <2>1, ReallocType
  <2>4. \A j \in 0..len' - 1 : j \in 0..(tot \div 2) - 1 /\ j < tot
    <3> DEFINE l == len'
               q == tot \div 4
               h == tot \div 2
    <3>1. l \in Nat /\ q \in Nat /\ h \in Nat
      BY <2>1
    <3>2. l <= q /\ q <= h /\ h <= tot
      BY <1>2, <2>1
    <3> HIDE DEF l, q, h
    <3>3. \A j \in 0..l - 1 : j \in 0..h - 1 /\ j < tot
      BY <3>1, <3>2, <1>0, Below
    <3> QED
      BY <3>3 DEF l, h
  <2> QED
    BY <1>2, <2>2, <2>4
<1> QED
  BY <1>1, <1>2 DEF Shrink

LEMMA PushBackMaps ==
  ASSUME TypeOK, TypeOK', NEW e \in Elems, PushBack(e)
  PROVE  Abstract!PushBack \/ UNCHANGED Contents
<1>1. CASE len >= tot /\ Refuse(CVEPUSHBACK)
  BY <1>1, RefusedKeeps
<1>2. CASE len' = len + 1 /\ slot'[len] = e /\ \A j \in 0..len - 1 : slot'[j] = slot[j]
  <2>1. len \in Nat
    BY DEF TypeOK
  <2>2. Contents'[len'] = e /\ \A j \in 1..len : Contents'[j] = Contents[j]
    BY <1>2, <2>1, ContentsSeq
  <2> QED
    BY <1>2, <2>1, <2>2, ContentsSeq DEF Abstract!PushBack, Abstract!Longer
<1>3. CASE HasRoom /\ len' = len + 1 /\ slot' = [slot EXCEPT ![len] = e]
  <2>1. slot'[len] = e /\ \A j \in 0..len - 1 : slot'[j] = slot[j]
    BY <1>3 DEF HasRoom, TypeOK
  <2> QED
    BY <1>3, <2>1, <1>2
<1>4. CASE /\ CanDouble /\ len' = len + 1
           /\ slot' = [Realloc(slot, 2 * tot) EXCEPT ![len] = e]
  <2>1. /\ Realloc(slot, 2 * tot) \in [0..2 * tot - 1 -> Value]
        /\ \A j \in 0..2 * tot - 1 : j < tot => Realloc(slot, 2 * tot)[j] = slot[j]
        /\ len \in 0..tot /\ tot \in Nat /\ tot > 0
    BY ReallocType, MinLenAssumption DEF TypeOK
  <2>2. slot'[len] = e /\ \A j \in 0..len - 1 : slot'[j] = slot[j]
    BY <1>4, <2>1
  <2> QED
    BY <1>4, <2>2, <1>2
<1> QED
  BY <1>1, <1>3, <1>4 DEF PushBack

LEMMA PopBackMaps ==
  ASSUME TypeOK, TypeOK', PopBack
  PROVE  Abstract!PopBack \/ UNCHANGED Contents
<1>1. CASE len <= 0 /\ Refuse(CVEPOPBACK)
  BY <1>1, RefusedKeeps
<1>2. CASE len > 0 /\ len' = len - 1 /\ Shrink(slot, CVEPOPBACK)
  <2>1. len \in Nat /\ len <= tot /\ tot \in Nat /\ slot \in [0..tot - 1 -> Value]
    BY DEF TypeOK
  <2>2. \A j \in 0..len' - 1 : slot'[j] = slot[j]
    BY <1>2, <2>1, ShrinkKeeps
  <2> QED
    BY <1>2, <2>1, <2>2, ContentsSeq DEF Abstract!PopBack, Abstract!Shorter
<1> QED
  BY <1>1, <1>2 DEF PopBack

LEMMA InsertingMaps ==
  ASSUME TypeOK, TypeOK', NEW i \in Nat, NEW e \in Elems, NEW r, NEW q,
         Inserting(i, e, r, q)
  PROVE  Abstract!Insert \/ UNCHANGED Contents
<1>0. len \in Nat /\ len <= tot /\ tot \in Nat /\ slot \in [0..tot - 1 -> Value]
  BY DEF TypeOK
<1>1. CASE Refuse(r) \/ Refuse(q)
  BY <1>1, RefusedKeeps
<1>2. CASE UNCHANGED <<tot, len, slot, ret, past>>
  BY <1>2 DEF Contents
<1>3. ASSUME NEW n \in Nat, n > len, NEW slots \in [0..n - 1 -> Value], i < len,
             slot' = Shifted(slots, i, e), len' = len + 1,
             \A j \in 0..len - 1 : slots[j] = slot[j]
      PROVE  Abstract!Insert
  <2>1. /\ slot'[i] = e
        /\ \A j \in 0..i - 1 : slot'[j] = slot[j]
        /\ \A j \in i + 1..len : slot'[j] = slot[j - 1]
    <3>1. \A j \in 0..n - 1 :
              slot'[j] = IF j < i \/ j > len + 1 THEN slots[j]
                         ELSE IF j = i THEN e ELSE slots[j - 1]
      BY <1>3 DEF Shifted
    <3>2. /\ i \in 0..n - 1 /\ ~(i < i \/ i > len + 1)
          /\ \A j \in 0..i - 1 : j \in 0..n - 1 /\ j < i /\ j \in 0..len - 1
          /\ \A j \in i + 1..len : /\ j \in 0..n - 1 /\ ~(j < i \/ j > len + 1) /\ j # i
                                   /\ j - 1 \in 0..len - 1
      BY <1>3, <1>0
    <3> QED
      BY <3>1, <3>2, <1>3
  <2>2. /\ Contents'[i + 1] = e
        /\ \A j \in 1..i : Contents'[j] = Contents[j]
        /\ \A j \in i + 1..len : Contents'[j + 1] = Contents[j]
    <3>1. /\ i + 1 \in 1..len' /\ (i + 1) - 1 = i
          /\ \A j \in 1..i : j \in 1..len /\ j \in 1..len' /\ j - 1 \in 0..i - 1
          /\ \A j \in i + 1..len : /\ j \in 1..len /\ j + 1 \in 1..len'
                                   /\ (j + 1) - 1 = j
      BY <1>3, <1>0
    <3> QED
      BY <2>1, <3>1, ContentsSeq
  <2>3. i + 1 \in 1..Len(Contents) /\ (i + 1) - 1 = i
    BY <1>3, <1>0, ContentsSeq
  <2> QED
    BY <2>2, <2>3, <1>3, <1>0, ContentsSeq DEF Abstract!Insert, Abstract!Longer
<1>4. CASE i < len /\ HasRoom /\ slot' = Shifted(slot, i, e) /\ len' = len + 1
  BY <1>4, <1>3, <1>0 DEF HasRoom
<1>5. CASE /\ i < len /\ CanDouble /\ len' = len + 1
           /\ slot' = Shifted(Realloc(slot, 2 * tot), i, e)
  <2>1. /\ Realloc(slot, 2 * tot) \in [0..2 * tot - 1 -> Value]
        /\ \A j \in 0..2 * tot - 1 : j < tot => Realloc(slot, 2 * tot)[j] = slot[j]
        /\ 2 * tot \in Nat /\ 2 * tot > len
    BY <1>5, <1>0, ReallocType, MinLenAssumption DEF TypeOK
  <2> QED
    BY <1>5, <2>1, <1>3, <1>0
<1> QED
  BY <1>1, <1>2, <1>4, <1>5 DEF Inserting

LEMMA InsertAtMaps ==
  ASSUME TypeOK, TypeOK', NEW i \in Nat, NEW e \in Elems, InsertAt(i, e)
  PROVE  Abstract!Insert \/ Abstract!Extend \/ UNCHANGED Contents
<1>0. len \in Nat /\ len <= tot /\ tot \in Nat /\ slot \in [0..tot - 1 -> Value]
  BY DEF TypeOK
<1>1. CASE Inserting(i, e, CVESUCCESS, CVESUCCESS)
  BY <1>1, InsertingMaps
<1>2. CASE UNCHANGED <<tot, len, slot, ret, past>>
  BY <1>2 DEF Contents
<1>3. CASE /\ i >= tot /\ len' = i + 1
           /\ \E t \in Doubled(i + 1) :
                  tot' = t /\ slot' = [Realloc(slot, t) EXCEPT ![i] = e]
  <2>1. PICK t \in Doubled(i + 1) : slot' = [Realloc(slot, t) EXCEPT ![i] = e]
    BY <1>3
  <2>2. t \in Nat /\ t > i + 1
    BY MaxTotAssumption DEF Doubled
  <2>3. /\ Realloc(slot, t) \in [0..t - 1 -> Value]
        /\ \A j \in 0..t - 1 : j < tot => Realloc(slot, t)[j] = slot[j]
    BY <2>2, <1>0, ReallocType
  <2>4. slot'[i] = e /\ \A j \in 0..len - 1 : slot'[j] = slot[j]
    BY <2>1, <2>2, <2>3, <1>0, <1>3
  <2>5. Contents'[len'] = e /\ \A j \in 1..len : Contents'[j] = Contents[j]
    BY <2>4, <1>0, <1>3, ContentsSeq
  <2> QED
    BY <2>5, <1>0, <1>3, ContentsSeq DEF Abstract!Extend
<1> QED
  BY <1>1, <1>2, <1>3 DEF InsertAt

LEMMA RmMaps ==
  ASSUME TypeOK, TypeOK', NEW i \in Nat, Rm(i)
  PROVE  Abstract!Remove \/ UNCHANGED Contents
<1>0. len \in Nat /\ len <= tot /\ tot \in Nat /\ slot \in [0..tot - 1 -> Value]
  BY DEF TypeOK
<1>1. CASE i >= len /\ Refuse(CVEFAILED)
  BY <1>1, RefusedKeeps
<1>2. CASE i < len /\ len' = len - 1 /\ Shrink(Closed(i), CVERM)
  <2>1. /\ Closed(i) \in [0..tot - 1 -> Value]
        /\ \A j \in 0..i - 1 : Closed(i)[j] = slot[j]
        /\ \A j \in i..len - 2 : Closed(i)[j] = slot[j + 1]
    BY <1>2, <1>0 DEF Closed, Value
  <2>2. \A j \in 0..len' - 1 : slot'[j] = Closed(i)[j]
    BY <1>2, <1>0, <2>1, ShrinkKeeps
  <2>3. /\ \A j \in 1..i : Contents'[j] = Contents[j]
        /\ \A j \in i + 1..len' : Contents'[j] = Contents[j + 1]
    <3>1. /\ \A j \in 1..i : /\ j \in 1..len /\ j \in 1..len'
                              /\ j - 1 \in 0..i - 1 /\ j - 1 \in 0..len' - 1
          /\ \A j \in i + 1..len' : /\ j + 1 \in 1..len /\ j \in 1..len'
                                    /\ j - 1 \in i..len - 2 /\ j - 1 \in 0..len' - 1
                                    /\ (j + 1) - 1 = (j - 1) + 1
      BY <1>2, <1>0
    <3>2. \A j \in 1..i : Contents'[j] = Contents[j]
      BY <2>1, <2>2, <3>1, ContentsSeq
    <3>3. ASSUME NEW j \in i + 1..len' PROVE Contents'[j] = Contents[j + 1]
      <4>1. Contents'[j] = slot'[j - 1] /\ slot'[j - 1] = Closed(i)[j - 1]
        BY <2>2, <3>1, ContentsSeq
      <4>2. Closed(i)[j - 1] = slot[(j - 1) + 1]
        BY <2>1, <3>1
      <4>3. Contents[j + 1] = slot[(j + 1) - 1]
        BY <3>1, ContentsSeq
      <4> QED
        BY <4>1, <4>2, <4>3, <3>1
    <3> QED
      BY <3>2, <3>3
  <2>4. i + 1 \in 1..Len(Contents) /\ (i + 1) - 1 = i
    BY <1>2, <1>0, ContentsSeq
  <2> QED
    BY <2>3, <2>4, <1>2, <1>0, ContentsSeq DEF Abstract!Remove, Abstract!Shorter
<1> QED
  BY <1>1, <1>2 DEF Rm

\* For every MIN_LEN and every kind of element, whatever fails on the way,
\* cvector.c is a sequence until its block is lost.
THEOREM VectorIsSequence == Spec => ImplementsVector
<1>1. Init => Abstract!Init
  BY DEF Init, Abstract!Init, Contents
<1>2. TypeOK /\ TypeOK' /\ [Next]_vars => [Abstract!Next]_Contents
  <2> SUFFICES ASSUME TypeOK, TypeOK', [Next]_vars
               PROVE  Abstract!Next \/ UNCHANGED Contents
    OBVIOUS
  <2>1. CASE UNCHANGED vars
    BY <2>1 DEF vars, Contents
  <2>2. ASSUME \/ Abstract!PushBack \/ Abstract!PopBack \/ Abstract!Insert
               \/ Abstract!Remove \/ Abstract!Extend
        PROVE  Abstract!Next
    BY <2>2, ContentsSeq DEF Abstract!Next, Abstract!Value, Value
  <2>3. CASE Next
    BY <2>3, <2>2, PushBackMaps, PopBackMaps, InsertingMaps, InsertAtMaps, RmMaps
       DEF Next, Insert
  <2> QED
    BY <2>1, <2>3
<1> QED
  BY <1>1, <1>2, VectorTypeCorrect, PTL DEF Spec, ImplementsVector, Abstract!Spec
=============================================================================
