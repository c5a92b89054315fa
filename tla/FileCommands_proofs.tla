------------------------ MODULE FileCommands_proofs -------------------------
(***************************************************************************)
(* Proofs about FileCommands, for any number of sessions, names and        *)
(* arguments.                                                              *)
(***************************************************************************)
EXTENDS FileCommands, SequenceTheorems, FiniteSetTheorems, WellFoundedInduction, TLAPS

Places == Seq(Names) \cup {Unknown, NoPath}
Job == [cmd : {"none", "RETR", "STOR", "LIST"}, arg : [abs : BOOLEAN, names : Places],
        named : Places, used : Places]

\* The types of the histories, and of what a command keeps.
TypeInv ==
    /\ IsFiniteSet(Nodes)
    /\ job \in [Sessions -> Job]
    /\ believed \in [Sessions -> Places]
    /\ from \in [Sessions -> Places]
    /\ changed \in [Sessions -> BOOLEAN]
    /\ failed \in [Sessions -> BOOLEAN]
    /\ wandered \in BOOLEAN
    /\ \A s \in Sessions : pc[s] = "get" => job[s].arg.names \in Seq(Names)

\* What the histories say of the directory and of the names kept.
PlaceInv ==
    /\ ~wandered => cwd = Root
    /\ \A s \in Sessions :
           /\ believed[s] # Unknown => believed[s] = cwd
           /\ pc[s] = "get" /\ believed[s] # Unknown =>
                  job[s].named = Resolve(job[s].arg)
           /\ rnfr[s] # NoArg => from[s] \in {Unknown, Resolve(rnfr[s])}

\* What a listing is to send, if nothing moves.
Listable == IF cwd = Root THEN {Children(cwd) \ {d} : d \in Children(cwd)}
            ELSE {Children(cwd)}
ToCome(s) == {Append(cwd, name) : name \in todo[s]}
ListInv ==
    \A s \in Sessions :
        /\ pc[s] # "list" => listed[s] = {}
        /\ pc[s] = "list" /\ ~changed[s] =>
               \E D \in Listable :
                   /\ listed[s] \subseteq D /\ ToCome(s) \subseteq D
                   /\ ~failed[s] => ToCome(s) = D \ listed[s]

Inv == TypeOK /\ TypeInv /\ PlaceInv /\ ListInv

-----------------------------------------------------------------------------
(***************************************************************************)
(* Paths: sequences of names.                                              *)
(***************************************************************************)
LEMMA PathsAreSeqs == \A x : x \in Paths <=> x \in Seq(Names) /\ Len(x) <= MaxDepth
<1>1. MaxDepth \in Nat
  BY BoundsAssumption
<1>2. ASSUME NEW x \in Paths
      PROVE  x \in Seq(Names) /\ Len(x) <= MaxDepth
  <2>1. PICK k \in 0..MaxDepth : x \in [1..k -> Names]
    BY DEF Paths
  <2>2. k \in Nat /\ k <= MaxDepth
    BY <1>1, <2>1
  <2>3. x \in Seq(Names)
    BY <2>1, <2>2, SeqDef
  <2>4. Len(x) = k
    BY <2>1, <2>2, <2>3, LenProperties
  <2> QED
    BY <2>2, <2>3, <2>4
<1>3. ASSUME NEW x \in Seq(Names), Len(x) <= MaxDepth
      PROVE  x \in Paths
  <2>1. Len(x) \in 0..MaxDepth /\ x \in [1..Len(x) -> Names]
    BY <1>1, <1>3, LenProperties
  <2> QED
    BY <2>1 DEF Paths
<1> QED
  BY <1>2, <1>3

LEMMA FrontIs ==
  ASSUME NEW x \in Seq(Names), NEW n \in 0..Len(x)
  PROVE  /\ SubSeq(x, 1, n) \in Seq(Names)
         /\ Len(SubSeq(x, 1, n)) = n
         /\ \A i \in 1..n : SubSeq(x, 1, n)[i] = x[i]
<1> DEFINE t == SubSeq(x, 1, n)
<1>1. Len(x) \in Nat /\ n \in Nat
  BY LenProperties
<1>2. \A i \in 1..n : x[i] \in Names
  BY <1>1, ElementOfSeq
<1>3. /\ t \in Seq(Names)
      /\ Len(t) = IF 1 <= n THEN n - 1 + 1 ELSE 0
      /\ \A i \in 1..n - 1 + 1 : t[i] = x[1 + i - 1]
  BY <1>1, <1>2, SubSeqProperties
<1>4. \A i \in 1..n : i \in 1..n - 1 + 1 /\ 1 + i - 1 = i
  BY <1>1
<1> HIDE DEF t
<1>5. t \in Seq(Names) /\ Len(t) = n /\ \A i \in 1..n : t[i] = x[i]
  BY <1>1, <1>3, <1>4
<1> QED
  BY <1>5 DEF t

LEMMA ParentIs ==
  ASSUME NEW x \in Seq(Names)
  PROVE  /\ Parent(x) \in Seq(Names)
         /\ x = Root => Parent(x) = Root
         /\ x # Root => /\ Len(x) > 0
                        /\ Len(Parent(x)) = Len(x) - 1
                        /\ \A i \in 1..Len(x) - 1 : Parent(x)[i] = x[i]
<1>1. Len(x) \in Nat /\ (x # << >> => Len(x) > 0) /\ Root \in Seq(Names)
  BY EmptySeq, LenProperties DEF Root
<1>2. CASE x = Root
  BY <1>1, <1>2 DEF Parent
<1>3. CASE x # Root
  <2>1. Len(x) > 0 /\ Len(x) - 1 \in 0..Len(x)
    BY <1>1, <1>3 DEF Root
  <2> QED
    BY <1>3, <2>1, FrontIs DEF Parent
<1> QED
  BY <1>2, <1>3

LEMMA PrefixIs ==
  ASSUME NEW p \in Seq(Names), NEW x \in Seq(Names)
  PROVE  IsPrefix(p, x) <=> Len(p) <= Len(x) /\ \A i \in 1..Len(p) : x[i] = p[i]
<1>1. Len(p) \in Nat /\ Len(x) \in Nat
  BY LenProperties
<1>2. SUFFICES ASSUME Len(p) <= Len(x)
               PROVE  SubSeq(x, 1, Len(p)) = p <=> \A i \in 1..Len(p) : x[i] = p[i]
  BY DEF IsPrefix
<1> DEFINE t == SubSeq(x, 1, Len(p))
<1>3. t \in Seq(Names) /\ Len(t) = Len(p) /\ \A i \in 1..Len(p) : t[i] = x[i]
  BY <1>1, <1>2, FrontIs
<1> HIDE DEF t
<1>4. t = p <=> \A i \in 1..Len(p) : t[i] = p[i]
  BY <1>3, SeqEqual
<1> QED
  BY <1>3, <1>4 DEF t

\* What is below p moves to the same place below q.
Moved(p, q, x) == q \o SubSeq(x, Len(p) + 1, Len(x))

LEMMA MovedIs ==
  ASSUME NEW p \in Seq(Names), NEW q \in Seq(Names), NEW x \in Seq(Names),
         Len(p) <= Len(x)
  PROVE  /\ Moved(p, q, x) \in Seq(Names)
         /\ Len(Moved(p, q, x)) = Len(q) + (Len(x) - Len(p))
         /\ \A i \in 1..Len(q) : Moved(p, q, x)[i] = q[i]
         /\ \A i \in 1..Len(x) - Len(p) : Moved(p, q, x)[Len(q) + i] = x[Len(p) + i]
<1> DEFINE t == SubSeq(x, Len(p) + 1, Len(x))
<1>1. Len(p) \in Nat /\ Len(q) \in Nat /\ Len(x) \in Nat
  BY LenProperties
<1>2. /\ t \in Seq(Names) /\ Len(t) = Len(x) - Len(p)
      /\ \A i \in 1..Len(x) - Len(p) : t[i] = x[Len(p) + i]
  <2>1. \A i \in Len(p) + 1..Len(x) : x[i] \in Names
    BY <1>1, ElementOfSeq
  <2>2. /\ t \in Seq(Names)
        /\ Len(t) = IF Len(p) + 1 <= Len(x) THEN Len(x) - (Len(p) + 1) + 1 ELSE 0
        /\ \A i \in 1..Len(x) - (Len(p) + 1) + 1 : t[i] = x[Len(p) + 1 + i - 1]
    BY <1>1, <2>1, SubSeqProperties
  <2> HIDE DEF t
  <2>3. Len(t) = Len(x) - Len(p)
    BY <1>1, <2>2
  <2>4. ASSUME NEW i \in 1..Len(x) - Len(p)
        PROVE  t[i] = x[Len(p) + i]
    <3>1. i \in 1..Len(x) - (Len(p) + 1) + 1 /\ Len(p) + 1 + i - 1 = Len(p) + i
      BY <1>1
    <3>2. t[i] = x[Len(p) + 1 + i - 1]
      BY <2>2, <3>1
    <3> QED
      BY <3>1, <3>2
  <2> QED
    BY <2>2, <2>3, <2>4
<1> HIDE DEF t
<1>3. /\ q \o t \in Seq(Names) /\ Len(q \o t) = Len(q) + Len(t)
      /\ \A i \in 1..Len(q) + Len(t) : (q \o t)[i] = IF i <= Len(q) THEN q[i] ELSE t[i - Len(q)]
  BY <1>2, ConcatProperties
<1>4. \A i \in 1..Len(q) : (q \o t)[i] = q[i]
  BY <1>1, <1>2, <1>3
<1>5. \A i \in 1..Len(x) - Len(p) : (q \o t)[Len(q) + i] = x[Len(p) + i]
  <2> TAKE i \in 1..Len(x) - Len(p)
  <2>1. /\ Len(q) + i \in 1..Len(q) + Len(t) /\ ~(Len(q) + i <= Len(q))
        /\ Len(q) + i - Len(q) = i
    BY <1>1, <1>2
  <2>2. (q \o t)[Len(q) + i] = t[i]
    BY <1>3, <2>1
  <2> QED
    BY <1>2, <2>2
<1> QED
  BY <1>2, <1>3, <1>4, <1>5 DEF Moved, t

-----------------------------------------------------------------------------
(***************************************************************************)
(* The tree.                                                               *)
(***************************************************************************)
TreeOK(ds, fs) ==
    /\ ds \subseteq Paths /\ fs \subseteq Paths \ {Root}
    /\ ds \cap fs = {} /\ Root \in ds
    /\ \A x \in ds \cup fs : Parent(x) \in ds

\* Every natural number is reached from below: what the induction over a
\* path rests on.
LEMMA LeastNumber ==
  ASSUME NEW S \in SUBSET Nat, S # {}
  PROVE  \E n \in S : \A m \in S : n <= m
<1> DEFINE Less == OpToRel(<, Nat)
<1>1. IsWellFoundedOn(Less, Nat)
  BY NatLessThanWellFounded
<1>2. \A m, n \in Nat : m < n => <<m, n>> \in Less
  BY DEF OpToRel
<1> HIDE DEF Less
<1>3. PICK n \in S : \A m \in S : ~(<<m, n>> \in Less)
  BY <1>1, WFMin
<1>4. ASSUME NEW m \in S
      PROVE  n <= m
  <2>1. m \in Nat /\ n \in Nat
    OBVIOUS
  <2>2. ~(m < n)
    BY <1>2, <1>3, <2>1
  <2> QED
    BY <2>1, <2>2
<1> QED
  BY <1>4

\* Whatever a node is below is a node.
LEMMA PrefixesAreNodes ==
  ASSUME TreeOK(dirs, files), NEW y \in Nodes, NEW q \in Seq(Names), IsPrefix(q, y)
  PROVE  q \in Nodes
<1>1. \A x \in Nodes : x \in Seq(Names) /\ Len(x) \in Nat
  BY PathsAreSeqs, LenProperties DEF TreeOK, Nodes
<1>2. Len(q) \in Nat
  BY LenProperties
<1> DEFINE Below == {x \in Nodes : IsPrefix(q, x)}
           Lengths == {Len(x) : x \in Below}
<1>3. PICK n \in Lengths : \A m \in Lengths : n <= m
  <2>1. Lengths \in SUBSET Nat /\ Len(y) \in Lengths
    BY <1>1
  <2> HIDE DEF Lengths
  <2> QED
    BY <2>1, LeastNumber
<1>4. PICK x \in Below : Len(x) = n
  OBVIOUS
<1>5. x \in Nodes /\ IsPrefix(q, x) /\ x \in Seq(Names) /\ Len(x) \in Nat
  BY <1>1
<1>6. Len(q) <= Len(x) /\ \A i \in 1..Len(q) : x[i] = q[i]
  BY <1>5, PrefixIs
<1>7. Len(q) = Len(x)
  <2>1. SUFFICES ASSUME Len(q) < Len(x)
                 PROVE  FALSE
    BY <1>2, <1>5, <1>6
  <2>2. x # Root
    BY <1>2, <2>1 DEF Root
  <2>3. /\ Parent(x) \in Seq(Names) /\ Len(Parent(x)) = Len(x) - 1
        /\ \A i \in 1..Len(x) - 1 : Parent(x)[i] = x[i]
    BY <1>5, <2>2, ParentIs
  <2>4. Parent(x) \in Nodes
    BY <1>5 DEF TreeOK, Nodes
  <2>5. \A i \in 1..Len(q) : Parent(x)[i] = q[i]
    BY <1>2, <1>5, <1>6, <2>1, <2>3
  <2>6. IsPrefix(q, Parent(x))
    BY <1>2, <1>5, <2>1, <2>3, <2>5, PrefixIs
  <2>7. Len(x) - 1 \in Lengths
    BY <2>3, <2>4, <2>6
  <2> QED
    BY <1>3, <1>4, <1>5, <2>7
<1>8. x = q
  BY <1>5, <1>6, <1>7, SeqEqual
<1> QED
  BY <1>5, <1>8

\* The longest way to a path not below another one.
LEMMA ParentNotBelow ==
  ASSUME NEW p \in Seq(Names), NEW x \in Seq(Names), IsPrefix(p, Parent(x))
  PROVE  IsPrefix(p, x)
<1>1. /\ Len(p) \in Nat /\ Len(x) \in Nat
      /\ Parent(x) \in Seq(Names)
  BY ParentIs, LenProperties
<1>2. CASE x = Root
  BY <1>2, ParentIs
<1>3. CASE x # Root
  <2>1. /\ Len(Parent(x)) = Len(x) - 1
        /\ \A i \in 1..Len(x) - 1 : Parent(x)[i] = x[i]
    BY <1>3, ParentIs
  <2>2. Len(p) <= Len(x) - 1 /\ \A i \in 1..Len(p) : Parent(x)[i] = p[i]
    BY <1>1, <2>1, PrefixIs
  <2>3. \A i \in 1..Len(p) : x[i] = p[i]
    BY <1>1, <2>1, <2>2
  <2> QED
    BY <1>1, <2>2, <2>3, PrefixIs
<1> QED
  BY <1>2, <1>3

\* Moving keeps paths apart, and the parents of what lies below p.
LEMMA MovedApart ==
  ASSUME NEW p \in Seq(Names), NEW q \in Seq(Names),
         NEW x \in Seq(Names), NEW y \in Seq(Names),
         IsPrefix(p, x), IsPrefix(p, y), Moved(p, q, x) = Moved(p, q, y)
  PROVE  x = y
<1>1. Len(p) \in Nat /\ Len(q) \in Nat /\ Len(x) \in Nat /\ Len(y) \in Nat
  BY LenProperties
<1>2. /\ Len(p) <= Len(x) /\ \A i \in 1..Len(p) : x[i] = p[i]
      /\ Len(p) <= Len(y) /\ \A i \in 1..Len(p) : y[i] = p[i]
  BY PrefixIs
<1>3. /\ Len(Moved(p, q, x)) = Len(q) + (Len(x) - Len(p))
      /\ \A i \in 1..Len(x) - Len(p) : Moved(p, q, x)[Len(q) + i] = x[Len(p) + i]
      /\ Len(Moved(p, q, y)) = Len(q) + (Len(y) - Len(p))
      /\ \A i \in 1..Len(y) - Len(p) : Moved(p, q, y)[Len(q) + i] = y[Len(p) + i]
  BY <1>2, MovedIs
<1>4. Len(x) = Len(y)
  BY <1>1, <1>3
<1>5. ASSUME NEW i \in 1..Len(x)
      PROVE  x[i] = y[i]
  <2>1. CASE i <= Len(p)
    BY <1>1, <1>2, <2>1
  <2>2. CASE i > Len(p)
    <3>1. PICK j \in 1..Len(x) - Len(p) : i = Len(p) + j
      <4>1. i - Len(p) \in 1..Len(x) - Len(p) /\ i = Len(p) + (i - Len(p))
        BY <1>1, <2>2
      <4> QED
        BY <4>1
    <3> QED
      BY <1>3, <1>4, <3>1
  <2> QED
    BY <1>1, <2>1, <2>2
<1> QED
  BY <1>4, <1>5, SeqEqual

LEMMA MovedParent ==
  ASSUME NEW p \in Seq(Names), NEW q \in Seq(Names), NEW x \in Seq(Names),
         IsPrefix(p, x), x # p
  PROVE  /\ Parent(x) \in Seq(Names) /\ IsPrefix(p, Parent(x))
         /\ Parent(Moved(p, q, x)) = Moved(p, q, Parent(x))
<1>1. Len(p) \in Nat /\ Len(q) \in Nat /\ Len(x) \in Nat
  BY LenProperties
<1>2. Len(p) <= Len(x) /\ \A i \in 1..Len(p) : x[i] = p[i]
  BY PrefixIs
<1>3. Len(p) < Len(x)
  <2>1. Len(p) = Len(x) => x = p
    BY <1>2, SeqEqual
  <2> QED
    BY <1>1, <1>2, <2>1
<1> DEFINE u == Parent(x)
           m == Moved(p, q, x)
<1>4. /\ u \in Seq(Names) /\ Len(u) = Len(x) - 1
      /\ \A i \in 1..Len(x) - 1 : u[i] = x[i]
  <2>1. x # Root
    BY <1>1, <1>3 DEF Root
  <2> QED
    BY <2>1, ParentIs
<1>5. IsPrefix(p, u)
  <2>1. \A i \in 1..Len(p) : u[i] = p[i]
    BY <1>1, <1>2, <1>3, <1>4
  <2> QED
    BY <1>1, <1>3, <1>4, <2>1, PrefixIs
<1>6. /\ m \in Seq(Names) /\ Len(m) = Len(q) + (Len(x) - Len(p))
      /\ \A i \in 1..Len(q) : m[i] = q[i]
      /\ \A i \in 1..Len(x) - Len(p) : m[Len(q) + i] = x[Len(p) + i]
  BY <1>2, MovedIs
<1> HIDE DEF u, m
<1>7. /\ Moved(p, q, u) \in Seq(Names)
      /\ Len(Moved(p, q, u)) = Len(q) + (Len(u) - Len(p))
      /\ \A i \in 1..Len(q) : Moved(p, q, u)[i] = q[i]
      /\ \A i \in 1..Len(u) - Len(p) : Moved(p, q, u)[Len(q) + i] = u[Len(p) + i]
  <2>1. Len(p) <= Len(u)
    BY <1>1, <1>3, <1>4
  <2> QED
    BY <1>4, <2>1, MovedIs
<1>8. /\ Parent(m) \in Seq(Names) /\ Len(Parent(m)) = Len(m) - 1
      /\ \A i \in 1..Len(m) - 1 : Parent(m)[i] = m[i]
  <2>1. m # Root
    BY <1>1, <1>3, <1>6 DEF Root
  <2> QED
    BY <1>6, <2>1, ParentIs
<1>9. Len(Parent(m)) = Len(Moved(p, q, u))
  BY <1>1, <1>4, <1>6, <1>7, <1>8
<1>10. ASSUME NEW i \in 1..Len(Parent(m))
       PROVE  Parent(m)[i] = Moved(p, q, u)[i]
  <2>1. Parent(m)[i] = m[i] /\ i \in 1..Len(q) + (Len(x) - Len(p)) - 1
    BY <1>6, <1>8
  <2>2. CASE i <= Len(q)
    <3>1. i \in 1..Len(q)
      BY <1>1, <2>1, <2>2
    <3> QED
      BY <1>6, <1>7, <2>1, <3>1
  <2>3. CASE i > Len(q)
    <3>1. PICK j \in 1..(Len(x) - Len(p)) - 1 : i = Len(q) + j
      <4>1. i - Len(q) \in 1..(Len(x) - Len(p)) - 1 /\ i = Len(q) + (i - Len(q))
        BY <1>1, <2>1, <2>3
      <4> QED
        BY <4>1
    <3>2. j \in 1..Len(x) - Len(p) /\ j \in 1..Len(u) - Len(p) /\ Len(p) + j \in 1..Len(x) - 1
      BY <1>1, <1>4
    <3>3. m[Len(q) + j] = x[Len(p) + j]
      BY <1>6, <3>2
    <3>4. Moved(p, q, u)[Len(q) + j] = u[Len(p) + j]
      BY <1>7, <3>2
    <3>5. u[Len(p) + j] = x[Len(p) + j]
      BY <1>4, <3>2
    <3> QED
      BY <2>1, <3>1, <3>3, <3>4, <3>5
  <2> QED
    BY <1>1, <2>1, <2>2, <2>3
<1>11. Parent(m) = Moved(p, q, u)
  BY <1>7, <1>8, <1>9, <1>10, SeqEqual
<1> QED
  BY <1>4, <1>5, <1>11 DEF u, m

\* What rename makes of one path.
To(p, q, x) == IF IsPrefix(p, x) THEN Moved(p, q, x) ELSE x

LEMMA RenamedIs ==
  ASSUME NEW p, NEW q, NEW S
  PROVE  Renamed(S, p, q) = {To(p, q, x) : x \in S}
BY DEF Renamed, To, Moved

\* rename, as CanRename lets it happen, keeps the tree a tree, and what is not
\* below p where it is.
LEMMA RenameKeepsTree ==
  ASSUME TreeOK(dirs, files), NEW p \in Seq(Names), NEW q \in Seq(Names),
         CanRename(p, q), Renamed(Nodes, p, q) \subseteq Paths
  PROVE  /\ TreeOK(Renamed(dirs, p, q), Renamed(files, p, q))
         /\ \A x \in dirs : ~IsPrefix(p, x) => x \in Renamed(dirs, p, q)
         /\ \A x \in files : ~IsPrefix(p, x) => x \in Renamed(files, p, q)
<1>1. /\ \A x \in Nodes : x \in Seq(Names)
      /\ Root \in dirs /\ Root \notin files /\ dirs \cap files = {}
      /\ \A x \in Nodes : Parent(x) \in dirs
      /\ Nodes = dirs \cup files
  BY PathsAreSeqs DEF TreeOK, Nodes
<1>2. /\ p \in Nodes /\ p # Root /\ q \notin Nodes /\ Parent(q) \in dirs
      /\ ~IsPrefix(p, q)
  BY DEF CanRename
<1>3. Len(p) \in Nat /\ Len(q) \in Nat /\ Len(Root) = 0 /\ Root \in Seq(Names)
  BY LenProperties, EmptySeq DEF Root
\* q is not below p, and nothing is below q: what is moved meets nothing.
<1>4. \A x \in Seq(Names) : IsPrefix(p, x) =>
          /\ Moved(p, q, x) \in Seq(Names) /\ IsPrefix(q, Moved(p, q, x))
          /\ Moved(p, q, x) \notin Nodes
  <2> TAKE x \in Seq(Names)
  <2> HAVE IsPrefix(p, x)
  <2>1. Len(p) <= Len(x) /\ Len(x) \in Nat
    BY PrefixIs, LenProperties
  <2>2. /\ Moved(p, q, x) \in Seq(Names)
        /\ Len(Moved(p, q, x)) = Len(q) + (Len(x) - Len(p))
        /\ \A i \in 1..Len(q) : Moved(p, q, x)[i] = q[i]
    BY <2>1, MovedIs
  <2>3. Len(q) <= Len(Moved(p, q, x))
    BY <1>3, <2>1, <2>2
  <2>4. IsPrefix(q, Moved(p, q, x))
    BY <2>2, <2>3, PrefixIs
  <2> QED
    BY <1>2, <2>2, <2>4, PrefixesAreNodes
<1>5. ~IsPrefix(p, Root) /\ ~IsPrefix(p, Parent(q))
  <2>1. ~IsPrefix(p, Root)
    <3>1. Len(p) > 0
      BY <1>2, <1>3, EmptySeq DEF Root
    <3>2. ~(Len(p) <= Len(Root))
      BY <1>3, <3>1
    <3> QED
      BY <3>2 DEF IsPrefix
  <2> QED
    BY <1>2, <2>1, ParentNotBelow
<1>6. \A x \in Nodes : ~IsPrefix(p, x) => To(p, q, x) = x
  BY DEF To
<1>7. \A x, y \in Nodes : To(p, q, x) = To(p, q, y) => x = y
  <2> SUFFICES ASSUME NEW x \in Nodes, NEW y \in Nodes, To(p, q, x) = To(p, q, y)
               PROVE  x = y
    OBVIOUS
  <2>1. x \in Seq(Names) /\ y \in Seq(Names)
    BY <1>1
  <2>2. CASE IsPrefix(p, x) /\ IsPrefix(p, y)
    BY <2>1, <2>2, MovedApart DEF To
  <2>3. CASE IsPrefix(p, x) /\ ~IsPrefix(p, y)
    BY <1>4, <2>1, <2>3 DEF To
  <2>4. CASE ~IsPrefix(p, x) /\ IsPrefix(p, y)
    BY <1>4, <2>1, <2>4 DEF To
  <2>5. CASE ~IsPrefix(p, x) /\ ~IsPrefix(p, y)
    BY <2>5 DEF To
  <2> QED
    BY <2>2, <2>3, <2>4, <2>5
<1> DEFINE ds == Renamed(dirs, p, q)
           fs == Renamed(files, p, q)
<1>8. /\ ds = {To(p, q, x) : x \in dirs} /\ fs = {To(p, q, x) : x \in files}
      /\ ds \subseteq Paths /\ fs \subseteq Paths
  BY <1>1, RenamedIs
<1> HIDE DEF ds, fs
<1>9. Root \in ds
  BY <1>1, <1>5, <1>6, <1>8
<1>10. Root \notin fs
  BY <1>1, <1>5, <1>6, <1>7, <1>8
<1>11. ds \cap fs = {}
  BY <1>1, <1>7, <1>8
<1>12. ASSUME NEW x \in Nodes
       PROVE  Parent(To(p, q, x)) \in ds
  <2>1. x \in Seq(Names) /\ Parent(x) \in dirs
    BY <1>1
  <2>2. CASE ~IsPrefix(p, x)
    <3>1. ~IsPrefix(p, Parent(x))
      BY <2>1, <2>2, ParentNotBelow
    <3>2. To(p, q, x) = x /\ To(p, q, Parent(x)) = Parent(x)
      BY <2>2, <3>1 DEF To
    <3> QED
      BY <1>8, <2>1, <3>2
  <2>3. CASE x = p
    <3>1. IsPrefix(p, p)
      BY <1>3, PrefixIs
    <3>2. Moved(p, q, p) = q
      <4>1. SubSeq(p, Len(p) + 1, Len(p)) = << >>
        BY <1>3, SubSeqEmpty
      <4> QED
        BY <4>1, ConcatEmptySeq DEF Moved
    <3>3. To(p, q, x) = q /\ To(p, q, Parent(q)) = Parent(q)
      BY <1>5, <2>3, <3>1, <3>2 DEF To
    <3> QED
      BY <1>2, <1>8, <3>3
  <2>4. CASE IsPrefix(p, x) /\ x # p
    <3>1. /\ IsPrefix(p, Parent(x))
          /\ Parent(Moved(p, q, x)) = Moved(p, q, Parent(x))
      BY <2>1, <2>4, MovedParent
    <3>2. Parent(To(p, q, x)) = To(p, q, Parent(x))
      BY <2>4, <3>1 DEF To
    <3> QED
      BY <1>8, <2>1, <3>2
  <2> QED
    BY <2>2, <2>3, <2>4
<1>13. TreeOK(ds, fs)
  <2>1. \A y \in ds \cup fs : Parent(y) \in ds
    BY <1>1, <1>8, <1>12
  <2> QED
    BY <1>8, <1>9, <1>10, <1>11, <2>1 DEF TreeOK
<1>14. /\ \A x \in dirs : ~IsPrefix(p, x) => x \in ds
       /\ \A x \in files : ~IsPrefix(p, x) => x \in fs
  BY <1>1, <1>6, <1>8
<1> QED
  BY <1>13, <1>14 DEF ds, fs

LEMMA RenamedFinite ==
  ASSUME NEW S, IsFiniteSet(S), NEW p, NEW q
  PROVE  IsFiniteSet(Renamed(S, p, q))
<1> DEFINE f == [x \in S |-> To(p, q, x)]
<1>1. Renamed(S, p, q) = {To(p, q, x) : x \in S}
  BY RenamedIs
<1>2. f \in Surjection(S, Renamed(S, p, q))
  BY <1>1 DEF Surjection
<1> HIDE DEF f
<1> QED
  BY <1>2, FS_Surjection

-----------------------------------------------------------------------------
(***************************************************************************)
(* The entries of a directory.                                             *)
(***************************************************************************)
LEMMA AppendIs ==
  ASSUME NEW d \in Seq(Names), NEW n \in Names
  PROVE  /\ Append(d, n) \in Seq(Names) /\ Append(d, n) # Root
         /\ Parent(Append(d, n)) = d
         /\ \A m \in Names : Append(d, m) = Append(d, n) => m = n
<1> DEFINE x == Append(d, n)
<1>1. /\ x \in Seq(Names) /\ x # << >> /\ Len(x) = Len(d) + 1
      /\ \A i \in 1..Len(d) : x[i] = d[i]
      /\ Len(d) \in Nat
  BY AppendProperties, LenProperties
<1>2. \A m \in Names : Append(d, m) = x => m = n
  BY AppendInjective
<1> HIDE DEF x
<1>3. x # Root
  BY <1>1 DEF Root
<1>4. /\ Parent(x) \in Seq(Names) /\ Len(Parent(x)) = Len(x) - 1
      /\ \A i \in 1..Len(x) - 1 : Parent(x)[i] = x[i]
  BY <1>1, <1>3, ParentIs
<1>5. Len(Parent(x)) = Len(d) /\ \A i \in 1..Len(d) : Parent(x)[i] = d[i]
  BY <1>1, <1>4
<1>6. Parent(x) = d
  BY <1>1, <1>4, <1>5, SeqEqual
<1> QED
  BY <1>1, <1>2, <1>3, <1>6 DEF x

LEMMA EntryIs ==
  ASSUME NEW x \in Seq(Names), x # Root
  PROVE  /\ x[Len(x)] \in Names
         /\ Append(Parent(x), x[Len(x)]) = x
<1>1. /\ Len(x) \in Nat /\ Len(x) > 0
      /\ Parent(x) \in Seq(Names) /\ Len(Parent(x)) = Len(x) - 1
      /\ \A i \in 1..Len(x) - 1 : Parent(x)[i] = x[i]
  BY ParentIs, LenProperties
<1>2. x[Len(x)] \in Names
  BY <1>1, ElementOfSeq
<1> DEFINE y == Append(Parent(x), x[Len(x)])
<1>3. /\ y \in Seq(Names) /\ Len(y) = Len(Parent(x)) + 1
      /\ \A i \in 1..Len(Parent(x)) : y[i] = Parent(x)[i]
      /\ y[Len(Parent(x)) + 1] = x[Len(x)]
  BY <1>1, <1>2, AppendProperties
<1> HIDE DEF y
<1>4. Len(y) = Len(x)
  BY <1>1, <1>3
<1>5. ASSUME NEW i \in 1..Len(y)
      PROVE  y[i] = x[i]
  <2>1. CASE i = Len(x)
    BY <1>1, <1>3, <2>1
  <2>2. CASE i # Len(x)
    BY <1>1, <1>3, <1>4, <2>2
  <2> QED
    BY <2>1, <2>2
<1>6. y = x
  BY <1>3, <1>4, <1>5, SeqEqual
<1> QED
  BY <1>2, <1>6 DEF y

-----------------------------------------------------------------------------
(***************************************************************************)
(* The steps.                                                              *)
(***************************************************************************)
\* The types of what is neither the tree nor the directory.
Types ==
    /\ rnfr \in [Sessions -> Args \cup {NoArg}]
    /\ pc \in [Sessions -> {"idle", "get", "data", "list"}]
    /\ todo \in [Sessions -> SUBSET Names]
    /\ listed \in [Sessions -> SUBSET Paths]
    /\ leaked \in 0..1

LEMMA TypeOKIs == TypeOK <=> /\ TreeOK(dirs, files) /\ cwd \in dirs
                             /\ InLog(cwd) \in Nodes
                             /\ Opened \subseteq files /\ Types
BY DEF TypeOK, TreeOK, Types, Nodes

\* The same of the next state.
LEMMA TypeOKPrime ==
  ASSUME TreeOK(dirs, files)', cwd' \in dirs', InLog(cwd)' \in Nodes',
         Opened' \subseteq files', Types'
  PROVE  TypeOK'
BY DEF TypeOK, TreeOK, Types, Nodes

LEMMA Facts ==
  ASSUME Inv
  PROVE  /\ TreeOK(dirs, files) /\ Nodes = dirs \cup files
         /\ \A x \in Nodes : x \in Seq(Names)
         /\ cwd \in Seq(Names)
         /\ \A arg \in Args : Resolve(arg) \in Seq(Names)
         /\ \A s \in Sessions : rnfr[s] # NoArg => Resolve(rnfr[s]) \in Seq(Names)
         /\ \A s \in Sessions : pc[s] = "get" => Resolve(job[s].arg) \in Seq(Names)
<1>1. /\ TreeOK(dirs, files) /\ Nodes = dirs \cup files /\ cwd \in dirs
      /\ \A s \in Sessions : rnfr[s] \in Args \cup {NoArg}
  BY TypeOKIs DEF Inv, Types, Nodes
<1>2. \A x \in Nodes : x \in Seq(Names)
  BY <1>1, PathsAreSeqs DEF TreeOK
<1>3. cwd \in Seq(Names)
  BY <1>1, <1>2
<1>4. ASSUME NEW arg, arg.names \in Seq(Names)
      PROVE  Resolve(arg) \in Seq(Names)
  <2>1. cwd \o arg.names \in Seq(Names)
    BY <1>3, <1>4, ConcatProperties
  <2> QED
    BY <1>4, <2>1 DEF Resolve
<1>5. \A arg \in Args : arg.names \in Seq(Names)
  BY ArgsAssumption
<1>6. \A s \in Sessions : pc[s] = "get" => job[s].arg.names \in Seq(Names)
  BY DEF Inv, TypeInv
<1> QED
  BY <1>1, <1>2, <1>3, <1>4, <1>5, <1>6

\* What the client means, where it knows its place, is what the library makes
\* of the name now.
LEMMA MeantIs ==
  ASSUME Inv, NEW s \in Sessions, NEW arg
  PROVE  /\ Meant(s, arg) \in {Unknown, Resolve(arg)}
         /\ believed[s] # Unknown => Meant(s, arg) = Resolve(arg)
BY DEF Inv, PlaceInv, Meant, Resolve

\* A session's listing, if its part of the state stays.
ListOK(s) ==
    /\ pc[s] # "list" => listed[s] = {}
    /\ pc[s] = "list" /\ ~changed[s] =>
           \E D \in Listable :
               /\ listed[s] \subseteq D /\ ToCome(s) \subseteq D
               /\ ~failed[s] => ToCome(s) = D \ listed[s]

LEMMA ListKept ==
  ASSUME NEW s \in Sessions, ListOK(s),
         pc'[s] = pc[s], todo'[s] = todo[s], listed'[s] = listed[s],
         failed'[s] = failed[s],
         pc[s] = "list" /\ ~changed'[s] =>
             ~changed[s] /\ dirs' = dirs /\ files' = files /\ cwd' = cwd
  PROVE  ListOK(s)'
<1>1. CASE pc[s] = "list" /\ ~changed'[s]
  <2>1. Listable' = Listable /\ ToCome(s)' = ToCome(s)
    BY <1>1 DEF Listable, ToCome, Children, Nodes
  <2> QED
    BY <1>1, <2>1 DEF ListOK
<1>2. CASE ~(pc[s] = "list" /\ ~changed'[s])
  BY <1>2 DEF ListOK
<1> QED
  BY <1>1, <1>2

\* The log of a directory.
LEMMA LogIs ==
  ASSUME NEW d \in Seq(Names), Len(d) < MaxDepth
  PROVE  InLog(d) \in Paths /\ InLog(d) # Root /\ Parent(InLog(d)) = d
<1>1. /\ InLog(d) \in Seq(Names) /\ InLog(d) # Root /\ Parent(InLog(d)) = d
      /\ Len(InLog(d)) = Len(d) + 1 /\ Len(d) \in Nat
  BY LogAssumption, AppendIs, AppendProperties, LenProperties DEF InLog
<1>2. Len(InLog(d)) <= MaxDepth
  BY <1>1, BoundsAssumption
<1> QED
  BY <1>1, <1>2, PathsAreSeqs

\* Where the log is there already, a step that leaves the tree alone does.
LEMMA SameTreeIs ==
  ASSUME Inv, SameTree, cwd' = cwd
  PROVE  /\ dirs' = dirs /\ files' = files /\ Nodes' = Nodes
         /\ changed' \in [Sessions -> BOOLEAN]
         /\ \A t \in Sessions : pc[t] = "list" /\ pc'[t] = "list" => changed'[t] = changed[t]
<1>1. InLog(cwd) \in dirs \cup files
  BY DEF Inv, TypeOK, Nodes
<1>2. dirs' = dirs /\ files' = files
  BY <1>1 DEF SameTree, Tree
<1>3. changed' = [t \in Sessions |-> t \in Listing \cap Listing' /\ changed[t]]
  BY <1>2 DEF SameTree, Tree
<1>4. changed \in [Sessions -> BOOLEAN]
  BY DEF Inv, TypeInv
<1>5. changed' \in [Sessions -> BOOLEAN]
  BY <1>3, <1>4
<1>6. \A t \in Sessions : pc[t] = "list" /\ pc'[t] = "list" => changed'[t] = changed[t]
  BY <1>3, <1>4 DEF Listing
<1> QED
  BY <1>2, <1>5, <1>6 DEF Nodes

\* What is logged leaves a tree a tree.
LEMMA TreeIs ==
  ASSUME NEW ds, NEW fs, Tree(ds, fs), TreeOK(ds, fs), cwd' \in ds, IsFiniteSet(ds \cup fs)
  PROVE  /\ TreeOK(dirs', files') /\ IsFiniteSet(Nodes')
         /\ dirs' = ds /\ fs \subseteq files' /\ InLog(cwd') \in Nodes'
         /\ files' \subseteq fs \cup {InLog(cwd')}
         /\ changed' \in [Sessions -> BOOLEAN]
         /\ \A t \in Sessions : pc[t] = "list" /\ pc'[t] = "list" /\ ~changed'[t] =>
                                ~changed[t] /\ ds = dirs /\ files' = files /\ cwd' = cwd
<1> DEFINE l == InLog(cwd')
           new == <<ds, fs, cwd', files'>> # <<dirs, files, cwd, files>>
<1>1. /\ dirs' = ds /\ files' = fs \cup ({l} \ ds) /\ Len(cwd') < MaxDepth
      /\ changed' = [t \in Sessions |-> t \in Listing \cap Listing' /\ (changed[t] \/ new)]
  BY DEF Tree
<1>2. cwd' \in Seq(Names)
  BY PathsAreSeqs DEF TreeOK
<1>3. l \in Paths /\ l # Root /\ Parent(l) = cwd'
  BY <1>1, <1>2, LogIs
<1>4. changed' \in [Sessions -> BOOLEAN]
  BY <1>1
<1>5. ASSUME NEW t \in Sessions, pc[t] = "list", pc'[t] = "list", ~changed'[t]
      PROVE  ~changed[t] /\ ds = dirs /\ files' = files /\ cwd' = cwd
  <2>1. ~(changed[t] \/ new)
    <3> HIDE DEF new
    <3> QED
      BY <1>1, <1>5 DEF Listing
  <2> QED
    BY <2>1
<1> HIDE DEF l, new
<1>6. TreeOK(dirs', files')
  BY <1>1, <1>3 DEF TreeOK
<1>7. IsFiniteSet(Nodes')
  <2>1. Nodes' = ds \cup fs \/ Nodes' = (ds \cup fs) \cup {l}
    BY <1>1 DEF Nodes
  <2> QED
    BY <2>1, FS_AddElement
<1>8. fs \subseteq files' /\ l \in Nodes' /\ files' \subseteq fs \cup {l}
  BY <1>1 DEF Nodes
<1> QED
  BY <1>1, <1>4, <1>5, <1>6, <1>7, <1>8 DEF l

LEMMA InitInv == Init => Inv
<1> SUFFICES ASSUME Init PROVE Inv
  OBVIOUS
<1> USE DEF Init
<1>1. Root \in Paths /\ Root \in Seq(Names) /\ Parent(Root) = Root
  <2>1. Len(Root) = 0 /\ Root \in Seq(Names)
    BY EmptySeq DEF Root
  <2>2. Len(Root) <= MaxDepth
    BY <2>1, BoundsAssumption
  <2> QED
    BY <2>1, <2>2, PathsAreSeqs DEF Parent
<1>2. TreeOK(dirs, files) /\ cwd \in dirs /\ InLog(cwd) \in Nodes
  <2>1. Len(Root) < MaxDepth
    BY EmptySeq, BoundsAssumption DEF Root
  <2>2. InLog(Root) \in Paths /\ InLog(Root) # Root /\ Parent(InLog(Root)) = Root
    BY <1>1, <2>1, LogIs
  <2>3. files = {InLog(Root)}
    BY DEF InLog
  <2> QED
    BY <1>1, <2>2, <2>3 DEF TreeOK, Nodes
<1>3. Opened \subseteq files
  BY DEF Opened
<1>4. Types
  BY BoundsAssumption DEF Types
<1>5. TypeInv
  <2>1. IsFiniteSet(Nodes)
    <3>1. Nodes = {Root} \cup {Append(Root, LogName)}
      BY DEF Nodes
    <3> QED
      BY <3>1, FS_Singleton, FS_AddElement
  <2>2. NoJob \in Job
    BY DEF NoJob, NoArg, Job, Places
  <2>3. job \in [Sessions -> Job] /\ believed \in [Sessions -> Places]
    BY <1>1, <2>2 DEF Places
  <2>4. from \in [Sessions -> Places] /\ changed \in [Sessions -> BOOLEAN]
        /\ failed \in [Sessions -> BOOLEAN]
        /\ wandered \in BOOLEAN /\ \A s \in Sessions : pc[s] # "get"
    BY DEF Places
  <2> QED
    BY <2>1, <2>3, <2>4 DEF TypeInv
<1>6. PlaceInv
  BY DEF PlaceInv
<1>7. ListInv
  BY DEF ListInv
<1> QED
  BY <1>2, <1>3, <1>4, <1>5, <1>6, <1>7, TypeOKIs DEF Inv

\* Nothing happens to the tree, the directory or the commands: a refused
\* command, RNFR, RNTO without a name.
LEMMA QuietStep ==
  ASSUME Inv, SameTree, SamePlace, UNCHANGED <<pc, job, listVars>>,
         leaked' \in 0..1,
         rnfr' \in [Sessions -> Args \cup {NoArg}], from' \in [Sessions -> Places],
         \A t \in Sessions : rnfr'[t] # NoArg => from'[t] \in {Unknown, Resolve(rnfr'[t])}
  PROVE  Inv'
<1>0. /\ dirs' = dirs /\ files' = files /\ Nodes' = Nodes /\ cwd' = cwd
      /\ changed' \in [Sessions -> BOOLEAN]
      /\ \A t \in Sessions : pc[t] = "list" /\ pc'[t] = "list" => changed'[t] = changed[t]
  BY SameTreeIs DEF SamePlace
<1> USE <1>0 DEF SamePlace, listVars
<1>1. TypeOK'
  BY DEF Inv, TypeOK, Opened
<1>2. TypeInv'
  BY DEF Inv, TypeInv
<1>3. PlaceInv'
  BY DEF Inv, PlaceInv, Resolve
<1>4. ListInv'
  <2>1. \A t \in Sessions : ListOK(t)
    BY DEF Inv, ListInv, ListOK
  <2>2. \A t \in Sessions : ListOK(t)'
    BY <2>1, ListKept
  <2> QED
    BY <2>2 DEF ListInv, ListOK
<1> QED
  BY <1>1, <1>2, <1>3, <1>4 DEF Inv

LEMMA ChdirStep ==
  ASSUME Inv, NEW s \in Sessions, NEW to \in dirs, NEW b \in {Unknown, to},
         AtOnce(s), Chdir(s, to, b)
  PROVE  Inv'
<1> USE DEF AtOnce, NoListing, Chdir, listVars
<1>0. to \in Seq(Names)
  BY Facts
<1>a. /\ TreeOK(dirs', files') /\ IsFiniteSet(Nodes')
      /\ dirs' = dirs /\ files \subseteq files' /\ InLog(cwd') \in Nodes'
      /\ changed' \in [Sessions -> BOOLEAN]
      /\ \A t \in Sessions : pc[t] = "list" /\ pc'[t] = "list" /\ ~changed'[t] =>
                             ~changed[t] /\ files' = files /\ cwd' = cwd
  <2>1. Tree(dirs, files) /\ cwd' \in dirs
    BY DEF SameTree
  <2>2. TreeOK(dirs, files) /\ IsFiniteSet(dirs \cup files)
    BY Facts DEF Inv, TypeInv
  <2> QED
    BY <2>1, <2>2, TreeIs
<1>1. TypeOK'
  <2>1. Types'
    BY TypeOKIs DEF Inv, Types
  <2>2. Opened' \subseteq files'
    BY <1>a DEF Inv, TypeOK, Opened
  <2>3. InLog(cwd)' \in Nodes' /\ cwd' \in dirs' /\ TreeOK(dirs, files)'
    BY <1>a DEF TreeOK
  <2> QED
    BY <2>1, <2>2, <2>3, TypeOKPrime
<1>2. TypeInv'
  <2>1. believed' \in [Sessions -> Places] /\ from' \in [Sessions -> Places]
    BY <1>0 DEF Inv, TypeInv, Places
  <2>2. changed' \in [Sessions -> BOOLEAN] /\ wandered' \in BOOLEAN
    BY <1>a DEF Inv, TypeInv
  <2> QED
    BY <1>a, <2>1, <2>2 DEF Inv, TypeInv
<1>3. PlaceInv'
  <2>1. ~wandered' => cwd' = Root
    BY DEF Inv, PlaceInv
  <2>2. ASSUME NEW t \in Sessions
        PROVE  /\ believed'[t] # Unknown => believed'[t] = cwd'
               /\ pc[t] = "get" /\ believed'[t] # Unknown =>
                      to = cwd /\ believed[t] # Unknown
    <3>1. believed[t] # Unknown => believed[t] = cwd
      BY DEF Inv, PlaceInv
    <3>2. believed'[t] = IF t = s THEN b ELSE IF to = cwd THEN believed[t] ELSE Unknown
      OBVIOUS
    <3> QED
      BY <3>1, <3>2
  <2>3. ASSUME NEW t \in Sessions, rnfr[t] # NoArg
        PROVE  from'[t] = Unknown \/ (from'[t] = from[t] /\ (to = cwd \/ rnfr[t].abs))
    <3>1. from'[t] = IF to = cwd \/ rnfr[t] = NoArg \/ rnfr[t].abs THEN from[t]
                     ELSE Unknown
      OBVIOUS
    <3> QED
      BY <2>3, <3>1, Zenon
  <2>4. ASSUME NEW t \in Sessions
        PROVE  pc'[t] = "get" /\ believed'[t] # Unknown =>
                   job'[t].named = Resolve(job[t].arg)'
    BY <2>2 DEF Inv, PlaceInv, Resolve
  <2>5. ASSUME NEW t \in Sessions
        PROVE  rnfr'[t] # NoArg => from'[t] \in {Unknown, Resolve(rnfr[t])'}
    <3>1. rnfr[t] # NoArg => from[t] \in {Unknown, Resolve(rnfr[t])}
      BY DEF Inv, PlaceInv
    <3>2. to = cwd \/ rnfr[t].abs => Resolve(rnfr[t])' = Resolve(rnfr[t])
      BY DEF Resolve
    <3> QED
      BY <2>3, <3>1, <3>2
  <2> QED
    BY <2>1, <2>2, <2>4, <2>5 DEF PlaceInv
<1>4. ListInv'
  <2>1. \A t \in Sessions : ListOK(t)
    BY DEF Inv, ListInv, ListOK
  <2>3. \A t \in Sessions : ListOK(t)'
    BY <1>a, <2>1, ListKept
  <2> QED
    BY <2>3 DEF ListInv, ListOK
<1> QED
  BY <1>1, <1>2, <1>3, <1>4 DEF Inv

\* The tree changes under the sessions: MKD, RMD, DELE, RNTO.
LEMMA TreeStep ==
  ASSUME Inv, NEW s \in Sessions, NEW ds, NEW fs,
         AtOnce(s), SamePlace, Tree(ds, fs),
         TreeOK(ds, fs), IsFiniteSet(ds \cup fs), cwd \in ds, Opened \subseteq fs,
         \/ UNCHANGED renameVars
         \/ rnfr' = [rnfr EXCEPT ![s] = NoArg] /\ from' = [from EXCEPT ![s] = NoPath]
  PROVE  Inv'
<1> USE DEF AtOnce, NoListing, SamePlace, listVars, renameVars
<1>a. /\ TreeOK(dirs', files') /\ IsFiniteSet(Nodes')
      /\ dirs' = ds /\ fs \subseteq files' /\ InLog(cwd') \in Nodes'
      /\ changed' \in [Sessions -> BOOLEAN]
      /\ \A t \in Sessions : pc[t] = "list" /\ pc'[t] = "list" /\ ~changed'[t] =>
                             ~changed[t] /\ ds = dirs /\ files' = files /\ cwd' = cwd
  BY TreeIs
<1>1. TypeOK'
  <2>1. Opened' \subseteq files'
    BY <1>a DEF Opened
  <2>2. rnfr' \in [Sessions -> Args \cup {NoArg}]
    BY DEF Inv, TypeOK
  <2>3. Types'
    BY <2>2 DEF Inv, TypeOK, Types
  <2>4. InLog(cwd)' \in Nodes' /\ cwd' \in dirs' /\ TreeOK(dirs, files)'
    BY <1>a DEF TreeOK
  <2> QED
    BY <2>1, <2>3, <2>4, TypeOKPrime
<1>2. TypeInv'
  <2>1. from' \in [Sessions -> Places]
    BY DEF Inv, TypeInv, Places
  <2> QED
    BY <1>a, <2>1 DEF Inv, TypeInv
<1>3. PlaceInv'
  <2>1. \A t \in Sessions : rnfr'[t] # NoArg => rnfr'[t] = rnfr[t] /\ from'[t] = from[t]
    BY DEF Inv, TypeOK, TypeInv
  <2> QED
    BY <2>1 DEF Inv, PlaceInv, Resolve
<1>4. ListInv'
  <2>1. \A t \in Sessions : ListOK(t)
    BY DEF Inv, ListInv, ListOK
  <2>3. \A t \in Sessions : ListOK(t)'
    BY <1>a, <2>1, ListKept
  <2> QED
    BY <2>3 DEF ListInv, ListOK
<1> QED
  BY <1>1, <1>2, <1>3, <1>4 DEF Inv

\* A command with a data connection is over, and had opened nothing that is
\* left open; of a listing, only one that did not begin.
LEMMA EndsStep ==
  ASSUME Inv, NEW s \in Sessions, pc[s] # "list", Ends(s), DataFrame, SameTree,
         UNCHANGED <<todo, listed, failed>>, leaked' \in 0..1
  PROVE  Inv'
<1>0. /\ dirs' = dirs /\ files' = files /\ Nodes' = Nodes /\ cwd' = cwd
      /\ changed' \in [Sessions -> BOOLEAN]
      /\ \A t \in Sessions : pc[t] = "list" /\ pc'[t] = "list" => changed'[t] = changed[t]
  BY SameTreeIs DEF DataFrame, SamePlace
<1> USE <1>0 DEF Ends, DataFrame, SamePlace, renameVars
<1>1. TypeOK'
  <2>1. Opened' \subseteq Opened
    BY DEF Inv, TypeInv, TypeOK, Opened
  <2>2. pc' \in [Sessions -> {"idle", "get", "data", "list"}]
    BY DEF Inv, TypeOK
  <2> QED
    BY <2>1, <2>2 DEF Inv, TypeOK
<1>2. TypeInv'
  <2>1. NoJob \in Job
    BY DEF NoJob, NoArg, Job, Places
  <2>2. job' \in [Sessions -> Job]
    BY <2>1 DEF Inv, TypeInv
  <2>3. \A t \in Sessions : pc'[t] = "get" => pc[t] = "get" /\ job'[t] = job[t]
    BY DEF Inv, TypeInv, TypeOK
  <2> QED
    BY <2>2, <2>3 DEF Inv, TypeInv
<1>3. PlaceInv'
  <2>1. \A t \in Sessions : pc'[t] = "get" => pc[t] = "get" /\ job'[t] = job[t]
    BY DEF Inv, TypeInv, TypeOK
  <2> QED
    BY <2>1 DEF Inv, PlaceInv, Resolve
<1>4. ListInv'
  <2>1. \A t \in Sessions : ListOK(t)
    BY DEF Inv, ListInv, ListOK
  <2>2. ASSUME NEW t \in Sessions
        PROVE  ListOK(t)'
    <3>1. CASE t = s
      BY <2>1, <3>1 DEF ListOK, Inv, TypeOK
    <3>2. CASE t # s
      <4>1. pc'[t] = pc[t]
        BY <3>2 DEF Inv, TypeOK
      <4> QED
        BY <2>1, <4>1, ListKept
    <3> QED
      BY <3>1, <3>2
  <2> QED
    BY <2>2 DEF ListInv, ListOK
<1> QED
  BY <1>1, <1>2, <1>3, <1>4 DEF Inv

\* A listing is over, complete or not.
LEMMA ListedStep ==
  ASSUME Inv, NEW s \in Sessions, pc[s] = "list", Listed(s), DataFrame,
         SameTree, leaked' \in 0..1
  PROVE  Inv'
<1>0. /\ dirs' = dirs /\ files' = files /\ Nodes' = Nodes /\ cwd' = cwd
      /\ changed' \in [Sessions -> BOOLEAN]
      /\ \A t \in Sessions : pc[t] = "list" /\ pc'[t] = "list" => changed'[t] = changed[t]
  BY SameTreeIs DEF DataFrame, SamePlace
<1> USE <1>0 DEF Listed, Ends, DataFrame, SamePlace, renameVars
<1>1. TypeOK'
  <2>1. Opened' \subseteq Opened
    BY DEF Inv, TypeInv, TypeOK, Opened
  <2>2. /\ pc' \in [Sessions -> {"idle", "get", "data", "list"}]
        /\ todo' \in [Sessions -> SUBSET Names] /\ listed' \in [Sessions -> SUBSET Paths]
    BY DEF Inv, TypeOK
  <2> QED
    BY <2>1, <2>2 DEF Inv, TypeOK
<1>2. TypeInv'
  <2>1. NoJob \in Job
    BY DEF NoJob, NoArg, Job, Places
  <2>2. job' \in [Sessions -> Job] /\ failed' \in [Sessions -> BOOLEAN]
    BY <2>1 DEF Inv, TypeInv
  <2>3. \A t \in Sessions : pc'[t] = "get" => pc[t] = "get" /\ job'[t] = job[t]
    BY DEF Inv, TypeInv, TypeOK
  <2> QED
    BY <2>2, <2>3 DEF Inv, TypeInv
<1>3. PlaceInv'
  <2>1. \A t \in Sessions : pc'[t] = "get" => pc[t] = "get" /\ job'[t] = job[t]
    BY DEF Inv, TypeInv, TypeOK
  <2> QED
    BY <2>1 DEF Inv, PlaceInv, Resolve
<1>4. ListInv'
  <2>1. \A t \in Sessions : ListOK(t)
    BY DEF Inv, ListInv, ListOK
  <2>2. ASSUME NEW t \in Sessions
        PROVE  ListOK(t)'
    <3>1. CASE t = s
      BY <2>1, <3>1 DEF ListOK, Inv, TypeOK
    <3>2. CASE t # s
      <4>1. /\ pc'[t] = pc[t] /\ todo'[t] = todo[t] /\ listed'[t] = listed[t]
            /\ failed'[t] = failed[t]
        BY <3>2 DEF Inv, TypeOK, TypeInv
      <4> QED
        BY <2>1, <4>1, ListKept
    <3> QED
      BY <3>1, <3>2
  <2> QED
    BY <2>2 DEF ListInv, ListOK
<1> QED
  BY <1>1, <1>2, <1>3, <1>4 DEF Inv

LEMMA DirectoryStep ==
  ASSUME Inv, NEW s \in Sessions, Directory(s)
  PROVE  Inv'
<1> USE DEF AtOnce
<1>1. ASSUME NEW arg \in Args, NEW slash \in BOOLEAN, DoCwd(s, arg, slash)
      PROVE  Inv'
  <2> DEFINE name == Stripped(arg, slash)
             b == IF name # arg THEN Unknown ELSE Meant(s, arg)
  <2>1. CASE Resolve(name) \in dirs /\ Chdir(s, Resolve(name), b)
    <3>1. b \in {Unknown, Resolve(name)}
      BY MeantIs
    <3> HIDE DEF b, name
    <3> QED
      BY <1>1, <2>1, <3>1, ChdirStep DEF DoCwd
  <2>2. CASE SamePlace /\ SameTree /\ UNCHANGED renameVars
    <3>1. /\ rnfr' \in [Sessions -> Args \cup {NoArg}] /\ from' \in [Sessions -> Places]
          /\ \A t \in Sessions : rnfr'[t] # NoArg => from'[t] \in {Unknown, Resolve(rnfr'[t])}
      BY <2>2 DEF renameVars, Inv, TypeOK, TypeInv, PlaceInv
    <3> QED
      BY <1>1, <2>2, <3>1, QuietStep DEF DoCwd, NoListing
  <2> QED
    BY <1>1, <2>1, <2>2 DEF DoCwd
<1>2. ASSUME DoCdup(s)
      PROVE  Inv'
  <2>1. Parent(cwd) \in dirs
    BY DEF Inv, TypeOK, Nodes
  <2> DEFINE b == IF believed[s] = Unknown THEN Unknown ELSE Parent(believed[s])
  <2>2. b \in {Unknown, Parent(cwd)}
    BY DEF Inv, PlaceInv
  <2>3. Chdir(s, Parent(cwd), b) /\ AtOnce(s)
    BY <1>2 DEF DoCdup
  <2> HIDE DEF b
  <2> QED
    BY <2>1, <2>2, <2>3, ChdirStep
<1>3. ASSUME DoPwd(s)
      PROVE  Inv'
  <2>1. cwd \in dirs
    BY DEF Inv, TypeOK
  <2> QED
    BY <1>3, <2>1, ChdirStep DEF DoPwd
<1>4. ASSUME Login(s)
      PROVE  Inv'
  <2>0. /\ dirs' = dirs /\ files' = files /\ Nodes' = Nodes /\ cwd' = cwd
        /\ changed' \in [Sessions -> BOOLEAN]
        /\ \A t \in Sessions : pc[t] = "list" /\ pc'[t] = "list" => changed'[t] = changed[t]
    BY <1>4, SameTreeIs DEF Login
  <2> USE <1>4, <2>0 DEF Login, NoListing, listVars
  <2>1. TypeOK'
    <3>1. rnfr' \in [Sessions -> Args \cup {NoArg}]
      BY DEF Inv, TypeOK
    <3> QED
      BY <3>1 DEF Inv, TypeOK, Opened
  <2>2. TypeInv'
    <3>1. Root \in Places /\ Unknown \in Places /\ NoPath \in Places
      BY EmptySeq DEF Root, Places
    <3>2. believed' \in [Sessions -> Places] /\ from' \in [Sessions -> Places]
      BY <3>1 DEF Inv, TypeInv
    <3> QED
      BY <3>2 DEF Inv, TypeInv
  <2>3. PlaceInv'
    <3>1. \A t \in Sessions : believed'[t] # Unknown => believed'[t] = cwd
      BY DEF Inv, TypeInv, PlaceInv
    <3>2. \A t \in Sessions : pc[t] = "get" => believed'[t] = believed[t]
      BY DEF Inv, TypeInv
    <3>3. \A t \in Sessions : rnfr'[t] # NoArg => rnfr'[t] = rnfr[t] /\ from'[t] = from[t]
      BY DEF Inv, TypeOK, TypeInv
    <3> QED
      BY <3>1, <3>2, <3>3 DEF Inv, PlaceInv, Resolve
  <2>4. ListInv'
    <3>1. \A t \in Sessions : ListOK(t)
      BY DEF Inv, ListInv, ListOK
    <3>2. \A t \in Sessions : ListOK(t)'
      BY <3>1, ListKept
    <3> QED
      BY <3>2 DEF ListInv, ListOK
  <2> QED
    BY <2>1, <2>2, <2>3, <2>4 DEF Inv
<1> QED
  BY <1>1, <1>2, <1>3, <1>4 DEF Directory

\* What stays a tree.
LEMMA TreeGrows ==
  ASSUME TreeOK(dirs, files), NEW p \in Seq(Names), Len(p) <= MaxDepth,
         p \notin dirs, Parent(p) \in dirs
  PROVE  /\ p \notin files => TreeOK(dirs \cup {p}, files)
         /\ TreeOK(dirs, files \cup {p})
<1>1. p \in Paths /\ p # Root
  BY PathsAreSeqs DEF TreeOK
<1> QED
  BY <1>1 DEF TreeOK

LEMMA TreeShrinks ==
  ASSUME TreeOK(dirs, files), NEW p
  PROVE  /\ p # Root /\ Children(p) = {} => TreeOK(dirs \ {p}, files)
         /\ TreeOK(dirs, files \ {p})
<1>1. ASSUME p # Root, Children(p) = {}, NEW x \in dirs \cup files
      PROVE  Parent(x) \in dirs \ {p}
  <2>1. CASE x = Root
    BY <1>1, <2>1 DEF TreeOK, Parent
  <2>2. CASE x # Root
    BY <1>1, <2>2 DEF TreeOK, Children, Nodes
  <2> QED
    BY <2>1, <2>2
<1> QED
  BY <1>1 DEF TreeOK

LEMMA RefusedStep ==
  ASSUME Inv, NEW s \in Sessions, AtOnce(s), SameTree, SamePlace, UNCHANGED renameVars
  PROVE  Inv'
<1>1. /\ rnfr' \in [Sessions -> Args \cup {NoArg}] /\ from' \in [Sessions -> Places]
      /\ \A t \in Sessions : rnfr'[t] # NoArg => from'[t] \in {Unknown, Resolve(rnfr'[t])}
  BY DEF renameVars, Inv, TypeOK, TypeInv, PlaceInv
<1> QED
  BY <1>1, QuietStep DEF AtOnce, NoListing

LEMMA DataCommandStep ==
  ASSUME Inv, NEW s \in Sessions, NEW c \in {"RETR", "STOR", "LIST"},
         NEW arg \in [abs : BOOLEAN, names : Seq(Names)], DataCommand(s, c, arg)
  PROVE  Inv'
<1>0. /\ dirs' = dirs /\ files' = files /\ Nodes' = Nodes /\ cwd' = cwd
      /\ changed' \in [Sessions -> BOOLEAN]
      /\ \A t \in Sessions : pc[t] = "list" /\ pc'[t] = "list" => changed'[t] = changed[t]
  BY SameTreeIs DEF DataCommand, DataFrame, SamePlace
<1> USE <1>0 DEF DataCommand, DataFrame, NoListing, SamePlace, listVars, renameVars
<1> DEFINE j == [cmd |-> c, arg |-> arg, named |-> Meant(s, arg), used |-> NoPath]
<1>1. job' = [job EXCEPT ![s] = j]
  OBVIOUS
<1>2. j \in Job
  <2>1. Resolve(arg) \in Seq(Names)
    <3>1. cwd \o arg.names \in Seq(Names)
      BY Facts, ConcatProperties
    <3> QED
      BY <3>1 DEF Resolve
  <2>2. Meant(s, arg) \in Places
    BY <2>1, MeantIs DEF Places
  <2> QED
    BY <2>2 DEF Job, Places
<1>3. j.arg = arg /\ j.named = Meant(s, arg)
  OBVIOUS
<1> HIDE DEF j
<1>4. TypeOK'
  <2>1. Opened' \subseteq Opened
    BY <1>1 DEF Inv, TypeInv, TypeOK, Opened
  <2>2. pc' \in [Sessions -> {"idle", "get", "data", "list"}]
    BY DEF Inv, TypeOK
  <2> QED
    BY <2>1, <2>2 DEF Inv, TypeOK
<1>5. \A t \in Sessions : /\ t = s => job'[t] = j
                          /\ t # s => pc'[t] = pc[t] /\ job'[t] = job[t]
  BY <1>1 DEF Inv, TypeInv, TypeOK
<1>6. TypeInv'
  <2>1. job' \in [Sessions -> Job]
    BY <1>1, <1>2 DEF Inv, TypeInv
  <2>2. \A t \in Sessions : pc'[t] = "get" => job'[t].arg.names \in Seq(Names)
    BY <1>3, <1>5 DEF Inv, TypeInv
  <2> QED
    BY <2>1, <2>2 DEF Inv, TypeInv
<1>7. PlaceInv'
  <2>1. \A t \in Sessions : pc'[t] = "get" /\ believed[t] # Unknown =>
                                job'[t].named = Resolve(job'[t].arg)
    BY <1>3, <1>5, MeantIs DEF Inv, PlaceInv
  <2> QED
    BY <2>1 DEF Inv, PlaceInv, Resolve
<1>8. ListInv'
  <2>1. \A t \in Sessions : ListOK(t)
    BY DEF Inv, ListInv, ListOK
  <2>2. ASSUME NEW t \in Sessions
        PROVE  ListOK(t)'
    <3>1. CASE t = s
      BY <2>1, <3>1 DEF ListOK, Inv, TypeOK
    <3>2. CASE t # s
      BY <1>5, <2>1, <3>2, ListKept
    <3> QED
      BY <3>1, <3>2
  <2> QED
    BY <2>2 DEF ListInv, ListOK
<1> QED
  BY <1>4, <1>6, <1>7, <1>8 DEF Inv

LEMMA NamedStep ==
  ASSUME Inv, NEW s \in Sessions, Named(s)
  PROVE  Inv'
<1> PICK arg \in Args : \/ DoMkd(s, arg) \/ DoRmd(s, arg) \/ DoDele(s, arg)
                        \/ DoRnfr(s, arg) \/ DoRnto(s, arg)
                        \/ Retr(s, arg) \/ Stor(s, arg)
  BY DEF Named
<1> DEFINE q == Resolve(arg)
<1>0. /\ q \in Seq(Names) /\ arg \in [abs : BOOLEAN, names : Seq(Names)]
      /\ TreeOK(dirs, files) /\ Nodes = dirs \cup files /\ IsFiniteSet(Nodes)
      /\ cwd \in dirs /\ Opened \subseteq files
  BY Facts, ArgsAssumption DEF Inv, TypeOK, TypeInv
<1>1. CASE DoMkd(s, arg)
  <2>1. CASE SameTree
    BY <1>1, <2>1, RefusedStep DEF DoMkd, NamedCommand
  <2>2. CASE q \notin Nodes /\ Parent(q) \in dirs /\ Tree(dirs \cup {q}, files)
    <3>1. Len(q) <= MaxDepth /\ AtOnce(s) /\ SamePlace /\ UNCHANGED renameVars
      BY <1>1 DEF DoMkd, NamedCommand
    <3>2. TreeOK(dirs \cup {q}, files)
      BY <1>0, <2>2, <3>1, TreeGrows
    <3>3. IsFiniteSet((dirs \cup {q}) \cup files)
      <4>1. (dirs \cup {q}) \cup files = Nodes \cup {q}
        BY <1>0
      <4> QED
        BY <1>0, <4>1, FS_AddElement
    <3> HIDE DEF q
    <3> QED
      BY <1>0, <2>2, <3>1, <3>2, <3>3, TreeStep
  <2> QED
    BY <1>1, <2>1, <2>2 DEF DoMkd, NamedCommand
<1>2. CASE DoRmd(s, arg)
  <2>1. CASE SameTree
    BY <1>2, <2>1, RefusedStep DEF DoRmd, NamedCommand
  <2>2. CASE /\ q \in dirs \ {Root, cwd} /\ Children(q) = {}
             /\ Tree(dirs \ {q}, files)
    <3>1. AtOnce(s) /\ SamePlace /\ UNCHANGED renameVars
      BY <1>2 DEF DoRmd, NamedCommand
    <3>2. TreeOK(dirs \ {q}, files)
      BY <1>0, <2>2, TreeShrinks
    <3>3. IsFiniteSet((dirs \ {q}) \cup files)
      <4>1. (dirs \ {q}) \cup files \subseteq Nodes
        BY <1>0
      <4> QED
        BY <1>0, <4>1, FS_Subset
    <3> HIDE DEF q
    <3> QED
      BY <1>0, <2>2, <3>1, <3>2, <3>3, TreeStep
  <2> QED
    BY <1>2, <2>1, <2>2 DEF DoRmd, NamedCommand
<1>3. CASE DoDele(s, arg)
  <2>1. CASE SameTree
    BY <1>3, <2>1, RefusedStep DEF DoDele, NamedCommand
  <2>2. CASE q \in files \ Opened /\ Tree(dirs, files \ {q})
    <3>1. AtOnce(s) /\ SamePlace /\ UNCHANGED renameVars
      BY <1>3 DEF DoDele, NamedCommand
    <3>2. TreeOK(dirs, files \ {q}) /\ Opened \subseteq files \ {q}
      BY <1>0, <2>2, TreeShrinks
    <3>3. IsFiniteSet(dirs \cup (files \ {q}))
      <4>1. dirs \cup (files \ {q}) \subseteq Nodes
        BY <1>0
      <4> QED
        BY <1>0, <4>1, FS_Subset
    <3> HIDE DEF q
    <3> QED
      BY <1>0, <2>2, <3>1, <3>2, <3>3, TreeStep
  <2> QED
    BY <1>3, <2>1, <2>2 DEF DoDele, NamedCommand
<1>4. CASE DoRnfr(s, arg)
  <2>1. rnfr' = [rnfr EXCEPT ![s] = arg] /\ from' = [from EXCEPT ![s] = Meant(s, arg)]
    BY <1>4 DEF DoRnfr
  <2>2. Meant(s, arg) \in {Unknown, Resolve(arg)} /\ Meant(s, arg) \in Places
    BY <1>0, MeantIs DEF Places
  <2>3. /\ rnfr' \in [Sessions -> Args \cup {NoArg}] /\ from' \in [Sessions -> Places]
        /\ \A t \in Sessions : rnfr'[t] # NoArg => from'[t] \in {Unknown, Resolve(rnfr'[t])}
    BY <2>1, <2>2 DEF Inv, TypeOK, TypeInv, PlaceInv
  <2> QED
    BY <1>4, <2>3, QuietStep DEF DoRnfr, AtOnce, NoListing
<1>5. CASE DoRnto(s, arg)
  <2> DEFINE p == Resolve(rnfr[s])
  <2>1. CASE SameTree /\ UNCHANGED renameVars
    BY <1>5, <2>1, RefusedStep DEF DoRnto
  <2>2. CASE /\ rnfr[s] # NoArg /\ CanRename(p, q)
             /\ Renamed(Nodes, p, q) \subseteq Paths
             /\ Tree(Renamed(dirs, p, q), Renamed(files, p, q))
             /\ rnfr' = [rnfr EXCEPT ![s] = NoArg]
             /\ from' = [from EXCEPT ![s] = NoPath]
    <3>1. AtOnce(s) /\ SamePlace
      BY <1>5 DEF DoRnto
    <3>2. p \in Seq(Names)
      BY <2>2, Facts
    <3> HIDE DEF p, q
    <3>3. /\ TreeOK(Renamed(dirs, p, q), Renamed(files, p, q))
          /\ \A x \in dirs : ~IsPrefix(p, x) => x \in Renamed(dirs, p, q)
          /\ \A x \in files : ~IsPrefix(p, x) => x \in Renamed(files, p, q)
      BY <1>0, <2>2, <3>2, RenameKeepsTree
    <3>4. cwd \in Renamed(dirs, p, q) /\ Opened \subseteq Renamed(files, p, q)
      BY <1>0, <2>2, <3>3 DEF CanRename
    <3>5. IsFiniteSet(Renamed(dirs, p, q) \cup Renamed(files, p, q))
      <4>1. Renamed(dirs, p, q) \cup Renamed(files, p, q) = Renamed(Nodes, p, q)
        BY <1>0, RenamedIs
      <4>2. IsFiniteSet(Renamed(Nodes, p, q))
        BY <1>0, RenamedFinite
      <4> QED
        BY <4>1, <4>2
    <3> QED
      BY <2>2, <3>1, <3>3, <3>4, <3>5, TreeStep
  <2> QED
    BY <1>5, <2>1, <2>2 DEF DoRnto
<1>6. CASE Retr(s, arg)
  BY <1>0, <1>6, DataCommandStep DEF Retr
<1>7. CASE Stor(s, arg)
  BY <1>0, <1>7, DataCommandStep DEF Stor
<1> QED
  BY <1>1, <1>2, <1>3, <1>4, <1>5, <1>6, <1>7

\* A command with a data connection has opened p: a file, or a directory.
LEMMA OpensStep ==
  ASSUME Inv, NEW s \in Sessions, pc[s] = "get", NEW p \in Seq(Names),
         NEW where \in {"data", "list"}, Opens(s, where, p), DataFrame,
         UNCHANGED <<dirs, listed, failed>>, leaked' \in 0..1, TreeOK(dirs, files'),
         IsFiniteSet(dirs \cup files'), files \subseteq files',
         where = "data" => p \in files' /\ UNCHANGED todo,
         where = "list" => ListOK(s)',
         \A t \in Sessions \ {s} : ListOK(t)', todo' \in [Sessions -> SUBSET Names],
         changed' \in [Sessions -> BOOLEAN]
  PROVE  Inv'
<1> USE DEF Opens, DataFrame, SamePlace, renameVars
<1>1. /\ job' \in [Sessions -> Job]
      /\ \A t \in Sessions : /\ job'[t].named = job[t].named /\ job'[t].arg = job[t].arg
                             /\ t # s => job'[t] = job[t] /\ pc'[t] = pc[t]
      /\ job'[s].used = p /\ pc'[s] = where
  <2>1. /\ job \in [Sessions -> Job] /\ job' = [job EXCEPT ![s].used = p]
        /\ p \in Places
    BY DEF Inv, TypeInv, Places
  <2>2. job' \in [Sessions -> Job]
    BY <2>1 DEF Job
  <2>3. \A t \in Sessions : t # s => job'[t] = job[t] /\ pc'[t] = pc[t]
    BY <2>1 DEF Inv, TypeOK
  <2>4. /\ job'[s].used = p /\ job'[s].named = job[s].named /\ job'[s].arg = job[s].arg
        /\ pc'[s] = where
    BY <2>1 DEF Job, Inv, TypeOK
  <2> QED
    BY <2>2, <2>3, <2>4
<1>2. TypeOK'
  <2>1. ASSUME NEW t \in Sessions, pc'[t] = "data"
        PROVE  job'[t].used \in files'
    <3>1. CASE t = s
      BY <1>1, <2>1, <3>1
    <3>2. CASE t # s
      <4>1. job[t].used \in Opened
        BY <1>1, <2>1, <3>2 DEF Opened
      <4> QED
        BY <1>1, <3>2, <4>1 DEF Inv, TypeOK
    <3> QED
      BY <3>1, <3>2
  <2>2. Opened' \subseteq files'
    BY <2>1 DEF Opened
  <2>3. pc' \in [Sessions -> {"idle", "get", "data", "list"}]
    BY DEF Inv, TypeOK
  <2>4. /\ rnfr' \in [Sessions -> Args \cup {NoArg}]
        /\ listed' \in [Sessions -> SUBSET Paths] /\ leaked' \in 0..1
        /\ cwd' \in dirs'
    BY DEF Inv, TypeOK
  <2>5. InLog(cwd)' \in Nodes'
    BY DEF Inv, TypeOK, Nodes
  <2> QED
    BY <2>2, <2>3, <2>4, <2>5 DEF TypeOK, TreeOK, Nodes
<1>3. TypeInv'
  <2>1. \A t \in Sessions : pc'[t] = "get" => pc[t] = "get" /\ job'[t].arg = job[t].arg
    BY <1>1
  <2> QED
    BY <1>1, <2>1 DEF Inv, TypeInv, Nodes
<1>4. PlaceInv'
  <2>1. \A t \in Sessions : pc'[t] = "get" => pc[t] = "get"
    BY <1>1
  <2> QED
    BY <1>1, <2>1 DEF Inv, PlaceInv, Resolve
<1>5. ListInv'
  <2>1. where = "data" => ListOK(s)'
    BY <1>1 DEF Inv, ListInv, ListOK
  <2> QED
    BY <2>1 DEF ListInv, ListOK
<1> QED
  BY <1>2, <1>3, <1>4, <1>5 DEF Inv

\* The names of the entries of a directory are the entries.
LEMMA EntriesAre ==
  ASSUME Inv, NEW D \in SUBSET Children(cwd)
  PROVE  /\ {x[Len(x)] : x \in D} \subseteq Names
         /\ {Append(cwd, name) : name \in {x[Len(x)] : x \in D}} = D
<1>1. \A x \in D : x[Len(x)] \in Names /\ Append(cwd, x[Len(x)]) = x
  BY Facts, EntryIs DEF Children
<1> QED
  BY <1>1

LEMMA DataStep ==
  ASSUME Inv, NEW s \in Sessions, Data(s)
  PROVE  Inv'
<1>0. \A t \in Sessions : ListOK(t)
  BY DEF Inv, ListInv, ListOK
<1>a. DataFrame /\ SameTree =>
          /\ dirs' = dirs /\ files' = files /\ Nodes' = Nodes /\ cwd' = cwd
          /\ changed' \in [Sessions -> BOOLEAN]
          /\ \A t \in Sessions : pc[t] = "list" /\ pc'[t] = "list" => changed'[t] = changed[t]
  BY SameTreeIs DEF DataFrame, SamePlace
<1>b. NoListing => leaked' \in 0..1 /\ UNCHANGED listVars
  BY DEF NoListing
<1>1. CASE List(s)
  <2>1. [abs |-> FALSE, names |-> Root] \in [abs : BOOLEAN, names : Seq(Names)]
    BY EmptySeq DEF Root
  <2> QED
    BY <1>1, <2>1, DataCommandStep DEF List
<1>2. CASE NoConnection(s)
  BY <1>b, <1>2, EndsStep DEF NoConnection, listVars
<1>3. CASE OpenDownload(s)
  <2> DEFINE p == Resolve(job[s].arg)
  <2>1. /\ pc[s] = "get" /\ DataFrame /\ SameTree /\ NoListing
        /\ (p \in files /\ Opens(s, "data", p)) \/ Ends(s)
    BY <1>3 DEF OpenDownload
  <2>2. p \in Seq(Names)
    BY <2>1, Facts
  <2> HIDE DEF p
  <2>3. CASE Ends(s)
    BY <1>b, <2>1, <2>3, EndsStep DEF listVars
  <2>4. CASE p \in files /\ Opens(s, "data", p)
    <3> USE <1>a, <2>1, <2>4 DEF listVars, NoListing
    <3>1. ASSUME NEW t \in Sessions \ {s}
          PROVE  ListOK(t)'
      <4>1. pc'[t] = pc[t]
        BY DEF Opens, Inv, TypeOK
      <4> QED
        BY <1>0, <4>1, ListKept
    <3>2. TreeOK(dirs, files') /\ IsFiniteSet(dirs \cup files')
      BY Facts DEF Inv, TypeInv
    <3>3. todo' \in [Sessions -> SUBSET Names] /\ changed' \in [Sessions -> BOOLEAN]
      BY DEF Inv, TypeInv, TypeOK
    <3>4. leaked' \in 0..1 /\ UNCHANGED <<listed, failed, todo>>
      OBVIOUS
    <3>5. files \subseteq files' /\ p \in files' /\ UNCHANGED dirs
      OBVIOUS
    <3> QED
      BY <2>2, <3>1, <3>2, <3>3, <3>4, <3>5, OpensStep
  <2> QED
    BY <2>1, <2>3, <2>4
<1>4. CASE OpenUpload(s)
  <2> DEFINE p == Resolve(job[s].arg)
  <2>1. /\ pc[s] = "get" /\ DataFrame /\ NoListing
        /\ \/ /\ p \notin dirs /\ Parent(p) \in dirs /\ Len(p) <= MaxDepth
              /\ Opens(s, "data", p) /\ Tree(dirs, files \cup {p})
           \/ SameTree /\ Ends(s)
    BY <1>4 DEF OpenUpload
  <2>2. p \in Seq(Names)
    BY <2>1, Facts
  <2> HIDE DEF p
  <2>3. CASE SameTree /\ Ends(s)
    BY <1>b, <2>1, <2>3, EndsStep DEF listVars
  <2>4. CASE /\ p \notin dirs /\ Parent(p) \in dirs /\ Len(p) <= MaxDepth
             /\ Tree(dirs, files \cup {p}) /\ Opens(s, "data", p)
    <3> USE <2>1, <2>4 DEF listVars, NoListing
    <3>1. TreeOK(dirs, files \cup {p}) /\ IsFiniteSet(dirs \cup (files \cup {p}))
      <4>1. dirs \cup (files \cup {p}) = Nodes \cup {p}
        BY DEF Nodes
      <4> QED
        BY <2>2, <4>1, Facts, TreeGrows, FS_AddElement DEF Inv, TypeInv
    <3>2. cwd' \in dirs
      BY DEF DataFrame, SamePlace, Inv, TypeOK
    <3>3. /\ TreeOK(dirs', files') /\ IsFiniteSet(Nodes')
          /\ dirs' = dirs /\ files \cup {p} \subseteq files'
          /\ changed' \in [Sessions -> BOOLEAN]
          /\ \A t \in Sessions : pc[t] = "list" /\ pc'[t] = "list" /\ ~changed'[t] =>
                                 ~changed[t] /\ dirs = dirs /\ files' = files /\ cwd' = cwd
      BY <3>1, <3>2, TreeIs
    <3>4. ASSUME NEW t \in Sessions \ {s}
          PROVE  ListOK(t)'
      <4>1. pc'[t] = pc[t]
        BY DEF Opens, Inv, TypeOK
      <4> QED
        BY <1>0, <3>3, <4>1, ListKept
    <3>5. TreeOK(dirs, files') /\ IsFiniteSet(dirs \cup files')
      BY <3>3 DEF Nodes
    <3>6. todo' \in [Sessions -> SUBSET Names]
      BY DEF Inv, TypeOK
    <3>7. leaked' \in 0..1 /\ UNCHANGED <<listed, failed, todo>>
      OBVIOUS
    <3>8. files \subseteq files' /\ p \in files' /\ UNCHANGED dirs
      BY <3>3
    <3> QED
      BY <2>2, <3>3, <3>4, <3>5, <3>6, <3>7, <3>8, OpensStep
  <2> QED
    BY <2>1, <2>3, <2>4
<1>5. CASE EndData(s)
  BY <1>b, <1>5, EndsStep DEF EndData, listVars
<1>6. CASE OpenDir(s)
  <2>1. CASE Ends(s) /\ UNCHANGED todo /\ leaked' \in 0..1
    BY <1>6, <2>1, EndsStep DEF OpenDir
  <2>2. CASE StartsIn(s, cwd)
    <3>1. PICK d \in IF cwd = Root THEN Children(cwd) ELSE {cwd} :
                   todo' = [todo EXCEPT ![s] = {x[Len(x)] : x \in Children(cwd) \ {d}}]
      BY <2>2 DEF StartsIn
    <3> DEFINE D == Children(cwd) \ {d}
    <3>2. /\ pc[s] = "get" /\ DataFrame /\ SameTree /\ UNCHANGED <<listed, failed>>
          /\ leaked' \in 0..1
          /\ Opens(s, "list", cwd)
      BY <1>6, <2>2 DEF OpenDir, StartsIn
    <3>3. D \in Listable
      <4>1. cwd # Root => cwd \notin Children(cwd)
        <5>1. cwd # Root => Len(Parent(cwd)) # Len(cwd)
          BY Facts, ParentIs, LenProperties
        <5> QED
          BY <5>1 DEF Children
      <4> QED
        BY <4>1 DEF Listable
    <3>4. /\ {x[Len(x)] : x \in D} \subseteq Names
          /\ {Append(cwd, name) : name \in {x[Len(x)] : x \in D}} = D
      BY EntriesAre
    <3> HIDE DEF D
    <3>5. /\ todo' = [todo EXCEPT ![s] = {x[Len(x)] : x \in D}]
          /\ todo' \in [Sessions -> SUBSET Names]
          /\ todo'[s] = {x[Len(x)] : x \in D}
          /\ \A t \in Sessions \ {s} : todo'[t] = todo[t]
      BY <3>1, <3>4 DEF D, Inv, TypeOK
    <3> USE <1>a, <3>2
    <3>6. ListOK(s)'
      <4>1. Listable' = Listable
        BY DEF Listable, Children
      <4>2. ToCome(s)' = D
        BY <3>4, <3>5 DEF ToCome
      <4>3. listed'[s] = {}
        BY <1>0 DEF ListOK
      <4>4. pc'[s] = "list"
        BY DEF Opens, Inv, TypeOK
      <4>5. listed'[s] \subseteq D /\ ToCome(s)' = D \ listed'[s]
        BY <4>2, <4>3
      <4> QED
        BY <3>3, <4>1, <4>4, <4>5 DEF ListOK
    <3>7. ASSUME NEW t \in Sessions \ {s}
          PROVE  ListOK(t)'
      <4>1. pc'[t] = pc[t]
        BY DEF Opens, Inv, TypeOK
      <4> QED
        BY <1>0, <3>5, <4>1, ListKept
    <3>8. /\ TreeOK(dirs, files') /\ IsFiniteSet(dirs \cup files')
          /\ changed' \in [Sessions -> BOOLEAN] /\ cwd \in Seq(Names)
      BY Facts DEF Inv, TypeInv
    <3> QED
      BY <3>5, <3>6, <3>7, <3>8, OpensStep
  <2> QED
    BY <1>6, <2>1, <2>2 DEF OpenDir
<1>7. CASE NextEntry(s)
  <2> USE <1>a, <1>7 DEF NextEntry, DataFrame, SamePlace, renameVars
  <2>1. PICK name \in todo[s] :
            /\ Append(cwd, name) \in Nodes
            /\ todo' = [todo EXCEPT ![s] = @ \ {name}]
            /\ \/ /\ listed' = [listed EXCEPT ![s] = @ \cup {Append(cwd, name)}]
                  /\ failed' = failed
               \/ /\ failed' = [failed EXCEPT ![s] = TRUE]
                  /\ listed' = listed
    OBVIOUS
  <2> DEFINE x == Append(cwd, name)
  <2>2. /\ x \in Nodes /\ x \in Paths /\ name \in Names
        /\ \A n \in Names : Append(cwd, n) = x => n = name
    <3>1. name \in Names /\ cwd \in Seq(Names)
      BY Facts DEF Inv, TypeOK
    <3> QED
      BY <2>1, <3>1, AppendIs DEF Inv, TypeOK, Nodes
  <2>a. /\ listed' \in [Sessions -> SUBSET Paths] /\ failed' \in [Sessions -> BOOLEAN]
        /\ \/ listed'[s] = listed[s] \cup {x} /\ failed'[s] = failed[s]
           \/ listed'[s] = listed[s] /\ failed'[s] = TRUE
        /\ \A t \in Sessions : t # s => listed'[t] = listed[t] /\ failed'[t] = failed[t]
    <3> HIDE DEF x
    <3>1. listed \in [Sessions -> SUBSET Paths] /\ failed \in [Sessions -> BOOLEAN]
      BY DEF Inv, TypeOK, TypeInv
    <3>2. CASE listed' = [listed EXCEPT ![s] = @ \cup {x}] /\ failed' = failed
      BY <2>2, <3>1, <3>2
    <3>3. CASE failed' = [failed EXCEPT ![s] = TRUE] /\ listed' = listed
      BY <3>1, <3>3
    <3> QED
      BY <2>1, <3>2, <3>3 DEF x
  <2>3. TypeOK'
    <3>1. todo' \in [Sessions -> SUBSET Names]
      BY <2>1 DEF Inv, TypeOK
    <3> QED
      BY <2>a, <3>1 DEF Inv, TypeOK, Opened
  <2>4. TypeInv'
    BY <2>a DEF Inv, TypeInv
  <2>5. PlaceInv'
    BY DEF Inv, PlaceInv, Resolve
  <2>6. ListOK(s)'
    <3>1. CASE changed[s] \/ pc[s] # "list"
      BY <3>1 DEF ListOK
    <3>2. CASE ~changed[s] /\ pc[s] = "list"
      <4>1. PICK D \in Listable :
                /\ listed[s] \subseteq D /\ ToCome(s) \subseteq D
                /\ ~failed[s] => ToCome(s) = D \ listed[s]
        BY <1>0, <3>2 DEF ListOK
      <4>2. Listable' = Listable
        BY DEF Listable, Children
      <4> HIDE DEF x
      <4>3. todo'[s] = todo[s] \ {name}
        BY <2>1 DEF Inv, TypeOK
      <4>4. todo[s] \subseteq Names /\ x = Append(cwd, name)
        BY DEF x, Inv, TypeOK
      <4>5. ToCome(s)' = ToCome(s) \ {x} /\ x \in ToCome(s)
        BY <2>1, <2>2, <4>3, <4>4 DEF ToCome
      <4>6. /\ listed'[s] \subseteq D /\ ToCome(s)' \subseteq D
            /\ ~failed'[s] => ToCome(s)' = D \ listed'[s]
        BY <2>a, <4>1, <4>5
      <4> QED
        BY <4>1, <4>2, <4>6 DEF ListOK
    <3> QED
      BY <3>1, <3>2
  <2>7. ListInv'
    <3>1. ASSUME NEW t \in Sessions, t # s
          PROVE  ListOK(t)'
      <4>1. todo'[t] = todo[t]
        BY <2>1, <3>1 DEF Inv, TypeOK
      <4> QED
        BY <1>0, <2>a, <3>1, <4>1, ListKept
    <3> QED
      BY <2>6, <3>1 DEF ListInv, ListOK
  <2> QED
    BY <2>3, <2>4, <2>5, <2>7 DEF Inv
<1>8. CASE StopHalfway(s)
  <2>1. leaked' \in 0..1
    BY <1>8 DEF StopHalfway
  <2> QED
    BY <1>8, <2>1, ListedStep DEF StopHalfway
<1>9. CASE EndList(s)
  BY <1>b, <1>9, ListedStep DEF EndList
<1>10. CASE ReadFails(s)
  <2> USE <1>a, <1>10 DEF ReadFails, DataFrame, SamePlace, renameVars
  <2>1. /\ todo' \in [Sessions -> SUBSET Names] /\ failed' \in [Sessions -> BOOLEAN]
        /\ todo'[s] = {} /\ failed'[s] = TRUE
        /\ \A t \in Sessions : t # s => todo'[t] = todo[t] /\ failed'[t] = failed[t]
    BY DEF Inv, TypeOK, TypeInv
  <2>2. TypeOK'
    BY <2>1 DEF Inv, TypeOK, Opened
  <2>3. TypeInv'
    BY <2>1 DEF Inv, TypeInv
  <2>4. PlaceInv'
    BY DEF Inv, PlaceInv, Resolve
  <2>5. ListOK(s)'
    <3>1. CASE changed[s]
      BY <3>1 DEF ListOK
    <3>2. CASE ~changed[s]
      <4>1. PICK D \in Listable : listed[s] \subseteq D
        BY <1>0, <3>2 DEF ListOK
      <4>2. Listable' = Listable
        BY DEF Listable, Children
      <4>3. ToCome(s)' = {}
        BY <2>1 DEF ToCome
      <4> QED
        BY <2>1, <4>1, <4>2, <4>3 DEF ListOK
    <3> QED
      BY <3>1, <3>2
  <2>6. \A t \in Sessions : t # s => ListOK(t)'
    BY <1>0, <2>1, ListKept
  <2>7. ListInv'
    BY <2>5, <2>6 DEF ListInv, ListOK
  <2> QED
    BY <2>2, <2>3, <2>4, <2>7 DEF Inv
<1> QED
  BY <1>1, <1>2, <1>3, <1>4, <1>5, <1>6, <1>7, <1>8, <1>9, <1>10 DEF Data

LEMMA NextInv == Inv /\ [Next]_vars => Inv'
<1> SUFFICES ASSUME Inv, [Next]_vars
             PROVE  Inv'
  OBVIOUS
<1>1. CASE Next
  <2> PICK s \in Sessions : Directory(s) \/ Named(s) \/ Data(s)
    BY <1>1 DEF Next
  <2> QED
    BY DirectoryStep, NamedStep, DataStep
<1>2. CASE UNCHANGED vars
  <2> USE <1>2 DEF vars, treeVars, renameVars, listVars
  <2>1. TypeOK'
    BY DEF Inv, TypeOK, Nodes, Opened
  <2>2. TypeInv'
    BY DEF Inv, TypeInv, Nodes
  <2>3. PlaceInv'
    BY DEF Inv, PlaceInv, Resolve
  <2>4. ListInv'
    <3>1. \A t \in Sessions : ListOK(t)
      BY DEF Inv, ListInv, ListOK
    <3>2. \A t \in Sessions : ListOK(t)'
      BY <3>1, ListKept
    <3> QED
      BY <3>2 DEF ListInv, ListOK
  <2> QED
    BY <2>1, <2>2, <2>3, <2>4 DEF Inv
<1> QED
  BY <1>1, <1>2

-----------------------------------------------------------------------------
(***************************************************************************)
(* The theorems.                                                           *)
(***************************************************************************)
\* Inv holds in every state, whatever the commands of the sessions do.
THEOREM Safety == Spec => []Inv
<1> QED
  BY InitInv, NextInv, PTL DEF Spec

\* Whatever commands the sessions give, the tree stays one, the directory of
\* the process exists, and open files are there (do_cwd, do_cdup, do_mkd,
\* do_rmd, do_dele, do_rnto, download_file, upload_file).
THEOREM TreeStaysOne == Spec => []TypeOK
<1>1. Inv => TypeOK
  BY DEF Inv
<1> QED
  BY <1>1, Safety, PTL

\* Which steps take a command of s further.
LEMMA WhoMoves ==
  ASSUME Inv, NEW s \in Sessions, [Next]_vars, pc'[s] # pc[s]
  PROVE  /\ pc[s] = "get" => \/ NoConnection(s) \/ OpenDownload(s)
                             \/ OpenUpload(s) \/ OpenDir(s)
         /\ pc[s] = "list" => StopHalfway(s) \/ EndList(s)
<1>1. PICK t \in Sessions : Directory(t) \/ Named(t) \/ Data(t)
  BY DEF Next, vars
<1>2. ~Directory(t)
  BY DEF Directory, DoCwd, DoCdup, DoPwd, Login, AtOnce
<1>3. \A x : pc' = [pc EXCEPT ![t] = x] => t = s
  BY DEF Inv, TypeOK
<1>4. Named(t) => t = s /\ pc[t] = "idle"
  BY <1>3 DEF Named, DoMkd, DoRmd, DoDele, DoRnfr, DoRnto, NamedCommand, Retr, Stor,
              DataCommand, AtOnce
<1>5. Data(t) => t = s
  BY <1>3 DEF Data, List, DataCommand, NoConnection, OpenDownload, OpenUpload, EndData,
              OpenDir, StartsIn, NextEntry, StopHalfway, ReadFails, EndList, Listed,
              Opens, Ends
<1>6. Data(t) /\ pc[t] = "get" => \/ NoConnection(t) \/ OpenDownload(t)
                                  \/ OpenUpload(t) \/ OpenDir(t)
  BY DEF Data, List, DataCommand, EndData, NextEntry, StopHalfway, ReadFails, EndList
<1>7. Data(t) /\ pc[t] = "list" => \/ StopHalfway(t) \/ EndList(t)
                                   \/ NextEntry(t) \/ ReadFails(t)
  BY DEF Data, List, DataCommand, NoConnection, OpenDownload, OpenUpload, EndData, OpenDir
<1>8. ~NextEntry(t) /\ ~ReadFails(t)
  BY DEF NextEntry, ReadFails
<1> QED
  BY <1>1, <1>2, <1>4, <1>5, <1>6, <1>7, <1>8

\* A file that download_file or upload_file opens is the one the client meant.
THEOREM OpensWhatWasMeantCorrect == Spec => OpensWhatWasMeant
<1> DEFINE A == \A s \in Sessions :
                    pc[s] = "get" /\ pc'[s] = "data" /\ believed[s] # Unknown =>
                        job'[s].used = job[s].named
<1>1. ASSUME Inv, [Next]_vars, NEW s \in Sessions,
             pc[s] = "get", pc'[s] = "data", believed[s] # Unknown
      PROVE  job'[s].used = job[s].named
  <2>1. job[s].named = Resolve(job[s].arg)
    BY <1>1 DEF Inv, PlaceInv
  <2>2. job \in [Sessions -> Job] /\ pc \in [Sessions -> {"idle", "get", "data", "list"}]
    BY <1>1 DEF Inv, TypeInv, TypeOK
  <2>3. ~Ends(s)
    BY <1>1, <2>2 DEF Ends
  <2>4. ~OpenDir(s)
    BY <1>1, <2>2, <2>3 DEF OpenDir, StartsIn, Opens
  <2>5. OpenDownload(s) \/ OpenUpload(s)
    BY <1>1, <2>3, <2>4, WhoMoves DEF NoConnection
  <2>6. Opens(s, "data", Resolve(job[s].arg))
    BY <2>3, <2>5 DEF OpenDownload, OpenUpload
  <2>7. job'[s].used = Resolve(job[s].arg)
    BY <2>2, <2>6 DEF Opens, Job
  <2> QED
    BY <2>1, <2>7
<1>2. Inv /\ [Next]_vars => [A]_vars
  BY <1>1
<1> HIDE DEF A
<1>3. Spec => [][A]_vars
  BY <1>2, Safety, PTL DEF Spec
<1> QED
  BY <1>3 DEF OpensWhatWasMeant, A

\* A listing that nothing disturbs (trans_list_common) is of its directory,
\* and complete if no call has failed.
THEOREM ListingIsTrueCorrect == Spec => ListingIsTrue
<1> DEFINE A == \A s \in Sessions :
                    pc[s] = "list" /\ pc'[s] = "idle" /\ ~changed[s] =>
                        /\ listed[s] \subseteq Children(cwd)
                        /\ ~failed[s] =>
                               Cardinality(listed[s]) =
                                   Cardinality(Children(cwd)) - (IF cwd = Root THEN 1 ELSE 0)
                        /\ leaked' = 0
<1>1. ASSUME Inv, [Next]_vars, NEW s \in Sessions,
             pc[s] = "list", pc'[s] = "idle", ~changed[s]
      PROVE  /\ listed[s] \subseteq Children(cwd)
             /\ ~failed[s] =>
                    Cardinality(listed[s]) =
                        Cardinality(Children(cwd)) - (IF cwd = Root THEN 1 ELSE 0)
             /\ leaked' = 0
  <2>1. PICK D \in Listable :
            /\ listed[s] \subseteq D /\ ToCome(s) \subseteq D
            /\ ~failed[s] => ToCome(s) = D \ listed[s]
    BY <1>1 DEF Inv, ListInv
  <2>2. D \subseteq Children(cwd) /\ IsFiniteSet(Children(cwd))
    <3>1. Children(cwd) \subseteq Nodes /\ IsFiniteSet(Nodes)
      BY <1>1 DEF Children, Inv, TypeInv
    <3> QED
      BY <3>1, FS_Subset DEF Listable
  <2>3. EndList(s)
    <3>1. ~StopHalfway(s)
      <4>1. \A name \in todo[s] : Append(cwd, name) \in Children(cwd)
        BY <2>1, <2>2 DEF ToCome
      <4> QED
        BY <4>1 DEF StopHalfway, Children
    <3> QED
      BY <1>1, <3>1, WhoMoves
  <2>4. (~failed[s] => listed[s] = D) /\ leaked' = 0
    BY <2>1, <2>3 DEF EndList, ToCome
  <2>5. CASE cwd = Root
    <3>1. PICK d \in Children(cwd) : D = Children(cwd) \ {d}
      BY <2>1, <2>5 DEF Listable
    <3>2. Cardinality(D) = Cardinality(Children(cwd)) - 1
      BY <2>2, <3>1, FS_RemoveElement
    <3> QED
      BY <2>1, <2>2, <2>4, <2>5, <3>2
  <2>6. CASE cwd # Root
    <3>1. D = Children(cwd)
      BY <2>1, <2>6 DEF Listable
    <3>2. Cardinality(D) \in Nat
      BY <2>2, <3>1, FS_CardinalityType
    <3> QED
      BY <2>1, <2>2, <2>4, <2>6, <3>1, <3>2
  <2> QED
    BY <2>5, <2>6
<1>2. Inv /\ [Next]_vars => [A]_vars
  BY <1>1
<1> HIDE DEF A
<1>3. Spec => [][A]_vars
  BY <1>2, Safety, PTL DEF Spec
<1> QED
  BY <1>3 DEF ListingIsTrue, A

\* Which steps take a node away.
LEMMA WhoTakes ==
  ASSUME Inv, [Next]_vars, NEW p \in Nodes, p \notin Nodes'
  PROVE  \E s \in Sessions, arg \in Args :
             \/ DoRmd(s, arg) /\ Resolve(arg) \in dirs /\ Tree(dirs \ {Resolve(arg)}, files)
             \/ DoDele(s, arg) /\ Resolve(arg) \in files /\ Tree(dirs, files \ {Resolve(arg)})
             \/ /\ DoRnto(s, arg) /\ rnfr[s] # NoArg
                /\ CanRename(Resolve(rnfr[s]), Resolve(arg))
                /\ Renamed(Nodes, Resolve(rnfr[s]), Resolve(arg)) \subseteq Paths
                /\ Tree(Renamed(dirs, Resolve(rnfr[s]), Resolve(arg)),
                        Renamed(files, Resolve(rnfr[s]), Resolve(arg)))
                /\ rnfr' = [rnfr EXCEPT ![s] = NoArg]
<1>1. ~(dirs \subseteq dirs' /\ files \subseteq files')
  BY DEF Nodes
<1>2. PICK s \in Sessions : Directory(s) \/ Named(s) \/ Data(s)
  BY <1>1 DEF Next, vars, treeVars
<1>3. ~SameTree /\ ~(UNCHANGED treeVars)
  BY <1>1 DEF SameTree, Tree, treeVars
<1>4. ~Directory(s)
  BY <1>3 DEF Directory, DoCwd, DoCdup, DoPwd, Login, Chdir
<1>5. ~Data(s)
  <2>1. ~OpenUpload(s)
    BY <1>1, <1>3 DEF OpenUpload, Tree
  <2> QED
    BY <1>3, <2>1 DEF Data, List, DataCommand, NoConnection, OpenDownload, EndData,
                      OpenDir, NextEntry, StopHalfway, ReadFails, EndList
<1>6. PICK arg \in Args : DoRmd(s, arg) \/ DoDele(s, arg) \/ DoRnto(s, arg)
  <2>1. \A arg : ~DoMkd(s, arg)
    BY <1>1, <1>3 DEF DoMkd, NamedCommand, Tree
  <2>2. \A arg : ~(DoRnfr(s, arg) \/ Retr(s, arg) \/ Stor(s, arg))
    BY <1>3 DEF DoRnfr, Retr, Stor, DataCommand
  <2> QED
    BY <1>2, <1>4, <1>5, <2>1, <2>2 DEF Named
<1>7. DoRmd(s, arg) => Resolve(arg) \in dirs /\ Tree(dirs \ {Resolve(arg)}, files)
  BY <1>3 DEF DoRmd, NamedCommand
<1>8. DoDele(s, arg) => Resolve(arg) \in files /\ Tree(dirs, files \ {Resolve(arg)})
  BY <1>3 DEF DoDele, NamedCommand
<1>9. DoRnto(s, arg) =>
          /\ rnfr[s] # NoArg /\ CanRename(Resolve(rnfr[s]), Resolve(arg))
          /\ Renamed(Nodes, Resolve(rnfr[s]), Resolve(arg)) \subseteq Paths
          /\ Tree(Renamed(dirs, Resolve(rnfr[s]), Resolve(arg)),
                  Renamed(files, Resolve(rnfr[s]), Resolve(arg)))
          /\ rnfr' = [rnfr EXCEPT ![s] = NoArg]
  BY <1>3 DEF DoRnto
<1> QED
  BY <1>6, <1>7, <1>8, <1>9

\* do_rnto takes away what RNFR named, and once only.
THEOREM RenamesWhatWasNamedCorrect == Spec => RenamesWhatWasNamed
<1> DEFINE Moves(p) == \E s \in Sessions :
                           /\ rnfr[s] # NoArg /\ rnfr'[s] = NoArg
                           /\ from[s] = Unknown \/ IsPrefix(from[s], p)
           A == \A p \in Nodes \ Nodes' :
                    Cardinality(Nodes') = Cardinality(Nodes) => Moves(p)
<1>1. ASSUME Inv, [Next]_vars, NEW p \in Nodes \ Nodes',
             Cardinality(Nodes') = Cardinality(Nodes)
      PROVE  Moves(p)
  <2>1. /\ IsFiniteSet(Nodes) /\ Cardinality(Nodes) \in Nat
        /\ TreeOK(dirs, files) /\ Nodes = dirs \cup files
        /\ dirs \cap files = {}
    BY <1>1, Facts, FS_CardinalityType DEF Inv, TypeInv, TreeOK
  <2>2. ASSUME NEW x \in Nodes
        PROVE  Nodes' # Nodes \ {x}
    <3>1. Cardinality(Nodes \ {x}) = Cardinality(Nodes) - 1
      BY <2>1, FS_RemoveElement
    <3> QED
      BY <1>1, <2>1, <3>1
  <2>3. PICK s \in Sessions, arg \in Args :
            \/ DoRmd(s, arg) /\ Resolve(arg) \in dirs /\ Tree(dirs \ {Resolve(arg)}, files)
            \/ DoDele(s, arg) /\ Resolve(arg) \in files /\ Tree(dirs, files \ {Resolve(arg)})
            \/ /\ DoRnto(s, arg) /\ rnfr[s] # NoArg
               /\ CanRename(Resolve(rnfr[s]), Resolve(arg))
               /\ Renamed(Nodes, Resolve(rnfr[s]), Resolve(arg)) \subseteq Paths
               /\ Tree(Renamed(dirs, Resolve(rnfr[s]), Resolve(arg)),
                       Renamed(files, Resolve(rnfr[s]), Resolve(arg)))
               /\ rnfr' = [rnfr EXCEPT ![s] = NoArg]
    BY <1>1, WhoTakes
  <2> DEFINE q == Resolve(arg)
             f == Resolve(rnfr[s])
  <2>a. InLog(cwd) \in Nodes
    BY <1>1 DEF Inv, TypeOK
  <2>4. ~(DoRmd(s, arg) /\ q \in dirs /\ Tree(dirs \ {q}, files))
    <3>1. ASSUME DoRmd(s, arg), q \in dirs, Tree(dirs \ {q}, files)
          PROVE  FALSE
      <4>1. cwd' = cwd
        BY <3>1 DEF DoRmd, NamedCommand, SamePlace
      <4> HIDE DEF q
      <4>2. Nodes' = Nodes \/ Nodes' = Nodes \ {q}
        BY <2>1, <2>a, <3>1, <4>1 DEF Tree, Nodes
      <4> QED
        BY <2>1, <2>2, <3>1, <4>2
    <3> QED
      BY <3>1
  <2>5. ~(DoDele(s, arg) /\ q \in files /\ Tree(dirs, files \ {q}))
    <3>1. ASSUME DoDele(s, arg), q \in files, Tree(dirs, files \ {q})
          PROVE  FALSE
      <4>1. cwd' = cwd
        BY <3>1 DEF DoDele, NamedCommand, SamePlace
      <4> HIDE DEF q
      <4>2. Nodes' = Nodes \/ Nodes' = Nodes \ {q}
        BY <2>1, <2>a, <3>1, <4>1 DEF Tree, Nodes
      <4> QED
        BY <2>1, <2>2, <3>1, <4>2
    <3> QED
      BY <3>1
  <2>6. /\ rnfr[s] # NoArg /\ rnfr' = [rnfr EXCEPT ![s] = NoArg] /\ CanRename(f, q)
        /\ Renamed(Nodes, f, q) \subseteq Paths
        /\ Tree(Renamed(dirs, f, q), Renamed(files, f, q))
    BY <2>3, <2>4, <2>5
  <2>7. f \in Seq(Names) /\ q \in Seq(Names)
    BY <1>1, <2>6, Facts
  <2>8. IsPrefix(f, p)
    <3> HIDE DEF f, q
    <3>1. /\ \A x \in dirs : ~IsPrefix(f, x) => x \in Renamed(dirs, f, q)
          /\ \A x \in files : ~IsPrefix(f, x) => x \in Renamed(files, f, q)
      BY <2>1, <2>6, <2>7, RenameKeepsTree
    <3>2. Renamed(dirs, f, q) \cup Renamed(files, f, q) \subseteq Nodes'
      BY <2>6 DEF Tree, Nodes
    <3> QED
      BY <1>1, <2>1, <3>1, <3>2
  <2>9. from[s] \in {Unknown, f} /\ rnfr'[s] = NoArg
    BY <1>1, <2>6 DEF Inv, PlaceInv, TypeOK
  <2> QED
    BY <2>6, <2>8, <2>9
<1> HIDE DEF Moves
<1>2. Inv /\ [Next]_vars => [A]_vars
  BY <1>1
<1> HIDE DEF A
<1>3. Spec => [][A]_vars
  BY <1>2, Safety, PTL DEF Spec
<1> QED
  BY <1>3 DEF RenamesWhatWasNamed, A, Moves
=============================================================================
