------------------------- MODULE CommandLine_proofs -------------------------
(***************************************************************************)
(* However the client's bytes are cut, the session obeys its lines, in     *)
(* order and each once, inside its buffer but for the look that            *)
(* str_trim_crlf takes before it: for every size of the buffer, any number *)
(* of bytes, resets and aborted connections.                               *)
(***************************************************************************)
EXTENDS CommandLine, SequenceTheorems, TLAPS

NoLF(s, n) == \A j \in 1..n : s[j] # LF

\* What readline has put together, and what it is about to take.
BufInv ==
    /\ pc = "command" => /\ Len(buf) >= 1
                         /\ NoLF(buf, Len(buf) - 1) /\ Complete(buf)
    /\ pc # "command" => NoLF(buf, Len(buf)) /\ Len(buf) < MaxCommand - 1

WantInv ==
    pc = "read" /\ conn # "reset" =>
        /\ want >= 1 /\ want <= Room
        /\ NoLF(inbox, want - 1)

LineInv == /\ TypeOK /\ BufInv /\ WantInv
           /\ pc # "read" => want = 0
           /\ pc = "ended" => buf = << >>
           /\ conn = "reset" => inbox = << >>

-----------------------------------------------------------------------------
(***************************************************************************)
(* Pieces of sequences.                                                    *)
(***************************************************************************)
LEMMA Pieces ==
  ASSUME NEW S, NEW s \in Seq(S), NEW t \in Seq(S)
  PROVE  /\ s \o t \in Seq(S) /\ Len(s \o t) = Len(s) + Len(t)
         /\ \A i \in 1..Len(s) : (s \o t)[i] = s[i]
         /\ \A i \in 1..Len(t) : (s \o t)[Len(s) + i] = t[i]
         /\ SubSeq(s \o t, 1, Len(s)) = s
         /\ SubSeq(s \o t, Len(s) + 1, Len(s \o t)) = t
<1> DEFINE w == s \o t
<1>1. /\ w \in Seq(S) /\ Len(w) = Len(s) + Len(t)
      /\ \A i \in 1..Len(s) + Len(t) :
             w[i] = IF i <= Len(s) THEN s[i] ELSE t[i - Len(s)]
      /\ Len(s) \in Nat /\ Len(t) \in Nat
  BY ConcatProperties, LenProperties
<1> HIDE DEF w
<1>2. \A i \in 1..Len(w) : w[i] \in S
  BY <1>1, ElementOfSeq
<1>3. /\ SubSeq(w, 1, Len(s)) \in Seq(S)
      /\ Len(SubSeq(w, 1, Len(s))) = IF 1 <= Len(s) THEN Len(s) - 1 + 1 ELSE 0
      /\ \A i \in 1..Len(s) - 1 + 1 : SubSeq(w, 1, Len(s))[i] = w[1 + i - 1]
  <2>1. \A i \in 1..Len(s) : w[i] \in S
    BY <1>1, <1>2
  <2> QED
    BY <1>1, <2>1, SubSeqProperties
<1>4. SubSeq(w, 1, Len(s)) = s
  <2>1. Len(SubSeq(w, 1, Len(s))) = Len(s)
    BY <1>1, <1>3
  <2>2. \A i \in 1..Len(SubSeq(w, 1, Len(s))) : SubSeq(w, 1, Len(s))[i] = s[i]
    BY <1>1, <1>3
  <2> QED
    BY <1>3, <2>1, <2>2, SeqEqual
<1>5. /\ SubSeq(w, Len(s) + 1, Len(w)) \in Seq(S)
      /\ Len(SubSeq(w, Len(s) + 1, Len(w))) =
             IF Len(s) + 1 <= Len(w) THEN Len(w) - (Len(s) + 1) + 1 ELSE 0
      /\ \A i \in 1..Len(w) - (Len(s) + 1) + 1 :
             SubSeq(w, Len(s) + 1, Len(w))[i] = w[Len(s) + 1 + i - 1]
  <2>1. \A i \in Len(s) + 1..Len(w) : w[i] \in S
    BY <1>1, <1>2
  <2> QED
    BY <1>1, <2>1, SubSeqProperties
<1>6. SubSeq(w, Len(s) + 1, Len(w)) = t
  <2>1. Len(SubSeq(w, Len(s) + 1, Len(w))) = Len(t)
    BY <1>1, <1>5
  <2>2. ASSUME NEW i \in 1..Len(t) PROVE SubSeq(w, Len(s) + 1, Len(w))[i] = t[i]
    BY <1>1, <1>5
  <2> QED
    BY <1>5, <2>1, <2>2, SeqEqual
<1>7. ASSUME NEW i \in 1..Len(t) PROVE w[Len(s) + i] = t[i]
  <2>1. /\ Len(s) + i \in 1..Len(s) + Len(t)
        /\ ~(Len(s) + i <= Len(s)) /\ Len(s) + i - Len(s) = i
    BY <1>1
  <2> QED
    BY <1>1, <2>1
<1> QED
  BY <1>1, <1>4, <1>6, <1>7 DEF w

\* A sequence cut in two.
LEMMA Cut ==
  ASSUME NEW S, NEW s \in Seq(S), NEW k \in 0..Len(s)
  PROVE  /\ SubSeq(s, 1, k) \in Seq(S) /\ Len(SubSeq(s, 1, k)) = k
         /\ \A i \in 1..k : SubSeq(s, 1, k)[i] = s[i]
         /\ SubSeq(s, k + 1, Len(s)) \in Seq(S)
         /\ SubSeq(s, 1, k) \o SubSeq(s, k + 1, Len(s)) = s
<1>1. Len(s) \in Nat /\ \A i \in 1..Len(s) : s[i] \in S
  BY LenProperties, ElementOfSeq
<1>2. /\ SubSeq(s, 1, k) \in Seq(S)
      /\ Len(SubSeq(s, 1, k)) = IF 1 <= k THEN k - 1 + 1 ELSE 0
      /\ \A i \in 1..k - 1 + 1 : SubSeq(s, 1, k)[i] = s[1 + i - 1]
  <2>1. k \in Int /\ \A i \in 1..k : s[i] \in S
    BY <1>1
  <2> QED
    BY <2>1, SubSeqProperties
<1>3. SubSeq(s, k + 1, Len(s)) \in Seq(S)
  <2>1. k + 1 \in Int /\ Len(s) \in Int /\ \A i \in k + 1..Len(s) : s[i] \in S
    BY <1>1
  <2> QED
    BY <2>1, SubSeqProperties
<1>4. SubSeq(s, 1, k) \o SubSeq(s, k + 1, Len(s)) = SubSeq(s, 1, Len(s))
  <2>1. 1 \in 1..Len(s) + 1 /\ k \in 1 - 1..Len(s) /\ Len(s) \in k..Len(s)
    BY <1>1
  <2> QED
    BY <2>1, ConcatAdjacentSubSeq
<1>5. Len(SubSeq(s, 1, k)) = k
  BY <1>1, <1>2
<1>6. ASSUME NEW i \in 1..k PROVE SubSeq(s, 1, k)[i] = s[i]
  <2>1. i \in 1..k - 1 + 1 /\ 1 + i - 1 = i
    BY <1>1
  <2> QED
    BY <1>2, <2>1
<1> QED
  BY <1>2, <1>3, <1>4, <1>5, <1>6, SubSeqFull

-----------------------------------------------------------------------------
(***************************************************************************)
(* The invariant.                                                          *)
(***************************************************************************)
LEMMA LineInit == Init => LineInv
<1> SUFFICES ASSUME Init PROVE LineInv
  OBVIOUS
<1>1. /\ << >> \in Seq(Bytes) /\ << >> \in Seq(Seq(Bytes)) /\ Len(<< >>) = 0
  BY EmptySeq
<1>2. TypeOK
  <2>1. Len(buf) = 0 /\ Len(inbox) = 0 /\ want = 0
    BY <1>1 DEF Init
  <2>2. Len(buf) < MaxCommand /\ want \in Nat /\ want <= Len(inbox)
    BY <2>1, CommandAssumption
  <2> QED
    BY <1>1, <2>2 DEF Init, TypeOK
<1>3. BufInv /\ WantInv
  BY <1>1, CommandAssumption DEF Init, BufInv, WantInv, NoLF
<1> QED
  BY <1>2, <1>3 DEF Init, LineInv

LEMMA ArriveInv == LineInv /\ Arrive => LineInv'
<1> SUFFICES ASSUME LineInv, Arrive PROVE LineInv'
  OBVIOUS
<1>1. PICK x \in Bytes : sent' = Append(sent, x) /\ inbox' = Append(inbox, x)
  BY DEF Arrive
<1>2. sent \in Seq(Bytes) /\ inbox \in Seq(Bytes) /\ Len(inbox) \in Nat
  BY LenProperties DEF LineInv, TypeOK
<1>3. /\ sent' \in Seq(Bytes) /\ inbox' \in Seq(Bytes)
      /\ Len(inbox') = Len(inbox) + 1
      /\ \A i \in 1..Len(inbox) : inbox'[i] = inbox[i]
  BY <1>1, <1>2, AppendProperties
<1>4. /\ conn = "open"
      /\ UNCHANGED <<conn, pc, want, buf, lastError, got, outside, spin>>
  BY DEF Arrive
<1>5. TypeOK'
  BY <1>2, <1>3, <1>4 DEF LineInv, TypeOK
<1>6. BufInv'
  BY <1>4 DEF LineInv, BufInv, NoLF, Complete
<1>7. WantInv'
  <2> SUFFICES ASSUME pc = "read"
               PROVE  want >= 1 /\ want <= Room /\ NoLF(inbox', want - 1)
    BY <1>4 DEF WantInv, Room
  <2>1. /\ want >= 1 /\ want <= Room /\ NoLF(inbox, want - 1)
        /\ want \in Nat /\ want <= Len(inbox)
    BY <1>4 DEF LineInv, TypeOK, WantInv
  <2>2. \A j \in 1..want - 1 : j \in 1..Len(inbox)
    BY <1>2, <2>1
  <2> QED
    BY <1>3, <2>1, <2>2 DEF NoLF
<1> QED
  BY <1>4, <1>5, <1>6, <1>7 DEF LineInv

LEMMA BreakInv == LineInv /\ (Close \/ Reset \/ Abort) => LineInv'
<1> SUFFICES ASSUME LineInv, Close \/ Reset \/ Abort PROVE LineInv'
  OBVIOUS
<1>1. UNCHANGED <<sent, pc, want, buf, lastError, got, outside, spin>>
      /\ \/ conn # "reset" /\ conn' \in {"closed", "aborted"} /\ inbox' = inbox
         \/ conn' = "reset" /\ inbox' = << >>
  BY DEF Close, Reset, Abort
<1>2. << >> \in Seq(Bytes)
  BY EmptySeq
<1>3. TypeOK'
  BY <1>1, <1>2 DEF LineInv, TypeOK
<1>4. BufInv' /\ WantInv'
  BY <1>1 DEF LineInv, BufInv, WantInv, NoLF, Complete, Room
<1> QED
  BY <1>1, <1>3, <1>4 DEF LineInv

LEMMA PeekInv == LineInv /\ Peek => LineInv'
<1> SUFFICES ASSUME LineInv, Peek PROVE LineInv'
  OBVIOUS
<1>0. \A a, b \in Int : a <= b => \A j \in 1..a - 1 : j \in 1..b
  OBVIOUS
<1>1. /\ inbox \in Seq(Bytes) /\ Len(inbox) \in Nat
      /\ buf \in Seq(Bytes) /\ Len(buf) \in Nat /\ Room \in Int
  BY LenProperties, CommandAssumption DEF LineInv, TypeOK, Room
<1>2. PICK n \in 1..Room :
          n <= Len(inbox) /\ want' \in Wanted(SubSeq(inbox, 1, n))
  BY <1>1 DEF Peek
<1>3. /\ Len(SubSeq(inbox, 1, n)) = n
      /\ \A i \in 1..n : SubSeq(inbox, 1, n)[i] = inbox[i]
  <2>1. n \in 0..Len(inbox)
    BY <1>1, <1>2
  <2> QED
    BY <1>1, <2>1, Cut
<1>4. want' \in 1..n /\ NoLF(inbox, want' - 1)
  <2>1. want' \in 1..n /\ \A j \in 1..want' - 1 : SubSeq(inbox, 1, n)[j] # LF
    BY <1>2, <1>3 DEF Wanted
  <2>2. \A j \in 1..want' - 1 : j \in 1..n
    <3>1. n \in Int /\ want' \in Int /\ want' <= n
      BY <1>1, <1>2, <2>1
    <3> QED
      BY <1>0, <3>1, Zenon
  <2> QED
    BY <1>3, <2>1, <2>2 DEF NoLF
<1>5. /\ conn \in {"open", "closed"} /\ pc = "peek" /\ pc' = "read"
      /\ UNCHANGED <<sent, inbox, conn, buf, lastError, got, outside, spin>>
  BY DEF Peek
<1>6. TypeOK'
  BY <1>1, <1>2, <1>4, <1>5 DEF LineInv, TypeOK
<1>7. BufInv'
  BY <1>5 DEF LineInv, BufInv, NoLF
<1>8. WantInv'
  <2>1. want' >= 1 /\ want' <= Room
    BY <1>1, <1>2, <1>4
  <2> QED
    BY <1>4, <1>5, <2>1 DEF WantInv, NoLF, Room
<1> QED
  BY <1>5, <1>6, <1>7, <1>8 DEF LineInv

LEMMA ReadInv == LineInv /\ Read => LineInv'
<1> SUFFICES ASSUME LineInv, Read PROVE LineInv'
  OBVIOUS
<1> DEFINE piece == SubSeq(inbox, 1, want)
           line  == buf \o piece
<1>1. /\ inbox \in Seq(Bytes) /\ Len(inbox) \in Nat
      /\ buf \in Seq(Bytes) /\ Len(buf) \in Nat
      /\ want \in 1..Len(inbox) /\ Len(buf) + want <= MaxCommand - 1
      /\ NoLF(inbox, want - 1) /\ NoLF(buf, Len(buf))
      /\ MaxCommand \in Nat
  BY LenProperties, CommandAssumption
     DEF Read, LineInv, TypeOK, WantInv, BufInv, Room
<1>2. /\ piece \in Seq(Bytes) /\ Len(piece) = want
      /\ \A i \in 1..want : piece[i] = inbox[i]
      /\ SubSeq(inbox, want + 1, Len(inbox)) \in Seq(Bytes)
  BY <1>1, Cut
<1>3. /\ line \in Seq(Bytes) /\ Len(line) = Len(buf) + want
      /\ \A i \in 1..Len(buf) + want :
             line[i] = IF i <= Len(buf) THEN buf[i] ELSE piece[i - Len(buf)]
  BY <1>1, <1>2, ConcatProperties
<1> HIDE DEF piece, line
<1>4. NoLF(line, Len(line) - 1)
  <2> SUFFICES ASSUME NEW i \in 1..Len(line) - 1 PROVE line[i] # LF
    BY DEF NoLF
  <2>1. CASE i <= Len(buf)
    BY <1>1, <1>3, <2>1 DEF NoLF
  <2>2. CASE i > Len(buf)
    <3>1. i - Len(buf) \in 1..want - 1 /\ i \in 1..Len(buf) + want
      BY <1>1, <1>3, <2>2
    <3>2. line[i] = piece[i - Len(buf)]
      BY <1>1, <1>3, <2>2, <3>1
    <3>3. i - Len(buf) \in 1..want
      BY <1>1, <3>1
    <3>4. piece[i - Len(buf)] = inbox[i - Len(buf)]
      BY <1>2, <3>3
    <3> QED
      BY <1>1, <3>1, <3>2, <3>4 DEF NoLF
  <2> QED
    BY <1>1, <1>3, <2>1, <2>2
<1>5. /\ buf' = line /\ pc' = (IF Complete(line) THEN "command" ELSE "peek")
      /\ inbox' = SubSeq(inbox, want + 1, Len(inbox)) /\ want' = 0
      /\ conn \in {"open", "closed"}
      /\ UNCHANGED <<sent, conn, lastError, got, outside, spin>>
  BY DEF Read, line, piece
<1>6. TypeOK'
  <2>1. Len(line) < MaxCommand /\ Len(inbox') \in Nat
    BY <1>1, <1>2, <1>3, <1>5, LenProperties
  <2>2. buf' \in Seq(Bytes) /\ inbox' \in Seq(Bytes)
    BY <1>2, <1>3, <1>5
  <2>3. pc' \in {"peek", "read", "command", "stuck", "ended"}
    BY <1>5
  <2>4. Len(buf') < MaxCommand /\ want' \in Nat /\ want' <= Len(inbox')
    <3>1. buf' = line /\ want' = 0
      BY <1>5
    <3> QED
      BY <2>1, <3>1
  <2>5. /\ sent' \in Seq(Bytes) /\ got' \in Seq(Seq(Bytes))
        /\ outside' \in BOOLEAN /\ spin' \in BOOLEAN
        /\ lastError' \in {"other", "aborted"}
        /\ conn' \in {"open", "closed", "reset", "aborted"}
    BY <1>5 DEF LineInv, TypeOK
  <2> QED
    BY <2>2, <2>3, <2>4, <2>5 DEF TypeOK
<1>7. BufInv'
  <2>1. CASE Complete(line)
    <3>1. Len(line) >= 1
      BY <1>1, <1>3
    <3>2. pc' = "command" /\ buf' = line
      BY <1>5, <2>1
    <3> QED
      BY <1>4, <2>1, <3>1, <3>2 DEF BufInv, Complete, NoLF
  <2>2. CASE ~Complete(line)
    <3>1. line[Len(line)] # LF /\ Len(line) # MaxCommand - 1
      BY <2>2 DEF Complete
    <3>2. NoLF(line, Len(line))
      <4>1. Len(line) \in Nat
        BY <1>1, <1>3
      <4>2. \A i \in 1..Len(line) : i \in 1..Len(line) - 1 \/ i = Len(line)
        BY <4>1
      <4> QED
        BY <1>4, <3>1, <4>2 DEF NoLF
    <3>3. Len(line) < MaxCommand - 1
      <4>1. Len(line) \in Int /\ Len(line) <= MaxCommand - 1
        BY <1>1, <1>3
      <4> QED
        BY <1>1, <3>1, <4>1
    <3>4. pc' = "peek" /\ buf' = line
      BY <1>5, <2>2
    <3> QED
      BY <3>2, <3>3, <3>4 DEF BufInv, NoLF
  <2> QED
    BY <2>1, <2>2
<1>8. WantInv' /\ pc' \notin {"read", "ended"}
  BY <1>5 DEF WantInv
<1> QED
  BY <1>5, <1>6, <1>7, <1>8 DEF LineInv

LEMMA EndInv == LineInv /\ (ReadEnds \/ Command) => LineInv'
<1> SUFFICES ASSUME LineInv, ReadEnds \/ Command PROVE LineInv'
  OBVIOUS
<1>1. << >> \in Seq(Bytes) /\ Len(<< >>) = 0
  BY EmptySeq
<1>2. /\ buf' = << >> /\ want' = 0 /\ pc' \in {"peek", "stuck", "ended"}
      /\ UNCHANGED <<sent, inbox, conn, spin>>
  BY DEF ReadEnds, Command, LineInv
<1>3. /\ lastError' \in {"other", "aborted"} /\ got' \in Seq(Seq(Bytes))
      /\ outside' \in BOOLEAN
  <2>1. CASE ReadEnds
    BY <2>1 DEF ReadEnds, LineInv, TypeOK
  <2>2. CASE Command
    <3>1. got' \in Seq(Seq(Bytes))
      BY <2>2, AppendProperties DEF Command, LineInv, TypeOK
    <3>2. outside' \in BOOLEAN
      BY <2>2 DEF Command, LineInv, TypeOK, Blank
    <3> QED
      BY <2>2, <3>1, <3>2 DEF Command
  <2> QED
    BY <2>1, <2>2
<1>4. TypeOK'
  <2>1. Len(inbox) \in Nat
    BY LenProperties DEF LineInv, TypeOK
  <2> QED
    BY <1>1, <1>2, <1>3, <2>1, CommandAssumption DEF LineInv, TypeOK
<1>5. BufInv' /\ WantInv'
  BY <1>1, <1>2, CommandAssumption DEF BufInv, WantInv, NoLF
<1> QED
  BY <1>2, <1>4, <1>5 DEF LineInv

LEMMA RetryInv == LineInv /\ Retry => LineInv'
<1> SUFFICES ASSUME LineInv, Retry PROVE LineInv'
  OBVIOUS
<1>1. /\ UNCHANGED <<sent, inbox, conn, pc, want, buf, lastError, got, outside>>
      /\ spin' = ~spin
  BY DEF Retry
<1>2. TypeOK'
  BY <1>1 DEF LineInv, TypeOK
<1>3. BufInv' /\ WantInv'
  BY <1>1 DEF LineInv, BufInv, WantInv, NoLF, Complete, Room
<1> QED
  BY <1>1, <1>2, <1>3 DEF LineInv

LEMMA LineStep == LineInv /\ [Next]_vars => LineInv'
<1>1. LineInv /\ UNCHANGED vars => LineInv'
  BY DEF vars, LineInv, TypeOK, BufInv, WantInv, NoLF, Complete, Room
<1> QED
  BY <1>1, ArriveInv, BreakInv, PeekInv, ReadInv, EndInv, RetryInv
     DEF Next, Client, Server

\* A command and its terminating zero fit session->command, and readn asks for
\* no more bytes than have arrived, whatever the client sends in whatever
\* pieces: for every MAX_COMMAND.
THEOREM LineTypeCorrect == Spec => []TypeOK
<1>1. LineInv => TypeOK
  BY DEF LineInv
<1> QED
  BY <1>1, LineInit, LineStep, PTL DEF Spec

-----------------------------------------------------------------------------
(***************************************************************************)
(* The refinement.                                                         *)
(***************************************************************************)
Input == IF pc = "ended" \/ (conn = "reset" /\ pc # "command")
         THEN << >> ELSE buf \o inbox
Over == conn = "reset" \/ pc = "ended"

LEMMA MapInit == Init => Abstract!Init
<1> SUFFICES ASSUME Init PROVE Abstract!Init
  OBVIOUS
<1>1. << >> \o << >> = << >>
  BY ConcatEmptySeq, EmptySeq
<1> QED
  BY <1>1 DEF Init, Abstract!Init

LEMMA MapArrive == LineInv /\ Arrive => [Abstract!Next]_(Abstract!vars)
<1> SUFFICES ASSUME LineInv, Arrive PROVE [Abstract!Next]_(Abstract!vars)
  OBVIOUS
<1>1. PICK x \in Bytes : inbox' = Append(inbox, x)
  BY DEF Arrive
<1>2. conn = "open" /\ UNCHANGED <<conn, pc, buf, got>>
  BY DEF Arrive
<1>3. CASE pc = "ended"
  BY <1>2, <1>3 DEF Abstract!vars
<1>4. CASE pc # "ended"
  <2>1. /\ inbox \in Seq(Bytes) /\ buf \in Seq(Bytes)
        /\ Append(inbox, x) = inbox \o <<x>> /\ <<x>> \in Seq(Bytes)
        /\ buf \o inbox \in Seq(Bytes)
    BY <1>1, AppendIsConcat, ConcatProperties DEF LineInv, TypeOK
  <2>2. buf \o inbox' = Append(buf \o inbox, x)
    BY <1>1, <2>1, ConcatAssociative, AppendIsConcat
  <2>3. Abstract!Arrive
    BY <1>2, <1>4, <2>2 DEF Abstract!Arrive
  <2> QED
    BY <2>3 DEF Abstract!Next
<1> QED
  BY <1>3, <1>4

LEMMA MapBreak ==
  LineInv /\ (Close \/ Reset \/ Abort) => [Abstract!Next]_(Abstract!vars)
<1> SUFFICES ASSUME LineInv, Close \/ Reset \/ Abort
             PROVE  [Abstract!Next]_(Abstract!vars)
  OBVIOUS
<1>1. UNCHANGED <<pc, buf, got>>
  BY DEF Close, Reset, Abort
<1>2. CASE Close \/ Abort
  BY <1>1, <1>2 DEF Close, Abort, Abstract!vars
<1>3. CASE Reset
  <2>1. conn # "reset" /\ conn' = "reset" /\ inbox' = << >>
    BY <1>3 DEF Reset
  <2>2. /\ buf \in Seq(Bytes) /\ Len(buf) \in Nat
        /\ inbox \in Seq(Bytes) /\ Len(inbox) \in Nat
    BY LenProperties DEF LineInv, TypeOK
  <2>3. /\ Len(buf \o inbox) = Len(buf) + Len(inbox)
        /\ SubSeq(buf \o inbox, 1, Len(buf)) = buf
        /\ SubSeq(buf \o inbox, 1, 0) = << >>
        /\ buf \o << >> = buf
    BY <2>2, Pieces, SubSeqEmpty, ConcatEmptySeq
  <2>4. CASE pc = "ended"
    BY <1>1, <2>1, <2>4 DEF Abstract!vars
  <2>5. CASE pc = "command"
    <3>1. Len(buf) \in 0..Len(buf \o inbox)
      BY <2>2, <2>3
    <3>2. Abstract!End
      BY <1>1, <2>1, <2>3, <2>5, <3>1 DEF Abstract!End
    <3> QED
      BY <3>2 DEF Abstract!Next
  <2>6. CASE pc \notin {"ended", "command"}
    <3>1. 0 \in 0..Len(buf \o inbox)
      BY <2>2, <2>3
    <3>2. Abstract!End
      BY <1>1, <2>1, <2>3, <2>6, <3>1 DEF Abstract!End
    <3> QED
      BY <3>2 DEF Abstract!Next
  <2> QED
    BY <2>4, <2>5, <2>6
<1> QED
  BY <1>2, <1>3

LEMMA MapRead == LineInv /\ (Peek \/ Read) => UNCHANGED Abstract!vars
<1> SUFFICES ASSUME LineInv, Peek \/ Read PROVE UNCHANGED Abstract!vars
  OBVIOUS
<1>1. /\ conn # "reset" /\ pc \notin {"ended", "command"} /\ pc' # "ended"
      /\ UNCHANGED <<conn, got>>
  BY DEF Peek, Read
<1>2. buf' \o inbox' = buf \o inbox
  <2>1. CASE Peek
    BY <2>1 DEF Peek
  <2>2. CASE Read
    <3>1. /\ inbox \in Seq(Bytes) /\ buf \in Seq(Bytes)
          /\ want \in 0..Len(inbox)
      BY <1>1, LenProperties DEF LineInv, TypeOK
    <3>2. /\ SubSeq(inbox, 1, want) \in Seq(Bytes)
          /\ SubSeq(inbox, want + 1, Len(inbox)) \in Seq(Bytes)
          /\ SubSeq(inbox, 1, want) \o SubSeq(inbox, want + 1, Len(inbox))
                 = inbox
      BY <3>1, Cut
    <3>3. buf' = buf \o SubSeq(inbox, 1, want)
          /\ inbox' = SubSeq(inbox, want + 1, Len(inbox))
      BY <2>2 DEF Read
    <3> QED
      <4>1. (buf \o SubSeq(inbox, 1, want)) \o SubSeq(inbox, want + 1, Len(inbox))
            = buf \o (SubSeq(inbox, 1, want)
                        \o SubSeq(inbox, want + 1, Len(inbox)))
        <5>1. \A t, u \in Seq(Bytes) : (buf \o t) \o u = buf \o (t \o u)
          BY <3>1, ConcatAssociative
        <5> QED
          BY <3>2, <5>1
      <4> QED
        BY <3>2, <3>3, <4>1
  <2> QED
    BY <2>1, <2>2
<1> QED
  BY <1>1, <1>2 DEF Abstract!vars

LEMMA MapEnds == LineInv /\ ReadEnds => Abstract!End
<1> SUFFICES ASSUME LineInv, ReadEnds PROVE Abstract!End
  OBVIOUS
<1>1. pc' = "ended" /\ UNCHANGED got
  BY DEF ReadEnds
<1>2. \E k \in 0..Len(Input) : << >> = SubSeq(Input, 1, k)
  <2>1. Input \in Seq(Bytes)
    BY EmptySeq, ConcatProperties DEF Input, LineInv, TypeOK
  <2>2. 0 \in 0..Len(Input) /\ SubSeq(Input, 1, 0) = << >>
    BY <2>1, LenProperties, SubSeqEmpty
  <2> QED
    BY <2>2
<1> QED
  BY <1>1, <1>2 DEF Abstract!End, Input

LEMMA MapCommand == LineInv /\ Command => Abstract!Obey
<1> SUFFICES ASSUME LineInv, Command PROVE Abstract!Obey
  OBVIOUS
<1> DEFINE k == Len(buf)
           ends == pc' = "ended" \/ conn = "reset"
<1>1. /\ pc = "command" /\ got' = Append(got, buf) /\ buf' = << >>
      /\ pc' \in {"peek", "stuck", "ended"} /\ UNCHANGED <<inbox, conn>>
  BY DEF Command
<1>2. /\ buf \in Seq(Bytes) /\ inbox \in Seq(Bytes)
      /\ k \in Nat /\ Len(inbox) \in Nat /\ k >= 1
      /\ k <= MaxCommand - 1
  BY <1>1, LenProperties, CommandAssumption DEF LineInv, TypeOK, BufInv
<1>3. /\ Len(buf \o inbox) = k + Len(inbox)
      /\ \A i \in 1..k : (buf \o inbox)[i] = buf[i]
      /\ SubSeq(buf \o inbox, 1, k) = buf
      /\ SubSeq(buf \o inbox, k + 1, Len(buf \o inbox)) = inbox
  BY <1>2, Pieces
<1>4. (buf \o inbox)[k] = LF \/ k = MaxCommand - 1
  BY <1>1, <1>2, <1>3 DEF LineInv, BufInv, Complete
<1>5. \A j \in 1..k - 1 : (buf \o inbox)[j] # LF
  BY <1>1, <1>2, <1>3 DEF LineInv, BufInv, NoLF
<1>6. << >> \o inbox = inbox
  BY <1>2, ConcatEmptySeq
<1>7. k \in 1..Len(buf \o inbox) /\ ends \in BOOLEAN
  BY <1>2, <1>3
<1>8. /\ Input = buf \o inbox
      /\ Input' = IF ends THEN << >> ELSE inbox
      /\ Over' = (Over \/ ends)
  BY <1>1, <1>6 DEF Input, Over, LineInv
<1>9. Abstract!IsLine(k)
  BY <1>4, <1>5, <1>8 DEF Abstract!IsLine, Input
<1> HIDE DEF k, ends
<1> QED
  BY <1>1, <1>2, <1>3, <1>7, <1>8, <1>9 DEF Abstract!Obey, Input, Over

\* The lines the client sends are obeyed, in order, each once and none before
\* it is complete, however the network cuts them (readline, recv_peek and
\* readn of sysutil.c): for every MAX_COMMAND.
THEOREM SessionObeysLines == Spec => ImplementsLines
<1>1. LineInv /\ [Next]_vars => [Abstract!Next]_(Abstract!vars)
  <2> SUFFICES ASSUME LineInv, [Next]_vars
               PROVE  [Abstract!Next]_(Abstract!vars)
    OBVIOUS
  <2>1. CASE Arrive \/ Close \/ Reset \/ Abort
    BY <2>1, MapArrive, MapBreak
  <2>2. CASE Peek \/ Read
    BY <2>2, MapRead
  <2>3. CASE ReadEnds \/ Command
    BY <2>3, MapEnds, MapCommand DEF Abstract!Next
  <2>4. CASE Retry \/ UNCHANGED vars
    BY <2>4 DEF Retry, vars, Abstract!vars
  <2> QED
    BY <2>1, <2>2, <2>3, <2>4 DEF Next, Client, Server
<1> QED
  BY <1>1, MapInit, LineInit, LineStep, PTL
     DEF Spec, ImplementsLines, Abstract!Spec

-----------------------------------------------------------------------------
(***************************************************************************)
(* What str_trim_crlf meets before the buffer.                             *)
(***************************************************************************)

\* What readline holds, and then what has arrived, follows in what was sent
\* behind some place p: the start, a line feed, or behind an odd line.
PlacedAt(p) ==
    /\ p = 0 \/ sent[p] = LF \/ OddLine
    /\ p + Len(buf) <= Len(sent)
    /\ \A i \in 1..Len(buf) : sent[p + i] = buf[i]
    /\ pc # "ended" /\ conn # "reset" =>
           /\ Len(sent) = p + Len(buf) + Len(inbox)
           /\ \A i \in 1..Len(inbox) : sent[p + Len(buf) + i] = inbox[i]

PlaceInv == /\ LineInv
            /\ \E p \in 0..Len(sent) : PlacedAt(p)
            /\ OutsideExplained

\* The bytes of s behind m, up to k, hold no text before their first zero.
BlankIn(s, m, k) ==
    \A i \in m + 1..k : s[i] \in {LF, CR} \/ \E j \in m + 1..i : s[j] = NUL

LEMMA BlankPiece ==
  ASSUME NEW s \in Seq(Bytes), NEW m \in Nat, NEW k \in 1..Len(s), m < k
  PROVE  Blank(SubSeq(s, m + 1, k)) <=> BlankIn(s, m, k)
<1> DEFINE w == SubSeq(s, m + 1, k)
<1>1. Len(s) \in Nat /\ k \in Nat /\ \A i \in 1..Len(s) : s[i] \in Bytes
  BY LenProperties, ElementOfSeq
<1>2. /\ Len(w) = (IF m + 1 <= k THEN k - (m + 1) + 1 ELSE 0)
      /\ \A i \in 1..k - (m + 1) + 1 : w[i] = s[m + 1 + i - 1]
  <2>1. \A i \in m + 1..k : s[i] \in Bytes
    BY <1>1
  <2> QED
    BY <1>1, <2>1, SubSeqProperties
<1> HIDE DEF w
<1>3. Len(w) = k - m
  BY <1>1, <1>2
<1>4. ASSUME NEW i \in 1..k - m PROVE w[i] = s[m + i]
  <2>1. i \in 1..k - (m + 1) + 1 /\ m + 1 + i - 1 = m + i
    BY <1>1
  <2> QED
    BY <1>2, <2>1
<1>5. ASSUME Blank(w), NEW i \in m + 1..k
      PROVE  s[i] \in {LF, CR} \/ \E j \in m + 1..i : s[j] = NUL
  <2>1. i - m \in 1..k - m /\ m + (i - m) = i
    BY <1>1
  <2>2. w[i - m] = s[i]
    BY <1>4, <2>1
  <2>3. CASE \E j \in 1..i - m : w[j] = NUL
    <3>1. PICK j \in 1..i - m : w[j] = NUL
      BY <2>3
    <3>2. j \in 1..k - m /\ m + j \in m + 1..i
      BY <1>1, <2>1
    <3> QED
      BY <1>4, <3>1, <3>2
  <2> QED
    BY <1>3, <1>5, <2>1, <2>2, <2>3 DEF Blank
<1>6. ASSUME BlankIn(s, m, k) PROVE Blank(w)
  <2> SUFFICES ASSUME NEW i \in 1..k - m
               PROVE  w[i] \in {LF, CR} \/ \E j \in 1..i : w[j] = NUL
    BY <1>3 DEF Blank
  <2>1. m + i \in m + 1..k
    BY <1>1
  <2>2. CASE \E j \in m + 1..m + i : s[j] = NUL
    <3>1. PICK j \in m + 1..m + i : s[j] = NUL
      BY <2>2
    <3>2. j - m \in 1..i /\ j - m \in 1..k - m /\ m + (j - m) = j
      BY <1>1
    <3>3. w[j - m] = s[j]
      BY <1>4, <3>2
    <3> QED
      BY <3>1, <3>2, <3>3
  <2> QED
    BY <1>4, <1>6, <2>1, <2>2 DEF BlankIn
<1> QED
  BY <1>5, <1>6 DEF w, BlankIn

\* What was an odd line stays one when more is sent.
LEMMA OddStays ==
  ASSUME LineInv, OddLine, NEW x \in Bytes, sent' = Append(sent, x)
  PROVE  OddLine'
<1>1. /\ sent \in Seq(Bytes) /\ Len(sent) \in Nat
      /\ sent' \in Seq(Bytes) /\ Len(sent') = Len(sent) + 1
      /\ \A i \in 1..Len(sent) : sent'[i] = sent[i]
  BY LenProperties, AppendProperties DEF LineInv, TypeOK
<1> DEFINE Odd(m, k) ==
        /\ m = 0 \/ sent[m] = LF
        /\ \A j \in m + 1..k - 1 : sent[j] # LF
        /\ \/ sent[k] = LF /\ Blank(SubSeq(sent, m + 1, k))
           \/ k - m >= MaxCommand - 1
<1>0. PICK k \in 1..Len(sent) : \E m \in 0..k - 1 : Odd(m, k)
  BY DEF OddLine
<1>2. PICK m \in 0..k - 1 : Odd(m, k)
  BY <1>0
<1>3. /\ k \in 1..Len(sent') /\ m \in Nat /\ m < k
      /\ m = 0 \/ m \in 1..Len(sent)
      /\ \A j \in m + 1..k : j \in 1..Len(sent)
      /\ \A j \in m + 1..k - 1 : j \in 1..Len(sent)
  BY <1>1, <1>2
<1>4. m = 0 \/ sent'[m] = LF
  BY <1>1, <1>2, <1>3
<1>5. \A j \in m + 1..k - 1 : sent'[j] # LF
  BY <1>1, <1>2, <1>3
<1>6. \/ sent'[k] = LF /\ Blank(SubSeq(sent', m + 1, k))
      \/ k - m >= MaxCommand - 1
  <2>1. CASE sent[k] = LF /\ Blank(SubSeq(sent, m + 1, k))
    <3>1. BlankIn(sent, m, k)
      BY <1>1, <1>3, <2>1, BlankPiece
    <3>2. BlankIn(sent', m, k)
      <4>1. \A j \in m + 1..k : sent'[j] = sent[j]
        BY <1>1, <1>3
      <4>2. \A i \in m + 1..k : \A j \in m + 1..i : j \in m + 1..k
        BY <1>1, <1>3
      <4> QED
        BY <3>1, <4>1, <4>2 DEF BlankIn
    <3>3. Blank(SubSeq(sent', m + 1, k))
      BY <1>1, <1>3, <3>2, BlankPiece
    <3> QED
      BY <1>1, <2>1, <3>3
  <2> QED
    BY <1>2, <2>1
<1> QED
  BY <1>2, <1>3, <1>4, <1>5, <1>6 DEF OddLine

\* A line that is obeyed is odd, if it is blank or fills the buffer.
LEMMA OddObeyed ==
  ASSUME LineInv, pc = "command", NEW p \in 0..Len(sent), PlacedAt(p),
         Blank(buf) \/ buf[Len(buf)] # LF
  PROVE  OddLine
<1> DEFINE k == p + Len(buf)
<1>1. /\ sent \in Seq(Bytes) /\ buf \in Seq(Bytes)
      /\ Len(sent) \in Nat /\ Len(buf) \in Nat /\ p \in Nat
      /\ Len(buf) >= 1 /\ k <= Len(sent) /\ MaxCommand \in Nat
  BY LenProperties, CommandAssumption
     DEF LineInv, TypeOK, BufInv, PlacedAt
<1>2. /\ \A i \in 1..Len(buf) : sent[p + i] = buf[i]
      /\ NoLF(buf, Len(buf) - 1) /\ Complete(buf)
  BY DEF PlacedAt, LineInv, BufInv
<1>3. ASSUME NEW j \in p + 1..k
      PROVE  j - p \in 1..Len(buf) /\ sent[j] = buf[j - p]
  <2>1. j - p \in 1..Len(buf) /\ p + (j - p) = j
    BY <1>1
  <2> QED
    BY <1>2, <2>1
<1>4. CASE p = 0 \/ sent[p] = LF
  <2>1. k \in 1..Len(sent) /\ p \in 0..k - 1
    BY <1>1
  <2>2. ASSUME NEW j \in p + 1..k - 1 PROVE sent[j] # LF
    <3>1. j \in p + 1..k /\ j - p \in 1..Len(buf) - 1
      BY <1>1
    <3> QED
      BY <1>2, <1>3, <3>1 DEF NoLF
  <2>3. \/ sent[k] = LF /\ Blank(SubSeq(sent, p + 1, k))
        \/ k - p >= MaxCommand - 1
    <3>1. CASE buf[Len(buf)] # LF
      <4>1. Len(buf) = MaxCommand - 1 /\ k - p = Len(buf)
        BY <1>1, <1>2, <3>1 DEF Complete
      <4> QED
        BY <1>1, <4>1
    <3>2. CASE buf[Len(buf)] = LF
      <4>1. BlankIn(sent, p, k)
        <5> SUFFICES ASSUME NEW i \in p + 1..k
                     PROVE  \/ sent[i] \in {LF, CR}
                            \/ \E j \in p + 1..i : sent[j] = NUL
          BY DEF BlankIn
        <5>1. i - p \in 1..Len(buf) /\ sent[i] = buf[i - p]
          BY <1>3
        <5>2. CASE \E j \in 1..i - p : buf[j] = NUL
          <6>1. PICK j \in 1..i - p : buf[j] = NUL
            BY <5>2
          <6>2. p + j \in p + 1..i /\ p + j \in p + 1..k /\ p + j - p = j
            BY <1>1
          <6> QED
            BY <1>3, <6>1, <6>2
        <5> QED
          BY <3>2, <5>1, <5>2 DEF Blank
      <4>2. p < k
        BY <1>1
      <4>3. Blank(SubSeq(sent, p + 1, k))
        BY <1>1, <2>1, <4>1, <4>2, BlankPiece
      <4>4. sent[k] = LF
        BY <1>1, <1>2, <3>2
      <4> QED
        BY <4>3, <4>4
    <3> QED
      BY <3>1, <3>2
  <2> HIDE DEF k
  <2> QED
    BY <1>4, <2>1, <2>2, <2>3 DEF OddLine
<1> QED
  BY <1>4 DEF PlacedAt

LEMMA PlaceInit == Init => PlaceInv
<1> SUFFICES ASSUME Init PROVE PlaceInv
  OBVIOUS
<1>1. Len(sent) = 0 /\ Len(buf) = 0 /\ Len(inbox) = 0
  BY EmptySeq DEF Init
<1>2. 0 \in 0..Len(sent) /\ PlacedAt(0)
  BY <1>1 DEF PlacedAt
<1> QED
  BY <1>2, LineInit DEF PlaceInv, OutsideExplained, Init

LEMMA PlaceArrive ==
  ASSUME PlaceInv, Arrive
  PROVE  (\E p \in 0..Len(sent) : PlacedAt(p))' /\ OutsideExplained'
<1>1. PICK x \in Bytes : sent' = Append(sent, x) /\ inbox' = Append(inbox, x)
  BY DEF Arrive
<1>2. UNCHANGED <<conn, pc, want, buf, lastError, got, outside, spin>>
  BY DEF Arrive
<1>3. PICK p \in 0..Len(sent) : PlacedAt(p)
  BY DEF PlaceInv
<1>4. /\ sent \in Seq(Bytes) /\ Len(sent) \in Nat
      /\ inbox \in Seq(Bytes) /\ Len(inbox) \in Nat
      /\ buf \in Seq(Bytes) /\ Len(buf) \in Nat /\ p \in Nat /\ p <= Len(sent)
  BY LenProperties DEF PlaceInv, LineInv, TypeOK
<1>5. /\ Len(sent') = Len(sent) + 1
      /\ \A i \in 1..Len(sent) : sent'[i] = sent[i]
      /\ sent'[Len(sent) + 1] = x
      /\ Len(inbox') = Len(inbox) + 1
      /\ \A i \in 1..Len(inbox) : inbox'[i] = inbox[i]
      /\ inbox'[Len(inbox) + 1] = x
  BY <1>1, <1>4, AppendProperties
<1>6. OddLine => OddLine'
  BY <1>1, OddStays DEF PlaceInv
<1>7. p = 0 \/ sent'[p] = LF \/ OddLine'
  <2>1. CASE p # 0 /\ sent[p] = LF
    <3>1. p \in 1..Len(sent)
      BY <1>4, <2>1
    <3> QED
      BY <1>5, <2>1, <3>1
  <2> QED
    BY <1>3, <1>6, <2>1 DEF PlacedAt
<1>8. /\ p + Len(buf') <= Len(sent')
      /\ \A i \in 1..Len(buf') : sent'[p + i] = buf'[i]
  <2>1. p + Len(buf) <= Len(sent) /\ \A i \in 1..Len(buf) : sent[p + i] = buf[i]
    BY <1>3 DEF PlacedAt
  <2>2. \A i \in 1..Len(buf) : p + i \in 1..Len(sent)
    BY <1>4, <2>1
  <2>3. p + Len(buf) <= Len(sent')
    BY <1>4, <1>5, <2>1
  <2> QED
    BY <1>2, <1>5, <2>1, <2>2, <2>3
<1>9. ASSUME pc' # "ended", conn' # "reset"
      PROVE  /\ Len(sent') = p + Len(buf') + Len(inbox')
             /\ \A i \in 1..Len(inbox') : sent'[p + Len(buf') + i] = inbox'[i]
  <2>1. /\ Len(sent) = p + Len(buf) + Len(inbox)
        /\ \A i \in 1..Len(inbox) : sent[p + Len(buf) + i] = inbox[i]
    BY <1>2, <1>3, <1>9 DEF PlacedAt
  <2>2. Len(sent') = p + Len(buf) + Len(inbox')
    BY <1>4, <1>5, <2>1
  <2>3. ASSUME NEW i \in 1..Len(inbox) + 1
        PROVE  sent'[p + Len(buf) + i] = inbox'[i]
    <3>1. CASE i = Len(inbox) + 1
      <4>1. p + Len(buf) + i = Len(sent) + 1
        BY <1>4, <2>1, <3>1
      <4> QED
        BY <1>5, <3>1, <4>1
    <3>2. CASE i # Len(inbox) + 1
      <4>1. i \in 1..Len(inbox) /\ p + Len(buf) + i \in 1..Len(sent)
        BY <1>4, <2>1, <3>2
      <4> QED
        BY <1>5, <2>1, <4>1
    <3> QED
      BY <3>1, <3>2
  <2> QED
    BY <1>2, <1>5, <2>2, <2>3
<1>10. p \in 0..Len(sent')
  BY <1>4, <1>5
<1>11. OutsideExplained'
  BY <1>2, <1>6 DEF PlaceInv, OutsideExplained
<1> QED
  BY <1>7, <1>8, <1>9, <1>10, <1>11 DEF PlacedAt

LEMMA PlaceBreak ==
  ASSUME PlaceInv, Close \/ Reset \/ Abort \/ Peek \/ Retry \/ UNCHANGED vars
  PROVE  (\E p \in 0..Len(sent) : PlacedAt(p))' /\ OutsideExplained'
<1>1. /\ UNCHANGED <<sent, buf, outside>>
      /\ pc' = pc \/ (pc # "ended" /\ pc' # "ended")
      /\ conn' = "reset" \/ (conn # "reset" /\ inbox' = inbox)
  BY DEF Close, Reset, Abort, Peek, Retry, vars
<1>2. OddLine' = OddLine
  BY <1>1 DEF OddLine, Blank
<1>3. PICK p \in 0..Len(sent) : PlacedAt(p)
  BY DEF PlaceInv
<1>4. PlacedAt(p)'
  BY <1>1, <1>2, <1>3 DEF PlacedAt
<1>5. OutsideExplained'
  BY <1>1, <1>2 DEF PlaceInv, OutsideExplained
<1> QED
  BY <1>1, <1>4, <1>5

LEMMA PlaceRead ==
  ASSUME PlaceInv, Read
  PROVE  (\E p \in 0..Len(sent) : PlacedAt(p))' /\ OutsideExplained'
<1> DEFINE piece == SubSeq(inbox, 1, want)
           rest  == SubSeq(inbox, want + 1, Len(inbox))
<1>1. /\ buf' = buf \o piece /\ inbox' = rest
      /\ conn # "reset" /\ pc # "ended"
      /\ UNCHANGED <<sent, outside>>
  BY DEF Read
<1>2. PICK p \in 0..Len(sent) : PlacedAt(p)
  BY DEF PlaceInv
<1>3. /\ sent \in Seq(Bytes) /\ Len(sent) \in Nat
      /\ inbox \in Seq(Bytes) /\ Len(inbox) \in Nat
      /\ buf \in Seq(Bytes) /\ Len(buf) \in Nat /\ p \in Nat
      /\ want \in 0..Len(inbox)
  BY <1>1, LenProperties DEF PlaceInv, LineInv, TypeOK
<1>4. /\ piece \in Seq(Bytes) /\ Len(piece) = want /\ rest \in Seq(Bytes)
      /\ piece \o rest = inbox
  BY <1>3, Cut
<1>5. /\ Len(inbox) = want + Len(rest) /\ Len(rest) \in Nat
      /\ \A i \in 1..want : inbox[i] = piece[i]
      /\ \A i \in 1..Len(rest) : inbox[want + i] = rest[i]
  <2>1. piece \in Seq(Bytes) /\ rest \in Seq(Bytes)
    BY <1>4
  <2> HIDE DEF piece, rest
  <2>2. Len(rest) \in Nat
    BY <2>1, LenProperties
  <2>3. /\ Len(piece \o rest) = Len(piece) + Len(rest)
        /\ \A i \in 1..Len(piece) : (piece \o rest)[i] = piece[i]
        /\ \A i \in 1..Len(rest) : (piece \o rest)[Len(piece) + i] = rest[i]
    BY <2>1, Pieces
  <2> QED
    BY <1>4, <2>2, <2>3
<1>6. /\ Len(buf') = Len(buf) + want
      /\ \A i \in 1..Len(buf) + want :
             buf'[i] = IF i <= Len(buf) THEN buf[i] ELSE piece[i - Len(buf)]
  BY <1>1, <1>3, <1>4, ConcatProperties
<1> HIDE DEF piece, rest
<1>7. /\ Len(sent) = p + Len(buf) + Len(inbox)
      /\ \A i \in 1..Len(buf) : sent[p + i] = buf[i]
      /\ \A i \in 1..Len(inbox) : sent[p + Len(buf) + i] = inbox[i]
  BY <1>1, <1>2 DEF PlacedAt
<1>8. /\ p + Len(buf') <= Len(sent)
      /\ Len(sent) = p + Len(buf') + Len(rest)
  BY <1>3, <1>5, <1>6, <1>7
<1>9. ASSUME NEW i \in 1..Len(buf) + want PROVE sent[p + i] = buf'[i]
  <2>1. CASE i <= Len(buf)
    BY <1>3, <1>6, <1>7, <2>1
  <2>2. CASE i > Len(buf)
    <3>1. /\ i - Len(buf) \in 1..want
          /\ p + Len(buf) + (i - Len(buf)) = p + i
          /\ i - Len(buf) \in 1..Len(inbox)
      BY <1>3, <1>5, <2>2
    <3>2. sent[p + i] = inbox[i - Len(buf)]
      BY <1>7, <3>1
    <3>3. inbox[i - Len(buf)] = piece[i - Len(buf)]
      BY <1>5, <3>1
    <3>4. buf'[i] = piece[i - Len(buf)]
      BY <1>3, <1>6, <2>2
    <3> QED
      BY <3>2, <3>3, <3>4
  <2> QED
    BY <1>3, <2>1, <2>2
<1>10. ASSUME NEW i \in 1..Len(rest)
       PROVE  sent[p + Len(buf) + want + i] = rest[i]
  <2>1. /\ want + i \in 1..Len(inbox)
        /\ p + Len(buf) + (want + i) = p + Len(buf) + want + i
    BY <1>3, <1>5
  <2>2. inbox[want + i] = rest[i]
    BY <1>5
  <2>3. sent[p + Len(buf) + (want + i)] = inbox[want + i]
    BY <1>7, <2>1
  <2> QED
    BY <2>1, <2>2, <2>3
<1>11. OddLine' = OddLine
  BY <1>1 DEF OddLine, Blank
<1>12. PlacedAt(p)'
  <2>1. p = 0 \/ sent'[p] = LF \/ OddLine'
    BY <1>1, <1>2, <1>11 DEF PlacedAt
  <2>2. \A i \in 1..Len(buf') : sent'[p + i] = buf'[i]
    BY <1>1, <1>6, <1>9
  <2>3. p + Len(buf') = p + Len(buf) + want
    BY <1>3, <1>6
  <2>4. \A i \in 1..Len(inbox') : sent'[p + Len(buf') + i] = inbox'[i]
    BY <1>1, <1>10, <2>3
  <2> QED
    BY <1>1, <1>8, <2>1, <2>2, <2>4 DEF PlacedAt
<1>13. OutsideExplained'
  BY <1>1, <1>11 DEF PlaceInv, OutsideExplained
<1> QED
  BY <1>1, <1>12, <1>13

LEMMA PlaceEnds ==
  ASSUME PlaceInv, ReadEnds
  PROVE  (\E p \in 0..Len(sent) : PlacedAt(p))' /\ OutsideExplained'
<1>1. pc' = "ended" /\ buf' = << >> /\ Len(buf') = 0
      /\ UNCHANGED <<sent, outside>>
  BY EmptySeq DEF ReadEnds
<1>2. OddLine' = OddLine
  BY <1>1 DEF OddLine, Blank
<1>3. PICK p \in 0..Len(sent) : PlacedAt(p)
  BY DEF PlaceInv
<1>4. Len(sent) \in Nat
  BY LenProperties DEF PlaceInv, LineInv, TypeOK
<1>5. PlacedAt(p)'
  <2>1. p + Len(buf') <= Len(sent')
    BY <1>1, <1>4
  <2>2. \A i \in 1..Len(buf') : FALSE
    BY <1>1
  <2> QED
    BY <1>1, <1>2, <1>3, <2>1, <2>2 DEF PlacedAt
<1>6. OutsideExplained'
  BY <1>1, <1>2 DEF PlaceInv, OutsideExplained
<1> QED
  BY <1>1, <1>5, <1>6

LEMMA PlaceCommand ==
  ASSUME PlaceInv, Command
  PROVE  (\E p \in 0..Len(sent) : PlacedAt(p))' /\ OutsideExplained'
<1>1. /\ pc = "command" /\ buf' = << >> /\ Len(buf') = 0
      /\ outside' = (outside \/ Blank(buf)) /\ UNCHANGED <<sent, inbox, conn>>
  BY EmptySeq DEF Command
<1>2. OddLine' = OddLine
  BY <1>1 DEF OddLine, Blank
<1>3. PICK p \in 0..Len(sent) : PlacedAt(p)
  BY DEF PlaceInv
<1>4. /\ Len(sent) \in Nat /\ Len(buf) \in Nat /\ Len(inbox) \in Nat
      /\ Len(buf) >= 1 /\ p \in Nat
  BY <1>1, LenProperties DEF PlaceInv, LineInv, TypeOK, BufInv
<1>5. Blank(buf) \/ buf[Len(buf)] # LF => OddLine
  BY <1>1, <1>3, OddObeyed DEF PlaceInv
<1>6. PICK q \in 0..Len(sent) : q = p + Len(buf) /\ sent[q] = buf[Len(buf)]
  BY <1>3, <1>4 DEF PlacedAt
<1>7. PlacedAt(q)'
  <2>1. q = 0 \/ sent'[q] = LF \/ OddLine'
    BY <1>1, <1>2, <1>5, <1>6
  <2>2. q + Len(buf') <= Len(sent') /\ q + Len(buf') = q
    BY <1>1, <1>4, <1>6
  <2>3. \A i \in 1..Len(buf') : sent'[q + i] = buf'[i]
    BY <1>1
  <2>4. ASSUME conn' # "reset"
        PROVE  /\ Len(sent') = q + Len(buf') + Len(inbox')
               /\ \A i \in 1..Len(inbox') : sent'[q + Len(buf') + i] = inbox'[i]
    <3>1. /\ Len(sent) = p + Len(buf) + Len(inbox)
          /\ \A i \in 1..Len(inbox) : sent[p + Len(buf) + i] = inbox[i]
      BY <1>1, <1>3, <2>4 DEF PlacedAt
    <3>2. p + Len(buf) = q
      BY <1>6
    <3> QED
      BY <1>1, <2>2, <3>1, <3>2
  <2> QED
    BY <2>1, <2>2, <2>3, <2>4 DEF PlacedAt
<1>8. OutsideExplained'
  BY <1>1, <1>2, <1>5 DEF PlaceInv, OutsideExplained
<1> QED
  BY <1>1, <1>6, <1>7, <1>8

LEMMA PlaceStep == PlaceInv /\ [Next]_vars => PlaceInv'
<1> SUFFICES ASSUME PlaceInv, [Next]_vars PROVE PlaceInv'
  OBVIOUS
<1>1. LineInv'
  BY LineStep DEF PlaceInv
<1>2. (\E p \in 0..Len(sent) : PlacedAt(p))' /\ OutsideExplained'
  BY PlaceArrive, PlaceBreak, PlaceRead, PlaceEnds, PlaceCommand
     DEF Next, Client, Server
<1> QED
  BY <1>1, <1>2 DEF PlaceInv

\* str_trim_crlf leaves the command buffer (strutil.c:6) only after the client
\* has sent a line without text before its first zero, or one that fills the
\* buffer, however the network cut it: for every MAX_COMMAND.
THEOREM OutsideCorrect == Spec => []OutsideExplained
<1>1. PlaceInv => OutsideExplained
  BY DEF PlaceInv
<1> QED
  BY <1>1, PlaceInit, PlaceStep, PTL DEF Spec

-----------------------------------------------------------------------------
(***************************************************************************)
(* Why a line is obeyed and the end noticed (LineIsObeyed, EndIsNoticed,   *)
(* but for their fairness): which turns of the reader may be in vain.      *)
(***************************************************************************)

\* Bounds the steps that the session can take before more bytes come: each
\* byte read may complete a command, to be obeyed before the next peek.
TurnsLeft == 3 * Len(inbox) + CASE pc = "command" -> 3
                                [] pc = "peek"    -> 2
                                [] pc = "read"    -> 1
                                [] OTHER          -> 0

\* This connection was aborted, or one that the thread used before.
AbortSeen == conn = "aborted" \/ lastError = "aborted"

\* A step of the session comes nearer to the end of what has arrived, unless
\* it tries again after an abort, which changes nothing; the client adds to
\* what is left only by sending, the session never.  Neither a peek that finds
\* half a line nor a readn that gets nothing goes round for ever.
ReadingAdvances ==
    /\ [][ Server => /\ TurnsLeft \in Nat
                     /\ \/ TurnsLeft' < TurnsLeft
                        \/ AbortSeen /\ TurnsLeft' = TurnsLeft ]_vars
    /\ [][TurnsLeft' > TurnsLeft => Arrive]_vars

\* Reading takes something.
LEMMA ReadTakes ==
  ASSUME LineInv, Read
  PROVE  Len(inbox') \in Nat /\ Len(inbox') < Len(inbox)
<1>1. /\ inbox \in Seq(Bytes) /\ Len(inbox) \in Nat
      /\ want \in 1..Len(inbox)
  BY LenProperties DEF LineInv, TypeOK, WantInv, Read
<1> DEFINE rest == SubSeq(inbox, want + 1, Len(inbox))
<1>2. rest \in Seq(Bytes) /\ SubSeq(inbox, 1, want) \in Seq(Bytes)
      /\ Len(SubSeq(inbox, 1, want)) = want
      /\ SubSeq(inbox, 1, want) \o rest = inbox
  BY <1>1, Cut
<1>3. inbox' = rest
  BY DEF Read
<1> HIDE DEF rest
<1>4. Len(rest) \in Nat /\ Len(inbox) = want + Len(rest)
  BY <1>2, LenProperties, Pieces
<1> QED
  BY <1>1, <1>3, <1>4

LEMMA TurnTaken ==
  ASSUME LineInv, Server, ~Retry
  PROVE  TurnsLeft \in Nat /\ TurnsLeft' < TurnsLeft
<1>1. Len(inbox) \in Nat
  BY LenProperties DEF LineInv, TypeOK
<1>2. CASE Read
  <2>1. /\ pc = "read" /\ pc' \in {"command", "peek"}
        /\ Len(inbox') \in Nat /\ Len(inbox') < Len(inbox)
    BY <1>2, ReadTakes DEF Read
  <2> QED
    BY <1>1, <2>1 DEF TurnsLeft
<1>3. CASE Peek \/ ReadEnds \/ Command
  <2>1. /\ inbox' = inbox
        /\ \/ pc = "peek" /\ pc' = "read"
           \/ pc \in {"peek", "read"} /\ pc' = "ended"
           \/ pc = "command" /\ pc' \in {"peek", "stuck", "ended"}
    BY <1>3 DEF Peek, ReadEnds, Command
  <2> QED
    BY <1>1, <2>1 DEF TurnsLeft
<1> QED
  BY <1>2, <1>3 DEF Server

\* Trying again takes nothing, and only an abort makes the session try again.
LEMMA TurnInVain ==
  ASSUME LineInv, Retry
  PROVE  TurnsLeft \in Nat /\ AbortSeen /\ TurnsLeft' = TurnsLeft
<1>1. Len(inbox) \in Nat
  BY LenProperties DEF LineInv, TypeOK
<1>2. AbortSeen /\ UNCHANGED <<inbox, pc>>
  BY DEF Retry, AbortSeen
<1> QED
  BY <1>1, <1>2 DEF TurnsLeft

LEMMA OnlyClientAdds ==
  ASSUME LineInv, [Next]_vars, ~Arrive
  PROVE  ~(TurnsLeft' > TurnsLeft)
<1>1. Len(inbox) \in Nat
  BY LenProperties DEF LineInv, TypeOK
<1>2. CASE Server
  <2>1. Len(inbox') \in Nat
    BY <1>2, LineStep, LenProperties DEF LineInv, TypeOK
  <2>2. TurnsLeft \in Nat /\ (TurnsLeft' < TurnsLeft \/ TurnsLeft' = TurnsLeft)
    BY <1>2, TurnTaken, TurnInVain
  <2>3. TurnsLeft' \in Nat
    BY <2>1 DEF TurnsLeft
  <2> QED
    BY <2>2, <2>3
<1>3. CASE Close \/ Reset \/ Abort \/ UNCHANGED vars
  <2>1. pc' = pc /\ (inbox' = inbox \/ Len(inbox') = 0)
    BY <1>3, EmptySeq DEF Close, Reset, Abort, vars
  <2> QED
    BY <1>1, <2>1 DEF TurnsLeft
<1> QED
  BY <1>2, <1>3 DEF Next, Client

\* Each turn of handle_proto, readline and recv_peek lowers a number that
\* bounds the turns to come, but for those that recv_peek and readn take again
\* after an abort (sysutil.c:392,452), the only ones in vain; and only the
\* client raises it, by sending: for every MAX_COMMAND and every fault.
THEOREM ReadingInVainOnlyOnAbort == Spec => ReadingAdvances
<1>1. Init => LineInv
  BY LineInit
<1>2. LineInv /\ [Next]_vars => LineInv'
  BY LineStep
<1>3. LineInv => [ Server => /\ TurnsLeft \in Nat
                             /\ \/ TurnsLeft' < TurnsLeft
                                \/ AbortSeen /\ TurnsLeft' = TurnsLeft ]_vars
  BY TurnTaken, TurnInVain
<1>4. LineInv /\ [Next]_vars => [TurnsLeft' > TurnsLeft => Arrive]_vars
  BY OnlyClientAdds
<1> QED
  BY <1>1, <1>2, <1>3, <1>4, PTL DEF Spec, ReadingAdvances
=============================================================================
