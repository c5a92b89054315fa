--------------------------- MODULE Transfer_proofs ---------------------------
(***************************************************************************)
(* What a 226 reply to a download says, for every size of file, buffer,    *)
(* block and integer, and every fault of Transfer.                         *)
(***************************************************************************)
EXTENDS Transfer, SequenceTheorems, TLAPS

\* While a download runs: what is left, less the result of this block so
\* far, is what was announced and not sent, and one more for each failure;
\* and what was sent is a run of bytes unless some were passed over.
Downloading ==
    /\ cmd = "RETR" /\ replies = <<150>>
    /\ filesize \in 1 .. Half - 1
    /\ nleft > 0
    /\ nleft - n = filesize - Len(sent) + failed
    /\ Len(sent) <= pos - offset
    /\ Len(sent) = pos - offset => sent = Run(offset, Len(sent))
    /\ "resize" \notin mishaps => offset + filesize = size /\ pos <= size

\* The inductive invariant.
DownloadInv ==
    /\ TypeOK
    /\ pc # "idle" => fds > 0
    /\ pc = "send" => Downloading
    /\ pc = "recv" => replies = <<150>> /\ cmd \in {"STOR", "APPE"}
    /\ CompleteIsDelivered

-----------------------------------------------------------------------------
\* What one round reads and sends: never more than the buffer, never past
\* the end of the file, and every surprise is one that Faults allows.
LEMMA RoundBounds ==
    ASSUME TypeOK, NEW r \in Reads, NEW d \in Sends(r)
    PROVE  /\ r \in Int /\ d \in Int /\ r >= -1 /\ d >= -1 /\ d <= r
           /\ r > 0 => pos + r <= size
           /\ d = -1 \/ (d \in Nat /\ r \in Nat)
           /\ mishaps \cup Mishap(r, d) \subseteq Faults
           /\ Mishap(r, d) \subseteq {"read", "reset", "partial"}
<1>1. pos \in Nat /\ size \in Nat /\ failed \in Nat /\ mishaps \subseteq Faults
  BY HalfAssumption DEF TypeOK
<1>2. \/ r = -1 /\ "read" \in Faults
      \/ r \in Nat /\ (r > 0 => pos + r <= size)
  BY <1>1, ChunkAssumption DEF Reads, Lesser
<1>3. CASE r = -1
  BY <1>1, <1>2, <1>3 DEF Sends, Mishap
<1>4. CASE r # -1
  <2>1. r \in Nat
    BY <1>2, <1>4
  <2>2. \/ d = r
        \/ d = -1 /\ "reset" \in Faults
        \/ d \in 1 .. r - 1 /\ "partial" \in Faults
    BY <1>1, <1>4 DEF Sends
  <2> QED
    BY <1>1, <1>2, <1>4, <2>1, <2>2 DEF Mishap
<1> QED
  BY <1>3, <1>4

\* A run followed by the bytes after it is a run.
LEMMA RunExtended ==
    ASSUME NEW a \in Nat, NEW l \in Nat, NEW d \in Nat
    PROVE  Run(a, l) \o Run(a + l, d) = Run(a, l + d)
<1>1. /\ Run(a, l) \in Seq(Nat) /\ Len(Run(a, l)) = l
      /\ Run(a + l, d) \in Seq(Nat) /\ Len(Run(a + l, d)) = d
      /\ Run(a, l + d) \in Seq(Nat) /\ Len(Run(a, l + d)) = l + d
  BY DEF Run
<1> DEFINE u == Run(a, l)
           v == Run(a + l, d)
<1> HIDE DEF u, v
<1>2. u \in Seq(Nat) /\ v \in Seq(Nat) /\ Len(u) = l /\ Len(v) = d
  BY <1>1 DEF u, v
<1>3. /\ u \o v \in Seq(Nat)
      /\ Len(u \o v) = l + d
      /\ \A k \in 1 .. l + d : (u \o v)[k] = IF k <= l THEN u[k] ELSE v[k - l]
  BY <1>2, ConcatProperties
<1>4. \A k \in 1 .. l + d : (u \o v)[k] = Run(a, l + d)[k]
  <2> SUFFICES ASSUME NEW k \in 1 .. l + d
               PROVE  (u \o v)[k] = a + k - 1
    BY DEF Run
  <2>1. CASE k <= l
    <3>1. u[k] = a + k - 1
      BY <2>1 DEF u, Run
    <3> QED
      BY <1>3, <2>1, <3>1
  <2>2. CASE k > l
    <3>1. k - l \in 1 .. d /\ v[k - l] = a + l + (k - l) - 1
      BY <2>2 DEF v, Run
    <3>2. (u \o v)[k] = v[k - l]
      BY <1>3, <2>2
    <3> QED
      BY <3>1, <3>2
  <2>3. k <= l \/ k > l
    OBVIOUS
  <2> QED
    BY <2>1, <2>2, <2>3, Zenon
<1>5. u \o v = Run(a, l + d)
  BY <1>1, <1>3, <1>4, SeqEqual
<1> QED
  BY <1>5 DEF u, v

\* What a round adds to the connection: as many bytes as send returned.
LEMMA RoundSent ==
    ASSUME TypeOK, NEW d \in Int, d >= -1
    PROVE  /\ sent \o Run(pos, d) \in Seq(Nat)
           /\ Len(sent \o Run(pos, d)) = Len(sent) + (IF d = -1 THEN 0 ELSE d)
<1>1. pos \in Nat /\ sent \in Seq(Nat)
  BY DEF TypeOK
<1>2. Run(pos, d) \in Seq(Nat) /\ Len(Run(pos, d)) = IF d = -1 THEN 0 ELSE d
  <2>1. CASE d = -1
    <3>1. Run(pos, d) = << >>
      BY <2>1 DEF Run
    <3> QED
      BY <3>1, <2>1
  <2>2. CASE d \in Nat
    BY <1>1, <2>2 DEF Run
  <2> QED
    BY <2>1, <2>2
<1> QED
  BY <1>1, <1>2, ConcatProperties, EmptySeq
-----------------------------------------------------------------------------
\* One round keeps the invariant: each way it can end on its own.
LEMMA RoundKeepsInv ==
    ASSUME DownloadInv, SendChunk
    PROVE  DownloadInv'
<1>0. PICK r \in Reads : \E d \in Sends(r) : Round(r, d)
  BY DEF SendChunk
<1>1. PICK d \in Sends(r) : Round(r, d)
  BY <1>0
<1> USE HalfAssumption, ChunkAssumption
<1>2. /\ TypeOK /\ pc = "send" /\ Downloading /\ fds > 0
      /\ UNCHANGED <<exists, size, restart_pos, offset, filesize, received,
                     stored, cmd>>
  BY DEF DownloadInv, SendChunk, fileVars
<1>3. /\ r \in Int /\ d \in Int /\ r >= -1 /\ d >= -1 /\ d <= r
      /\ r > 0 => pos + r <= size
      /\ d = -1 \/ (d \in Nat /\ r \in Nat)
      /\ mishaps' \subseteq Faults
      /\ "resize" \in mishaps <=> "resize" \in mishaps'
  BY <1>1, <1>2, RoundBounds DEF Round
<1>4. /\ sent' \in Seq(Nat)
      /\ Len(sent') = Len(sent) + (IF d = -1 THEN 0 ELSE d)
      /\ failed' = (IF d = -1 THEN failed + 1 ELSE failed)
  BY <1>1, <1>2, <1>3, RoundSent DEF Round
<1> DEFINE at == IF r = -1 THEN pos ELSE pos + r
           l == Len(sent)
           m == Len(sent')
<1>5. /\ pos \in Nat /\ offset \in Nat /\ failed \in Nat /\ l \in Nat
      /\ n \in Int /\ nleft \in Int /\ filesize \in Nat /\ size \in Nat
      /\ fds \in 0 .. MaxFds /\ i \in Nat /\ MaxFds \in Nat /\ sent \in Seq(Nat)
  BY <1>2, LenProperties, TransferBoundsAssumption DEF TypeOK
<1>6. /\ nleft > 0 /\ nleft - n = filesize - l + failed /\ l <= pos - offset
      /\ "resize" \notin mishaps => offset + filesize = size /\ pos <= size
      /\ l = pos - offset => sent = Run(offset, l)
      /\ m = l + (IF d = -1 THEN 0 ELSE d)
      /\ m \in Nat
  BY <1>2, <1>4, LenProperties DEF Downloading
<1> HIDE DEF l, m
<1>7. /\ at \in Nat
      /\ nleft - (n + d) = filesize - m + failed'
      /\ m <= at - offset
      /\ m = at - offset => l = pos - offset
      /\ "resize" \notin mishaps' => offset + filesize = size /\ at <= size
  <2>1. CASE d = -1
    BY <1>3, <1>4, <1>5, <1>6, <2>1
  <2>2. CASE d \in Nat /\ r \in Nat
    BY <1>3, <1>4, <1>5, <1>6, <2>2
  <2> QED
    BY <1>3, <2>1, <2>2
<1> HIDE DEF at
<1>13. m = at - offset => sent' = Run(offset, m)
  <2> SUFFICES ASSUME l = pos - offset
               PROVE  sent' = Run(offset, m)
    BY <1>7
  <2>1. sent = Run(offset, l) /\ pos = offset + l
    BY <1>5, <1>6
  <2>2. CASE d = -1
    <3>1. Run(pos, d) = << >>
      BY <2>2, <1>5 DEF Run
    <3>2. sent' = sent
      BY <1>1, <1>5, <3>1, ConcatEmptySeq DEF Round
    <3>3. m = l
      BY <1>5, <1>6, <2>2
    <3> QED
      BY <2>1, <3>2, <3>3, Zenon
  <2>3. CASE d \in Nat
    <3>0. offset \in Nat /\ l \in Nat /\ d \in Nat
      BY <1>5, <2>3
    <3>1. Run(offset, l) \o Run(offset + l, d) = Run(offset, l + d)
      BY <3>0, RunExtended, Zenon
    <3>2. sent' = Run(offset, l) \o Run(offset + l, d)
      BY <1>1, <2>1, Zenon DEF Round
    <3>3. m = l + d
      BY <1>5, <1>6, <2>3
    <3> QED
      BY <3>1, <3>2, <3>3, Zenon
  <2> QED
    BY <1>3, <2>2, <2>3
<1>8. Chunk \in Nat /\ i' \in Nat /\ nleft' \in Int /\ block_size' \in Int /\ n' \in Int
      /\ pos' \in Nat
  <2>1. i + Chunk \in Nat /\ n + d \in Int /\ nleft - (n + d) \in Int /\ Block \in Int
    BY <1>3, <1>5
  <2>2. block_size \in Int
    BY <1>2 DEF TypeOK
  <2>3. pos' \in Nat
    BY <1>1, <1>7 DEF Round, at
  <2> QED
    BY <1>1, <1>5, <2>1, <2>2, <2>3
    DEF Round, EndOfBlock, Finish, NextBlock, Lesser
<1>9. \/ pc' = "send" /\ replies' = replies /\ fds' = fds /\ nleft' > 0
         /\ nleft' - n' = nleft - (n + d)
      \/ pc' = "idle" /\ replies' = <<150, 451>> /\ fds' = fds - 1
      \/ pc' = "idle" /\ replies' = <<150, 226>> /\ fds' = fds - 1
         /\ nleft - (n + d) <= 0
  <2>1. CASE ~LastRound(r)
    BY <1>1, <1>2, <1>3, <1>5, <2>1 DEF Round, Downloading
  <2>2. CASE LastRound(r) /\ n + d = -1
    BY <1>1, <1>2, <2>2 DEF Round, EndOfBlock, Finish, Downloading
  <2>3. CASE LastRound(r) /\ n + d # -1 /\ nleft - (n + d) > 0
    BY <1>1, <1>2, <1>3, <1>5, <2>3 DEF Round, EndOfBlock, NextBlock
  <2>4. CASE LastRound(r) /\ n + d # -1 /\ ~(nleft - (n + d) > 0)
    BY <1>1, <1>2, <1>3, <1>5, <2>4 DEF Round, EndOfBlock, Finish, Downloading
  <2> QED
    BY <2>1, <2>2, <2>3, <2>4
<1>10. TypeOK'
  <2>1. /\ pc' \in {"idle", "send", "recv"} /\ fds' \in 0 .. MaxFds
        /\ replies' \in TransferReplies
    BY <1>2, <1>5, <1>9 DEF TransferReplies, Downloading
  <2>2. {nleft', block_size', n'} \subseteq Int /\ {i', pos', failed'} \subseteq Nat
    BY <1>4, <1>5, <1>8
  <2> QED
    BY <1>2, <1>3, <1>4, <2>1, <2>2 DEF TypeOK
<1>11. CASE pc' = "send"
  <2>1. /\ pos' = at /\ replies' = <<150>> /\ cmd' = "RETR"
        /\ filesize' \in 1 .. Half - 1 /\ nleft' > 0
        /\ nleft' - n' = filesize - m + failed'
    BY <1>1, <1>2, <1>7, <1>9, <1>11 DEF Round, Downloading, at
  <2>2. Downloading'
    BY <1>2, <1>7, <1>13, <2>1 DEF Downloading, m
  <2>3. CompleteIsDelivered'
    BY <2>1 DEF CompleteIsDelivered
  <2> QED
    BY <1>2, <1>9, <1>10, <1>11, <2>2, <2>3 DEF DownloadInv
<1>12. CASE pc' = "idle"
  <2>1. CompleteIsDelivered'
    <3> SUFFICES ASSUME replies' = <<150, 226>>
                 PROVE  /\ m >= filesize
                        /\ "resize" \notin mishaps' => sent' = Run(offset, filesize)
      BY <1>2 DEF CompleteIsDelivered, m
    <3>1. nleft - (n + d) <= 0
      BY <1>9, <1>12
    <3>2. m >= filesize
      BY <1>4, <1>5, <1>6, <1>7, <3>1
    <3>3. ASSUME "resize" \notin mishaps'
          PROVE  sent' = Run(offset, filesize)
      <4>1. m = filesize /\ m = at - offset
        BY <1>5, <1>6, <1>7, <3>2, <3>3
      <4> QED
        BY <1>13, <4>1
    <3> QED
      BY <3>2, <3>3
  <2> QED
    BY <1>10, <1>12, <2>1 DEF DownloadInv
<1> QED
  BY <1>9, <1>11, <1>12

\* A download begins with nothing sent and the rest of the file to send; one
\* that starts behind the end has a negative rest, and ends at once.
LEMMA StartDownloadKeepsInv ==
    ASSUME DownloadInv, StartDownload
    PROVE  DownloadInv'
<1> USE HalfAssumption
<1>1. /\ TypeOK /\ restart_pos \in 0 .. Half - 1 /\ size \in 0 .. MaxSize
      /\ fds \in 0 .. MaxFds - 1 /\ MaxFds \in Nat
      /\ UNCHANGED <<restart_pos, size, exists>>
      /\ sent' = << >> /\ failed' = 0 /\ received' = 0 /\ stored' = 0
      /\ mishaps' = {} /\ cmd' = "RETR" /\ offset' = restart_pos
  BY TransferBoundsAssumption DEF StartDownload, Begin, TypeOK, DownloadInv
<1>2. /\ filesize' \in 0 .. 2 * Half - 1
      /\ \/ filesize' = size - restart_pos /\ filesize' \in 0 .. Half - 1
            /\ Signed(filesize') = filesize'
         \/ filesize' >= Half /\ Signed(filesize') < 0
  BY <1>1 DEF StartDownload, Remaining, Unsigned, Signed
<1>3. sent' \in Seq(Nat) /\ Len(sent') = 0
  BY <1>1, EmptySeq
<1>4. \A x \in Nat : Run(x, 0) = << >>
  BY DEF Run
<1>5. CASE Signed(filesize') > 0
  <2>0. /\ filesize' = size - restart_pos /\ filesize' \in 1 .. Half - 1
        /\ Signed(filesize') = filesize'
    <3> DEFINE f == filesize'
               g == Signed(filesize')
    <3>1. \/ f = size - restart_pos /\ f \in 0 .. Half - 1 /\ g = f
          \/ g < 0
      BY <1>2
    <3>2. g > 0
      BY <1>5
    <3>3. g \in Int
      BY <1>2 DEF Signed
    <3> HIDE DEF f, g
    <3>4. f = size - restart_pos /\ f \in 1 .. Half - 1 /\ g = f
      BY <3>1, <3>2, <3>3
    <3> QED
      BY <3>4 DEF f, g
  <2>1. /\ pc' = "send" /\ replies' = <<150>> /\ fds' = fds + 1
        /\ nleft' = filesize' /\ n' = 0 /\ i' = 0 /\ pos' = restart_pos
        /\ block_size' = Lesser(filesize', Block)
    BY <1>5, <2>0 DEF StartDownload, NextBlock
  <2>2. block_size' \in Int /\ nleft' \in Int /\ n' \in Int /\ pos' \in Nat
    BY <1>1, <1>2, <2>1, ChunkAssumption DEF Lesser
  <2>3. TypeOK'
    BY <1>1, <1>2, <1>3, <2>1, <2>2 DEF TypeOK, TransferReplies
  <2>4. Downloading'
    <3>1. sent' = Run(offset', Len(sent'))
      BY <1>1, <1>3, <1>4
    <3>2. offset' + filesize' = size' /\ pos' <= size' /\ pos' - offset' = 0
      BY <1>1, <1>2, <2>0, <2>1
    <3> QED
      BY <1>1, <1>3, <2>0, <2>1, <3>1, <3>2 DEF Downloading
  <2>5. CompleteIsDelivered'
    BY <2>1 DEF CompleteIsDelivered
  <2> QED
    BY <1>1, <2>1, <2>3, <2>4, <2>5 DEF DownloadInv
<1>6. CASE ~(Signed(filesize') > 0)
  <2>1. /\ replies' = <<150, 226>> /\ UNCHANGED <<pc, fds, nleft, block_size, i, n, pos>>
        /\ pc = "idle"
    BY <1>6 DEF StartDownload, Begin, locals
  <2>2. TypeOK'
    BY <1>1, <1>2, <1>3, <2>1 DEF TypeOK, TransferReplies
  <2>3. CompleteIsDelivered'
    <3>1. filesize' >= Half \/ filesize' = 0
      BY <1>2, <1>6
    <3> QED
      BY <1>1, <1>3, <1>4, <3>1 DEF CompleteIsDelivered
  <2> QED
    BY <2>1, <2>2, <2>3 DEF DownloadInv
<1> QED
  BY <1>5, <1>6

\* Every other step leaves downloads alone.
LEMMA OtherStepsKeepInv ==
    ASSUME DownloadInv, [Next]_vars, ~SendChunk, ~StartDownload
    PROVE  DownloadInv'
<1> USE HalfAssumption, TransferBoundsAssumption DEF DownloadInv
<1>1. << >> \in Seq(Nat)
  BY EmptySeq
<1>2. ASSUME NEW o \in Offsets, DoRest(o) PROVE DownloadInv'
  <2>1. restart_pos' \in -Half .. Half - 1
    BY <1>2, OffsetsAssumption DEF DoRest
  <2>2. TypeOK'
    BY <1>2, <2>1 DEF DoRest, TypeOK, TransferReplies, fileVars, loopVars, locals
  <2> QED
    BY <1>2, <2>2 DEF DoRest, CompleteIsDelivered
<1>3. ASSUME NEW c \in {"RETR", "STOR", "APPE"}, Begin(c),
             NEW codes \in {<< >>, << 550 >>, << 553 >>},
             NEW opened \in {0, 1}, Abandon(codes, opened),
             mishaps' \subseteq Faults, exists' \in BOOLEAN
      PROVE  DownloadInv'
  <2>1. /\ pc' = "idle" /\ replies' \in {<< >>, <<550>>, <<553>>}
        /\ fds' \in 0 .. MaxFds
    BY <1>3 DEF Begin, Abandon, TypeOK
  <2>2. TypeOK'
    BY <1>1, <1>3, <2>1 DEF Begin, Abandon, TypeOK, TransferReplies, locals
  <2>3. CompleteIsDelivered'
    BY <2>1 DEF CompleteIsDelivered
  <2> QED
    BY <2>1, <2>2, <2>3
<1>4. ASSUME DownloadRefused PROVE DownloadInv'
  BY <1>3, <1>4 DEF DownloadRefused, TypeOK
<1>5. ASSUME DownloadSilent PROVE DownloadInv'
  BY <1>3, <1>5 DEF DownloadSilent, TypeOK
<1>6. ASSUME UploadRefused PROVE DownloadInv'
  BY <1>3, <1>6 DEF UploadRefused, TypeOK
<1>7. ASSUME UploadSilent PROVE DownloadInv'
  BY <1>3, <1>7 DEF UploadSilent, TypeOK
<1>8. ASSUME StartUpload PROVE DownloadInv'
  <2>1. /\ pc' = "recv" /\ replies' = <<150>> /\ fds' \in 1 .. MaxFds
        /\ cmd' \in {"STOR", "APPE"}
    BY <1>8 DEF StartUpload, Begin, TypeOK
  <2>2. TypeOK'
    BY <1>1, <1>8, <2>1 DEF StartUpload, Begin, TypeOK, TransferReplies, locals
  <2> QED
    BY <2>1, <2>2 DEF CompleteIsDelivered
<1>9. ASSUME pc = "recv", pc' = "idle", fds' = fds - 1, cmd' = cmd,
             replies' \in {<<150, 226>>, <<150, 451>>, <<150, 426>>},
             mishaps' \subseteq Faults, received' \in Nat, stored' \in Nat,
             UNCHANGED <<fileVars, restart_pos, offset, filesize, loopVars>>
      PROVE  DownloadInv'
  <2>1. fds' \in 0 .. MaxFds
    BY <1>9 DEF TypeOK
  <2>2. TypeOK'
    BY <1>9, <2>1 DEF TypeOK, TransferReplies, fileVars, loopVars, locals
  <2> QED
    BY <1>9, <2>2 DEF CompleteIsDelivered
<1>10. ASSUME NEW nread \in 1 .. 2, Receive(nread) PROVE DownloadInv'
  <2>0. received \in Nat /\ received' = received + nread
    BY <1>10 DEF Receive, TypeOK
  <2>1. WritenFile(nread) # nread /\ received' \in Nat
    BY <2>0 DEF WritenFile
  <2> QED
    BY <1>9, <1>10, <2>1 DEF Receive, TypeOK
<1>11. ASSUME EndOfData PROVE DownloadInv'
  BY <1>9, <1>11 DEF EndOfData, TypeOK
<1>12. ASSUME ReceiveFails PROVE DownloadInv'
  BY <1>9, <1>12 DEF ReceiveFails, TypeOK
<1>13. ASSUME NEW to \in 0 .. MaxSize, Resize(to) PROVE DownloadInv'
  <2>1. TypeOK'
    BY <1>13 DEF Resize, TypeOK, TransferReplies, loopVars, locals
  <2>2. pc = "send" => Downloading'
    BY <1>13 DEF Resize, Downloading, loopVars, locals
  <2>3. CompleteIsDelivered'
    BY <1>13 DEF Resize, Downloading, CompleteIsDelivered, loopVars, locals
  <2> QED
    BY <1>13, <2>1, <2>2, <2>3 DEF Resize
<1>14. ASSUME Remove PROVE DownloadInv'
  <2>0. pc = "idle" /\ 0 \in 0 .. MaxSize
    BY <1>14 DEF Remove
  <2>1. TypeOK' /\ pc = "idle"
    BY <1>14, <2>0 DEF Remove, TypeOK, loopVars, locals
  <2> QED
    BY <1>14, <2>1 DEF Remove, CompleteIsDelivered, loopVars, locals
<1>15. ASSUME UNCHANGED vars PROVE DownloadInv'
  BY <1>15 DEF vars, fileVars, loopVars, locals, TypeOK, TransferReplies,
               Downloading, CompleteIsDelivered
<1> QED
  BY <1>2, <1>4, <1>5, <1>6, <1>7, <1>8, <1>10, <1>11, <1>12, <1>13, <1>14, <1>15
  DEF Next, Session, Others

LEMMA InitialDownload == Init => DownloadInv
<1> SUFFICES ASSUME Init PROVE DownloadInv
  OBVIOUS
<1>1. TypeOK
  BY HalfAssumption, TransferBoundsAssumption, EmptySeq
  DEF Init, TypeOK, TransferReplies
<1> QED
  BY <1>1 DEF Init, DownloadInv, CompleteIsDelivered

\* Types, for every size and fault: above all, an announced size fits its
\* unsigned type although the subtraction that makes it may go below zero.
THEOREM TransferTypeCorrect == Spec => []TypeOK
<1>1. DownloadInv /\ [Next]_vars => DownloadInv'
  BY RoundKeepsInv, StartDownloadKeepsInv, OtherStepsKeepInv
<1>2. DownloadInv => TypeOK
  BY DEF DownloadInv
<1> QED
  BY InitialDownload, <1>1, <1>2, PTL DEF Spec

\* A 226 for a download is true: all that was announced went out, in order
\* and without a gap unless the file was resized, or the restart position
\* was behind the end of the file.
THEOREM CompleteDownloads == Spec => []CompleteIsDelivered
<1>1. DownloadInv /\ [Next]_vars => DownloadInv'
  BY RoundKeepsInv, StartDownloadKeepsInv, OtherStepsKeepInv
<1>2. DownloadInv => CompleteIsDelivered
  BY DEF DownloadInv
<1> QED
  BY InitialDownload, <1>1, <1>2, PTL DEF Spec

-----------------------------------------------------------------------------
(***************************************************************************)
(* Replies and descriptors.                                                *)
(***************************************************************************)
LEMMA AnswerStep ==
    ASSUME DownloadInv, TransferIsAnswered, [Next]_vars
    PROVE  TransferIsAnswered'
<1> USE DEF TransferIsAnswered
<1>0. ASSUME NEW code \in Nat PROVE <<code>> # << >> /\ << 150, code >> # << >>
  OBVIOUS
<1>1. CASE \E o \in Offsets : DoRest(o)
  BY <1>1 DEF DoRest
<1>2. CASE DownloadRefused \/ UploadRefused
  <2>1. replies' = << 550 >> \/ replies' = << 553 >>
    BY <1>2 DEF DownloadRefused, UploadRefused, Abandon
  <2> QED
    BY <1>0, <2>1
<1>3. CASE DownloadSilent \/ UploadSilent
  BY <1>3 DEF DownloadSilent, UploadSilent, Begin
<1>4. CASE StartDownload \/ StartUpload
  <2>1. replies' = << 150 >> \/ replies' = << 150, 226 >>
    BY <1>4 DEF StartDownload, StartUpload
  <2> QED
    BY <1>0, <2>1
<1>5. CASE SendChunk
  <2>1. replies = << 150 >>
    BY <1>5 DEF SendChunk, DownloadInv, Downloading
  <2>2. replies' = replies \/ \E code \in Nat : replies' = Append(replies, code)
    BY <1>5 DEF SendChunk, Round, EndOfBlock, Finish
  <2>3. ASSUME NEW code \in Nat PROVE Append(<< 150 >>, code) # << >>
    BY AppendProperties
  <2> QED
    BY <1>0, <2>1, <2>2, <2>3
<1>6. CASE (\E nread \in 1..2 : Receive(nread)) \/ EndOfData \/ ReceiveFails
  <2>1. replies = << 150 >>
    BY <1>6 DEF Receive, EndOfData, ReceiveFails, DownloadInv
  <2>2. \/ replies' \in {replies, << 150, 451 >>}
        \/ replies' \in {<< 150, 226 >>, << 150, 426 >>}
    BY <1>6 DEF Receive, EndOfData, ReceiveFails
  <2> QED
    BY <1>0, <2>1, <2>2
<1>7. CASE \E to \in 0..MaxSize : Resize(to)
  <2>1. UNCHANGED <<cmd, replies, restart_pos>>
    BY <1>7 DEF Resize
  <2>2. pc = "send" => replies # << >>
    BY <1>0 DEF DownloadInv, Downloading
  <2>3. pc # "send" => mishaps' = mishaps
    BY <1>7 DEF Resize
  <2> QED
    BY <2>1, <2>2, <2>3
<1>8. CASE Remove \/ UNCHANGED vars
  BY <1>8 DEF Remove, vars
<1> QED
  BY <1>1, <1>2, <1>3, <1>4, <1>5, <1>6, <1>7, <1>8 DEF Next, Session, Others

\* A transfer gets a reply unless fstat failed or the restart position is
\* negative (download_file, upload_file), for every size and fault.
THEOREM AnswersCorrect == Spec => []TransferIsAnswered
<1>1. Init => TransferIsAnswered
  BY DEF Init, TransferIsAnswered
<1>2. DownloadInv /\ [Next]_vars => DownloadInv'
  BY RoundKeepsInv, StartDownloadKeepsInv, OtherStepsKeepInv
<1> QED
  BY InitialDownload, AnswerStep, <1>1, <1>2, PTL DEF Spec

LEMMA HeldStep ==
    ASSUME DownloadInv, [Next]_vars, Held' # Held
    PROVE  Held' = Held + 1 /\ replies' \in {<< >>, << 550 >>, << 553 >>}
<1>1. fds \in Int
  BY TransferBoundsAssumption DEF DownloadInv, TypeOK
<1> USE DEF Held
<1>2. CASE \/ DownloadRefused \/ UploadRefused
           \/ DownloadSilent \/ UploadSilent
  <2>1. /\ pc = "idle" /\ pc' = "idle" /\ fds' \in {fds + 0, fds + 1}
        /\ replies' \in {<< >>, << 550 >>, << 553 >>}
    BY <1>2 DEF DownloadRefused, UploadRefused, DownloadSilent, UploadSilent,
       Abandon, Begin
  <2>2. fds' = fds \/ fds' = fds + 1
    BY <1>1, <2>1
  <2>3. Held = fds /\ Held' = fds'
    <3>1. Held = fds - 0 /\ Held' = fds' - 0
      BY <2>1
    <3>2. fds \in Int /\ fds' \in Int
      BY <1>1, <2>2
    <3>3. \A x \in Int : x - 0 = x
      OBVIOUS
    <3>4. fds - 0 = fds /\ fds' - 0 = fds'
      BY <3>2, <3>3, Zenon
    <3> HIDE DEF Held
    <3> QED
      BY <3>1, <3>4, Zenon
  <2>4. Held' = Held + 1
    BY <2>2, <2>3
  <2> QED
    BY <2>1, <2>4
<1>3. CASE StartDownload \/ StartUpload
  BY <1>1, <1>3 DEF StartDownload, StartUpload, Begin
<1>4. CASE SendChunk
  BY <1>1, <1>4 DEF SendChunk, Round, EndOfBlock, Finish
<1>5. CASE (\E nread \in 1..2 : Receive(nread)) \/ EndOfData \/ ReceiveFails
  BY <1>1, <1>5 DEF Receive, EndOfData, ReceiveFails
<1>6. CASE \/ \E o \in Offsets : DoRest(o)
           \/ \E to \in 0..MaxSize : Resize(to)
           \/ Remove \/ UNCHANGED vars
  BY <1>6 DEF DoRest, Resize, Remove, vars
<1> QED
  BY <1>2, <1>3, <1>4, <1>5, <1>6 DEF Next, Session, Others

\* A descriptor that is held stays held, and one more is held only by a
\* transfer that was refused or not answered, for every size and fault.
THEOREM DescriptorsCorrect == Spec => DescriptorsHeld
<1>1. DownloadInv /\ [Next]_vars => DownloadInv'
  BY RoundKeepsInv, StartDownloadKeepsInv, OtherStepsKeepInv
<1>2. DownloadInv /\ [Next]_vars =>
          [Held' # Held => /\ Held' = Held + 1
                           /\ replies' \in {<< >>, <<550>>, <<553>>}]_vars
  BY HeldStep
<1> QED
  BY InitialDownload, <1>1, <1>2, PTL DEF Spec, DescriptorsHeld

-----------------------------------------------------------------------------
(***************************************************************************)
(* Why a download ends (DownloadEnds, but for its fairness): no round of   *)
(* send_file_block is in vain, whether its sends succeed or fail.          *)
(***************************************************************************)

\* The loop itself did what it was to do; the connection may be lost.
Calm == mishaps \cap {"partial", "read", "resize"} = {}

\* What is left of the block fits the file until the connection is lost.
CalmInv ==
    pc = "send" /\ Calm =>
        pos <= size /\ ("reset" \notin mishaps => size = pos + (nleft - n))

\* Bounds the rounds to come: at the end of the file there is one more for a
\* block in which something has been tried, and one for its successor.
RoundsLeft == 2 * (size - pos) + (IF i = 0 /\ n = 0 THEN 0 ELSE 1)

\* Each calm round lowers what bounds the rounds to come.
DownloadAdvances ==
    [][pc = "send" /\ pc' = "send" /\ Calm' =>
           RoundsLeft \in Nat /\ RoundsLeft' < RoundsLeft]_vars

\* A calm round: it reads what there is, and sends it or fails.
LEMMA CalmRound ==
    ASSUME DownloadInv, CalmInv, NEW r \in Reads, NEW d \in Sends(r), Round(r, d),
           pc = "send", pc' = "send", Calm'
    PROVE  /\ Calm /\ size \in Nat /\ pos \in Nat /\ pos <= size
           /\ r \in Nat /\ pos + r <= size /\ (r = 0 => pos = size)
           /\ d \in {r, -1} /\ ("reset" \notin mishaps' => d = r)
           /\ "reset" \in mishaps => d = -1
           /\ pos' = pos + r
           /\ \/ ~LastRound(r) /\ n' = n + d /\ i' = i + Chunk /\ nleft' = nleft
              \/ /\ LastRound(r) /\ n + d # -1 /\ nleft - (n + d) > 0
                 /\ nleft' = nleft - (n + d) /\ n' = 0 /\ i' = 0
<1> USE HalfAssumption, ChunkAssumption
<1>1. /\ size \in Nat /\ pos \in Nat /\ mishaps' = mishaps \cup Mishap(r, d)
      /\ pos' = IF r = -1 THEN pos ELSE pos + r
  BY DEF DownloadInv, TypeOK, Round
<1>2. Calm /\ pos <= size
  BY <1>1 DEF Calm, CalmInv
<1>3. /\ "read" \notin Mishap(r, d) /\ "partial" \notin Mishap(r, d)
      /\ "reset" \in Mishap(r, d) => "reset" \in mishaps'
  BY <1>1 DEF Calm
<1>4. r # -1 /\ r = Lesser(Chunk, IF size > pos THEN size - pos ELSE 0)
  BY <1>3 DEF Mishap, Reads
<1>5. r \in Nat /\ pos + r <= size /\ (r = 0 => pos = size)
  BY <1>1, <1>2, <1>4 DEF Lesser
<1>6. d \in {r, -1} /\ ("reset" \in mishaps => d = -1)
  BY <1>3, <1>4, <1>5 DEF Sends, Mishap
<1>7. "reset" \notin mishaps' => d = r
  BY <1>3, <1>4, <1>6 DEF Mishap
<1>8. \/ ~LastRound(r) /\ n' = n + d /\ i' = i + Chunk /\ nleft' = nleft
      \/ /\ LastRound(r) /\ n + d # -1 /\ nleft - (n + d) > 0
         /\ nleft' = nleft - (n + d) /\ n' = 0 /\ i' = 0
  BY DEF Round, EndOfBlock, Finish, NextBlock
<1> QED
  BY <1>1, <1>2, <1>4, <1>5, <1>6, <1>7, <1>8

LEMMA CalmStep ==
    ASSUME DownloadInv, CalmInv, [Next]_vars
    PROVE  CalmInv'
<1> USE HalfAssumption, ChunkAssumption
<1>1. CASE SendChunk
  <2> SUFFICES ASSUME pc' = "send", Calm'
               PROVE  pos' <= size' /\ ("reset" \notin mishaps' => size' = pos' + (nleft' - n'))
    BY DEF CalmInv
  <2>1. PICK r \in Reads : \E d \in Sends(r) : Round(r, d)
    BY <1>1 DEF SendChunk
  <2>2. PICK d \in Sends(r) : Round(r, d)
    BY <2>1
  <2>3. pc = "send" /\ size' = size /\ nleft \in Int /\ n \in Int
    BY <1>1 DEF SendChunk, fileVars, DownloadInv, TypeOK
  <2>4. /\ Calm /\ size \in Nat /\ pos \in Nat /\ r \in Nat /\ pos + r <= size
        /\ pos' = pos + r /\ ("reset" \notin mishaps' => d = r) /\ d \in {r, -1}
        /\ \/ n' = n + d /\ nleft' = nleft
           \/ nleft' = nleft - (n + d) /\ n' = 0
    BY <2>2, <2>3, CalmRound
  <2>5. "reset" \notin mishaps' => size = pos + (nleft - n)
    BY <2>2, <2>3, <2>4 DEF Round, CalmInv
  <2> QED
    BY <2>3, <2>4, <2>5
<1>2. CASE StartDownload
  <2> SUFFICES ASSUME pc' = "send"
               PROVE  pos' <= size' /\ size' = pos' + (nleft' - n')
    BY DEF CalmInv
  <2>1. DownloadInv'
    BY <1>2, StartDownloadKeepsInv
  <2>2. failed' = 0 /\ mishaps' = {} /\ n' = 0 /\ pos' = offset'
    BY <1>2 DEF StartDownload, Begin, NextBlock
  <2>3. Len(sent') = 0
    BY <1>2, EmptySeq DEF StartDownload, Begin
  <2>4. /\ nleft' - n' = filesize' - Len(sent') + failed'
        /\ offset' + filesize' = size' /\ pos' <= size'
    BY <2>1, <2>2 DEF DownloadInv, Downloading
  <2>5. filesize' \in Nat /\ size' \in Nat /\ offset' \in Nat /\ nleft' \in Int
    BY <2>1 DEF DownloadInv, TypeOK
  <2>6. nleft' = filesize' /\ pos' <= size'
    BY <2>2, <2>3, <2>4, <2>5
  <2>7. \A f, o \in Nat : o + f = o + (f - 0)
    OBVIOUS
  <2>8. size' = offset' + (filesize' - 0)
    <3>1. size' = offset' + filesize'
      BY <2>4
    <3> QED
      BY <2>5, <2>7, <3>1, Zenon
  <2> QED
    BY <2>2, <2>6, <2>8, Zenon
<1>3. CASE \E to \in 0..MaxSize : Resize(to)
  BY <1>3 DEF Resize, CalmInv, Calm
<1>4. CASE Remove \/ UNCHANGED vars
  <2>1. Remove => pc # "send"
    BY DEF Remove, DownloadInv
  <2> QED
    BY <1>4, <2>1 DEF Remove, vars, loopVars, locals, fileVars, CalmInv, Calm
<1>5. CASE \/ \E o \in Offsets : DoRest(o)
           \/ DownloadRefused \/ DownloadSilent \/ UploadRefused \/ UploadSilent
           \/ StartUpload
           \/ \E nread \in 1..2 : Receive(nread)
           \/ EndOfData \/ ReceiveFails
  <2>1. pc' # "send"
    BY <1>5 DEF DoRest, DownloadRefused, DownloadSilent, UploadRefused, UploadSilent,
       StartUpload, Receive, EndOfData, ReceiveFails, Begin, Abandon
  <2> QED
    BY <2>1 DEF CalmInv
<1> QED
  BY <1>1, <1>2, <1>3, <1>4, <1>5 DEF Next, Session, Others

LEMMA AdvanceStep ==
    ASSUME DownloadInv, CalmInv, Next, pc = "send", pc' = "send", Calm'
    PROVE  RoundsLeft \in Nat /\ RoundsLeft' < RoundsLeft
<1> USE HalfAssumption, ChunkAssumption
<1>1. SendChunk
  <2>1. ~Remove
    BY DEF Remove, DownloadInv
  <2>2. ~\E to \in 0..MaxSize : Resize(to)
    BY DEF Resize, Calm
  <2> QED
    BY <2>1, <2>2 DEF Next, Session, Others, DoRest, DownloadRefused, DownloadSilent,
       StartDownload, UploadRefused, UploadSilent, StartUpload, Receive, EndOfData,
       ReceiveFails, Begin
<1>2. PICK r \in Reads : \E d \in Sends(r) : Round(r, d)
  BY <1>1 DEF SendChunk
<1>3. PICK d \in Sends(r) : Round(r, d)
  BY <1>2
<1>4. size' = size /\ nleft \in Int /\ n \in Int /\ i \in Nat
  BY <1>1 DEF SendChunk, fileVars, DownloadInv, TypeOK
<1>5. /\ Calm /\ size \in Nat /\ pos \in Nat /\ pos <= size
      /\ r \in Nat /\ pos + r <= size /\ (r = 0 => pos = size)
      /\ d \in {r, -1} /\ ("reset" \notin mishaps' => d = r)
      /\ "reset" \in mishaps => d = -1
      /\ pos' = pos + r
      /\ \/ ~LastRound(r) /\ n' = n + d /\ i' = i + Chunk /\ nleft' = nleft
         \/ /\ LastRound(r) /\ n + d # -1 /\ nleft - (n + d) > 0
            /\ nleft' = nleft - (n + d) /\ n' = 0 /\ i' = 0
  BY <1>3, CalmRound
<1>6. CASE r > 0
  BY <1>4, <1>5, <1>6 DEF RoundsLeft
<1>7. CASE r = 0
  <2>1. LastRound(r)
    BY <1>7 DEF LastRound
  <2>2. n' = 0 /\ i' = 0 /\ n + d # -1 /\ nleft - (n + d) > 0
    BY <1>5, <2>1
  <2>3. ~(n = 0 /\ i = 0)
    <3> SUFFICES ASSUME n = 0
                 PROVE  FALSE
      OBVIOUS
    <3>1. d = 0 /\ "reset" \notin mishaps
      BY <1>5, <1>7, <2>2
    <3>2. size = pos + (nleft - n)
      BY <1>5, <3>1 DEF CalmInv
    <3> QED
      BY <1>4, <1>5, <1>7, <2>2, <3>1, <3>2
  <2> QED
    BY <1>4, <1>5, <1>7, <2>2, <2>3 DEF RoundsLeft
<1> QED
  BY <1>5, <1>6, <1>7

\* As long as send takes all or fails, reads succeed and nobody resizes the
\* file, each round of send_file_block lowers a number that bounds the rounds
\* to come: download_file cannot go round for ever, not even on a connection
\* that is lost; for every size of file, chunk and block.
THEOREM DownloadsAdvance == Spec => DownloadAdvances
<1>1. Init => CalmInv
  BY DEF Init, CalmInv
<1>2. DownloadInv /\ [Next]_vars => DownloadInv'
  BY RoundKeepsInv, StartDownloadKeepsInv, OtherStepsKeepInv
<1>3. DownloadInv /\ CalmInv /\ [Next]_vars => CalmInv'
  BY CalmStep
<1>4. DownloadInv /\ CalmInv /\ [Next]_vars =>
          [pc = "send" /\ pc' = "send" /\ Calm' =>
               RoundsLeft \in Nat /\ RoundsLeft' < RoundsLeft]_vars
  BY AdvanceStep
<1> QED
  BY InitialDownload, <1>1, <1>2, <1>3, <1>4, PTL DEF Spec, DownloadAdvances
=============================================================================
