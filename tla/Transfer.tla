------------------------------ MODULE Transfer ------------------------------
(***************************************************************************)
(* The bytes of a transfer: REST, download_file with send_file_block, and  *)
(* upload_file (trans_data.c), for one session that has its data           *)
(* connection, on one file that other programs may resize meanwhile: the   *)
(* locks of the file exist in the other build only.                        *)
(*                                                                         *)
(* A byte of the file is known by its position.  A step is one round of    *)
(* the loop of send_file_block, or one call of recv.                       *)
(***************************************************************************)
EXTENDS Integers, Sequences

CONSTANTS Chunk,      \* sizeof(buffer) of send_file_block: 4096
          Block,      \* kSize of download_file: 65536
          Half,       \* a long long lies in -Half .. Half - 1
          MaxSize,    \* bound: the size of the file
          Offsets,    \* what atoll makes of the arguments of REST
          Faults,     \* what may go wrong
          MaxRead,    \* bound: failing reads in one download
          MaxFds      \* bound: file descriptors left open

ASSUME ChunkAssumption == Chunk \in Nat \ {0} /\ Block \in Nat \ {0}
ASSUME HalfAssumption == Half \in Nat /\ MaxSize \in Nat /\ MaxSize < Half
ASSUME OffsetsAssumption == Offsets \subseteq -Half .. Half - 1
ASSUME TransferFaultsAssumption ==
    Faults \subseteq {"reset", "partial", "read", "resize", "stat"}
ASSUME TransferBoundsAssumption == MaxRead \in Nat /\ MaxFds \in Nat

VARIABLES
    pc,           \* "idle", in send_file_block ("send") or in recv ("recv")
    exists, size, \* the file
    fds,          \* file descriptors the process has open
    restart_pos,  \* session->restart_pos
    offset,       \* download_file: where this transfer starts
    filesize,     \* download_file: what its 150 reply announces
    nleft, block_size,  \* download_file
    i, n,         \* send_file_block: the bytes tried, and its result so far
    pos,          \* the position in the open file
    sent,         \* history: the bytes on the data connection
    failed,       \* history: the calls of send that failed
    mishaps,      \* history: what went wrong in this transfer
    received, stored, \* history: bytes of an upload
    cmd, replies  \* the last command, and the codes sent for it

fileVars == <<exists, size>>
locals == <<nleft, block_size, i, n, pos>>
loopVars == <<locals, sent, failed>>
vars == <<pc, fileVars, fds, restart_pos, offset, filesize, loopVars, mishaps,
          received, stored, cmd, replies>>

-----------------------------------------------------------------------------
Lesser(a, b) == IF a < b THEN a ELSE b

\* unsigned long long to long long and back.
Unsigned(x) == IF x < 0 THEN x + 2 * Half ELSE x
Signed(u) == IF u >= Half THEN u - 2 * Half ELSE u

\* A run of consecutive bytes from position from.
Run(from, length) == [k \in 1..length |-> from + k - 1]

\* Mutant: the subtraction is not reduced to the width of its type.
Remaining_Unbounded(o) == size - o

\* filesize -= offset, in an unsigned long long.
Remaining(o) == Unsigned(size - o)

Init == /\ pc = "idle"
        /\ exists = TRUE /\ size \in 0..MaxSize
        /\ fds = 0
        /\ restart_pos = 0 /\ offset = 0 /\ filesize = 0
        /\ nleft = 0 /\ block_size = 0 /\ i = 0 /\ n = 0 /\ pos = 0
        /\ sent = << >> /\ failed = 0
        /\ mishaps = {}
        /\ received = 0 /\ stored = 0
        /\ cmd = "none" /\ replies = << >>

-----------------------------------------------------------------------------
\* REST: the position stays until the next REST, whatever is transferred.
DoRest(o) ==
    /\ pc = "idle"
    /\ restart_pos' = o
    /\ cmd' = "REST" /\ replies' = <<350>>
    /\ UNCHANGED <<pc, fileVars, fds, offset, filesize, loopVars, mishaps,
                   received, stored>>

\* What every transfer starts with.
Begin(c) ==
    /\ pc = "idle"
    /\ cmd' = c
    /\ sent' = << >> /\ failed' = 0 /\ received' = 0 /\ stored' = 0
    /\ UNCHANGED <<restart_pos, size>>

\* A transfer that stops before its data; what it had opened stays open.
Abandon(codes, opened) ==
    /\ fds + opened <= MaxFds
    /\ fds' = fds + opened
    /\ replies' = codes
    /\ offset' = 0 /\ filesize' = 0
    /\ UNCHANGED <<pc, locals>>

\* Mutant: a device is refused without a word.
DownloadRefused_Silent ==
    /\ Begin("RETR") /\ mishaps' = {}
    /\ \/ ~exists /\ Abandon(<<550>>, 0)
       \/ Abandon(<< >>, 1)
    /\ UNCHANGED exists

\* download_file: there is no such file; or it is a device, which opens.
DownloadRefused ==
    /\ Begin("RETR") /\ mishaps' = {}
    /\ \/ ~exists /\ Abandon(<<550>>, 0)
       \/ Abandon(<<550>>, 1)
    /\ UNCHANGED exists

\* fstat or _lseeki64 failed, which is logged and not answered.
DownloadSilent ==
    /\ Begin("RETR") /\ exists
    /\ \/ "stat" \in Faults /\ mishaps' = {"stat"}
       \/ restart_pos < 0 /\ mishaps' = {}
    /\ Abandon(<< >>, 1)
    /\ UNCHANGED exists

\* Mutant: the file is not closed at the end.
Finish_NoClose(flag) ==
    /\ pc' = "idle"
    /\ replies' = Append(replies, IF flag = 0 THEN 226 ELSE 451)
    /\ nleft' = 0 /\ block_size' = 0 /\ i' = 0 /\ n' = 0
    /\ UNCHANGED fds

\* The end of download_file: its local variables are gone.
Finish(flag) ==
    /\ pc' = "idle"
    /\ replies' = Append(replies, IF flag = 0 THEN 226 ELSE 451)
    /\ nleft' = 0 /\ block_size' = 0 /\ i' = 0 /\ n' = 0
    /\ fds' = fds - 1

\* while (nleft > 0): one more block.
NextBlock(left) ==
    /\ nleft' = left /\ i' = 0 /\ n' = 0
    /\ block_size' = Lesser(left, Block)

\* download_file, up to its first block; with nothing left it has none.
StartDownload ==
    /\ Begin("RETR") /\ exists /\ restart_pos >= 0 /\ fds < MaxFds
    /\ offset' = restart_pos
    /\ filesize' = IF restart_pos # 0 THEN Remaining(restart_pos) ELSE size
    /\ IF Signed(filesize') > 0
       THEN /\ pc' = "send" /\ replies' = <<150>> /\ fds' = fds + 1
            /\ NextBlock(Signed(filesize')) /\ pos' = restart_pos
       ELSE /\ replies' = <<150, 226>>
            /\ UNCHANGED <<pc, fds, locals>>
    /\ mishaps' = {}
    /\ UNCHANGED exists

-----------------------------------------------------------------------------
\* What _read may return: a full buffer, or what there is, or an error.
Reads == {Lesser(Chunk, IF size > pos THEN size - pos ELSE 0)}
            \cup (IF "read" \in Faults /\ failed < MaxRead THEN {-1} ELSE {})

\* What send may return for r bytes: once the connection is lost, an error.
Sends(r) == IF r = -1 \/ "reset" \in mishaps THEN {-1}
            ELSE {r} \cup (IF "partial" \in Faults THEN 1..(r - 1) ELSE {})
                     \cup (IF "reset" \in Faults THEN {-1} ELSE {})

Mishap(r, d) == IF r = -1 THEN {"read"}
                ELSE IF d = -1 THEN {"reset"}
                ELSE IF d < r THEN {"partial"} ELSE {}

\* download_file after send_file_block has returned nwrite.  Of all that
\* can be wrong with a block only a result of exactly -1 is noticed.
EndOfBlock(nwrite) ==
    \/ nwrite = -1 /\ Finish(1)
    \/ /\ nwrite # -1 /\ nleft - nwrite > 0
       /\ NextBlock(nleft - nwrite)
       /\ UNCHANGED <<pc, replies, fds>>
    \/ nwrite # -1 /\ nleft - nwrite <= 0 /\ Finish(0)

\* The loop ends behind the block or at a short read; the comparison with
\* sizeof is unsigned, so that an error (-1) is not a short read.
LastRound(r) == r \in 0..(Chunk - 1) \/ i + Chunk >= block_size

\* Mutant: the bytes read are counted, not the bytes sent.
Round_CountsRead(r, d) ==
    /\ sent' = sent \o Run(pos, d)
    /\ failed' = IF d = -1 THEN failed + 1 ELSE failed
    /\ mishaps' = mishaps \cup Mishap(r, d)
    /\ IF LastRound(r) THEN EndOfBlock(n + r)
       ELSE /\ n' = n + r /\ i' = i + Chunk
            /\ UNCHANGED <<pc, nleft, block_size, replies, fds>>
    /\ pos' = IF pc' = "idle" THEN 0 ELSE IF r = -1 THEN pos ELSE pos + r

\* Mutant: only the last round of a block is counted.
Round_LastOnly(r, d) ==
    /\ sent' = sent \o Run(pos, d)
    /\ failed' = IF d = -1 THEN failed + 1 ELSE failed
    /\ mishaps' = mishaps \cup Mishap(r, d)
    /\ IF LastRound(r) THEN EndOfBlock(d)
       ELSE /\ n' = d /\ i' = i + Chunk
            /\ UNCHANGED <<pc, nleft, block_size, replies, fds>>
    /\ pos' = IF pc' = "idle" THEN 0 ELSE IF r = -1 THEN pos ELSE pos + r

\* One round of send_file_block: add up what send returned for r bytes.
Round(r, d) ==
    /\ sent' = sent \o Run(pos, d)
    /\ failed' = IF d = -1 THEN failed + 1 ELSE failed
    /\ mishaps' = mishaps \cup Mishap(r, d)
    /\ IF LastRound(r) THEN EndOfBlock(n + d)
       ELSE /\ n' = n + d /\ i' = i + Chunk
            /\ UNCHANGED <<pc, nleft, block_size, replies, fds>>
    /\ pos' = IF pc' = "idle" THEN 0 ELSE IF r = -1 THEN pos ELSE pos + r

SendChunk ==
    /\ pc = "send"
    /\ \E r \in Reads : \E d \in Sends(r) : Round(r, d)
    /\ UNCHANGED <<fileVars, restart_pos, offset, filesize, received, stored, cmd>>

-----------------------------------------------------------------------------
\* upload_file: the file cannot be opened; or it is a device, which can.
UploadRefused ==
    /\ \E c \in {"STOR", "APPE"} : Begin(c)
    /\ mishaps' = {}
    /\ Abandon(<<553>>, 0) \/ Abandon(<<553>>, 1)
    /\ UNCHANGED exists

\* The file is made if it is not there; fstat or _lseeki64 may fail.
UploadSilent ==
    /\ \E c \in {"STOR", "APPE"} :
          /\ Begin(c)
          /\ \/ "stat" \in Faults /\ mishaps' = {"stat"}
             \/ c = "STOR" /\ restart_pos < 0 /\ mishaps' = {}
    /\ Abandon(<< >>, 1)
    /\ exists' = TRUE

\* APPE goes to the end whatever REST said, STOR to the restart position.
\* Nothing truncates the file: the calls of ftruncate are in the other build.
StartUpload ==
    /\ \E c \in {"STOR", "APPE"} :
          /\ Begin(c)
          /\ c = "STOR" => restart_pos >= 0
    /\ fds < MaxFds /\ fds' = fds + 1
    /\ exists' = TRUE
    /\ pc' = "recv" /\ replies' = <<150>>
    /\ offset' = 0 /\ filesize' = 0
    /\ mishaps' = {}
    /\ UNCHANGED locals

\* writen on a file descriptor calls send, and a file is not a socket.
WritenFile(nread) == -1

\* recv returned nread bytes, which are written to the file.
Receive(nread) ==
    /\ pc = "recv"
    /\ received' = received + nread
    /\ IF WritenFile(nread) = nread
       THEN stored' = stored + nread /\ UNCHANGED <<pc, replies, fds>>
       ELSE /\ pc' = "idle" /\ replies' = <<150, 451>> /\ fds' = fds - 1
            /\ UNCHANGED stored
    /\ UNCHANGED <<fileVars, restart_pos, offset, filesize, loopVars, mishaps, cmd>>

\* recv returned 0: the client has closed its end.
EndOfData ==
    /\ pc = "recv"
    /\ pc' = "idle" /\ replies' = <<150, 226>> /\ fds' = fds - 1
    /\ UNCHANGED <<fileVars, restart_pos, offset, filesize, loopVars, mishaps,
                   received, stored, cmd>>

\* recv failed.  (Interrupted, it is called again: no step.)
ReceiveFails ==
    /\ pc = "recv" /\ "reset" \in Faults
    /\ pc' = "idle" /\ replies' = <<150, 426>> /\ fds' = fds - 1
    /\ mishaps' = {"reset"}
    /\ UNCHANGED <<fileVars, restart_pos, offset, filesize, loopVars,
                   received, stored, cmd>>

\* Another program makes the file longer or shorter, or removes it while
\* this one has it not open.
Resize(to) ==
    /\ "resize" \in Faults /\ exists
    /\ size' = to
    /\ mishaps' = IF pc = "send" THEN mishaps \cup {"resize"} ELSE mishaps
    /\ UNCHANGED <<pc, exists, fds, restart_pos, offset, filesize, loopVars,
                   received, stored, cmd, replies>>

Remove ==
    /\ exists /\ fds = 0
    /\ exists' = FALSE /\ size' = 0
    /\ UNCHANGED <<pc, fds, restart_pos, offset, filesize, loopVars, mishaps,
                   received, stored, cmd, replies>>

-----------------------------------------------------------------------------
Session == \/ \E o \in Offsets : DoRest(o)
           \/ DownloadRefused \/ DownloadSilent \/ StartDownload \/ SendChunk
           \/ UploadRefused \/ UploadSilent \/ StartUpload
           \/ \E nread \in 1..2 : Receive(nread)
           \/ EndOfData \/ ReceiveFails
Others == \/ \E to \in 0..MaxSize : Resize(to)
          \/ Remove

Next == Session \/ Others

\* The session's thread keeps running once a download has begun; nothing
\* makes a mishap happen.
Fairness == WF_vars(SendChunk /\ mishaps' = mishaps)
Spec == Init /\ [][Next]_vars /\ Fairness

-----------------------------------------------------------------------------
(***************************************************************************)
(* Properties.                                                             *)
(***************************************************************************)
TransferReplies ==
    {<< >>, <<350>>, <<550>>, <<553>>, <<150>>, <<150, 226>>, <<150, 451>>,
     <<150, 426>>}

\* Types: announced sizes fit their unsigned type, what is left its signed one.
TypeOK ==
    /\ pc \in {"idle", "send", "recv"}
    /\ exists \in BOOLEAN /\ size \in 0..MaxSize
    /\ fds \in 0..MaxFds
    /\ restart_pos \in -Half .. Half - 1
    /\ offset \in 0 .. Half - 1
    /\ filesize \in 0 .. 2 * Half - 1
    /\ {nleft, block_size, n} \subseteq Int /\ {i, pos, failed} \subseteq Nat
    /\ sent \in Seq(Nat)
    /\ mishaps \subseteq Faults
    /\ {received, stored} \subseteq Nat
    /\ cmd \in {"none", "REST", "RETR", "STOR", "APPE"}
    /\ replies \in TransferReplies

\* A download reported complete (226) has sent as much as it announced and,
\* unless the file was resized meanwhile, exactly the rest of the file from
\* the restart position, although bytes that send did not take are never
\* offered again and a failure counts as one byte less.  The one exception
\* is a restart position behind the end of the file, often that of an earlier
\* transfer: an absurd size is announced, nothing is sent, all is well.
CompleteIsDelivered ==
    cmd = "RETR" /\ replies = <<150, 226>> =>
        \/ filesize >= Half /\ sent = << >>
        \/ /\ Len(sent) >= filesize
           /\ "resize" \notin mishaps => sent = Run(offset, filesize)

\* Every transfer gets a reply, unless fstat failed or the restart position
\* is negative: those two paths of trans_data.c return without one.
TransferIsAnswered ==
    cmd \in {"RETR", "STOR", "APPE"} /\ replies = << >> =>
        mishaps = {"stat"} \/ restart_pos < 0

\* The descriptors held beyond the one of the transfer that runs never get
\* fewer; one more is held after each transfer that was not answered, or
\* was refused because its file is a device.
Held == fds - (IF pc = "idle" THEN 0 ELSE 1)
DescriptorsHeld ==
    [][Held' # Held => /\ Held' = Held + 1
                       /\ replies' \in {<< >>, <<550>>, <<553>>}]_vars

\* A download ends, also when the connection is lost, unless send took less
\* than it was offered, a read failed, or the file was resized: then
\* download_file may go round at the end of the file for ever.
DownloadEnds ==
    pc = "send" ~> \/ pc = "idle"
                   \/ mishaps \cap {"partial", "read", "resize"} # {}

\* README.md promises uploads: over a sound connection all that arrives is
\* stored.
SoundUploadIsStored ==
    cmd \in {"STOR", "APPE"} /\ pc = "idle" /\ mishaps = {} => stored = received
=============================================================================
