# MiniFtpServer in TLA+

A verification project for the FTP server in `src/`: TLA+ modules translated from
the C sources, TLC configurations that check them on small instances, and TLAPS
proofs of the main results for every value of the constants. `PROJECT.json` lists
the components, the runs, the hazards and the theorems, and for every definition
the source lines it stands for.

The program modelled is the one `MiniFtpServer.vcxproj` builds: the `_WIN32`
branches, with threads. `hash.c`, `ftp_assist.c` and `main-org.c` are not compiled
into it, but they are what is left of the forking server, with its client limits,
that `src/README.md` describes (`src/Makefile` still lists the first two); they
are modelled apart from it, as the legacy parts.

## The system

| Part | State it keeps | Operations | What makes it correct |
|---|---|---|---|
| server (`main.c`) | `should_exit`, `listen_fd`, one accept loop, one console handler | `start_loop`, `loop_thread`, `exit_loop`, `s_close`, `session_thread` | what it starts it waits for; a handle is closed once; after exit it ends |
| registry (`session_manager.c`) | vector of sessions, critical section | `add_session`, `remove_session`, `wait_sessions`, `destroy_session_manager` | an entry per live session; not used after it is destroyed |
| session (`session.c`) | `Session_t`: sockets, PORT address, names, offsets | `session_init`, `session_free` | outlives both threads that use it |
| nobody thread (`ftp_nobody.c`, `priv_command.c`) | `listen_fd` of the session, the outcome of the last operation | `handle_nobody`, the four `privop_*` handlers | one answer per request, of the width the asker reads |
| private thread (`ftp_proto.c`, `command_map.c`, `trans_data.c`) | current command, `p_addr`, `data_fd` | commands, PORT/PASV, getting a data connection, transfers | a command ends; a transfer uses the socket made for it |
| private socket (`priv_sock.c`) | a socket pair, two byte streams | commands, results, ints, strings, sockets | both ends agree on what the next bytes are |
| command reader (`sysutil.c`, `ftp_proto.c`) | `session->command`, the last socket error | `recv_peek`, `readn`, `readline`, `str_trim_crlf` | the lines sent are obeyed, in order, each once |
| files and directories (`command_map.c`, `trans_data.c`) | the working directory of the process, `rnfr_name` | CWD, MKD, RMD, DELE, RNFR, RNTO, listings, opening a file | a name means what its client thinks it means |
| transfers (`trans_data.c`) | `restart_pos`, open descriptors | `download_file`, `send_file_block`, `upload_file` | a transfer reported complete is complete |
| vector (`cvector.c`) | block, length, capacity | `pushback`, `popback`, `insert`, `insert_at`, `rm`, `rm_at` | a sequence; stays inside its block; does not thrash |
| hash table (`hash.c`, legacy) | buckets of linked nodes | alloc, add, lookup, free, clear, destroy | a map; links agree |
| client limits (`ftp_assist.c`, `main-org.c`, legacy) | two counts, two tables | counting on accept, on fork, on SIGCHLD | never too many clients |
| configuration, strings, addresses | the `tunable_*` values | parsing, trimming, formatting | pure functions |

How they interact. `main` starts `loop_thread`; the console handler calls
`exit_loop` on a thread of its own; `loop_thread` starts a `session_thread` per
client, which starts the private thread and then serves it as "nobody" through the
socket pair. All of them share `listen_fd` (main.c), `should_exit`, the registry and
`Session_t` without locks, except for the critical section of the registry; and all
sessions share the working directory of the process.

What is hard here: two threads and an untagged byte protocol (an answer too many
shifts every later one); operations that fail without answering; a shutdown between
any two steps; a listener closed by two threads; sessions started and freed while
`loop_thread` still writes to them; commands that come in pieces; names resolved
against a directory another session has left; sizes that wrap; files that change
under a transfer; a signal handler between a load and its store. The list, each at
its line, is under "hazards" in `PROJECT.json`.

## Modules

| Module | What it models |
|---|---|
| `PrivWire` | the bytes of `priv_sock.c`: commands, results, ints, sockets, and `readn` on the stream |
| `PrivSession` (extends `PrivWire`) | one session: both threads, every `privop_*` handler, PORT/PASV, get_trans_data_fd, the end of a session |
| `PrivSessionInv` | the inductive invariant of `PrivSession` |
| `DataConn` | abstract: PORT and PASV arm a mode, a data connection uses up exactly one, a failed PORT or PASV loses its own |
| `ServerLoop` | main thread, console handler, accept loop, registry, the life of every session |
| `CommandLine` | how a session reads its commands: peek, scan, read, over every way to cut the stream |
| `Lines` | abstract: a stream of bytes cut into lines that are obeyed in order |
| `Transfer` | REST, `download_file` with `send_file_block`, `upload_file`: sizes, positions, descriptors, replies |
| `FileCommands` | two or more sessions, one working directory: the commands that name files, and listings |
| `CVector` | `cvector.c`, with a `realloc` that fails or moves the block |
| `VectorSeq` | abstract: a sequence changed at its end or at an element |
| `HashTable` | `hash.c`: buckets of doubly linked nodes |
| `ShadowMap` | abstract: a map in which an added value hides the older one |
| `ClientLimits` (uses `ShadowMap` twice) | the forking parent, its children, and SIGCHLD at any point |
| `MCPrivSession`, `MCServerLoop`, `MCCommandLine`, `MCTransfer`, `MCFileCommands`, `MCCVector`, `MCHashTable`, `MCClientLimits` | definitions for TLC |
| `PrivSession_proofs`, `ServerLoop_proofs`, `CommandLine_proofs`, `Transfer_proofs`, `FileCommands_proofs`, `CVector_proofs`, `HashTable_proofs`, `ClientLimits_proofs` | the proofs |

**PrivSession.** `pPc` and `nPc` are the calls in which the two threads may block; a
step runs from one such call to the next, so one action holds all that the code does
in between. `p2n` and `n2p` are the two directions of the socket pair as sequences of
bytes, so an answer of the wrong width really is read as part of the next one.
`listen_fd`, `data_fd` and `p_addr` are the fields of `Session_t`; `socks` is the set
of open sockets, `listeners` those that `tcp_server` made. Each `privop_*` is one
action per outcome (`PasvListen`, `PasvListenFails`; `AcceptReturns`,
`AcceptTimesOut`, `AcceptFails`; ...), chosen by `Faults`. So are a PORT without
memory for its address ("malloc": the old address is gone and no reply is sent) and a
PASV without an address to announce ("local_ip": 500, while the listener stays; in the
Windows build `get_local_ip` always gives one). The client's end and
the network are whatever they may be: it sends any command of `Commands`, connects or
not, leaves or not. What a transfer does with its file is `Transfer`'s; here it runs,
on a socket, and gives a final reply. A command that only replies (NOOP, SYST, an
unknown one ...), or belongs to `FileCommands`, is `OtherCommand`.

**ServerLoop.** `s_close` is the three steps it is (test, close, reset), and reads its
argument again between them or not. `owner` says whose socket each handle is, so that
closing a handle twice may close somebody else's. The registry stores what
`cvector_pushback(cv, session)` copies: the first bytes of the session, not its
address; hence `remove_session` finds nothing and `wait_sessions` waits for whatever
its array of handles contains. A session that it did not wait for may then be in
`remove_session` with a registry that is destroyed (`RegistryUseExplained`). Inside
a session only what the rest of the server can notice is kept: whether its threads run, and what it holds.

**CommandLine.** The bytes of the client arrive one at a time, so the stream is cut
in every way. `Peek` is `recv_peek` with the scan of `readline` for a line feed, `Read`
the `readn` that follows, `Command` what `handle_proto` does with the line:
`str_trim_crlf`, the handler, the next round. `lastError` is `WSAGetLastError`,
which `recv_peek` also asks after a success, and which a transfer on an aborted data
connection leaves behind; then, or on a control connection that was aborted, `Retry` is
one turn of the loop that never ends. A handler may also never return (`pc = "stuck"`): its request
is not answered, or its transfer stalls or goes on for ever. The bytes are a line feed, a
carriage return, a zero, which ends the text of a line for `str_trim_crlf`, and others.
`sent`, `got`, `outside` and `spin` are histories.

**Transfer.** A byte of the file is known by its position, so that `sent` shows what
was delivered. The sizes keep their C types: `Remaining` is the unsigned
`filesize -= offset`, `Signed` its copy to `nleft`; `Half` stands for 2^63. A step is
one round of the loop of `send_file_block`, with a send that takes all, takes part or
fails, and a read that finds less than there was. `mishaps` is what went wrong in this
transfer. The file may be resized at any time: its locks exist in the other build only.

**FileCommands.** The file system is two sets of paths, and what Windows makes of
`_mkdir`, `rename` and the others is external. `cwd` is the one directory of the
process. A command with a data connection waits for it between reading its argument
and using it, so other sessions move in between. The server writes into the tree itself:
`log` appends every command, every reply and every line of a listing to `log.txt` in the
directory the process is in, so `Tree` adds that file there after each step. It is taken
that this succeeds wherever no directory has its name (no disk is full, no permission
missing), and that the reply to a CWD is logged before another session moves. In
a listing `opendir`, `readdir` and `writes` may fail (`Faults`: "find", "malloc",
"send"): no caller looks, and 226 is sent all the same. Names with a dot in front, which
listings leave out, are not among `Names`. `believed` is where a client must
think it is, `from` what it named with RNFR, `changed` whether the tree or the directory
was changed under a listing, `failed` whether one of its calls failed, `leaked` how many search
handles the last step left open; they are histories that the properties compare with
what the code does.

**CVector.** `slot` is the block, `past` records a step that touched the slot behind
it, `lost` that the block was lost or used after it moved, where the model ends.
`memcpy` on overlapping ranges is taken as the move that the Microsoft library makes
of it. The reading operations change nothing and are left out.

**HashTable, ClientLimits.** `node` is the heap, `live` what is allocated; a bucket is
walked through its links as the code does. `ClientLimits` takes its two tables as the
map that `HashTable` implements; `++num_of_clients` and `++*p_value` are a load and a
store, and SIGCHLD runs its handler between any two steps of the parent. What the handler
may break is modelled where the code can break, and the model ends there: a node that
`hash_add_entry` is linking to is freed ("torn"), `free` runs while the parent is in
`malloc` for a new address or a new pid ("heap"), and the `waitpid` that finds no child
left overwrites `errno` before `main` has compared it with `ETIMEDOUT` ("errno"; for
`main-org.c` as it was meant, with an `accept_timeout` that sets `errno`: the one in
`src/sysutil.c` has a fourth parameter for it now). What is claimed is about the assert
only, and about the counts as long as the parent lives.

Mutants (operators named `<Definition>_<Change>`, before the definition) are plausible
bugs of the code, one or two for each property of each passing run; each makes TLC find
its property violated.

## Runs

| Run | Shows |
|---|---|
| `session_faults` | listen, connect, files, the memory of a PORT and the address of a PASV may fail, accept may time out: nothing is in flight between commands, a 227 reply is true, a transfer uses its own socket, a socket is lost only in the ways named, PORT and PASV armed together stay so but for a PASV or PORT that fails for want of resources, a blocked pair is explained by a failed operation or a shutdown, commands end unless an operation failed, and the session implements `DataConn` |
| `session_skew` | accept itself fails, which sends three items where one is read: answers shift for good, requests do not |
| `server_safety` | two sessions, every fault, a shutdown at any moment: session memory outlives its threads; the late store of the handle, the foreign close, the use of the destroyed registry and the listener left open happen only for the reasons named |
| `server_shutdown` | after `exit_loop` the process ends, unless `wait_sessions` really waits |
| `lines` | the session obeys its client's lines whatever the pieces they come in, stays inside its buffer but for the look `str_trim_crlf` takes before it, and notices the end, unless a connection was aborted or a handler does not return |
| `transfer` | what 226 means for a download; which transfers get no reply, leave a descriptor open, or do not end |
| `files` | the file a command opens and the file RNTO moves are what the client meant, unless another session moved the process; a listing reported complete names nothing from elsewhere, has closed its search and, unless a send or readdir failed, holds every entry but one of the root's; unless the tree or the directory was changed while it was read |
| `vector` | the vector implements a sequence, never grows and shrinks in turn, and leaves its block by one slot in two cases only |
| `hash` | the table implements `ShadowMap` and its links agree |
| `clients` | the counts never get too low, so that the limits hold; they drift upwards only when the handler ran between a load and its store; an assert fails only for the child just forked, before it is entered |

Two runs check one sentence of the repository each that the code does not keep:
`proto_close` (the nobody thread is written to notice the end of the private thread
and never does) and `upload_stored` (uploads are promised, and nothing is stored).
Each is explained under "findings".

Some consequences of the code are visible in the passing runs as exceptions: both
modes armed block every later transfer (`BothStayArmed`), although a comment says
"port over pasv" (`trans_data.c:455`: the branch it stands at is not reached then);
an incomplete listing is reported complete (`ListingIsTrue`); a failed operation sends
no answer, and a shutdown in the middle of a command blocks the session
(`StuckExplained`); the vector reads or writes one slot past its block at its limit
(`EdgeOnly`); the restart position outlives its transfer (`CompleteIsDelivered`).

Bounds, and why they are enough:

- `Handles` (3 in `session_faults`): a session has a listener and a data socket; the
  third lets a replaced listener stay. PASV and the transfers are sent only while a
  handle is free: the end of all handles is not modelled here. In `ServerLoop` three
  handles are the listener and one for each of two sessions, or two for one of them:
  enough for a handle to be closed, given out again and closed by the other thread.
- `MaxSkew` (5 in `session_skew`, 0 elsewhere): a failing accept leaves bytes
  unread, and a command is accepted only while at most `MaxSkew` are. 5 is a result
  and an int, so an int can be read across the border of two answers. Without "accept"
  in `Faults` nothing is ever left and the bound cuts nothing off (`NoCrossTalk`).
- `IntSize`, `SockSize`: 4 and 8 as on Windows; `proto_close` takes 2 and 2 to be
  quick. The proofs hold for every width.
- `Sessions`: two for safety (session against session), one for the liveness run.
  Each `Session_t` is used once.
- `MaxCommand = 4`, `MaxSent = 5` in `lines` for 1024 and any number: lines of at most
  three bytes, so that a line overflows, is split and followed by another one; the
  bytes told apart are CR, LF, zero and the others. The proofs hold for every size.
- `Chunk = 2`, `Block = 4`, `MaxSize = 6`, `Half = 16` in `transfer`: a file of more
  than one block, each of two chunks; restart positions are negative, the beginning,
  inside and behind the end. `MaxRead` bounds the failing reads of a download (each
  lowers a count for ever), `MaxFds` the descriptors left open. The proofs hold for
  all values.
- `MaxDepth = 2`, `MaxNodes = 2`, `MaxListings = 1` in `files`, one relative and one
  absolute argument: enough for a directory inside a directory, a file with the same
  relative name in two places, and a rename across them, while a listing is read that
  the other session disturbs; `MaxNodes` does not count what is called `log.txt`. A
  listing only reads the tree, and logs as every command does, so a second one adds
  nothing the first could notice. The proofs hold for all values.
- `MinLen = 1`, `MaxTot = 8` in `vector` for 256 and the size of memory: three
  doublings and a halving, which needs four times `MinLen`. The proofs hold for all.
- Five nodes, two buckets and three keys, of which two collide, in `hash`: a node in
  the middle of its bucket, between neighbours with its own key and the other.
- Three pids, `MaxClients = 2`, `MaxPerIp = 1`, two addresses in `clients`: each limit
  can be reached alone; `MaxCount = 4` stops the upward drift of the counts.
- Symmetry in handles, sessions, elements, nodes and addresses, in runs without
  liveness only.

`CHECK_DEADLOCK FALSE` stands in every configuration because the system really stops:
a session is freed, a process returns, two threads wait for each other for ever
(`StuckExplained` and `CommandFinishes` say when they may), a session hangs on an
aborted connection or in a handler, a
vector has lost its block, a table is destroyed. In `transfer`
and `files` there is always a next command; the setting does no harm there.

Fairness. `PrivSession`: weak fairness of each thread, for the operating system runs a
thread that is not blocked, and `accept_timeout` returns at the latest when its time
is over. None of the client, of the shutdown, or of a transfer: so that "the command
ends" means that it has its data connection or has come back to the command loop; what
becomes of a transfer is `DownloadEnds`. `Transfer`: weak fairness of a round of
`send_file_block` in which nothing new goes wrong, since the loop waits for nothing
but `send`; a client that stops reading but keeps its connection is left out by it.
`CommandLine`: weak fairness of the session's thread; none of the client. It is not
assumed that a handler returns: each `Command` comes back or is stuck for good, and
`LineIsObeyed` and `EndIsNoticed` except the sessions that are.
`ServerLoop`: weak fairness of the main thread, of the rest of a console handler once
called, of the accept loop, and of each thread of each session; none of the clients.

## Proofs

`tlapm` checks every theorem; the constants are arbitrary within the named
assumptions (`CommandsAssumption`, `HandlesAssumption`, ... which TLC evaluates in
every run).

- **Types** (`PrivSession_proofs!TypeCorrect`): for every fault and every skew. The
  step that matters is that the private thread reads an int or a socket only when it
  is complete, whatever is on the wire.
- **Requests** (`PrivSession_proofs!RequestsStayInStep`): for every fault, `accept`
  included. `RequestsInStep` looks at the first bytes only and is not inductive;
  `FrameInv` says that all of `p2n` is a row of whole requests, by the set of places
  where one starts (`Framed`). `FramedAppend` and `FramedNext` are what sending and
  reading one request do to it.
- **In step** (`PrivSession_proofs!InStep`): `NoCrossTalk`, `PassiveReplyIsTrue`,
  `DataSocketIsOurs`, `StuckExplained`, `SocketsLost` and `BothStayArmed`. None is
  inductive. `Inv` is: for every place of the private thread, it says what may be on
  the two streams and where the nobody thread is. The proof goes action by action; the
  lemmas `RequestTaken`, `MidOperation` and `AnswerRead` say what a thread may conclude
  from its own place alone. `"accept" \notin Faults` is a hypothesis of the theorems,
  and a necessary one: with it, `AcceptFails` breaks `Inv`.
- **Refinement** (`PrivSession_proofs!SessionImplementsDataConn`): under the
  same hypothesis the session implements `DataConn`; the mode is used up, and the
  data connection made, when the nobody thread sends the socket (`HandingOver`); a PORT without memory maps to
  `LosePort`, a failed listen to `LosePasv`.
- **Server** (`ServerLoop_proofs`): every safety property of `server_safety`, for any
  number of sessions and handles. `LifeInv` is the order in which the two threads and
  the memory of a session come and go, and that a thread leaves only after `quit`;
  `SessionOutlivesThreads` and `HandleStoreExplained` follow from it. `ListenInv` says
  which step of `s_close` may still find the listener, `AwaitedInv` which sessions the
  accept loop still waits for, from which `RegistryUseExplained` follows with `LifeInv`, and `RaceInv` who may hold the handle twice.
- **Command reader** (`CommandLine_proofs`): `TypeOK`, `ImplementsLines` and
  `OutsideExplained` for every `MAX_COMMAND`, any number of bytes and every fault.
  `LineInv` says that what is put together has no line feed but at its end, and that
  what `readn` is about to take has arrived, has room, and has none before its end. The
  refinement maps `Command` to `Obey` and a reset to the loss of what had come.
  `PlaceInv` relates the buffer to its place in all that was sent.
  `ReadingInVainOnlyOnAbort` bounds the turns of the reader by what has arrived, all but
  those that try again after an abort (`Retry`): it says that these are the only ones.
- **Transfers** (`Transfer_proofs`): `TypeOK`, `CompleteIsDelivered`,
  `TransferIsAnswered` and `DescriptorsHeld` for every size of chunk, block and integer
  and every fault. `DownloadInv` is the loop invariant: how the position, the
  bytes sent, the bytes tried and the failures fit together in the middle of a block,
  so that a count short by one is never taken for a complete one. `DownloadsAdvance`
  gives each round in which nothing goes wrong but the connection a number that it
  lowers.
- **Vector** (`CVector_proofs`): `TypeOK`, `NoThrash`, `EdgeOnly` and `ImplementsVector`
  for every `MIN_LEN`. The refinement needs only the type invariant: each operation is
  shown to move the elements as its abstract counterpart does.
- **Files** (`FileCommands_proofs`): `TypeOK`, `OpensWhatWasMeant`,
  `RenamesWhatWasNamed` and `ListingIsTrue` for any number of sessions, any names and
  any depth. `TypeOK` is where a rename is hard: the moved paths must not meet those
  that stay, and every parent must move along (the lemmas on paths). `PlaceInv` says
  that a client which still knows where it is knows where the process is, and what the
  names it has given stand for there; `ListInv` that what a listing has sent and what
  it has left to send make up its directory, as long as nothing failed, and that it has
  sent nothing else in any case. The number of entries is counted with a
  bijection, since `Children` are paths and `todo` names.
- **Hash table** (`HashTable_proofs`): `TypeOK` and `ImplementsShadowMap` for any keys,
  values, buckets and nodes. `BucketOK` says that the walk through a bucket meets each
  node once, that the nodes belong there, and that `pre` leads back the way it came;
  `NoneIsLost` that each allocated node is on a walk. `AddWalk`, `FreeWalk` and
  `ClearStep` say what an operation does to the walks: one place is put in front, or
  one left out, or nothing is left. The refinement compares what two walks collect for
  a key (`SameBehind`): from where they meet the same nodes they go on alike.
- **Client limits** (`ClientLimits_proofs`): `CountsHold`, `NeverTooMany` and
  `AssertExplained` for any number of processes and addresses and all limits.
  `CountsHold` is not inductive in the middle of `limit_num_clients`: `LoadedInv`
  says that what the parent has loaded is not too low either, since SIGCHLD only takes
  children away, and `PidInv` that the table of pids holds all children but the one
  just forked; with counts that are never too low, no other child's assert can fail.

Every safety property, action property and refinement of a passing run is a theorem.
`InStep` and what follows from it have the hypothesis named above, and the constants
their assumptions: the ones that say more than a type are `HandlesAssumption` of
`PrivSession` (a socket is not 0, and its lowest byte tells it from `INVALID_SOCKET`),
`NodesAssumption` (the heap has finitely many blocks) and `ArgsAssumption` (an argument
is absolute or relative, and a sequence of names).

Where a proof needs induction (how far a walk goes, what it collects, that a definition
by recursion has a value), it is carried out on a set of numbers (`LeastNumber`,
`Induction`), from the well-foundedness of `<`: the library's induction theorems take an
operator as a parameter, which the provers cannot instantiate.

Only model-checked: everything with fairness (`CommandFinishes`, `ShutdownEnds`,
`LineIsObeyed`, `EndIsNoticed`, `DownloadEnds`) and the two violations. Liveness under
fairness is out of the prover's reach; what it rests on, that no step goes round in vain but for the
retries after an abort, is proved: `CommandAdvances` (for every fault and every skew), `ShutdownAdvances`,
`ReadingAdvances` and `DownloadAdvances` each give the steps a number in `Nat` that they
lower. That the next step comes, unless one of the named reasons stops it, is left to
the runs; for a command `StuckExplained` names the reasons.

## Not modelled, and why

- `configure.c`, `parse_conf.c`: read once before anything starts. `netutils.c`, the time
  and address functions, the layout of replies and listings: conversions and formatting
  without state, which no property here tells apart. The rest of `strutil.c` likewise.
- A failing `socketpair`: both threads then work on invalid handles, and what the
  private thread takes for an answer is what its buffers happen to hold.
- Which of several listeners on port 20 a client reaches: the library does not specify
  it, so a model would only restate that it may be any.
- The bytes an upload received: `receiver_buffer` is shared by all sessions, but as the
  build never stores what it received (`upload_stored`), nothing can be mixed up.
- What becomes of a session whose `writes` to an aborted data connection never returns in
  the middle of a listing: it takes no step any more, which `FileCommands` allows any
  session at any time.
- SIZE, TYPE, SITE and the commands that only reply: they change nothing that is read
  again.
- A `malloc` in `hash.c` that fails for a key after it succeeded for the node.
- `trans_ctrl.c` (rate limits, ABOR by signals): not in the vcxproj, and called only in
  the Unix branches. The `test_*.c` programs print and return.

## Plan

What the project has left: the bytes of `PrivWire` as an abstract channel of messages,
so that the proofs in step need not look at widths; and an abstract specification of
the server, of which `ServerLoop` would be the implementation up to the races named.
