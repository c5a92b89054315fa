---------------------------- MODULE FileCommands ----------------------------
(***************************************************************************)
(* The commands that name files and directories (command_map.c) and the    *)
(* listings (trans_data.c), for several sessions of one process: every     *)
(* name is resolved by the library against the one working directory of    *)
(* the process, and the commands with a data connection wait for it        *)
(* between reading their argument and using it.                            *)
(*                                                                         *)
(* The file system is two sets of paths.  It is not the server's: what     *)
(* _mkdir, rename and the others do is the Windows library's business.     *)
(* Replies are not kept: each disjunct of an action is one of them.        *)
(*                                                                         *)
(* The server writes into the tree, too: every command and every reply is  *)
(* added to log.txt in the directory the process is in then, and a listing *)
(* logs every line it sends.  It is taken that this file can be written    *)
(* wherever no directory has its name, and that the reply to a CWD is      *)
(* logged before any other session takes a step.                           *)
(***************************************************************************)
EXTENDS Integers, Sequences, FiniteSets

CONSTANTS Sessions,
          Names,      \* the names of files and directories: none with a dot
                      \* in front, which trans_list_common leaves out
          LogName,    \* log.txt
          Args,       \* the arguments that clients send
          Faults,     \* library calls that may fail while a directory is read
          MaxDepth,   \* bound: the length of a path
          MaxNodes,   \* bound: files and directories beside root and logs
          MaxListings \* bound: LISTs at the same time

\* An argument is absolute ("/a/b") or relative ("a/b").
ASSUME ArgsAssumption == Args \subseteq [abs : BOOLEAN, names : Seq(Names)]
ASSUME LogAssumption == LogName \in Names
\* send (a connection reset, or the SOCKET_ERROR of a failed accept instead of
\* a socket), malloc, FindFirstFileA and FindNextFileA.
ASSUME FaultsAssumption == Faults \subseteq {"send", "malloc", "find"}
ASSUME BoundsAssumption ==
    MaxDepth \in Nat \ {0} /\ {MaxNodes, MaxListings} \subseteq Nat

VARIABLES
    dirs, files,  \* the file system
    cwd,          \* the working directory of the process
    rnfr,         \* per session: session->rnfr_name, or NoArg
    pc,           \* per session: "idle", "get" (a data connection), "data", "list"
    job,          \* per session: the command that is not over, or NoJob
    todo,         \* per session: what FindNextFileA has not returned yet
    listed,       \* per session: the paths whose attributes were sent
    leaked,       \* history: search handles that the last step has left open,
                  \* and nobody will close
    believed,     \* history: where the client must think it is, or Unknown
    from,         \* history: per session, the path that RNFR named, or Unknown
    changed,      \* history: per session, tree or cwd have since opendir
    failed,       \* history: per session, a call has since opendir
    wandered      \* history: some session has changed the directory

treeVars == <<dirs, files>>
listVars == <<todo, listed, failed>>
renameVars == <<rnfr, from>>
vars == <<treeVars, cwd, renameVars, pc, job, listVars, leaked, changed,
          believed, wandered>>

-----------------------------------------------------------------------------
Root == << >>
NoPath == <<"no path">>
Unknown == <<"unknown">>
NoArg == [abs |-> FALSE, names |-> NoPath]
NoJob == [cmd |-> "none", arg |-> NoArg, named |-> NoPath, used |-> NoPath]
Paths == UNION {[1..k -> Names] : k \in 0..MaxDepth}

Parent(p) == IF p = Root THEN Root ELSE SubSeq(p, 1, Len(p) - 1)
IsPrefix(p, q) == Len(p) <= Len(q) /\ SubSeq(q, 1, Len(p)) = p
Nodes == dirs \cup files
Children(d) == {p \in Nodes : p # Root /\ Parent(p) = d}

\* What the library makes of a name, and what the client of s means by it.
Resolve(arg) == IF arg.abs THEN arg.names ELSE cwd \o arg.names
Meant(s, arg) == IF arg.abs THEN arg.names
                 ELSE IF believed[s] = Unknown THEN Unknown
                 ELSE believed[s] \o arg.names

\* Files that are open, by the sessions that transfer them.
Opened == {job[s].used : s \in {t \in Sessions : pc[t] = "data"}}

\* main has logged the socket it listens on.
Init == /\ dirs = {Root} /\ files = {Append(Root, LogName)} /\ cwd = Root
        /\ rnfr = [s \in Sessions |-> NoArg]
        /\ pc = [s \in Sessions |-> "idle"]
        /\ job = [s \in Sessions |-> NoJob]
        /\ todo = [s \in Sessions |-> {}]
        /\ listed = [s \in Sessions |-> {}]
        /\ leaked = 0
        /\ believed = [s \in Sessions |-> Root]
        /\ from = [s \in Sessions |-> NoPath]
        /\ changed = [s \in Sessions |-> FALSE]
        /\ failed = [s \in Sessions |-> FALSE]
        /\ wandered = FALSE

\* A step leaves ds and fs, and what is logged in the directory it leaves the
\* process in.  A listing that goes on may notice.
Listing == {s \in Sessions : pc[s] = "list"}
InLog(d) == Append(d, LogName)
Tree(ds, fs) ==
    /\ dirs' = ds /\ files' = fs \cup ({InLog(cwd')} \ ds)
    /\ Len(cwd') < MaxDepth
    /\ Cardinality({p \in (ds \cup fs) \ {Root} : p[Len(p)] # LogName}) <= MaxNodes
    /\ LET moves == <<ds, fs, cwd', files'>> # <<dirs, files, cwd, files>>
       IN  changed' = [s \in Sessions |->
                          s \in Listing \cap Listing' /\ (changed[s] \/ moves)]
SameTree == Tree(dirs, files)

\* A command that needs no data connection starts and ends in one step.
NoListing == leaked' = 0 /\ UNCHANGED listVars
AtOnce(s) == pc[s] = "idle" /\ NoListing /\ UNCHANGED <<pc, job>>

-----------------------------------------------------------------------------
\* _chdir has moved the process.  The client of s is told so and thinks it
\* is in b now; the others are not told.
Chdir(s, to, b) ==
    /\ cwd' = to
    /\ believed' = [t \in Sessions |-> IF t = s THEN b
                                       ELSE IF to = cwd THEN believed[t]
                                       ELSE Unknown]
    /\ SameTree
    /\ from' = [t \in Sessions |->
                   IF to = cwd \/ rnfr[t] = NoArg \/ rnfr[t].abs THEN from[t]
                   ELSE Unknown]
    /\ wandered' = (wandered \/ to # cwd)
    /\ UNCHANGED rnfr

SamePlace == UNCHANGED <<cwd, believed, wandered>>

\* do_cwd takes the slashes off "/a/", and "/" is such a name: what is left
\* is relative, or empty, which _chdir refuses.
Stripped(arg, slash) ==
    IF arg.abs /\ (slash \/ arg.names = Root) THEN [arg EXCEPT !.abs = FALSE]
    ELSE arg

\* Mutant: the reply does not depend on _chdir.
DoCwd_AlwaysOk(s, arg, slash) ==
    LET to == Resolve(Stripped(arg, slash))
    IN  /\ AtOnce(s)
        /\ Chdir(s, IF to \in dirs THEN to ELSE cwd,
                 IF Stripped(arg, slash) # arg THEN Unknown ELSE Meant(s, arg))

\* Mutant: the directory is kept as a name, without asking the library.
DoCwd_Unchecked(s, arg, slash) ==
    LET to == Resolve(Stripped(arg, slash))
    IN  /\ AtOnce(s)
        /\ Len(to) <= MaxDepth
        /\ Chdir(s, to, Unknown)

\* do_cwd
DoCwd(s, arg, slash) ==
    LET name   == Stripped(arg, slash)
        exists == Resolve(name) \in dirs /\ (name.abs \/ name.names # Root)
    IN  /\ AtOnce(s)
        /\ \/ /\ exists
              /\ Chdir(s, Resolve(name),
                       IF name # arg THEN Unknown ELSE Meant(s, arg))
           \/ /\ ~exists
              /\ SamePlace /\ SameTree /\ UNCHANGED renameVars

\* do_cdup: in the root, _chdir("..") succeeds and stays.
DoCdup(s) ==
    /\ AtOnce(s)
    /\ Chdir(s, Parent(cwd),
             IF believed[s] = Unknown THEN Unknown ELSE Parent(believed[s]))

\* do_pwd
DoPwd(s) ==
    /\ AtOnce(s)
    /\ Chdir(s, cwd, cwd)

\* Another client has taken the place of the one of s.  Logging in does not
\* change the directory; rnfr_name is not freed, but the new session has none.
Login(s) ==
    /\ AtOnce(s)
    /\ rnfr' = [rnfr EXCEPT ![s] = NoArg]
    /\ from' = [from EXCEPT ![s] = NoPath]
    /\ believed' = [believed EXCEPT ![s] = IF wandered THEN Unknown ELSE Root]
    /\ UNCHANGED <<cwd, wandered>> /\ SameTree

-----------------------------------------------------------------------------
\* A command whose argument is used at once: it is possible, and the tree
\* becomes ds and fs, or it is refused.
NamedCommand(s, possible, ds, fs) ==
    /\ AtOnce(s) /\ SamePlace /\ UNCHANGED renameVars
    /\ \/ possible /\ Tree(ds, fs)
       \/ ~possible /\ SameTree

\* do_mkd.  (_getcwd, for the reply, does not fail on this system.)
DoMkd(s, arg) ==
    LET p == Resolve(arg)
    IN  /\ Len(p) <= MaxDepth
        /\ NamedCommand(s, p \notin Nodes /\ Parent(p) \in dirs,
                        dirs \cup {p}, files)

\* do_rmd: neither a directory with entries nor the working directory.
DoRmd(s, arg) ==
    LET p == Resolve(arg)
    IN  NamedCommand(s, p \in dirs \ {Root, cwd} /\ Children(p) = {},
                     dirs \ {p}, files)

\* do_dele: not a file that is open.
DoDele(s, arg) ==
    LET p == Resolve(arg)
    IN  NamedCommand(s, p \in files \ Opened, dirs, files \ {p})

\* Mutant: a second RNFR does not replace the name of the first.
DoRnfr_KeepsFirst(s, arg) ==
    /\ AtOnce(s)
    /\ rnfr' = [rnfr EXCEPT ![s] = IF @ = NoArg THEN arg ELSE @]
    /\ from' = [from EXCEPT ![s] = Meant(s, arg)]
    /\ SamePlace /\ SameTree

\* do_rnfr keeps the name as it came, whether there is such a file or not.
DoRnfr(s, arg) ==
    /\ AtOnce(s)
    /\ rnfr' = [rnfr EXCEPT ![s] = arg]
    /\ from' = [from EXCEPT ![s] = Meant(s, arg)]
    /\ SamePlace /\ SameTree

\* rename moves p, and what is below it, to q.  It replaces nothing, and
\* moves neither the working directory nor an open file.
CanRename(p, q) ==
    /\ p \in Nodes \ {Root} /\ q \notin Nodes /\ Parent(q) \in dirs
    /\ ~IsPrefix(p, q)
    /\ \A x \in Opened \cup {cwd} : ~IsPrefix(p, x)
Renamed(S, p, q) ==
    {IF IsPrefix(p, x) THEN q \o SubSeq(x, Len(p) + 1, Len(x)) ELSE x : x \in S}

\* do_rnto: the name of RNFR is resolved now, and is forgotten only after a
\* success.
DoRnto(s, arg) ==
    LET p == Resolve(rnfr[s])
        q == Resolve(arg)
    IN  /\ AtOnce(s) /\ SamePlace
        /\ \/ rnfr[s] = NoArg /\ SameTree /\ UNCHANGED renameVars
           \/ /\ rnfr[s] # NoArg /\ ~CanRename(p, q)
              /\ SameTree /\ UNCHANGED renameVars
           \/ /\ rnfr[s] # NoArg /\ CanRename(p, q)
              /\ Renamed(Nodes, p, q) \subseteq Paths
              /\ Tree(Renamed(dirs, p, q), Renamed(files, p, q))
              /\ rnfr' = [rnfr EXCEPT ![s] = NoArg]
              /\ from' = [from EXCEPT ![s] = NoPath]

-----------------------------------------------------------------------------
\* What the data commands leave alone.
DataFrame == SamePlace /\ UNCHANGED renameVars

\* RETR, STOR and LIST wait for their data connection first ...
DataCommand(s, c, arg) ==
    /\ pc[s] = "idle"
    /\ pc' = [pc EXCEPT ![s] = "get"]
    /\ job' = [job EXCEPT ![s] = [cmd |-> c, arg |-> arg,
                                  named |-> Meant(s, arg), used |-> NoPath]]
    /\ DataFrame /\ SameTree /\ NoListing

Retr(s, arg) == DataCommand(s, "RETR", arg)
Stor(s, arg) == DataCommand(s, "STOR", arg)
List(s) ==
    /\ Cardinality({t \in Sessions : job[t].cmd = "LIST"}) < MaxListings
    /\ DataCommand(s, "LIST", [abs |-> FALSE, names |-> Root])

\* ... and are over, or go on with what they have opened.
Ends(s) == /\ pc' = [pc EXCEPT ![s] = "idle"]
           /\ job' = [job EXCEPT ![s] = NoJob]
Opens(s, where, p) == /\ pc' = [pc EXCEPT ![s] = where]
                      /\ job' = [job EXCEPT ![s].used = p]
        
\* There is no data connection.
NoConnection(s) ==
    /\ pc[s] = "get" /\ Ends(s)
    /\ DataFrame /\ SameTree /\ NoListing

\* download_file and upload_file look for the file only now.  Here it stays
\* open until its data is through.
OpenDownload(s) ==
    LET p == Resolve(job[s].arg)
    IN  /\ pc[s] = "get" /\ job[s].cmd = "RETR"
        /\ IF p \in files THEN Opens(s, "data", p) ELSE Ends(s)
        /\ DataFrame /\ SameTree /\ NoListing

OpenUpload(s) ==
    LET p == Resolve(job[s].arg)
        possible == p \notin dirs /\ Parent(p) \in dirs
    IN  /\ pc[s] = "get" /\ job[s].cmd = "STOR"
        /\ DataFrame /\ NoListing
        /\ \/ /\ possible /\ Len(p) <= MaxDepth
              /\ Opens(s, "data", p) /\ Tree(dirs, files \cup {p})
           \/ ~possible /\ Ends(s) /\ SameTree

EndData(s) ==
    /\ pc[s] = "data" /\ Ends(s)
    /\ DataFrame /\ SameTree /\ NoListing

\* What FindNextFileA will return, if it was opened in d: FindFirstFileA has
\* taken, and opendir drops, "." in a directory, but in the root, which has
\* no ".", the first entry.
StartsIn(s, d) ==
    /\ Opens(s, "list", d)
    /\ \E dropped \in IF d = Root THEN Children(d) ELSE {d} :
          todo' = [todo EXCEPT ![s] = {p[Len(p)] : p \in Children(d) \ {dropped}}]
    /\ leaked' = 0

\* Mutant: the first entry is dropped everywhere.
OpenDir_LosesAnEntry(s) ==
    /\ pc[s] = "get" /\ job[s].cmd = "LIST"
    /\ Opens(s, "list", cwd)
    /\ \E dropped \in Children(cwd) :
          todo' = [todo EXCEPT ![s] =
                      {p[Len(p)] : p \in Children(cwd) \ {dropped}}]
    /\ leaked' = 0 /\ DataFrame /\ SameTree /\ UNCHANGED <<listed, failed>>

\* opendir(".").  Without memory for what it returns, it leaves its search
\* handle open; LIST sends nothing and reports success, as it does when
\* FindFirstFileA fails.
OpenDir(s) ==
    /\ pc[s] = "get" /\ job[s].cmd = "LIST"
    /\ \/ StartsIn(s, cwd)
       \/ "find" \in Faults /\ Ends(s) /\ leaked' = 0 /\ UNCHANGED todo
       \/ "malloc" \in Faults /\ Ends(s) /\ leaked' = 1 /\ UNCHANGED todo
    /\ DataFrame /\ SameTree /\ UNCHANGED <<listed, failed>>

\* A listing is over, complete or not: trans_list reports success.
Listed(s) ==
    /\ Ends(s)
    /\ listed' = [listed EXCEPT ![s] = {}]
    /\ todo' = [todo EXCEPT ![s] = {}]
    /\ failed' = [failed EXCEPT ![s] = FALSE]

\* trans_list_common: the attributes of the next entry are asked for by its
\* name alone, logged and sent.  What writes returns is not looked at.  (On an
\* aborted connection it does not return, and the session takes no step more.)
NextEntry(s) ==
    /\ pc[s] = "list"
    /\ \E name \in todo[s] :
          /\ Append(cwd, name) \in Nodes
          /\ todo' = [todo EXCEPT ![s] = @ \ {name}]
          /\ \/ /\ listed' = [listed EXCEPT ![s] = @ \cup {Append(cwd, name)}]
                /\ UNCHANGED failed
             \/ /\ "send" \in Faults
                /\ failed' = [failed EXCEPT ![s] = TRUE]
                /\ UNCHANGED listed
    /\ leaked' = 0 /\ UNCHANGED <<pc, job>> /\ DataFrame /\ SameTree

\* If there are none, the listing stops and its search handle stays open.
StopHalfway(s) ==
    /\ pc[s] = "list"
    /\ \E name \in todo[s] : Append(cwd, name) \notin Nodes
    /\ leaked' = 1
    /\ Listed(s)
    /\ DataFrame /\ SameTree

\* readdir cannot tell a failing FindNextFileA, or the want of memory for an
\* entry, from the end of the directory.
ReadFails(s) ==
    /\ pc[s] = "list" /\ todo[s] # {}
    /\ {"find", "malloc"} \cap Faults # {}
    /\ todo' = [todo EXCEPT ![s] = {}]
    /\ failed' = [failed EXCEPT ![s] = TRUE]
    /\ leaked' = 0 /\ UNCHANGED <<pc, job, listed>> /\ DataFrame /\ SameTree

\* Mutant: the search handle of a complete listing is not closed.
EndList_NoClose(s) ==
    /\ pc[s] = "list" /\ todo[s] = {}
    /\ leaked' = 1
    /\ Listed(s)
    /\ DataFrame /\ SameTree

\* No entry is left: closedir.
EndList(s) ==
    /\ pc[s] = "list" /\ todo[s] = {}
    /\ Listed(s)
    /\ leaked' = 0 /\ DataFrame /\ SameTree

-----------------------------------------------------------------------------
Directory(s) == \/ \E arg \in Args, slash \in BOOLEAN : DoCwd(s, arg, slash)
                \/ DoCdup(s) \/ DoPwd(s) \/ Login(s)
Named(s) == \E arg \in Args :
                \/ DoMkd(s, arg) \/ DoRmd(s, arg) \/ DoDele(s, arg)
                \/ DoRnfr(s, arg) \/ DoRnto(s, arg)
                \/ Retr(s, arg) \/ Stor(s, arg)
Data(s) == \/ List(s) \/ NoConnection(s)
           \/ OpenDownload(s) \/ OpenUpload(s) \/ EndData(s)
           \/ OpenDir(s) \/ NextEntry(s) \/ StopHalfway(s) \/ ReadFails(s)
           \/ EndList(s)

Next == \E s \in Sessions : Directory(s) \/ Named(s) \/ Data(s)

Spec == Init /\ [][Next]_vars

-----------------------------------------------------------------------------
(***************************************************************************)
(* Properties.                                                             *)
(***************************************************************************)

\* Types, and: the tree is one, the process is in a directory that exists and
\* has a log, and an open file is there.
TypeOK ==
    /\ dirs \subseteq Paths /\ files \subseteq Paths \ {Root}
    /\ dirs \cap files = {} /\ Root \in dirs
    /\ \A p \in Nodes : Parent(p) \in dirs
    /\ cwd \in dirs /\ InLog(cwd) \in Nodes
    /\ Opened \subseteq files
    /\ rnfr \in [Sessions -> Args \cup {NoArg}]
    /\ pc \in [Sessions -> {"idle", "get", "data", "list"}]
    /\ todo \in [Sessions -> SUBSET Names]
    /\ listed \in [Sessions -> SUBSET Paths]
    /\ leaked \in 0..1

\* A file sent or stored is the one that the argument meant to the client
\* when its command came, although it is opened only after the data connection
\* is made, unless another session has changed the directory of the process
\* since the client's last CWD, or the client has named one as "/a/", which
\* do_cwd takes for "a".
OpensWhatWasMeant ==
    [][ \A s \in Sessions :
            pc[s] = "get" /\ pc'[s] = "data" /\ believed[s] # Unknown =>
                job'[s].used = job[s].named ]_vars

\* What RNTO moves away is what the argument of the last RNFR named, although
\* that argument is resolved only now, unless the directory has been changed
\* in between; and a name serves for one RNTO.
RenamesWhatWasNamed ==
    [][ \A p \in Nodes \ Nodes' :
            Cardinality(Nodes') = Cardinality(Nodes) =>
                \E s \in Sessions :
                    /\ rnfr[s] # NoArg /\ rnfr'[s] = NoArg
                    /\ from[s] = Unknown \/ IsPrefix(from[s], p)
      ]_vars

\* A listing that was opened and is reported complete (226) names nothing that
\* is not in the directory it was opened in, leaves no search handle open, and,
\* unless a send or readdir failed, holds every entry, less one if that is the
\* root: unless the tree or the directory was changed while it was read.  Then
\* trans_list_common may stop halfway, or send the attributes of other files.
\* It reports success all the same, as it does when a call failed.
ListingIsTrue ==
    [][ \A s \in Sessions :
            pc[s] = "list" /\ pc'[s] = "idle" /\ ~changed[s] =>
                /\ listed[s] \subseteq Children(cwd)
                /\ ~failed[s] =>
                       Cardinality(listed[s]) =
                           Cardinality(Children(cwd)) - (IF cwd = Root THEN 1 ELSE 0)
                /\ leaked' = 0 ]_vars
=============================================================================
