----------------------------- MODULE FsWatcher -----------------------------
(***************************************************************************)
(* The file watcher of a recording on Linux (src/lib/fs_watcher.rs).  Its  *)
(* thread puts an inotify watch on every directory of the workspace, then  *)
(* reads the event queue every 100ms: it translates events to entries of   *)
(* the session's log and watches the directories it hears of.  All the     *)
(* while the agent makes, renames and removes directories and files.       *)
(*                                                                         *)
(* A directory is an inode; its path is a sequence of names that changes   *)
(* when it, or one it is in, is renamed.  A watch belongs to an inode, and *)
(* the code remembers for it the path at which it was added.  The kernel   *)
(* may refuse a watch or a listing; the watcher goes on without.           *)
(***************************************************************************)
EXTENDS Naturals, Sequences, FiniteSets

CONSTANTS Dirs,       \* directories, those to be made included
          Root,       \* the workspace
          Names,      \* names a directory can have
          FileNames,  \* names a file can have
          Lossy,      \* to_string_lossy of a name: another one if not UTF-8
          Paths,      \* paths of directories, from the workspace on
          Trees,      \* workspaces a run may start with: paths of directories
          Excluded,   \* paths should_exclude holds of, by their text
          Limit,      \* fs.inotify.max_queued_events
          MaxActs     \* what the agent does and the kernel refuses (bounds the
                      \* model)

ASSUME WatcherAssumption ==
    /\ Root \in Dirs
    /\ Names \cap FileNames = {}
    /\ Lossy \in [Names \cup FileNames -> Names \cup FileNames]
    /\ Paths \subseteq Seq(Names) /\ <<>> \in Paths
    /\ Limit \in Nat /\ MaxActs \in Nat
    /\ \A t \in Trees :
          /\ t \in [DOMAIN t -> Paths] /\ DOMAIN t \subseteq Dirs
          /\ Root \in DOMAIN t /\ t[Root] = <<>>
          /\ \A x, y \in DOMAIN t : t[x] = t[y] => x = y

VARIABLES
    live, born,   \* the directories that exist, and that ever did
    path,         \* of each directory: its path, the last one if it is gone
    files,        \* files: the directory they are in, and their name
    acts,         \* how much the agent did and the kernel refused
    clock,        \* how many events somebody heard of
    queue,        \* kernel: events that were not read yet
    overflow,     \* history: an event found the queue full
    moved,        \* history: directories whose path has changed,
    refused,      \* history: and that the watcher was kept from
    owed,         \* history: queued changes that are to be logged
    wPc,          \* where the watcher thread is
    todo, at,     \* paths it has yet to visit, and the one it is to list
    wds, wdPath,  \* wd_to_path: what is watched, and under which path
    batch,        \* events it has read and has yet to handle
    log, reads,   \* events and read_paths, shared with the main thread
    mainPc        \* whether the main thread has told it to stop, and joined it

treeVars == <<live, born, path, files>>
queueVars == <<clock, queue, overflow, owed>>
watcherVars == <<wPc, todo, at, wds, wdPath, batch, log, reads>>
agentVars == <<treeVars, moved>>
refusalVars == <<acts, refused>>
vars == <<agentVars, refusalVars, queueVars, watcherVars, mainPc>>

Logged == {"CREATE", "MODIFY", "DELETE"}
Kinds == Logged \cup {"MOVED_FROM", "MOVED_TO", "ACCESS"}
Entries == Names \cup FileNames
EntryPaths == Seq(Entries)
Event == [n : Nat, wd : Dirs, kind : Kinds, name : Entries, real : EntryPaths]
Line ==
    [n : Nat, wd : Dirs, kind : Logged, path : EntryPaths, real : EntryPaths]

TypeOK ==
    /\ live \subseteq born /\ born \subseteq Dirs
    /\ path \in [Dirs -> Paths]
    /\ files \subseteq live \X FileNames
    /\ acts \in Nat /\ clock \in Nat
    /\ queue \subseteq Event /\ batch \subseteq Event
    /\ overflow \in BOOLEAN
    /\ moved \subseteq Dirs /\ refused \subseteq Dirs
    /\ owed \subseteq Nat \X Dirs
    /\ wPc \in {"start", "walk", "list", "handle", "loop", "done"}
    /\ todo \subseteq EntryPaths /\ at \in EntryPaths
    /\ wds \subseteq born
    /\ wdPath \in [Dirs -> EntryPaths]
    /\ log \in Seq(Line)
    /\ reads \subseteq EntryPaths
    /\ mainPc \in {"run", "stop", "joined"}

\* FsWatcher::start: the thread is spawned, and the run goes on at once.
Init ==
    /\ \E t \in Trees :
        /\ live = DOMAIN t /\ born = DOMAIN t
        /\ path = [x \in Dirs |-> IF x \in DOMAIN t THEN t[x] ELSE <<>>]
    /\ files = {}
    /\ acts = 0 /\ moved = {} /\ refused = {}
    /\ clock = 0 /\ queue = {} /\ overflow = FALSE /\ owed = {}
    /\ wPc = "start" /\ todo = {} /\ at = <<>>
    /\ wds = {} /\ wdPath = [x \in Dirs |-> <<>>]
    /\ batch = {} /\ log = <<>> /\ reads = {}
    /\ mainPc = "run"

(***************************************************************************)
(* The kernel: what happens in a watched directory goes to the queue, or   *)
(* is lost when that is full.                                              *)
(***************************************************************************)

\* The i-th event of a step: something of this kind happened to d's entry, at
\* a real path, as far as that can be written down as text.
Happened(i, kind, d, name) ==
    [n |-> clock + i, wd |-> d, kind |-> kind, name |-> name,
     real |-> Append(path[d], Lossy[name])]

\* An event like the last one in the queue is merged with it.
Merged(e) ==
    \E g \in queue :
        /\ <<g.wd, g.kind, g.name>> = <<e.wd, e.kind, e.name>>
        /\ \A h \in queue : h.n <= g.n

Heard(S) == {e \in S : e.wd \in wds \cap live /\ ~Merged(e)}
Kept(S) == {e \in Heard(S) :
               Cardinality({g \in queue \cup Heard(S) : g.n < e.n}) < Limit}

Post(S, steps) ==
    /\ clock' = IF Heard(S) = {} THEN clock ELSE clock + steps
    /\ queue' = queue \cup Kept(S)
    /\ overflow' = (overflow \/ Kept(S) # Heard(S))
    /\ owed' = owed \cup
         {<<e.n, e.wd>> :
             e \in {g \in Kept(S) :
                      g.kind \in Logged /\ g.real \notin Excluded}}

(***************************************************************************)
(* The agent.                                                              *)
(***************************************************************************)

At(p) == {x \in live : path[x] = p}
NoTwoAt == \A x, y \in live : path[x] = path[y] => x = y
Below(x) == {y \in live : Len(path[y]) >= Len(path[x])
                            /\ SubSeq(path[y], 1, Len(path[x])) = path[x]}

MakeDir(x, d, name) ==
    /\ x \notin born /\ d \in live
    /\ Append(path[d], name) \in Paths /\ At(Append(path[d], name)) = {}
    /\ live' = live \cup {x} /\ born' = born \cup {x}
    /\ path' = [path EXCEPT ![x] = Append(path[d], name)]
    /\ Post({Happened(1, "CREATE", d, name)}, 1)
    /\ UNCHANGED <<files, moved>>

RemoveDir(x, d, name) ==
    /\ x \in live \ {Root} /\ d \in live /\ path[x] = Append(path[d], name)
    /\ Below(x) = {x} /\ \A f \in FileNames : <<x, f>> \notin files
    /\ live' = live \ {x}
    /\ Post({Happened(1, "DELETE", d, name)}, 1)
    /\ UNCHANGED <<born, path, files, moved>>

\* rename(2): everything below comes along.  (The last conjunct says that the
\* outcome is a tree again; it excludes nothing.)
RenameDir(x, from, name, to, newName) ==
    /\ x \in live \ {Root} /\ from \in live
    /\ path[x] = Append(path[from], name)
    /\ to \in live \ Below(x) /\ At(Append(path[to], newName)) = {}
    /\ path' = [y \in Dirs |->
                  IF y \in Below(x)
                  THEN Append(path[to], newName)
                         \o SubSeq(path[y], Len(path[x]) + 1, Len(path[y]))
                  ELSE path[y]]
    /\ path' \in [Dirs -> Paths]
    /\ moved' = moved \cup Below(x)
    /\ Post({Happened(1, "MOVED_FROM", from, name),
             Happened(2, "MOVED_TO", to, newName)}, 2)
    /\ UNCHANGED <<live, born, files>>
    /\ NoTwoAt'

CreateFile(d, f) ==
    /\ d \in live /\ <<d, f>> \notin files
    /\ files' = files \cup {<<d, f>>}
    /\ Post({Happened(1, "CREATE", d, f)}, 1)
    /\ UNCHANGED <<live, born, path, moved>>

DeleteFile(d, f) ==
    /\ <<d, f>> \in files
    /\ files' = files \ {<<d, f>>}
    /\ Post({Happened(1, "DELETE", d, f)}, 1)
    /\ UNCHANGED <<live, born, path, moved>>

UseFile(d, f) ==
    /\ <<d, f>> \in files
    /\ \E kind \in {"MODIFY", "ACCESS"} : Post({Happened(1, kind, d, f)}, 1)
    /\ UNCHANGED <<treeVars, moved>>

MoveFile(d, f, to, g) ==
    /\ <<d, f>> \in files /\ to \in live /\ <<d, f>> # <<to, g>>
    /\ files' = (files \ {<<d, f>>}) \cup {<<to, g>>}
    /\ Post({Happened(1, "MOVED_FROM", d, f),
             Happened(2, "MOVED_TO", to, g)}, 2)
    /\ UNCHANGED <<live, born, path, moved>>

\* It may outlive the run: background jobs go on.
Agent ==
    /\ acts < MaxActs /\ acts' = acts + 1
    /\ \/ \E x, d, to \in Dirs, n, m \in Names :
            \/ MakeDir(x, d, n) \/ RemoveDir(x, d, n)
            \/ RenameDir(x, d, n, to, m)
       \/ \E d, to \in Dirs, f, g \in FileNames :
            \/ CreateFile(d, f) \/ DeleteFile(d, f) \/ UseFile(d, f)
            \/ MoveFile(d, f, to, g)
    /\ UNCHANGED <<refused, watcherVars, mainPc>>

(***************************************************************************)
(* add_watches_recursive.  The order in which it comes by directories is   *)
(* that of read_dir, which is no order.  The kernel may refuse: there may  *)
(* be no more inotify instances or watches, or no permission.              *)
(***************************************************************************)

Refuse(S) ==
    acts < MaxActs /\ acts' = acts + 1 /\ refused' = refused \cup S

StartWatching ==
    /\ wPc = "start"
    /\ \/ wPc' = "walk" /\ todo' = {<<>>} /\ UNCHANGED refusalVars
       \/ wPc' = "done" /\ Refuse(Dirs) /\ UNCHANGED todo
    /\ UNCHANGED <<agentVars, queueVars, at, wds, wdPath, batch, log, reads,
                   mainPc>>

\* What cannot be watched is listed nevertheless.
AddWatch ==
    /\ wPc = "walk"
    /\ \E p \in todo :
        /\ todo' = todo \ {p}
        /\ \/ p \in Excluded /\ UNCHANGED <<wPc, at, wds, wdPath, refusalVars>>
           \/ /\ p \notin Excluded /\ wPc' = "list" /\ at' = p
              /\ \/ /\ wds' = wds \cup At(p)
                    /\ wdPath' =
                         [x \in Dirs |-> IF x \in At(p) THEN p ELSE wdPath[x]]
                    /\ UNCHANGED refusalVars
                 \/ At(p) # {} /\ Refuse(At(p)) /\ UNCHANGED <<wds, wdPath>>
    /\ UNCHANGED <<agentVars, queueVars, batch, log, reads, mainPc>>

Subdirs(p) == {q \in Paths : At(q) # {} /\ \E n \in Names : q = Append(p, n)}

\* Listing a directory is an access to it, of which the watch of the directory
\* it is in hears.
Listed(p) ==
    {Happened(1, "ACCESS", d[1], d[2]) :
        d \in {c \in live \X Names : Append(path[c[1]], c[2]) = p}}

\* Slip: an excluded directory ends the listing.
ListUntilExcluded ==
    /\ wPc = "list"
    /\ todo' = IF Subdirs(at) \cap Excluded = {} THEN todo \cup Subdirs(at)
                                               ELSE todo
    /\ wPc' = "walk"
    /\ UNCHANGED <<agentVars, refusalVars, queueVars, at, wds, wdPath, batch,
                   log, reads, mainPc>>

\* The directory is gone; or it is listed; or that fails, or fails to tell that
\* its entries are directories.
ListDir ==
    /\ wPc = "list"
    /\ \/ At(at) = {} /\ UNCHANGED <<todo, queueVars, refusalVars>>
       \/ /\ At(at) # {}
          /\ todo' = todo \cup (Subdirs(at) \ Excluded)
          /\ Post(Listed(at), 1) /\ UNCHANGED refusalVars
       \/ /\ At(at) # {}
          /\ Refuse({x \in live : path[x] \in Subdirs(at)})
          /\ Post(Listed(at), 1) \/ UNCHANGED queueVars
          /\ UNCHANGED todo
    /\ wPc' = "walk"
    /\ UNCHANGED <<agentVars, at, wds, wdPath, batch, log, reads, mainPc>>

WalkDone ==
    /\ wPc = "walk" /\ todo = {}
    /\ wPc' = "handle"
    /\ UNCHANGED <<agentVars, refusalVars, queueVars, todo, at, wds, wdPath,
                   batch, log, reads, mainPc>>

(***************************************************************************)
(* The loop of run_inotify_watcher.                                        *)
(***************************************************************************)

\* Slip: a read that waits for events, and the flag seen only after one.
BlockingStops ==
    /\ wPc = "loop" /\ mainPc # "run" /\ queue # {}
    /\ wPc' = "done"
    /\ UNCHANGED <<agentVars, refusalVars, queueVars, todo, at, wds, wdPath,
                   batch, log, reads, mainPc>>

Stops ==
    /\ wPc = "loop" /\ mainPc # "run"
    /\ wPc' = "done"
    /\ UNCHANGED <<agentVars, refusalVars, queueVars, todo, at, wds, wdPath,
                   batch, log, reads, mainPc>>

\* read_events: the oldest events, as many as the buffer takes.  The check for
\* a stop and the read are one step: nothing the watcher does is in between.
ReadEvents ==
    /\ wPc = "loop" /\ mainPc = "run"
    /\ \E last \in queue : batch' = {e \in queue : e.n <= last.n}
    /\ queue' = queue \ batch'
    /\ wPc' = "handle"
    /\ UNCHANGED <<agentVars, refusalVars, clock, overflow, owed, todo, at,
                   wds, wdPath, log, reads, mainPc>>

\* Slip: the path is taken for one in the workspace itself.
PathInRoot(e) == Append(wdPath[Root], e.name)

PathOf(e) == Append(wdPath[e.wd], Lossy[e.name])

NewLine(e) == [n |-> e.n, wd |-> e.wd, kind |-> e.kind, path |-> PathOf(e),
               real |-> e.real]

\* Slip: the events of a batch are gone through in no order.
HandleAnyOf(e) ==
    /\ wPc = "handle" /\ e \in batch
    /\ batch' = batch \ {e}
    /\ log' = IF e.kind \in Logged /\ PathOf(e) \notin Excluded
              THEN Append(log, NewLine(e)) ELSE log
    /\ UNCHANGED <<agentVars, refusalVars, queueVars, wPc, todo, at, wds,
                   wdPath, reads, mainPc>>

\* Slip: whatever is no access makes a line, moves too.
HandleMoves(e) ==
    /\ wPc = "handle"
    /\ e \in batch /\ \A g \in batch : e.n <= g.n
    /\ batch' = batch \ {e}
    /\ log' = IF e.kind = "ACCESS" THEN log ELSE Append(log, NewLine(e))
    /\ UNCHANGED <<agentVars, refusalVars, queueVars, wPc, todo, at, wds,
                   wdPath, reads, mainPc>>

\* Slip: a new directory gets its watch, but is not listed.
HandleUnlisted(e) ==
    /\ wPc = "handle"
    /\ e \in batch /\ \A g \in batch : e.n <= g.n
    /\ batch' = batch \ {e}
    /\ LET new == IF e.kind = "CREATE" THEN At(PathOf(e)) ELSE {}
       IN  /\ wds' = wds \cup new
           /\ wdPath' = [x \in Dirs |-> IF x \in new THEN PathOf(e)
                                        ELSE wdPath[x]]
    /\ UNCHANGED <<agentVars, refusalVars, queueVars, wPc, todo, at, log,
                   reads, mainPc>>

\* Slip: done with an event once its directory is watched.
HandleNoLine(e) ==
    /\ wPc = "handle"
    /\ e \in batch /\ \A g \in batch : e.n <= g.n
    /\ batch' = batch \ {e}
    /\ IF e.kind = "CREATE" /\ e.name \in Names
       THEN wPc' = "walk" /\ todo' = {PathOf(e)} /\ UNCHANGED log
       ELSE log' = Append(log, NewLine(e)) /\ UNCHANGED <<wPc, todo>>
    /\ UNCHANGED <<agentVars, refusalVars, queueVars, at, wds, wdPath, reads,
                   mainPc>>

\* One event of the batch: nothing if its path is excluded, else a directory to
\* watch and a line for the log, or a path that was read.  Moves are ignored.
\* A directory whose name is not UTF-8 is looked for under another name.
Handle(e) ==
    /\ wPc = "handle"
    /\ e \in batch /\ \A g \in batch : e.n <= g.n
    /\ batch' = batch \ {e}
    /\ IF PathOf(e) \in Excluded
       THEN UNCHANGED <<wPc, todo, log, reads>>
       ELSE /\ IF e.kind = "CREATE" /\ e.name \in Names
               THEN wPc' = "walk" /\ todo' = {PathOf(e)}
               ELSE UNCHANGED <<wPc, todo>>
            /\ log' = IF e.kind \in Logged THEN Append(log, NewLine(e))
                                           ELSE log
            /\ reads' = IF e.kind = "ACCESS" THEN reads \cup {PathOf(e)}
                                             ELSE reads
    /\ UNCHANGED <<agentVars, refusalVars, queueVars, at, wds, wdPath, mainPc>>

BatchDone ==
    /\ wPc = "handle" /\ batch = {}
    /\ wPc' = "loop"
    /\ UNCHANGED <<agentVars, refusalVars, queueVars, todo, at, wds, wdPath,
                   batch, log, reads, mainPc>>

Watcher ==
    \/ StartWatching \/ AddWatch \/ ListDir \/ WalkDone \/ Stops \/ ReadEvents
    \/ \E e \in batch : Handle(e)
    \/ BatchDone

(***************************************************************************)
(* FsWatcher::stop, called when the agent has exited.                      *)
(***************************************************************************)

TellToStop ==
    /\ mainPc = "run" /\ mainPc' = "stop"
    /\ UNCHANGED <<agentVars, refusalVars, queueVars, watcherVars>>

Join ==
    /\ mainPc = "stop" /\ wPc = "done" /\ mainPc' = "joined"
    /\ UNCHANGED <<agentVars, refusalVars, queueVars, watcherVars>>

\* The session goes on to be saved; what the agent left behind may go on.
Terminated == mainPc = "joined" /\ UNCHANGED vars

Next == Agent \/ Watcher \/ TellToStop \/ Join \/ Terminated

Fairness == WF_vars(Watcher) /\ WF_vars(Join)

Spec == Init /\ [][Next]_vars /\ Fairness

(***************************************************************************)
(* Properties.                                                             *)
(***************************************************************************)

\* A directory that appears in a watched one is watched as well, or the way to
\* it is known: it is on the list of the walk, its parent has yet to be listed,
\* or its creation has yet to be handled.  The watch is added before the
\* directory is listed (fs_watcher.rs:285-297), and one that is announced is
\* listed too (:233-239), so that nothing appears in between unnoticed.  What
\* moved, what an overflow lost, what the kernel refused and names that are not
\* UTF-8 are beyond it; so are files, which no walk looks for.
Pending(x, d) ==
    \/ path[x] \in todo
    \/ wPc = "list" /\ at = path[d]
    \/ \E e \in batch \cup queue :
          e.wd = d /\ e.kind = "CREATE" /\ path[x] = Append(path[d], e.name)

Utf8(n) == Lossy[n] = n

Covered ==
    overflow \/
    \A d \in wds \cap live, x \in live \ refused :
        (/\ \E n \in Names : Utf8(n) /\ path[x] = Append(path[d], n)
         /\ {d, x} \cap moved = {} /\ path[x] \notin Excluded)
            => x \in wds \/ Pending(x, d)

\* What the log says of a directory that never moved is what happened: the path
\* of a line is where the entry was at the time of the event, however late the
\* line was written (fs_watcher.rs:222-228), but with replacement characters in
\* the entry's name if that is not UTF-8.
LogIsTrue ==
    \A i \in DOMAIN log : log[i].wd \notin moved => log[i].path = log[i].real

\* The lines are in the order of the events ("provides event ordering
\* information", DESIGN.md:65), through reads, batches and walks.
InOrder ==
    \A i, j \in DOMAIN log : i < j => log[i].n < log[j].n

\* A change that made it to the queue is in the log or on its way there: it
\* gets lost only when the watcher is told to stop, and in directories that
\* moved (they may be taken for excluded ones, or excluded ones for them).
NothingSkipped ==
    \A o \in owed :
        \/ o[2] \in moved
        \/ \E i \in DOMAIN log : log[i].n = o[1]
        \/ \E e \in batch \cup queue : e.n = o[1]

\* A directory that stays is watched in the end, however deep it was made, if
\* nothing on the way to it is excluded or moves, was refused by the kernel or
\* has a name that is not UTF-8.
Above(x) == {y \in live : x \in Below(y)}

Reachable(x) ==
    /\ x \in live
    /\ \A i \in DOMAIN path[x] : Utf8(path[x][i])
    /\ \A y \in Above(x) :
          y \notin moved \cup refused /\ path[y] \notin Excluded

DirsGetWatched ==
    \A x \in Dirs : Reachable(x) ~>
        (x \in wds \/ ~Reachable(x) \/ overflow \/ mainPc # "run")

\* A watcher that is told to stop does: join() at the end of a run returns,
\* whatever is in the queue (the comment at fs_watcher.rs:193).
WatcherStops == (mainPc = "stop") ~> (mainPc = "joined")
=============================================================================
