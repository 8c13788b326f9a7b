--------------------------- MODULE FsWatcherProofs ---------------------------
(***************************************************************************)
(* Theorems of FsWatcher, for all directories, names, trees, patterns and  *)
(* queue lengths.                                                          *)
(***************************************************************************)
EXTENDS FsWatcher, SequenceTheorems, TLAPS

LEMMA Constants ==
    /\ Root \in Dirs
    /\ Paths \subseteq Seq(Names) /\ <<>> \in Paths
    /\ MaxActs \in Nat
    /\ Lossy \in [Entries -> Entries]
BY WatcherAssumption DEF Entries

(***************************************************************************)
(* Paths.                                                                  *)
(***************************************************************************)

LEMMA AppendIsLonger ==
    ASSUME NEW S, NEW s \in Seq(S), NEW a \in S
    PROVE  Append(s, a) # s
  BY AppendProperties, LenProperties

LEMMA PathsAreSeqs ==
    /\ \A p \in Paths : p \in EntryPaths
    /\ \A p \in EntryPaths, e \in Entries : Append(p, e) \in EntryPaths
  BY Constants, SeqMonotonic, AppendProperties DEF EntryPaths, Entries

LEMMA SameEntry ==
    ASSUME NEW s \in EntryPaths, NEW t \in EntryPaths,
           NEW a \in Entries, NEW b \in Entries, Append(s, a) = Append(t, b)
    PROVE  s = t /\ a = b
BY AppendInjective DEF EntryPaths

\* The last name of a directory's path is a directory's.
LEMMA NameOfDir ==
    ASSUME NEW p \in Paths, NEW s \in EntryPaths, NEW e \in Entries,
           p = Append(s, e)
    PROVE  e \in Names
<1>1. Len(p) = Len(s) + 1 /\ p[Len(s) + 1] = e /\ Len(s) \in Nat
  BY AppendProperties, LenProperties DEF EntryPaths
<1>2. p \in Seq(Names)
  BY Constants
<1> QED
  BY <1>1, <1>2, ElementOfSeq

(***************************************************************************)
(* The kernel's queue.                                                     *)
(***************************************************************************)

\* A step's events: numbered, each with the path it happened at.
Fresh(S, steps) ==
    /\ S \subseteq Event /\ steps \in Nat
    /\ \A e \in S : /\ clock < e.n /\ e.n <= clock + steps
                    /\ e.wd \in live
                    /\ e.real = Append(path[e.wd], Lossy[e.name])
    /\ \A e, g \in S : e.n = g.n => e = g

LEMMA HappenedIsEvent ==
    ASSUME TypeOK, NEW i \in Nat, NEW kind \in Kinds, NEW d \in live,
           NEW name \in Entries
    PROVE  /\ Happened(i, kind, d, name) \in Event
           /\ Happened(i, kind, d, name).n = clock + i
           /\ Happened(i, kind, d, name).kind = kind
           /\ Happened(i, kind, d, name).wd = d
           /\ Happened(i, kind, d, name).name = name
           /\ Happened(i, kind, d, name).real = Append(path[d], Lossy[name])
<1>1. path[d] \in EntryPaths /\ d \in Dirs /\ Lossy[name] \in Entries
  BY PathsAreSeqs, Constants DEF TypeOK
<1>2. Append(path[d], Lossy[name]) \in EntryPaths
  BY <1>1, PathsAreSeqs
<1> QED
  BY <1>1, <1>2 DEF Happened, Event, TypeOK

LEMMA PostTypes ==
    ASSUME TypeOK, NEW S, NEW steps, Fresh(S, steps), Post(S, steps)
    PROVE  /\ clock' \in Nat /\ clock' >= clock
           /\ queue' \subseteq Event
           /\ overflow' \in BOOLEAN
           /\ owed' \subseteq Nat \X Dirs
           /\ queue \subseteq queue'
           /\ queue' \subseteq queue \cup Heard(S)
           /\ overflow => overflow'
           /\ \A e \in queue' \ queue : e \in S /\ e.n <= clock' /\ e.wd \in wds
           /\ ~overflow' => Heard(S) \subseteq queue'
           /\ owed \subseteq owed'
           /\ \A o \in owed' \ owed :
                 \E e \in queue' : /\ o = <<e.n, e.wd>> /\ e.kind \in Logged
                                   /\ e.real \notin Excluded
<1>1. /\ Kept(S) \subseteq Heard(S) /\ Heard(S) \subseteq S
      /\ \A e \in Heard(S) : e.wd \in wds
  BY DEF Kept, Heard
<1>2. clock' \in Nat /\ clock' >= clock
  BY DEF Post, Fresh, TypeOK
<1>3. \A e \in Kept(S) : e.n <= clock'
  BY <1>1 DEF Post, Fresh
<1>4. \A e \in Kept(S) : e \in Event
  BY <1>1 DEF Fresh
<1>5. owed' \subseteq Nat \X Dirs
  BY <1>4 DEF Post, Event, TypeOK
<1>6. \A o \in owed' \ owed :
         \E e \in queue' : /\ o = <<e.n, e.wd>> /\ e.kind \in Logged
                           /\ e.real \notin Excluded
  BY DEF Post
<1>7. overflow' \in BOOLEAN /\ (overflow => overflow')
  BY DEF Post, TypeOK
<1>8. ~overflow' => Heard(S) \subseteq queue'
  BY DEF Post
<1>9. /\ queue' \subseteq Event /\ queue \subseteq queue'
      /\ queue' \subseteq queue \cup Heard(S)
      /\ \A e \in queue' \ queue : e \in S /\ e.n <= clock' /\ e.wd \in wds
  BY <1>1, <1>3, <1>4 DEF Post, TypeOK
<1>10. owed \subseteq owed'
  BY DEF Post
<1> QED
  BY <1>2, <1>5, <1>6, <1>7, <1>8, <1>9, <1>10

(***************************************************************************)
(* What any step of the agent comes to.                                    *)
(***************************************************************************)

\* Only directories that were never there appear, one at most, with an event;
\* of the others, those keep their path that are not among the moved ones.
TreeStep ==
    /\ born \subseteq born' /\ born' \subseteq Dirs
    /\ live' \subseteq born' /\ live' \ live \subseteq Dirs \ born
    /\ moved \subseteq moved' /\ moved' \subseteq Dirs
    /\ path' \in [Dirs -> Paths]
    /\ \A y \in born \ moved' : path'[y] = path[y]
    /\ files' \subseteq live' \X FileNames
    /\ NoTwoAt'

Announces(S) ==
    \A x \in live' \ live, d \in live, n \in Names :
        path'[x] = Append(path[d], n)
            => \E e \in S : e.wd = d /\ e.kind = "CREATE" /\ e.name = n

Posts == \E S, steps : Fresh(S, steps) /\ Post(S, steps) /\ Announces(S)

LEMMA OneEvent ==
    ASSUME TypeOK, NEW kind \in Kinds, NEW d \in live, NEW name \in Entries
    PROVE  Fresh({Happened(1, kind, d, name)}, 1)
<1> DEFINE a == Happened(1, kind, d, name)
<1>1. 1 \in Nat /\ clock \in Nat
  BY DEF TypeOK
<1>2. /\ a \in Event /\ a.n = clock + 1 /\ a.wd = d
      /\ a.real = Append(path[d], Lossy[a.name])
  BY <1>1, HappenedIsEvent
<1> HIDE DEF a
<1>3. Fresh({a}, 1)
  BY <1>1, <1>2 DEF Fresh
<1> QED
  BY <1>3 DEF a

LEMMA TwoEvents ==
    ASSUME TypeOK, NEW k1 \in Kinds, NEW d1 \in live, NEW n1 \in Entries,
           NEW k2 \in Kinds, NEW d2 \in live, NEW n2 \in Entries
    PROVE  Fresh({Happened(1, k1, d1, n1), Happened(2, k2, d2, n2)}, 2)
<1> DEFINE a == Happened(1, k1, d1, n1)
           b == Happened(2, k2, d2, n2)
<1>1. 1 \in Nat /\ 2 \in Nat /\ clock \in Nat
  BY DEF TypeOK
<1>2. /\ a \in Event /\ a.n = clock + 1 /\ a.wd = d1 /\ a.name = n1
      /\ a.real = Append(path[d1], Lossy[n1])
  BY <1>1, HappenedIsEvent
<1>3. /\ b \in Event /\ b.n = clock + 2 /\ b.wd = d2 /\ b.name = n2
      /\ b.real = Append(path[d2], Lossy[n2])
  BY <1>1, HappenedIsEvent
<1> HIDE DEF a, b
<1>4. Fresh({a, b}, 2)
  BY <1>1, <1>2, <1>3 DEF Fresh
<1> QED
  BY <1>4 DEF a, b

LEMMA MakeDirStep ==
    ASSUME TypeOK, NoTwoAt, NEW x \in Dirs, NEW d \in Dirs, NEW name \in Names,
           MakeDir(x, d, name)
    PROVE  TreeStep /\ Posts
<1> DEFINE S == {Happened(1, "CREATE", d, name)}
<1>1. /\ d \in live /\ x \notin live /\ x # d
      /\ path' = [path EXCEPT ![x] = Append(path[d], name)]
      /\ Append(path[d], name) \in Paths
      /\ path[d] \in EntryPaths
  BY PathsAreSeqs DEF MakeDir, TypeOK
<1>2. TreeStep
  <2>1. NoTwoAt'
    <3>1. /\ live' = live \cup {x} /\ path'[x] = Append(path[d], name)
          /\ \A y \in live : path'[y] = path[y] /\ path[y] # path'[x]
      BY <1>1 DEF MakeDir, At, TypeOK
    <3> QED
      BY <3>1 DEF NoTwoAt
  <2>2. path' \in [Dirs -> Paths]
    BY <1>1 DEF TypeOK
  <2> QED
    BY <1>1, <2>1, <2>2 DEF TreeStep, MakeDir, TypeOK
<1>3. Fresh(S, 1) /\ Post(S, 1)
  BY <1>1, OneEvent DEF MakeDir, Kinds, Logged, Entries
<1>4. Announces(S)
  <2>1. SUFFICES ASSUME NEW y \in live' \ live, NEW e \in live, NEW n \in Names,
                        path'[y] = Append(path[e], n)
                 PROVE  e = d /\ n = name
    BY <1>1, HappenedIsEvent DEF Announces, Kinds, Logged, Entries
  <2>2. y = x /\ path'[x] = Append(path[d], name)
    BY <1>1 DEF MakeDir, TypeOK
  <2>3. path[e] \in EntryPaths /\ n \in Entries /\ name \in Entries
    BY PathsAreSeqs DEF TypeOK, Entries
  <2>4. path[e] = path[d] /\ n = name
    BY <1>1, <2>1, <2>2, <2>3, SameEntry
  <2> QED
    BY <1>1, <2>4 DEF NoTwoAt
<1> QED
  BY <1>2, <1>3, <1>4 DEF Posts

\* The steps in which no directory appears.
LEMMA NothingAnnounced == ASSUME live' \subseteq live, NEW S PROVE Announces(S)
BY DEF Announces

LEMMA RemoveDirStep ==
    ASSUME TypeOK, NoTwoAt, NEW x \in Dirs, NEW d \in Dirs, NEW name \in Names,
           RemoveDir(x, d, name)
    PROVE  TreeStep /\ Posts
<1>1. d \in live
  BY DEF RemoveDir
<1>2. TreeStep
  BY DEF TreeStep, RemoveDir, TypeOK, NoTwoAt
<1>3. /\ Fresh({Happened(1, "DELETE", d, name)}, 1)
      /\ Post({Happened(1, "DELETE", d, name)}, 1)
  BY <1>1, OneEvent DEF RemoveDir, Kinds, Logged, Entries
<1> QED
  BY <1>2, <1>3, NothingAnnounced DEF Posts, RemoveDir

LEMMA RenameDirStep ==
    ASSUME TypeOK, NoTwoAt, NEW x \in Dirs, NEW from \in Dirs,
           NEW name \in Names, NEW to \in Dirs, NEW newName \in Names,
           RenameDir(x, from, name, to, newName)
    PROVE  TreeStep /\ Posts
<1> DEFINE S == {Happened(1, "MOVED_FROM", from, name),
                 Happened(2, "MOVED_TO", to, newName)}
<1>1. from \in live /\ to \in live /\ Below(x) \subseteq live
  BY DEF RenameDir, Below
<1>2. \A y \in Dirs \ moved' : path'[y] = path[y]
  BY DEF RenameDir
<1>3. TreeStep
  BY <1>1, <1>2 DEF TreeStep, RenameDir, TypeOK
<1>4. Fresh(S, 2) /\ Post(S, 2)
  <2>1. {"MOVED_FROM", "MOVED_TO"} \subseteq Kinds /\ Names \subseteq Entries
    BY DEF Kinds, Entries
  <2> QED
    BY <1>1, <2>1, TwoEvents DEF RenameDir
<1> QED
  BY <1>3, <1>4, NothingAnnounced DEF Posts, RenameDir

\* Files do not matter to the tree.
LEMMA FileStep ==
    ASSUME TypeOK, NoTwoAt, NEW d \in Dirs, NEW to \in Dirs,
           NEW f \in FileNames, NEW g \in FileNames,
           \/ CreateFile(d, f) \/ DeleteFile(d, f) \/ UseFile(d, f)
           \/ MoveFile(d, f, to, g)
    PROVE  TreeStep /\ Posts
<1>1. UNCHANGED <<live, born, path, moved>>
  BY DEF CreateFile, DeleteFile, UseFile, MoveFile, treeVars
<1>2. files' \subseteq live \X FileNames
  BY DEF CreateFile, DeleteFile, UseFile, MoveFile, treeVars, TypeOK
<1>3. d \in live
  BY DEF CreateFile, DeleteFile, UseFile, MoveFile, TypeOK
<1>4. TreeStep
  BY <1>1, <1>2 DEF TreeStep, TypeOK, NoTwoAt
<1>5. /\ {"CREATE", "DELETE", "MODIFY", "ACCESS", "MOVED_FROM", "MOVED_TO"}
              \subseteq Kinds
      /\ FileNames \subseteq Entries
  BY DEF Kinds, Logged, Entries
<1>6. \E S, steps : Fresh(S, steps) /\ Post(S, steps)
  <2>1. CASE MoveFile(d, f, to, g)
    <3>1. to \in live
      BY <2>1 DEF MoveFile
    <3> QED
      BY <1>3, <1>5, <2>1, <3>1, TwoEvents DEF MoveFile
  <2>2. CASE CreateFile(d, f)
    BY <1>3, <1>5, <2>2, OneEvent DEF CreateFile
  <2>3. CASE DeleteFile(d, f)
    BY <1>3, <1>5, <2>3, OneEvent DEF DeleteFile
  <2>4. CASE UseFile(d, f)
    BY <1>3, <1>5, <2>4, OneEvent DEF UseFile
  <2> QED
    BY <2>1, <2>2, <2>3, <2>4
<1> QED
  BY <1>1, <1>4, <1>6, NothingAnnounced DEF Posts

LEMMA AgentStep ==
    ASSUME TypeOK, NoTwoAt, Agent
    PROVE  TreeStep /\ Posts
BY MakeDirStep, RemoveDirStep, RenameDirStep, FileStep DEF Agent

\* Listing a directory is heard of once: there is only one at a path.
LEMMA ListingIsFresh ==
    ASSUME TypeOK, NoTwoAt, NEW p \in EntryPaths
    PROVE  Fresh(Listed(p), 1)
<1>1. \A e \in Listed(p) : \E d \in live, n \in Names :
          /\ e = Happened(1, "ACCESS", d, n) /\ p = Append(path[d], n)
          /\ e \in Event /\ e.n = clock + 1 /\ e.wd = d /\ e.name = n
          /\ e.real = Append(path[d], Lossy[n])
  <2>1. "ACCESS" \in Kinds /\ Names \subseteq Entries /\ 1 \in Nat
    BY DEF Kinds, Entries
  <2>2. \A d \in live, n \in Names :
           LET e == Happened(1, "ACCESS", d, n)
           IN  /\ e \in Event /\ e.n = clock + 1 /\ e.wd = d /\ e.name = n
               /\ e.real = Append(path[d], Lossy[n])
    BY <2>1, HappenedIsEvent
  <2>3. ASSUME NEW e \in Listed(p)
        PROVE  \E d \in live, n \in Names :
                 e = Happened(1, "ACCESS", d, n) /\ p = Append(path[d], n)
    <3>1. PICK c \in live \X Names : /\ e = Happened(1, "ACCESS", c[1], c[2])
                                     /\ Append(path[c[1]], c[2]) = p
      BY DEF Listed
    <3> QED
      BY <3>1
  <2> QED
    BY <2>2, <2>3
<1>2. ASSUME NEW e \in Listed(p), NEW g \in Listed(p)
      PROVE  e = g
  <2>1. PICK d \in live, n \in Names :
          /\ e = Happened(1, "ACCESS", d, n) /\ p = Append(path[d], n)
    BY <1>1, <1>2
  <2>2. PICK c \in live, m \in Names :
          /\ g = Happened(1, "ACCESS", c, m) /\ p = Append(path[c], m)
    BY <1>1, <1>2
  <2>3. /\ path[d] \in EntryPaths /\ path[c] \in EntryPaths
        /\ n \in Entries /\ m \in Entries
    BY PathsAreSeqs DEF TypeOK, Entries
  <2>4. path[d] = path[c] /\ n = m
    <3>1. Append(path[d], n) = Append(path[c], m)
      BY <2>1, <2>2
    <3> QED
      BY <2>3, <3>1, SameEntry
  <2> QED
    BY <2>1, <2>2, <2>4 DEF NoTwoAt
<1> QED
  BY <1>1, <1>2 DEF Fresh, TypeOK

(***************************************************************************)
(* The inductive invariant.                                                *)
(***************************************************************************)

Coming == batch \cup queue

\* What is read is handled before more is read, what is to be visited visited.
OneThingAtATime ==
    /\ wPc \notin {"walk", "list"} => todo = {}
    /\ wPc \in {"start", "loop", "done"} => batch = {}

\* Events are in order all the way to the log.
Numbered ==
    /\ \A e \in Coming : e.n <= clock /\ e.wd \in wds
    /\ \A e, g \in Coming : e.n = g.n => e = g
    /\ \A e \in batch, g \in queue : e.n < g.n
    /\ \A i \in DOMAIN log : log[i].n <= clock
    /\ \A i \in DOMAIN log, e \in Coming : log[i].n < e.n

\* What the watcher knows of paths is true of directories that did not move.
PathsKnown ==
    /\ \A d \in wds \ moved : wdPath[d] = path[d]
    /\ \A e \in Coming :
          e.wd \notin moved => e.real = Append(path[e.wd], Lossy[e.name])

\* What is owed and not logged is coming, as something to be logged.
OwedComing ==
    \A o \in owed :
        \/ o[2] \in moved
        \/ \E i \in DOMAIN log : log[i].n = o[1]
        \/ \E e \in Coming : /\ o = <<e.n, e.wd>> /\ e.kind \in Logged
                             /\ e.real \notin Excluded

IInv ==
    /\ TypeOK /\ NoTwoAt /\ OneThingAtATime
    /\ Numbered /\ InOrder
    /\ PathsKnown /\ LogIsTrue
    /\ OwedComing /\ Covered

LEMMA InitHolds == Init => IInv
<1> SUFFICES ASSUME Init PROVE IInv
  OBVIOUS
<1>1. PICK t \in Trees :
        /\ live = DOMAIN t /\ born = DOMAIN t
        /\ path = [x \in Dirs |-> IF x \in DOMAIN t THEN t[x] ELSE <<>>]
  BY DEF Init
<1>2. /\ t \in [DOMAIN t -> Paths] /\ DOMAIN t \subseteq Dirs
      /\ \A x, y \in DOMAIN t : t[x] = t[y] => x = y
      /\ <<>> \in Paths
  BY WatcherAssumption
<1>3. <<>> \in EntryPaths /\ <<>> \in Seq(Line) /\ DOMAIN <<>> = {}
  BY EmptySeq DEF EntryPaths
<1>4. TypeOK
  BY <1>1, <1>2, <1>3 DEF Init, TypeOK
<1>5. NoTwoAt
  BY <1>1, <1>2 DEF NoTwoAt
<1>6. OneThingAtATime /\ Numbered /\ InOrder /\ PathsKnown /\ LogIsTrue
  BY <1>3 DEF Init, OneThingAtATime, Numbered, Coming, InOrder, PathsKnown,
              LogIsTrue
<1>7. OwedComing /\ Covered
  BY DEF Init, OwedComing, Covered
<1> QED
  BY <1>4, <1>5, <1>6, <1>7 DEF IInv

(***************************************************************************)
(* Steps that put events in the queue.                                     *)
(***************************************************************************)

\* They go behind all others.
LEMMA NumberedWhenPosted ==
    ASSUME IInv, NEW S, NEW steps, Fresh(S, steps), Post(S, steps),
           UNCHANGED <<batch, log, wds>>
    PROVE  Numbered' /\ InOrder'
<1>1. /\ clock' >= clock /\ clock' \in Nat /\ clock \in Nat
      /\ queue \subseteq queue'
      /\ \A e \in queue' \ queue : e \in S /\ e.n <= clock' /\ e.wd \in wds
  BY PostTypes DEF IInv, TypeOK
<1>2. \A e \in queue' \ queue : clock < e.n /\ e.n \in Nat
  BY <1>1 DEF Fresh, Event
<1>3. \A e, g \in queue' \ queue : e.n = g.n => e = g
  BY <1>1 DEF Fresh
<1>4. /\ \A e \in Coming : e.n <= clock /\ e.n \in Nat /\ e.wd \in wds
      /\ \A i \in DOMAIN log : log[i].n <= clock /\ log[i].n \in Nat
  <2>1. \A e \in Coming : e \in Event
    BY DEF IInv, TypeOK, Coming
  <2>2. \A i \in DOMAIN log : log[i] \in Line
    BY LenProperties, ElementOfSeq DEF IInv, TypeOK
  <2> QED
    BY <2>1, <2>2 DEF IInv, Numbered, Event, Line
<1>5. Coming' = Coming \cup (queue' \ queue) /\ batch' = batch /\ log' = log
  BY <1>1 DEF Coming
<1>6. \A e \in Coming' : e.n <= clock' /\ e.wd \in wds'
  BY <1>1, <1>4, <1>5
<1>7. \A e, g \in Coming' : e.n = g.n => e = g
  BY <1>1, <1>2, <1>3, <1>4, <1>5 DEF IInv, Numbered
<1>8. \A e \in batch', g \in queue' : e.n < g.n
  BY <1>1, <1>2, <1>4, <1>5 DEF IInv, Numbered, Coming
<1>9. \A i \in DOMAIN log' : log'[i].n <= clock'
  BY <1>1, <1>4, <1>5
<1>10. \A i \in DOMAIN log', e \in Coming' : log'[i].n < e.n
  BY <1>1, <1>2, <1>4, <1>5 DEF IInv, Numbered
<1> QED
  BY <1>5, <1>6, <1>7, <1>8, <1>9, <1>10 DEF Numbered, IInv, InOrder

LEMMA OwedWhenPosted ==
    ASSUME IInv, NEW S, NEW steps, Fresh(S, steps), Post(S, steps),
           UNCHANGED <<batch, log>>, moved \subseteq moved'
    PROVE  OwedComing'
<1>1. /\ queue \subseteq queue' /\ owed \subseteq owed'
      /\ \A o \in owed' \ owed :
           \E e \in queue' : /\ o = <<e.n, e.wd>> /\ e.kind \in Logged
                             /\ e.real \notin Excluded
  BY PostTypes DEF IInv
<1>2. Coming \subseteq Coming' /\ queue' \subseteq Coming' /\ log' = log
  BY <1>1 DEF Coming
<1> QED
  BY <1>1, <1>2 DEF IInv, OwedComing

\* The agent makes, renames and removes what it likes.
LEMMA AgentPreserves == IInv /\ Agent => IInv'
<1> SUFFICES ASSUME IInv, Agent PROVE IInv'
  OBVIOUS
<1>1. TreeStep /\ Posts
  BY AgentStep DEF IInv
<1>2. PICK S, steps : Fresh(S, steps) /\ Post(S, steps) /\ Announces(S)
  BY <1>1 DEF Posts
<1>3. UNCHANGED <<refused, watcherVars, mainPc>> /\ acts' = acts + 1
  BY DEF Agent
<1>4. UNCHANGED <<wPc, todo, at, wds, wdPath, batch, log, reads, mainPc>>
  BY <1>3 DEF watcherVars
<1>5. /\ clock' \in Nat /\ queue' \subseteq Event /\ overflow' \in BOOLEAN
      /\ owed' \subseteq Nat \X Dirs /\ queue \subseteq queue'
      /\ overflow => overflow'
      /\ \A e \in queue' \ queue : e \in S /\ e.wd \in wds
      /\ ~overflow' => Heard(S) \subseteq queue'
  BY <1>2, PostTypes DEF IInv
<1>6. TypeOK' /\ NoTwoAt'
  BY <1>1, <1>3, <1>4, <1>5 DEF IInv, TypeOK, TreeStep
<1>7. OneThingAtATime'
  BY <1>4 DEF IInv, OneThingAtATime
<1>8. Numbered' /\ InOrder'
  BY <1>2, <1>4, NumberedWhenPosted
<1>9. OwedComing'
  BY <1>1, <1>2, <1>4, OwedWhenPosted DEF TreeStep
<1>10. \A y \in born \ moved' : y \notin moved /\ path'[y] = path[y]
  BY <1>1 DEF TreeStep
<1>11. PathsKnown' /\ LogIsTrue'
  <2>1. wds \subseteq born /\ live \subseteq born
    BY DEF IInv, TypeOK
  <2>2. \A d \in wds' \ moved' : wdPath'[d] = path'[d]
    BY <1>4, <1>10, <2>1 DEF IInv, PathsKnown
  <2>3. \A e \in Coming' : e.wd \notin moved'
                             => e.real = Append(path'[e.wd], Lossy[e.name])
    <3>1. TAKE e \in Coming'
    <3>2. CASE e \in Coming
      BY <1>10, <2>1, <3>2 DEF IInv, PathsKnown, Numbered
    <3>3. CASE e \in queue' \ queue
      BY <1>2, <1>5, <1>10, <2>1, <3>3 DEF Fresh
    <3> QED
      BY <1>4, <3>2, <3>3 DEF Coming
  <2>4. LogIsTrue'
    BY <1>1, <1>4 DEF IInv, LogIsTrue, TreeStep
  <2> QED
    BY <2>2, <2>3, <2>4 DEF PathsKnown
<1>12. Covered'
  <2>1. SUFFICES ASSUME ~overflow', NEW d \in wds' \cap live',
                        NEW x \in live' \ refused',
                        NEW n \in Names, Utf8(n),
                        path'[x] = Append(path'[d], n),
                        {d, x} \cap moved' = {}, path'[x] \notin Excluded,
                        x \notin wds'
                 PROVE  Pending(x, d)'
    BY DEF Covered
  <2>2. d \in wds /\ d \in born /\ d \notin moved' /\ x \notin moved'
    BY <1>4, <2>1 DEF IInv, TypeOK
  <2>3. d \in live /\ path'[d] = path[d]
    BY <1>1, <1>10, <2>1, <2>2 DEF TreeStep
  <2>4. CASE x \in live
    <3>1. x \in born /\ path'[x] = path[x] /\ ~overflow
      BY <1>5, <1>10, <2>1, <2>2, <2>4 DEF IInv, TypeOK
    <3>2. /\ d \in wds \cap live /\ x \in live \ refused /\ x \notin wds
          /\ path[x] = Append(path[d], n) /\ path[x] \notin Excluded
      BY <1>3, <1>4, <2>1, <2>2, <2>3, <2>4, <3>1
    <3>3. {d, x} \cap moved = {}
      BY <1>10, <2>2, <3>1
    <3>4. Pending(x, d)
      BY <2>1, <3>1, <3>2, <3>3 DEF IInv, Covered
    <3> QED
      BY <1>4, <1>5, <2>3, <3>1, <3>4 DEF Pending
  <2>5. CASE x \notin live
    <3>1. PICK e \in S : e.wd = d /\ e.kind = "CREATE" /\ e.name = n
      BY <1>2, <2>1, <2>3, <2>5 DEF Announces
    <3>2. \E g \in queue' : g.wd = d /\ g.kind = "CREATE" /\ g.name = n
      <4>1. CASE Merged(e)
        BY <1>5, <3>1, <4>1 DEF Merged
      <4>2. CASE ~Merged(e)
        BY <1>5, <2>1, <2>2, <2>3, <3>1, <4>2 DEF Heard
      <4> QED
        BY <4>1, <4>2
    <3> QED
      BY <2>1, <3>2 DEF Pending
  <2> QED
    BY <2>4, <2>5
<1> QED
  BY <1>6, <1>7, <1>8, <1>9, <1>11, <1>12 DEF IInv

(***************************************************************************)
(* The walk.                                                               *)
(***************************************************************************)

LEMMA StartPreserves == IInv /\ StartWatching => IInv'
<1> SUFFICES ASSUME IInv, StartWatching PROVE IInv'
  OBVIOUS
<1>1. /\ UNCHANGED <<live, born, path, files, moved, clock, queue, overflow,
                     owed, at, wds, wdPath, batch, log, reads, mainPc>>
      /\ wPc = "start" /\ wPc' \in {"walk", "done"}
      /\ wPc' = "done" => todo' = todo
      /\ todo' = todo \/ todo' = {<<>>}
      /\ acts' \in Nat /\ refused \subseteq refused' /\ refused' \subseteq Dirs
  BY DEF StartWatching, Refuse, agentVars, treeVars, queueVars, refusalVars,
         IInv, TypeOK
<1>2. <<>> \in EntryPaths
  BY EmptySeq DEF EntryPaths
<1>3. TypeOK' /\ NoTwoAt' /\ OneThingAtATime'
  BY <1>1, <1>2 DEF IInv, TypeOK, NoTwoAt, OneThingAtATime
<1>4. Numbered' /\ InOrder' /\ PathsKnown' /\ LogIsTrue' /\ OwedComing'
  BY <1>1
  DEF IInv, Numbered, InOrder, PathsKnown, LogIsTrue, OwedComing, Coming
<1>5. Covered'
  <2>1. todo \subseteq todo'
    BY <1>1 DEF IInv, OneThingAtATime
  <2> QED
    BY <1>1, <2>1 DEF IInv, Covered, Pending, Utf8
<1> QED
  BY <1>3, <1>4, <1>5 DEF IInv

LEMMA AddWatchPreserves == IInv /\ AddWatch => IInv'
<1> SUFFICES ASSUME IInv, AddWatch PROVE IInv'
  OBVIOUS
<1>1. /\ wPc = "walk"
      /\ UNCHANGED <<agentVars, queueVars, batch, log, reads, mainPc>>
  BY DEF AddWatch
<1>2. UNCHANGED <<live, born, path, files, moved, clock, queue, overflow, owed,
                  batch, log, reads, mainPc>>
  BY <1>1 DEF agentVars, treeVars, queueVars
<1>3. PICK p \in todo :
        /\ todo' = todo \ {p}
        /\ \/ p \in Excluded /\ UNCHANGED <<wPc, at, wds, wdPath, acts,
                                            refused>>
           \/ /\ p \notin Excluded /\ wPc' = "list" /\ at' = p
              /\ wds' = wds \cup At(p)
              /\ wdPath' =
                   [x \in Dirs |-> IF x \in At(p) THEN p ELSE wdPath[x]]
              /\ UNCHANGED <<acts, refused>>
           \/ /\ p \notin Excluded /\ wPc' = "list" /\ at' = p
              /\ acts' = acts + 1 /\ refused' = refused \cup At(p)
              /\ UNCHANGED <<wds, wdPath>>
  BY DEF AddWatch, Refuse, refusalVars
<1>4. /\ p \in EntryPaths /\ wds \subseteq wds' /\ At(p) \subseteq born
      /\ refused \subseteq refused' /\ refused' \subseteq Dirs /\ acts' \in Nat
  BY <1>3 DEF IInv, TypeOK, At
<1>5. TypeOK' /\ NoTwoAt' /\ OneThingAtATime'
  <2>1. /\ wds' \subseteq born /\ wdPath' \in [Dirs -> EntryPaths]
        /\ wPc' \in {"walk", "list"} /\ at' \in EntryPaths
        /\ todo' \subseteq EntryPaths
    BY <1>1, <1>3, <1>4 DEF IInv, TypeOK
  <2>2. TypeOK'
    BY <1>2, <1>4, <2>1 DEF IInv, TypeOK
  <2>3. OneThingAtATime'
    BY <1>1, <1>3 DEF OneThingAtATime
  <2> QED
    BY <1>2, <2>2, <2>3 DEF IInv, NoTwoAt
<1>6. Numbered' /\ InOrder' /\ LogIsTrue' /\ OwedComing'
  BY <1>2, <1>4 DEF IInv, Numbered, InOrder, LogIsTrue, OwedComing, Coming
<1>7. PathsKnown'
  <2>1. \A d \in wds' \ moved : wdPath'[d] = path[d]
    BY <1>3 DEF IInv, PathsKnown, TypeOK, At
  <2> QED
    BY <1>2, <2>1 DEF IInv, PathsKnown, Coming
<1>8. Covered'
  <2>1. SUFFICES ASSUME ~overflow', NEW d \in wds' \cap live',
                        NEW x \in live' \ refused',
                        NEW n \in Names, Utf8(n),
                        path'[x] = Append(path'[d], n),
                        {d, x} \cap moved' = {}, path'[x] \notin Excluded,
                        x \notin wds'
                 PROVE  Pending(x, d)'
    BY DEF Covered
  <2>2. CASE d \in wds
    <3>1. Pending(x, d) /\ x \notin wds
      BY <1>2, <1>4, <2>1, <2>2 DEF IInv, Covered, Utf8
    <3>2. path[x] # p
      BY <1>2, <1>3, <1>4, <2>1 DEF At
    <3> QED
      BY <1>1, <1>2, <1>3, <3>1, <3>2 DEF Pending
  <2>3. CASE d \notin wds
    <3>1. d \in At(p) /\ wPc' = "list" /\ at' = p
      BY <1>3, <2>1, <2>3
    <3> QED
      BY <1>2, <3>1 DEF Pending, At
  <2> QED
    BY <2>2, <2>3
<1> QED
  BY <1>5, <1>6, <1>7, <1>8 DEF IInv

LEMMA ListDirPreserves == IInv /\ ListDir => IInv'
<1> SUFFICES ASSUME IInv, ListDir PROVE IInv'
  OBVIOUS
<1>1. /\ wPc = "list" /\ wPc' = "walk"
      /\ UNCHANGED <<live, born, path, files, moved, at, wds, wdPath, batch,
                     log, reads, mainPc>>
  BY DEF ListDir, agentVars, treeVars
<1>2. /\ acts' \in Nat /\ refused \subseteq refused' /\ refused' \subseteq Dirs
      /\ \/ UNCHANGED <<todo, clock, queue, overflow, owed>>
         \/ Post(Listed(at), 1)
      /\ \/ At(at) = {} /\ todo' = todo
         \/ todo' = todo \cup (Subdirs(at) \ Excluded)
         \/ /\ todo' = todo
            /\ {x \in live : path[x] \in Subdirs(at)} \subseteq refused'
  BY DEF ListDir, Refuse, queueVars, refusalVars, IInv, TypeOK
\* What is below the directory that was listed is on the list, or was refused.
<1>3. /\ todo \subseteq todo' /\ todo' \subseteq EntryPaths
      /\ \A d \in live, x \in live \ refused', n \in Names :
           at = path[d] /\ path[x] = Append(path[d], n)
               /\ path[x] \notin Excluded => path[x] \in todo'
  <2>1. Subdirs(at) \subseteq EntryPaths
    BY PathsAreSeqs DEF Subdirs
  <2>2. \A d \in live, x \in live, n \in Names :
           at = path[d] /\ path[x] = Append(path[d], n)
               => path[x] \in Subdirs(at) /\ At(at) # {}
    BY DEF IInv, TypeOK, At, Subdirs
  <2> QED
    BY <1>2, <2>1, <2>2 DEF IInv, TypeOK
<1>4. /\ clock' \in Nat /\ queue' \subseteq Event /\ overflow' \in BOOLEAN
      /\ owed' \subseteq Nat \X Dirs /\ queue \subseteq queue'
      /\ overflow => overflow'
  <2>1. CASE UNCHANGED <<todo, clock, queue, overflow, owed>>
    BY <2>1 DEF IInv, TypeOK
  <2>2. CASE Post(Listed(at), 1)
    BY <2>2, ListingIsFresh, PostTypes DEF IInv, TypeOK
  <2> QED
    BY <1>2, <2>1, <2>2
<1>5. TypeOK' /\ NoTwoAt' /\ OneThingAtATime'
  BY <1>1, <1>2, <1>3, <1>4 DEF IInv, TypeOK, NoTwoAt, OneThingAtATime
<1>6. Numbered' /\ InOrder' /\ OwedComing' /\ PathsKnown'
  <2>1. CASE UNCHANGED <<todo, clock, queue, overflow, owed>>
    BY <1>1, <2>1
    DEF IInv, Numbered, InOrder, OwedComing, PathsKnown, Coming
  <2>2. CASE Post(Listed(at), 1)
    <3>1. Fresh(Listed(at), 1)
      BY ListingIsFresh DEF IInv, TypeOK
    <3>2. Numbered' /\ InOrder' /\ OwedComing'
      BY <1>1, <2>2, <3>1, NumberedWhenPosted, OwedWhenPosted
    <3>3. \A e \in Coming' : e \in Coming \/ e \in Listed(at)
      BY <1>1, <2>2, <3>1, PostTypes DEF IInv, Coming
    <3> QED
      BY <1>1, <3>1, <3>2, <3>3 DEF IInv, PathsKnown, Fresh
  <2> QED
    BY <1>2, <2>1, <2>2
<1>7. LogIsTrue'
  BY <1>1 DEF IInv, LogIsTrue
<1>8. Covered'
  <2>1. SUFFICES ASSUME ~overflow', NEW d \in wds \cap live,
                        NEW x \in live \ refused',
                        NEW n \in Names, Utf8(n), path[x] = Append(path[d], n),
                        {d, x} \cap moved = {}, path[x] \notin Excluded,
                        x \notin wds
                 PROVE  Pending(x, d)'
    BY <1>1 DEF Covered, Utf8
  <2>2. Pending(x, d)
    BY <1>2, <1>4, <2>1 DEF IInv, Covered
  <2>3. CASE at = path[d]
    BY <1>1, <1>3, <2>1, <2>3 DEF Pending
  <2>4. CASE at # path[d]
    BY <1>1, <1>3, <1>4, <2>2, <2>4 DEF Pending
  <2> QED
    BY <2>3, <2>4
<1> QED
  BY <1>5, <1>6, <1>7, <1>8 DEF IInv

(***************************************************************************)
(* The loop.                                                               *)
(***************************************************************************)

LEMMA HandlePreserves == ASSUME IInv, NEW e \in batch, Handle(e) PROVE IInv'
<1>1. /\ wPc = "handle" /\ todo = {} /\ \A g \in batch : e.n <= g.n
      /\ batch' = batch \ {e}
      /\ UNCHANGED <<live, born, path, files, moved, refused, acts, clock,
                     queue, overflow, owed, at, wds, wdPath, mainPc>>
  BY DEF Handle, agentVars, treeVars, refusalVars, queueVars, IInv,
     OneThingAtATime
<1>2. /\ e \in Event /\ e \in Coming /\ e.wd \in wds
      /\ \A g \in Coming : g \in Event
  BY DEF IInv, TypeOK, Coming, Numbered
<1>3. wdPath[e.wd] \in EntryPaths /\ PathOf(e) \in EntryPaths
  BY <1>2, PathsAreSeqs, Constants DEF IInv, TypeOK, PathOf, Event
<1>4. e.wd \notin moved => e.real = PathOf(e)
  BY <1>2 DEF IInv, PathsKnown, PathOf
<1>5. \A g \in Coming' : g \in Coming /\ g # e /\ e.n < g.n
  <2>1. \A g \in Coming : g.n \in Nat
    BY <1>2 DEF Event
  <2>2. \A g \in Coming' : g \in Coming /\ (g \in queue \/ (g \in batch /\ g # e))
    BY <1>1 DEF Coming
  <2>3. \A g \in queue : e.n < g.n
    BY DEF IInv, Numbered
  <2>4. \A g \in batch : g # e => e.n # g.n /\ e.n <= g.n
    BY <1>1 DEF IInv, Numbered, Coming
  <2> QED
    BY <1>2, <2>1, <2>2, <2>3, <2>4
<1>6. CASE PathOf(e) \in Excluded
  <2>1. UNCHANGED <<wPc, todo, log, reads>>
    BY <1>6 DEF Handle
  <2>2. TypeOK' /\ NoTwoAt' /\ OneThingAtATime'
    BY <1>1, <2>1 DEF IInv, TypeOK, NoTwoAt, OneThingAtATime
  <2>3. Numbered' /\ InOrder'
    BY <1>1, <1>5, <2>1 DEF IInv, Numbered, InOrder
  <2>4. PathsKnown' /\ LogIsTrue'
    BY <1>1, <1>5, <2>1 DEF IInv, PathsKnown, LogIsTrue
  <2>5. OwedComing'
    BY <1>1, <1>4, <1>6, <2>1 DEF IInv, OwedComing, Coming
  <2>6. Covered'
    <3>1. SUFFICES ASSUME ~overflow, NEW d \in wds \cap live,
                          NEW x \in live \ refused,
                          NEW n \in Names, Utf8(n),
                          path[x] = Append(path[d], n),
                          {d, x} \cap moved = {}, path[x] \notin Excluded,
                          x \notin wds
                   PROVE  Pending(x, d)'
      BY <1>1 DEF Covered
    <3>2. Pending(x, d)
      BY <3>1 DEF IInv, Covered
    <3>3. ~(e.wd = d /\ path[x] = Append(path[d], e.name))
      <4>1. SUFFICES ASSUME e.wd = d, path[x] = Append(path[d], e.name)
                     PROVE  FALSE
        OBVIOUS
      <4>2. e.name \in Entries /\ n \in Entries /\ path[d] \in EntryPaths
        BY <1>2, PathsAreSeqs DEF IInv, TypeOK, Event, Entries
      <4>3. e.name = n
        <5>1. Append(path[d], n) = Append(path[d], e.name)
          BY <3>1, <4>1
        <5> QED
          BY <4>2, <5>1, SameEntry
      <4> QED
        BY <1>6, <3>1, <4>1, <4>3 DEF IInv, PathsKnown, PathOf, Utf8
    <3> QED
      BY <1>1, <2>1, <3>2, <3>3 DEF Pending
  <2> QED
    BY <2>2, <2>3, <2>4, <2>5, <2>6 DEF IInv
<1>7. CASE PathOf(e) \notin Excluded
  <2>1. /\ IF e.kind = "CREATE" /\ e.name \in Names
           THEN wPc' = "walk" /\ todo' = {PathOf(e)}
           ELSE UNCHANGED <<wPc, todo>>
        /\ log' = IF e.kind \in Logged THEN Append(log, NewLine(e)) ELSE log
        /\ reads' = IF e.kind = "ACCESS" THEN reads \cup {PathOf(e)} ELSE reads
    BY <1>7 DEF Handle
  <2>2. e.kind \in Logged => NewLine(e) \in Line
    BY <1>2, <1>3 DEF NewLine, Line, Event
  <2>3. /\ log' \in Seq(Line)
        /\ \A i \in DOMAIN log : i \in DOMAIN log' /\ log'[i] = log[i]
        /\ \A i \in DOMAIN log' :
              \/ i \in DOMAIN log
              \/ i = Len(log) + 1 /\ e.kind \in Logged /\ log'[i] = NewLine(e)
        /\ e.kind \in Logged => \E i \in DOMAIN log' : log'[i] = NewLine(e)
    <3>1. log \in Seq(Line) /\ Len(log) \in Nat /\ DOMAIN log = 1 .. Len(log)
      BY LenProperties DEF IInv, TypeOK
    <3>2. CASE e.kind \notin Logged
      <4>1. log' = log
        BY <2>1, <3>2
      <4> QED
        BY <3>1, <3>2, <4>1
    <3>3. CASE e.kind \in Logged
      <4>1. /\ log' = Append(log, NewLine(e)) /\ log' \in Seq(Line)
            /\ Len(log') = Len(log) + 1
            /\ \A i \in 1 .. Len(log) : log'[i] = log[i]
            /\ log'[Len(log) + 1] = NewLine(e)
        BY <2>1, <2>2, <3>1, <3>3, AppendProperties
      <4>2. DOMAIN log' = 1 .. Len(log) + 1
        BY <4>1, LenProperties
      <4>3. \A i \in DOMAIN log : i \in DOMAIN log' /\ log'[i] = log[i]
        BY <3>1, <4>1, <4>2
      <4>4. \A i \in DOMAIN log' : i \in DOMAIN log \/ i = Len(log) + 1
        BY <3>1, <4>2
      <4>5. Len(log) + 1 \in DOMAIN log'
        BY <3>1, <4>2
      <4> QED
        BY <3>3, <4>1, <4>3, <4>4, <4>5
    <3> QED
      BY <3>2, <3>3
  <2>4. /\ NewLine(e).n = e.n /\ NewLine(e).wd = e.wd
        /\ NewLine(e).path = PathOf(e) /\ NewLine(e).real = e.real
    BY DEF NewLine
  <2>5. TypeOK' /\ NoTwoAt' /\ OneThingAtATime'
    <3>1. todo' \subseteq EntryPaths /\ reads' \subseteq EntryPaths
      BY <1>1, <1>3, <2>1 DEF IInv, TypeOK
    <3>2. /\ wPc' \in {"walk", "handle"} /\ batch' \subseteq Event
          /\ wPc' = "handle" => todo' = {}
      BY <1>1, <2>1 DEF IInv, TypeOK
    <3>3. TypeOK'
      BY <1>1, <2>3, <3>1, <3>2 DEF IInv, TypeOK
    <3> QED
      BY <1>1, <3>2, <3>3 DEF IInv, NoTwoAt, OneThingAtATime
  <2>6. Numbered'
    <3>1. \A i \in DOMAIN log' : i \in DOMAIN log \/ log'[i].n = e.n
      BY <2>3, <2>4
    <3>2. \A i \in DOMAIN log' : log'[i].n <= clock'
      BY <1>1, <1>2, <2>3, <3>1 DEF IInv, Numbered
    <3>3. \A i \in DOMAIN log', g \in Coming' : log'[i].n < g.n
      BY <1>5, <2>3, <3>1 DEF IInv, Numbered
    <3>4. \A g \in Coming' : g.n <= clock' /\ g.wd \in wds'
      BY <1>1, <1>5 DEF IInv, Numbered
    <3>5. \A g, h \in Coming' : g.n = h.n => g = h
      BY <1>5 DEF IInv, Numbered
    <3>6. \A g \in batch', h \in queue' : g.n < h.n
      BY <1>1 DEF IInv, Numbered
    <3> QED
      BY <3>2, <3>3, <3>4, <3>5, <3>6 DEF Numbered
  <2>7. InOrder'
    <3>1. SUFFICES ASSUME NEW i \in DOMAIN log', NEW j \in DOMAIN log', i < j
                   PROVE  log'[i].n < log'[j].n
      BY DEF InOrder
    <3>2. DOMAIN log = 1 .. Len(log) /\ Len(log) \in Nat
      BY LenProperties DEF IInv, TypeOK
    <3>3. i \in DOMAIN log
      BY <2>3, <3>1, <3>2
    <3>4. CASE j \in DOMAIN log
      BY <2>3, <3>1, <3>3, <3>4 DEF IInv, InOrder
    <3>5. CASE j \notin DOMAIN log
      BY <1>2, <2>3, <2>4, <3>3, <3>5 DEF IInv, Numbered
    <3> QED
      BY <3>4, <3>5
  <2>8. PathsKnown' /\ LogIsTrue'
    <3>1. PathsKnown'
      BY <1>1, <1>5 DEF IInv, PathsKnown
    <3>2. LogIsTrue'
      BY <1>1, <1>4, <2>3, <2>4 DEF IInv, LogIsTrue
    <3> QED
      BY <3>1, <3>2
  <2>9. OwedComing'
    <3>1. SUFFICES ASSUME NEW o \in owed, o[2] \notin moved,
                          \A i \in DOMAIN log' : log'[i].n # o[1]
                   PROVE  \E g \in Coming' : /\ o = <<g.n, g.wd>>
                                             /\ g.kind \in Logged
                                             /\ g.real \notin Excluded
      BY <1>1 DEF OwedComing
    <3>2. PICK g \in Coming : /\ o = <<g.n, g.wd>> /\ g.kind \in Logged
                              /\ g.real \notin Excluded
      BY <2>3, <3>1 DEF IInv, OwedComing
    <3>3. g # e
      BY <2>3, <2>4, <3>1, <3>2
    <3> QED
      BY <1>1, <3>2, <3>3 DEF Coming
  <2>10. Covered'
    <3>1. SUFFICES ASSUME ~overflow, NEW d \in wds \cap live,
                          NEW x \in live \ refused,
                          NEW n \in Names, Utf8(n),
                          path[x] = Append(path[d], n),
                          {d, x} \cap moved = {}, path[x] \notin Excluded,
                          x \notin wds
                   PROVE  Pending(x, d)'
      BY <1>1 DEF Covered
    <3>2. PICK g \in Coming : /\ g.wd = d /\ g.kind = "CREATE"
                              /\ path[x] = Append(path[d], g.name)
      BY <1>1, <3>1 DEF IInv, Covered, Pending, Coming
    <3>3. CASE g # e
      BY <1>1, <3>2, <3>3 DEF Pending, Coming
    <3>4. CASE g = e
      <4>1. path[d] \in EntryPaths /\ path[x] \in Paths /\ e.name \in Entries
        BY <1>2, <3>1, PathsAreSeqs DEF IInv, TypeOK, Event
      <4>2. e.name \in Names /\ n \in Entries
        BY <3>2, <3>4, <4>1, NameOfDir DEF Entries
      <4>3. e.name = n
        <5>1. Append(path[d], n) = Append(path[d], e.name)
          BY <3>1, <3>2, <3>4
        <5> QED
          BY <4>1, <4>2, <5>1, SameEntry
      <4>4. PathOf(e) = path[x]
        BY <3>1, <3>2, <3>4, <4>3 DEF PathOf, IInv, PathsKnown, Utf8
      <4> QED
        BY <1>1, <2>1, <3>2, <3>4, <4>2, <4>4 DEF Pending
    <3> QED
      BY <3>3, <3>4
  <2> QED
    BY <2>5, <2>6, <2>7, <2>8, <2>9, <2>10 DEF IInv
<1> QED
  BY <1>6, <1>7

LEMMA ReadEventsPreserves == IInv /\ ReadEvents => IInv'
<1> SUFFICES ASSUME IInv, ReadEvents PROVE IInv'
  OBVIOUS
<1>1. PICK last \in queue : batch' = {e \in queue : e.n <= last.n}
  BY DEF ReadEvents
<1>2. /\ wPc = "loop" /\ wPc' = "handle" /\ batch = {} /\ todo = {}
      /\ queue' = queue \ batch'
      /\ UNCHANGED <<live, born, path, files, moved, refused, acts, clock,
                     overflow, owed, todo, at, wds, wdPath, log, reads,
                     mainPc>>
  BY DEF ReadEvents, agentVars, treeVars, refusalVars, IInv, OneThingAtATime
<1>3. Coming' = Coming
  BY <1>1, <1>2 DEF Coming
<1>4. TypeOK' /\ NoTwoAt' /\ OneThingAtATime'
  BY <1>1, <1>2 DEF IInv, TypeOK, NoTwoAt, OneThingAtATime
<1>5. \A e \in batch', g \in queue' : e.n < g.n
  <2>1. \A e \in queue : e.n \in Nat
    BY DEF IInv, TypeOK, Event
  <2> QED
    BY <1>1, <1>2, <2>1
<1>6. Numbered' /\ InOrder'
  BY <1>2, <1>3, <1>5 DEF IInv, Numbered, InOrder
<1>7. PathsKnown' /\ LogIsTrue' /\ OwedComing'
  BY <1>2, <1>3 DEF IInv, PathsKnown, LogIsTrue, OwedComing
<1>8. Covered'
  BY <1>2, <1>3 DEF IInv, Covered, Pending, Coming
<1> QED
  BY <1>4, <1>6, <1>7, <1>8 DEF IInv

\* Steps that change a pc only, and stuttering.
LEMMA PcStepPreserves ==
    ASSUME IInv, WalkDone \/ Stops \/ BatchDone \/ TellToStop \/ Join
                    \/ UNCHANGED vars
    PROVE  IInv'
<1>1. /\ UNCHANGED <<live, born, path, files, moved, refused, acts, clock,
                     queue, overflow, owed, todo, at, wds, wdPath, batch, log,
                     reads>>
      /\ wPc' # wPc => \/ wPc' = "handle" /\ todo = {}
                       \/ wPc = "loop" /\ wPc' = "done"
                       \/ wPc = "handle" /\ wPc' = "loop" /\ batch = {}
      /\ wPc' # wPc => wPc # "list" /\ wPc' # "list"
      /\ mainPc' \in {"run", "stop", "joined"}
      /\ wPc' \in {"start", "walk", "list", "handle", "loop", "done"}
  BY DEF WalkDone, Stops, BatchDone, TellToStop, Join, vars, agentVars,
     treeVars, refusalVars,
         queueVars, watcherVars, IInv, TypeOK
<1>2. TypeOK' /\ NoTwoAt'
  BY <1>1 DEF IInv, TypeOK, NoTwoAt
<1>3. OneThingAtATime'
  BY <1>1 DEF IInv, OneThingAtATime
<1>4. Numbered' /\ InOrder' /\ PathsKnown' /\ LogIsTrue' /\ OwedComing'
  BY <1>1
  DEF IInv, Numbered, InOrder, PathsKnown, LogIsTrue, OwedComing, Coming
<1>5. Covered'
  BY <1>1 DEF IInv, Covered, Pending
<1> QED
  BY <1>2, <1>3, <1>4, <1>5 DEF IInv

THEOREM Invariance == Spec => []IInv
<1>1. IInv /\ [Next]_vars => IInv'
  BY AgentPreserves, StartPreserves, AddWatchPreserves, ListDirPreserves,
     HandlePreserves,
     ReadEventsPreserves, PcStepPreserves DEF Next, Watcher, Terminated
<1> QED
  BY <1>1, InitHolds, PTL DEF Spec

(***************************************************************************)
(* The theorems.                                                           *)
(***************************************************************************)

\* Every variable of the watcher has its type.
THEOREM TypeCorrect == Spec => []TypeOK
<1>1. IInv => TypeOK
  BY DEF IInv
<1> QED
  BY <1>1, Invariance, PTL

\* No directory that appears in a watched one goes unnoticed but by a rename, a
\* pattern, an overflow, a refusal or a name that is not UTF-8, however the
\* walk, the agent and the events of fs_watcher.rs:210-300 are interleaved.
THEOREM WatchedIsCovered == Spec => []Covered
<1>1. IInv => Covered
  BY DEF IInv
<1> QED
  BY <1>1, Invariance, PTL

\* The log says where things happened, of directories that never moved, as far
\* as the names can be written down as text.
THEOREM LogTellsTruth == Spec => []LogIsTrue
<1>1. IInv => LogIsTrue
  BY DEF IInv
<1> QED
  BY <1>1, Invariance, PTL

\* The log is in the order of the events.
THEOREM LogIsOrdered == Spec => []InOrder
<1>1. IInv => InOrder
  BY DEF IInv
<1> QED
  BY <1>1, Invariance, PTL

\* What the kernel kept of directories that never moved gets to the log, unless
\* the watcher is stopped before.
THEOREM LogIsComplete == Spec => []NothingSkipped
<1>1. IInv => NothingSkipped
  BY DEF IInv, OwedComing, NothingSkipped, Coming
<1> QED
  BY <1>1, Invariance, PTL
=============================================================================
