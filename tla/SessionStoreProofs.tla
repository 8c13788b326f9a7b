------------------------- MODULE SessionStoreProofs -------------------------
(***************************************************************************)
(* Theorems of SessionStore, for every number of sessions, every Keep and  *)
(* every set of processes of `postflight clean`.                           *)
(***************************************************************************)
EXTENDS SessionStore, FiniteSetTheorems, TLAPS

(***************************************************************************)
(* Being among the newest Keep is lost and never regained: sessions are    *)
(* only ever added before it.                                              *)
(***************************************************************************)

NewerCreated(i) == {j \in Created : j > i}

LEMMA FiniteIds == \A S \in SUBSET Ids : IsFiniteSet(S) /\ Cardinality(S) \in Nat
<1>1. IsFiniteSet(Ids)
  BY StoreAssumption, FS_Interval DEF Ids
<1> QED
  BY <1>1, FS_Subset, FS_CardinalityType

\* Removing a session cannot be wrong for one that a list, however old it is,
\* had behind its newest Keep.
LEMMA BehindIsNotNewest ==
    ASSUME NEW S \in SUBSET Created, NEW i \in Behind(S)
    PROVE  ~AmongNewest(i)
<1>1. /\ {j \in S : j > i} \subseteq NewerCreated(i)
      /\ NewerCreated(i) \in SUBSET Ids
  BY DEF NewerCreated, Created
<1>2. /\ IsFiniteSet(NewerCreated(i))
      /\ Cardinality(NewerCreated(i)) \in Nat
      /\ Cardinality({j \in S : j > i}) \in Nat
  BY <1>1, FiniteIds
<1>3. Cardinality({j \in S : j > i}) <= Cardinality(NewerCreated(i))
  BY <1>1, <1>2, FS_Subset
<1>4. Cardinality({j \in S : j > i}) >= Keep
  BY DEF Behind
<1> QED
  BY <1>2, <1>3, <1>4, StoreAssumption DEF AmongNewest, NewerCreated

LEMMA NewestNoMore ==
    ASSUME Created \subseteq Created', NEW i \in Created, AmongNewest(i)'
    PROVE  AmongNewest(i)
<1>1. /\ NewerCreated(i) \subseteq NewerCreated(i)'
      /\ NewerCreated(i) \in SUBSET Ids
      /\ NewerCreated(i)' \in SUBSET Ids
  BY DEF NewerCreated, Created
<1>2. /\ IsFiniteSet(NewerCreated(i)')
      /\ Cardinality(NewerCreated(i)) \in Nat
      /\ Cardinality(NewerCreated(i)') \in Nat
  BY <1>1, FiniteIds
<1>3. Cardinality(NewerCreated(i)) <= Cardinality(NewerCreated(i)')
  BY <1>1, <1>2, FS_Subset
<1>4. Cardinality(NewerCreated(i)') < Keep
  BY DEF AmongNewest, NewerCreated
<1> QED
  BY <1>2, <1>3, <1>4, StoreAssumption DEF AmongNewest, NewerCreated

(***************************************************************************)
(* The inductive invariant.  AmongNewest speaks of sessions created, the   *)
(* code of directories it listed: what links them is that no session among *)
(* the newest is, or ever was, behind in anybody's list.                   *)
(***************************************************************************)

Ended == {"ending", "saving", "prune", "over"}

ListsInv ==
    /\ dir \subseteq Created
    /\ \A p \in Pruners : \A i \in todo[p] \cup ({doomed[p]} \ {0}) :
          i \in Created /\ ~AmongNewest(i)

FilesOf(i) ==
    /\ i \in dir /\ run[i] # "failed"
    /\ run[i] # "remade"
    /\ run[i] \in {"live"} \cup Ended => i \in events
    /\ run[i] \in {"mkdir", "live"} => "diffs" \in others[i]
    /\ run[i] = "saving" => summary[i] = "torn"
    /\ run[i] \in {"prune", "over"} => summary[i] = "full"

LogInv ==
    \A i \in Ids :
        /\ run[i] \in Ended \/ summary[i] # "no" => log[i] = "all"
        /\ run[i] \in {"none", "made", "remade", "mkdir", "live", "ending"}
              => summary[i] = "no"
        /\ run[i] \in {"none", "made", "remade", "mkdir"} => log[i] = "none"
        /\ run[i] = "live" => log[i] = "start"

StoreInv ==
    /\ TypeOK
    /\ ListsInv
    /\ \A i \in Ids : AmongNewest(i) => FilesOf(i)
    /\ LogInv

LEMMA StoreInit == Init => StoreInv
<1> SUFFICES ASSUME Init PROVE StoreInv
  OBVIOUS
<1>1. Created = {}
  BY DEF Init, Created
<1>2. TypeOK
  BY DEF Init, TypeOK
<1> QED
  BY <1>1, <1>2 DEF Init, StoreInv, ListsInv, LogInv, AmongNewest, Ended

\* Types.
LEMMA StoreTypes == TypeOK /\ [Next]_vars => TypeOK'
<1> SUFFICES ASSUME TypeOK, [Next]_vars PROVE TypeOK'
  OBVIOUS
<1> USE DEF TypeOK, Step, storeVars, runVars, pruneVars, vars
<1>0. ASSUME NEW i \in Ids, MakeDiffs(i) PROVE TypeOK'
  BY <1>0 DEF MakeDiffs
<1>1. ASSUME NEW i \in Ids, MakeDir(i) PROVE TypeOK'
  BY <1>1 DEF MakeDir
<1>2. ASSUME NEW i \in Ids, OpenLog(i) PROVE TypeOK'
  BY <1>2 DEF OpenLog
<1>3. ASSUME NEW i \in Ids, WriteEvents(i) PROVE TypeOK'
  BY <1>3 DEF WriteEvents
<1>4. ASSUME NEW i \in Ids, OpenSummary(i) PROVE TypeOK'
  BY <1>4 DEF OpenSummary
<1>5. ASSUME NEW i \in Ids, WriteSummary(i) PROVE TypeOK'
  BY <1>5 DEF WriteSummary
<1>6. ASSUME NEW i \in Ids, Crash(i) \/ Ages(i) PROVE TypeOK'
  BY <1>6 DEF Crash, Ages
<1>7. ASSUME NEW p \in Pruners, List(p) PROVE TypeOK'
  BY <1>7 DEF List, Behind
<1>8. ASSUME NEW p \in Pruners, LookAt(p) PROVE TypeOK'
  BY <1>8 DEF LookAt, NewestOf
<1>9. ASSUME NEW p \in Pruners, UnlinkFiles(p) PROVE TypeOK'
  BY <1>9 DEF UnlinkFiles
<1>10. ASSUME NEW p \in Pruners, RemoveDir(p) PROVE TypeOK'
  BY <1>10 DEF RemoveDir, Removable
<1>11. ASSUME Stop PROVE TypeOK'
  BY <1>11 DEF Stop, NewestOf, Active
<1>12. ASSUME UNCHANGED vars PROVE TypeOK'
  BY <1>12
<1>13. ASSUME NEW i \in Ids, WriteTerminal(i) PROVE TypeOK'
  BY <1>13 DEF WriteTerminal
<1> QED
  BY <1>0, <1>13, <1>1, <1>2, <1>3, <1>4, <1>5, <1>6, <1>7, <1>8, <1>9, <1>10, <1>11, <1>12
     DEF Next, Record, Prune

\* A session that was created stays created.
LEMMA CreatedGrows == TypeOK /\ [Next]_vars => Created \subseteq Created'
<1> SUFFICES ASSUME TypeOK, [Next]_vars, NEW j \in Ids, run[j] # "none"
             PROVE  run'[j] # "none"
  BY DEF Created
<1> USE DEF TypeOK, Step, storeVars, runVars, pruneVars, vars
<1>1. ASSUME NEW i \in Ids, Record(i) PROVE run'[j] # "none"
  BY <1>1 DEF Record, MakeDir, MakeDiffs, OpenLog, WriteTerminal, WriteEvents,
     OpenSummary, WriteSummary
<1>2. ASSUME NEW i \in Ids, Crash(i) \/ Ages(i) PROVE run'[j] # "none"
  BY <1>2 DEF Crash, Ages
<1>3. ASSUME NEW p \in Pruners, List(p) \/ Prune(p) PROVE run'[j] # "none"
  BY <1>3 DEF List, Prune, LookAt, UnlinkFiles, RemoveDir
<1> QED
  BY <1>1, <1>2, <1>3 DEF Next, Stop

\* What an action that gives no pruner anything new has to show.
LEMMA ListsKept ==
    ASSUME TypeOK, ListsInv, Created \subseteq Created', dir' \subseteq Created',
           \A p \in Pruners : todo'[p] \cup ({doomed'[p]} \ {0})
                                 \subseteq todo[p] \cup ({doomed[p]} \ {0})
    PROVE  ListsInv'
  BY NewestNoMore DEF ListsInv

LEMMA ListsStep == TypeOK /\ ListsInv /\ [Next]_vars => ListsInv'
<1> SUFFICES ASSUME TypeOK, ListsInv, [Next]_vars PROVE ListsInv'
  OBVIOUS
<1> USE DEF Step, storeVars, runVars, pruneVars, vars
<1>1. Created \subseteq Created'
  BY CreatedGrows
<1>2. dir \subseteq Created
  BY DEF ListsInv
<1>3. ASSUME NEW i \in Ids, Record(i) PROVE ListsInv'
  <2>1. dir' \subseteq Created'
    BY <1>1, <1>2, <1>3 DEF Record, MakeDir, MakeDiffs, OpenLog, WriteTerminal,
       WriteEvents, OpenSummary, WriteSummary, Created, TypeOK
  <2>2. UNCHANGED pruneVars
    BY <1>3 DEF Record, MakeDir, MakeDiffs, OpenLog, WriteTerminal, WriteEvents,
       OpenSummary, WriteSummary
  <2> QED
    BY <1>1, <2>1, <2>2, ListsKept
<1>4. ASSUME NEW i \in Ids, Crash(i) \/ Ages(i) PROVE ListsInv'
  <2>1. \A q \in Pruners : todo'[q] \cup ({doomed'[q]} \ {0})
                               \subseteq todo[q] \cup ({doomed[q]} \ {0})
    BY <1>4 DEF Crash, Ages, TypeOK, Pruners
  <2> QED
    BY <1>1, <1>2, <1>4, <2>1, ListsKept DEF Crash, Ages
<1>5. ASSUME NEW p \in Pruners, List(p) PROVE ListsInv'
  <2>1. /\ todo' = [todo EXCEPT ![p] = Behind(dir)]
        /\ dir' = dir /\ doomed' = doomed
    BY <1>5 DEF List
  <2>2. \A i \in Behind(dir) : i \in Created /\ ~AmongNewest(i)
    BY <1>2, BehindIsNotNewest DEF Behind
  <2>3. ASSUME NEW q \in Pruners, NEW i \in todo'[q] \cup ({doomed'[q]} \ {0})
        PROVE  i \in Created /\ ~AmongNewest(i)
    BY <2>1, <2>2, <2>3 DEF ListsInv, TypeOK
  <2> QED
    BY <1>1, <1>2, <2>1, <2>3, NewestNoMore DEF ListsInv
<1>6. ASSUME NEW p \in Pruners, LookAt(p) PROVE ListsInv'
  <2>1. \A q \in Pruners : todo'[q] \cup ({doomed'[q]} \ {0})
                               \subseteq todo[q] \cup ({doomed[q]} \ {0})
    BY <1>6 DEF LookAt, NewestOf, TypeOK
  <2> QED
    BY <1>1, <1>2, <1>6, <2>1, ListsKept DEF LookAt
<1>7. ASSUME NEW p \in Pruners, UnlinkFiles(p) \/ RemoveDir(p) PROVE ListsInv'
  <2>1. \A q \in Pruners : todo'[q] \cup ({doomed'[q]} \ {0})
                               \subseteq todo[q] \cup ({doomed[q]} \ {0})
    BY <1>7 DEF UnlinkFiles, RemoveDir, TypeOK
  <2> QED
    BY <1>1, <1>2, <1>7, <2>1, ListsKept DEF UnlinkFiles, RemoveDir
<1>8. CASE Stop \/ UNCHANGED vars
  BY <1>1, <1>2, <1>8, ListsKept DEF Stop
<1> QED
  BY <1>3, <1>4, <1>5, <1>6, <1>7, <1>8 DEF Next, Prune

LEMMA LogStep == TypeOK /\ LogInv /\ [Next]_vars => LogInv'
<1> SUFFICES ASSUME TypeOK, LogInv, [Next]_vars PROVE LogInv'
  OBVIOUS
<1> USE DEF TypeOK, LogInv, Ended, Step, storeVars, runVars, pruneVars, vars
<1>1. ASSUME NEW i \in Ids, MakeDir(i) \/ MakeDiffs(i) \/ OpenLog(i)
                              \/ WriteTerminal(i)
      PROVE  LogInv'
  BY <1>1 DEF MakeDir, MakeDiffs, OpenLog, WriteTerminal
<1>2. ASSUME NEW i \in Ids, WriteEvents(i) \/ OpenSummary(i) \/ WriteSummary(i)
      PROVE  LogInv'
  BY <1>2 DEF WriteEvents, OpenSummary, WriteSummary
<1>3. ASSUME NEW i \in Ids, Crash(i) \/ Ages(i) PROVE LogInv'
  BY <1>3 DEF Crash, Ages
<1>4. ASSUME NEW p \in Pruners, List(p) PROVE LogInv'
  BY <1>4 DEF List, MayPrune
<1>5. ASSUME NEW p \in Pruners, Prune(p) PROVE LogInv'
  BY <1>5 DEF Prune, LookAt, UnlinkFiles, RemoveDir
<1>6. CASE Stop \/ UNCHANGED vars
  BY <1>6 DEF Stop
<1> QED
  BY <1>1, <1>2, <1>3, <1>4, <1>5, <1>6 DEF Next, Record

\* A session among the newest keeps its files: no pruner holds it.
LEMMA FilesStep ==
    ASSUME StoreInv, TypeOK', [Next]_vars, NEW i \in Ids, AmongNewest(i)'
    PROVE  FilesOf(i)'
<1> USE DEF TypeOK, FilesOf, Ended, Step, storeVars, runVars, pruneVars, vars
<1>1. CASE i \notin Created
  <2>1. run[i] = "none" /\ run'[i] # "none"
    BY <1>1 DEF StoreInv, Created, AmongNewest
  <2>2. MakeDir(i)
    <3>1. ASSUME NEW j \in Ids, MakeDiffs(j) \/ OpenLog(j) \/ WriteTerminal(j)
                                 \/ WriteEvents(j) \/ OpenSummary(j)
                                 \/ WriteSummary(j) \/ Crash(j) \/ Ages(j)
          PROVE  FALSE
      BY <2>1, <3>1 DEF StoreInv, MakeDiffs, OpenLog, WriteTerminal,
         WriteEvents, OpenSummary, WriteSummary, Crash, Ages, Recording
    <3>2. ASSUME NEW p \in Pruners, List(p) \/ Prune(p)
          PROVE  FALSE
      BY <2>1, <3>2 DEF StoreInv, List, MayPrune, Prune, LookAt, UnlinkFiles,
         RemoveDir
    <3>3. ASSUME NEW j \in Ids, MakeDir(j), j # i
          PROVE  FALSE
      BY <2>1, <3>3 DEF StoreInv, MakeDir
    <3> QED
      BY <2>1, <3>1, <3>2, <3>3 DEF Next, Record, Stop
  <2> QED
    BY <2>2 DEF StoreInv, MakeDir
<1>2. CASE i \in Created
  <2>1. AmongNewest(i) /\ FilesOf(i)
    BY <1>2, CreatedGrows, NewestNoMore DEF StoreInv
  <2>2. \A p \in Pruners : doomed[p] # i
    BY <1>2, <2>1, StoreAssumption DEF StoreInv, ListsInv, Ids
  <2>3. ASSUME NEW j \in Ids, Record(j) PROVE FilesOf(i)'
    <3>1. CASE MakeDir(j) \/ MakeDiffs(j) \/ WriteTerminal(j)
      BY <1>2, <2>1, <3>1 DEF StoreInv, Created, MakeDir, MakeDiffs,
         WriteTerminal
    <3>2. CASE OpenLog(j) \/ WriteEvents(j) \/ OpenSummary(j) \/ WriteSummary(j)
      BY <1>2, <2>1, <3>2 DEF StoreInv, Created, OpenLog, WriteEvents,
         OpenSummary, WriteSummary
    <3> QED
      BY <2>3, <3>1, <3>2 DEF Record
  <2>4. ASSUME NEW j \in Ids, Crash(j) \/ Ages(j) PROVE FilesOf(i)'
    BY <2>1, <2>4 DEF StoreInv, Crash, Ages
  <2>5. ASSUME NEW p \in Pruners, List(p) PROVE FilesOf(i)'
    BY <2>1, <2>5 DEF StoreInv, List, MayPrune
  <2>6. ASSUME NEW p \in Pruners, Prune(p) PROVE FilesOf(i)'
    BY <2>1, <2>2, <2>6 DEF StoreInv, Prune, LookAt, UnlinkFiles, RemoveDir,
       Removable
  <2>7. CASE Stop \/ UNCHANGED vars
    BY <2>1, <2>7 DEF Stop
  <2> QED
    BY <2>3, <2>4, <2>5, <2>6, <2>7 DEF Next
<1> QED
  BY <1>1, <1>2

THEOREM StoreInvariance == Spec => []StoreInv
<1>1. StoreInv /\ [Next]_vars => StoreInv'
  BY StoreTypes, ListsStep, LogStep, FilesStep DEF StoreInv
<1> QED
  BY <1>1, StoreInit, PTL DEF Spec

\* Types, and no file outside a directory.
THEOREM StoreTypeCorrect == Spec => []TypeOK
<1>1. StoreInv => TypeOK
  BY DEF StoreInv
<1> QED
  BY <1>1, StoreInvariance, PTL

\* The newest Keep sessions are never lost to a prune.
THEOREM NewestAreKept == Spec => []NewestKept
<1>1. StoreInv => NewestKept
  BY DEF StoreInv, NewestKept, FilesOf
<1> QED
  BY <1>1, StoreInvariance, PTL

\* Among them, the ones recorded to the end have what `report` reads.
THEOREM NewestAreReportable == Spec => []NewestReportable
<1>1. StoreInv => NewestReportable
  BY DEF StoreInv, NewestReportable, FilesOf, Ended
<1> QED
  BY <1>1, StoreInvariance, PTL

\* A summary is on disk only after every event was written.
THEOREM SummaryIsLast == Spec => []SummaryComesLast
<1>1. StoreInv => SummaryComesLast
  <2> SUFFICES ASSUME StoreInv, NEW i \in Ids, summary[i] # "no"
               PROVE  log[i] = "all"
    BY DEF SummaryComesLast
  <2> QED
    BY DEF StoreInv, LogInv
<1> QED
  BY <1>1, StoreInvariance, PTL

(***************************************************************************)
(* Retention.  What a reader finds of a session changes in few steps: when *)
(* its directory is made, its events are written and its summary is        *)
(* complete, and in the two steps of remove_dir_all.                       *)
(***************************************************************************)

\* What an action that leaves the files of a session alone leaves of it.
Untouched(j) ==
    /\ SetUp(j)' <=> SetUp(j)
    /\ ~SetUp(j) => run'[j] = run[j]
    /\ j \in dir' <=> j \in dir
    /\ j \in events' <=> j \in events
    /\ summary'[j] = summary[j]
    /\ log'[j] = log[j]

LEMMA UntouchedShown ==
    ASSUME NEW j \in Ids, Untouched(j)
    PROVE  ShownOf(j)' = ShownOf(j)
<1>1. Lost(j)' <=> Lost(j)
  BY DEF Untouched, Lost
<1> QED
  BY <1>1 DEF Untouched, ShownOf, SetUp

LEMMA BegunIsCreated == Promise!Begun = Created
<1>1. \A i \in Ids : ShownOf(i) # "none" <=> i \in Created
  BY DEF ShownOf, SetUp, Created
<1> QED
  BY <1>1 DEF Promise!Begun, Promise!Sessions, Shown, Created, Ids

\* Retention counts with the same operator.
LEMMA SameCount == \A S : Promise!Cardinality(S) = Cardinality(S)
  BY DEF Promise!Cardinality, Cardinality, Promise!IsFiniteSet, IsFiniteSet

\* A step that changes what is found of one session.
LEMMA OneBecomes ==
    ASSUME NEW i \in Ids, NEW from, NEW to,
           ShownOf(i) \in from, ShownOf(i)' = to,
           \A j \in Ids \ {i} : ShownOf(j)' = ShownOf(j)
    PROVE  Promise!Becomes(i, from, to)
  BY DEF Promise!Becomes, Shown

LEMMA NothingShown ==
    ASSUME \A j \in Ids : ShownOf(j)' = ShownOf(j)
    PROVE  UNCHANGED Shown
  BY DEF Shown

\* A session that is not among the newest has Keep newer ones.
LEMMA NewerAreEnough ==
    ASSUME NEW i \in Created, ~AmongNewest(i)
    PROVE  Cardinality({j \in Promise!Begun : j > i}) >= Keep
<1>1. {j \in Created : j > i} \in SUBSET Ids
  BY DEF Created
<1>2. Cardinality({j \in Created : j > i}) \in Nat
  BY <1>1, FiniteIds
<1> QED
  BY <1>2, BegunIsCreated, StoreAssumption DEF AmongNewest

LEMMA MakeDirBegins ==
    ASSUME StoreInv, NEW i \in Ids, MakeDir(i)
    PROVE  Promise!Begin(i)
<1> USE DEF StoreInv, TypeOK, MakeDir, Step, pruneVars
<1>1. \A j \in Ids \ {i} : Untouched(j)
  BY DEF Untouched, SetUp
<1>2. ShownOf(i) = "none" /\ ShownOf(i)' = "creating"
  BY DEF ShownOf, SetUp
<1> QED
  BY <1>1, <1>2, UntouchedShown, OneBecomes DEF Promise!Begin

\* What the end of Session::create's two calls comes to: the session is there,
\* or a prune has taken it, which only Keep newer ones allow.
LEMMA CreatingEnds ==
    ASSUME StoreInv, NEW i \in Ids, run[i] \in {"made", "remade"}, SetUp(i)',
           summary'[i] = "no", log'[i] = "none",
           i \in dir' \/ ~AmongNewest(i),
           \A j \in Ids \ {i} : Untouched(j)
    PROVE  Promise!SetUp(i) \/ Promise!Lose(i)
<1>1. ShownOf(i) = "creating" /\ i \in Created
  BY DEF ShownOf, SetUp, Created
<1>2. CASE i \in dir'
  <2>1. ShownOf(i)' = "open"
    BY <1>2 DEF ShownOf, SetUp, Lost
  <2> QED
    BY <1>1, <2>1, UntouchedShown, OneBecomes DEF Promise!SetUp
<1>3. CASE i \notin dir'
  <2>1. ShownOf(i)' = "lost"
    BY <1>3 DEF ShownOf, SetUp, Lost
  <2>2. Cardinality({j \in Promise!Begun : j > i}) >= Keep
    BY <1>1, <1>3, NewerAreEnough
  <2>3. Promise!Becomes(i, {"creating", "open", "written", "saved"}, "lost")
    BY <1>1, <2>1, UntouchedShown, OneBecomes
  <2> QED
    BY <2>2, <2>3, SameCount DEF Promise!Lose
<1> QED
  BY <1>2, <1>3

LEMMA MakeDiffsShows ==
    ASSUME StoreInv, NEW i \in Ids, MakeDiffs(i)
    PROVE  Promise!SetUp(i) \/ Promise!Lose(i) \/ UNCHANGED Shown
<1> USE DEF StoreInv, TypeOK, LogInv, MakeDiffs, Step, pruneVars
<1>1. \A j \in Ids \ {i} : Untouched(j)
  BY DEF Untouched, SetUp
<1>2. CASE SetUp(i)'
  <2>1. i \in dir' \/ ~AmongNewest(i)
    BY DEF FilesOf
  <2>2. run[i] \in {"made", "remade"} /\ summary'[i] = "no" /\ log'[i] = "none"
    OBVIOUS
  <2> QED
    BY <1>1, <1>2, <2>1, <2>2, CreatingEnds
<1>3. CASE ~SetUp(i)'
  <2>1. ShownOf(i) = "creating" /\ ShownOf(i)' = "creating"
    BY <1>3 DEF ShownOf, SetUp
  <2> QED
    BY <1>1, <2>1, UntouchedShown, NothingShown
<1> QED
  BY <1>2, <1>3

LEMMA CrashShows ==
    ASSUME StoreInv, NEW i \in Ids, Crash(i)
    PROVE  Promise!SetUp(i) \/ Promise!Lose(i) \/ UNCHANGED Shown
<1> USE DEF StoreInv, TypeOK, LogInv, Crash, storeVars
<1>1. \A j \in Ids \ {i} : Untouched(j)
  BY DEF Untouched, SetUp
<1>2. CASE run[i] \in {"made", "remade"} /\ run' # run
  <2>1. SetUp(i)' /\ summary'[i] = "no" /\ log'[i] = "none"
    BY <1>2 DEF SetUp
  <2>2. i \in dir' \/ ~AmongNewest(i)
    BY DEF FilesOf
  <2> QED
    BY <1>1, <1>2, <2>1, <2>2, CreatingEnds
<1>3. CASE run[i] \notin {"made", "remade"} \/ run' = run
  <2>1. Untouched(i)
    BY <1>3 DEF Untouched, SetUp, Recording
  <2> QED
    BY <1>1, <2>1, UntouchedShown, NothingShown
<1> QED
  BY <1>2, <1>3

LEMMA OpenLogShows ==
    ASSUME StoreInv, NEW i \in Ids, OpenLog(i)
    PROVE  UNCHANGED Shown
<1> USE DEF StoreInv, TypeOK, LogInv, OpenLog, Step, pruneVars
<1>1. \A j \in Ids \ {i} : Untouched(j)
  BY DEF Untouched, SetUp
<1>2. ShownOf(i)' = ShownOf(i)
  <2>1. CASE i \notin dir
    BY <2>1, UntouchedShown DEF Untouched, SetUp
  <2>2. CASE i \in dir
    <3>1. SetUp(i) /\ ~Lost(i) /\ summary[i] = "no" /\ log[i] = "none"
      BY <2>2 DEF SetUp, Lost
    <3>2. SetUp(i)' /\ ~Lost(i)' /\ summary'[i] = "no" /\ log'[i] = "start"
      BY <2>2 DEF SetUp, Lost
    <3> QED
      BY <3>1, <3>2 DEF ShownOf
  <2> QED
    BY <2>1, <2>2
<1> QED
  BY <1>1, <1>2, UntouchedShown, NothingShown

LEMMA WriteEventsShows ==
    ASSUME StoreInv, NEW i \in Ids, WriteEvents(i)
    PROVE  Promise!Write(i) \/ UNCHANGED Shown
<1> USE DEF StoreInv, TypeOK, LogInv, WriteEvents, Step, pruneVars
<1>0. CASE run'[i] = "failed"
  <2>1. \A j \in Ids : Untouched(j)
    BY <1>0 DEF Untouched, SetUp
  <2> QED
    BY <2>1, UntouchedShown, NothingShown
<1>1. \A j \in Ids \ {i} : Untouched(j)
  BY DEF Untouched, SetUp
<1>2. /\ SetUp(i) /\ SetUp(i)' /\ Lost(i)' = Lost(i)
      /\ summary[i] = "no" /\ summary'[i] = "no"
      /\ log[i] = "start"
  BY DEF SetUp, Lost
<1>5. run'[i] # "failed" => log'[i] = "all"
  OBVIOUS
<1>3. CASE Lost(i) /\ run'[i] # "failed"
  <2>1. ShownOf(i)' = ShownOf(i)
    BY <1>2, <1>3, <1>5 DEF ShownOf
  <2> QED
    BY <1>1, <2>1, UntouchedShown, NothingShown
<1>4. CASE ~Lost(i) /\ run'[i] # "failed"
  <2>1. ShownOf(i) = "open" /\ ShownOf(i)' = "written"
    BY <1>2, <1>4, <1>5 DEF ShownOf
  <2> QED
    BY <1>1, <2>1, UntouchedShown, OneBecomes DEF Promise!Write
<1> QED
  BY <1>0, <1>3, <1>4

LEMMA OpenSummaryShows ==
    ASSUME StoreInv, NEW i \in Ids, OpenSummary(i)
    PROVE  UNCHANGED Shown
<1> USE DEF StoreInv, TypeOK, LogInv, OpenSummary, Step, pruneVars
<1>1. \A j \in Ids \ {i} : Untouched(j)
  BY DEF Untouched, SetUp
<1>2. /\ SetUp(i) /\ SetUp(i)' /\ Lost(i)' = Lost(i)
      /\ summary[i] = "no" /\ summary'[i] \in {"no", "torn"} /\ log'[i] = log[i]
  BY DEF SetUp, Lost
<1>3. ShownOf(i)' = ShownOf(i)
  BY <1>2 DEF ShownOf
<1> QED
  BY <1>1, <1>3, UntouchedShown, NothingShown

LEMMA WriteSummaryShows ==
    ASSUME StoreInv, NEW i \in Ids, WriteSummary(i)
    PROVE  Promise!Save(i) \/ UNCHANGED Shown
<1> USE DEF StoreInv, TypeOK, LogInv, WriteSummary, Step, pruneVars, Ended
<1>1. \A j \in Ids \ {i} : Untouched(j)
  BY DEF Untouched, SetUp
<1>2. /\ SetUp(i) /\ SetUp(i)' /\ Lost(i)' = Lost(i)
      /\ log[i] = "all" /\ log'[i] = "all"
  BY DEF SetUp, Lost
<1>3. CASE Lost(i) \/ summary[i] # "torn"
  <2>1. ShownOf(i)' = ShownOf(i)
    BY <1>2, <1>3 DEF ShownOf
  <2> QED
    BY <1>1, <2>1, UntouchedShown, NothingShown
<1>4. CASE ~Lost(i) /\ summary[i] = "torn"
  <2>1. summary'[i] = "full"
    BY <1>4
  <2>2. ShownOf(i) = "written" /\ ShownOf(i)' = "saved"
    BY <1>2, <1>4, <2>1 DEF ShownOf
  <2> QED
    BY <1>1, <2>2, UntouchedShown, OneBecomes DEF Promise!Save
<1> QED
  BY <1>3, <1>4

\* remove_dir_all takes a session only where Keep newer ones were begun.
LEMMA DoomedMayBeLost ==
    ASSUME StoreInv, NEW p \in Pruners, NEW i \in Ids, doomed[p] = i,
           Lost(i)', run' = run,
           \A j \in Ids \ {i} : Untouched(j)
    PROVE  Promise!Lose(i) \/ UNCHANGED Shown
<1>1. i \in Created /\ ~AmongNewest(i)
  BY StoreAssumption DEF StoreInv, ListsInv, Ids
<1>2. Cardinality({j \in Promise!Begun : j > i}) >= Keep
  BY <1>1, NewerAreEnough
<1>3. \A j \in Ids \ {i} : ShownOf(j)' = ShownOf(j)
  BY UntouchedShown
<1>4. CASE ShownOf(i)' = ShownOf(i)
  BY <1>3, <1>4, NothingShown
<1>5. CASE ShownOf(i)' # ShownOf(i)
  <2>1. SetUp(i)' /\ SetUp(i) /\ ShownOf(i)' = "lost"
    BY <1>1, <1>5 DEF ShownOf, SetUp, Created
  <2>2. ShownOf(i) \in {"creating", "open", "written", "saved"}
    BY <1>5, <2>1 DEF ShownOf, SetUp
  <2>3. Promise!Becomes(i, {"creating", "open", "written", "saved"}, "lost")
    BY <1>3, <2>1, <2>2, OneBecomes
  <2> QED
    BY <1>2, <2>3, SameCount DEF Promise!Lose
<1> QED
  BY <1>4, <1>5

LEMMA UnlinkFilesShows ==
    ASSUME StoreInv, NEW p \in Pruners, NEW i \in Ids, doomed[p] = i,
           UnlinkFiles(p)
    PROVE  Promise!Lose(i) \/ UNCHANGED Shown
<1> USE DEF StoreInv, TypeOK, UnlinkFiles, runVars
<1>1. \A j \in Ids \ {i} : Untouched(j)
  BY DEF Untouched, SetUp
<1>2. CASE log[i] = "none"
  <2>1. summary[i] = "no" /\ summary'[i] = "no" /\ log' = log /\ dir' = dir
    BY <1>2 DEF LogInv
  <2>2. Lost(i)' = Lost(i) /\ run' = run
    BY <1>2, <2>1 DEF Lost
  <2>3. ShownOf(i)' = ShownOf(i)
    BY <2>1, <2>2 DEF ShownOf, SetUp
  <2> QED
    BY <1>1, <2>3, UntouchedShown, NothingShown
<1>3. CASE log[i] # "none"
  <2>1. Lost(i)' /\ run' = run
    BY <1>3 DEF Lost
  <2> QED
    BY <1>1, <2>1, DoomedMayBeLost
<1> QED
  BY <1>2, <1>3

LEMMA RemoveDirShows ==
    ASSUME StoreInv, NEW p \in Pruners, NEW i \in Ids, doomed[p] = i,
           RemoveDir(p)
    PROVE  Promise!Lose(i) \/ UNCHANGED Shown
<1> USE DEF StoreInv, TypeOK, RemoveDir, runVars
<1>1. \A j \in Ids \ {i} : Untouched(j)
  BY DEF Untouched, SetUp
<1>2. CASE Removable(i)
  <2>1. Lost(i)' /\ run' = run
    BY <1>2 DEF Lost
  <2> QED
    BY <1>1, <2>1, DoomedMayBeLost
<1>3. CASE ~Removable(i)
  <2>1. \A j \in Ids : Untouched(j)
    BY <1>3 DEF Untouched, SetUp
  <2> QED
    BY <2>1, UntouchedShown, NothingShown
<1> QED
  BY <1>2, <1>3

LEMMA RetentionStep ==
    StoreInv /\ [Next]_vars => [Promise!RetentionNext]_Shown
<1> SUFFICES ASSUME StoreInv, [Next]_vars
             PROVE  Promise!RetentionNext \/ UNCHANGED Shown
  OBVIOUS
<1> USE DEF storeVars, runVars, pruneVars, vars
<1>0. Promise!Sessions = Ids
  BY DEF Promise!Sessions, Ids
<1>1. ASSUME NEW i \in Ids, Record(i) \/ Crash(i)
      PROVE  Promise!RetentionNext \/ UNCHANGED Shown
  <2>1. CASE WriteTerminal(i)
    <3>1. \A j \in Ids : Untouched(j)
      BY <2>1 DEF WriteTerminal, Untouched, SetUp
    <3> QED
      BY <3>1, UntouchedShown, NothingShown
  <2> QED
    BY <1>0, <1>1, <2>1, MakeDirBegins, MakeDiffsShows, OpenLogShows,
       WriteEventsShows, OpenSummaryShows, WriteSummaryShows, CrashShows
       DEF Record, Promise!RetentionNext
<1>2. ASSUME NEW p \in Pruners, UnlinkFiles(p) \/ RemoveDir(p)
      PROVE  Promise!RetentionNext \/ UNCHANGED Shown
  <2>1. PICK i \in Ids : doomed[p] = i
    BY <1>2 DEF StoreInv, TypeOK, UnlinkFiles, RemoveDir
  <2> QED
    BY <1>0, <1>2, <2>1, UnlinkFilesShows, RemoveDirShows
       DEF Promise!RetentionNext
<1>3. ASSUME NEW i \in Ids, Ages(i) PROVE UNCHANGED Shown
  <2>1. \A j \in Ids : Untouched(j)
    BY <1>3 DEF Ages, Untouched, SetUp
  <2> QED
    BY <2>1, UntouchedShown, NothingShown
<1>4. ASSUME NEW p \in Pruners, List(p) \/ LookAt(p) PROVE UNCHANGED Shown
  <2>1. \A j \in Ids : Untouched(j)
    BY <1>4 DEF List, MayPrune, LookAt, Untouched, SetUp, StoreInv, TypeOK
  <2> QED
    BY <2>1, UntouchedShown, NothingShown
<1>5. CASE Stop \/ UNCHANGED vars
  <2>1. \A j \in Ids : Untouched(j)
    BY <1>5 DEF Stop, Untouched, SetUp
  <2> QED
    BY <2>1, UntouchedShown, NothingShown
<1> QED
  BY <1>1, <1>2, <1>3, <1>4, <1>5 DEF Next, Prune

\* The store implements the abstract promise: a session is begun, set up,
\* written and saved in order, is lost only while Keep newer ones have been
\* begun, and a lost one never comes back, in whole or in part.
THEOREM ImplementsRetention == Spec => RetentionSpec
<1>1. Init => Promise!RetentionInit
  BY DEF Init, Promise!RetentionInit, Promise!Sessions, Shown, ShownOf,
     SetUp, Ids
<1> QED
  BY <1>1, RetentionStep, StoreInvariance, PTL
     DEF Spec, RetentionSpec, Promise!RetentionSpec
=============================================================================
