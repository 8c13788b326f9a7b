---------------------------- MODULE SessionStore ----------------------------
(***************************************************************************)
(* ~/.postflight/sessions, shared by every postflight process of the user  *)
(* with no lock (src/lib/session.rs): recordings create, fill and finish   *)
(* their directories, each prunes the store when it ends, `postflight      *)
(* clean` prunes it at any time, and `postflight stop` looks for the       *)
(* session to stop.  A session's id is its start time, so ids are numbers. *)
(* It is taken before the directory is made: two runs that start together  *)
(* may make their directories in either order.                             *)
(***************************************************************************)
EXTENDS Naturals, FiniteSets

CONSTANTS MaxSessions,  \* how many sessions are created (bounds the model)
          Keep,         \* session_retention, and the --keep of clean
          Cleaners      \* processes of `postflight clean`

ASSUME StoreAssumption ==
    /\ MaxSessions \in Nat
    /\ Keep \in Nat
    /\ Cleaners \cap Nat = {}

Ids == 1..MaxSessions
Pruners == Ids \cup Cleaners  \* a recording prunes under its own id

VARIABLES
    run,      \* of each session: where its `postflight run` is
    dir,      \* the ids whose directory exists
    events,   \* the ids whose events.jsonl exists
    summary,  \* summary.json of each id: no, torn (being written), full
    others,   \* of each id: which of diffs/ and terminal.raw exist
    log,      \* what a session's run has written of its events: none, start, all
    old,      \* the ids whose events.jsonl was last written over 60s ago
    todo,     \* of each pruner: the ids of its list it has yet to look at
    doomed,   \* of each pruner: the id it is removing, or 0
    emptied,  \* the pruners that have unlinked the files of the one they remove
    sentinels \* the ids `postflight stop` has asked to stop

storeVars == <<dir, events, summary, others, old>>
runVars == <<run, log>>
pruneVars == <<todo, doomed, emptied>>
vars == <<storeVars, runVars, pruneVars, sentinels>>

\* The types; and a file is in a directory that exists.
TypeOK ==
    /\ run \in [Ids -> {"none", "made", "remade", "mkdir", "live", "ending",
                        "saving", "prune", "over", "failed", "crashed"}]
    /\ dir \subseteq Ids
    /\ events \subseteq Ids
    /\ summary \in [Ids -> {"no", "torn", "full"}]
    /\ others \in [Ids -> SUBSET {"diffs", "raw"}]
    /\ \A i \in Ids : i \in dir \/ (i \notin events /\ summary[i] = "no"
                                                  /\ others[i] = {})
    /\ log \in [Ids -> {"none", "start", "all"}]
    /\ old \subseteq events
    /\ todo \in [Pruners -> SUBSET Ids]
    /\ doomed \in [Pruners -> Ids \cup {0}]
    /\ emptied \subseteq {p \in Pruners : doomed[p] # 0}
    /\ sentinels \subseteq Ids

Init ==
    /\ run = [i \in Ids |-> "none"]
    /\ dir = {} /\ events = {} /\ old = {} /\ sentinels = {}
    /\ summary = [i \in Ids |-> "no"]
    /\ others = [i \in Ids |-> {}]
    /\ log = [i \in Ids |-> "none"]
    /\ todo = [p \in Pruners |-> {}]
    /\ doomed = [p \in Pruners |-> 0]
    /\ emptied = {}

\* A recording that is under way.
Recording == {"made", "remade", "mkdir", "live", "ending", "saving"}
Created == {i \in Ids : run[i] # "none"}

(***************************************************************************)
(* A recording: Session::create, the run, the tail of cmd_run.  The file   *)
(* events.jsonl stays open, so what is written to it after it was unlinked *)
(* is lost without an error.                                               *)
(***************************************************************************)

Step(i, from, to) == run[i] = from /\ run' = [run EXCEPT ![i] = to]

\* The first create_dir_all: the session's directory.
MakeDir(i) ==
    /\ Step(i, "none", "made")
    /\ dir' = dir \cup {i}
    /\ UNCHANGED <<events, summary, others, old, log, pruneVars, sentinels>>

\* The second one: diffs/ in it.  If a prune removed the directory since the
\* first, the parent is made again, and diffs/ then tried once more.
MakeDiffs(i) ==
    /\ run[i] \in {"made", "remade"}
    /\ IF i \in dir
       THEN /\ Step(i, run[i], "mkdir")
            /\ others' = [others EXCEPT ![i] = @ \cup {"diffs"}]
            /\ UNCHANGED dir
       ELSE \/ /\ Step(i, "made", "remade")
               /\ dir' = dir \cup {i}
               /\ UNCHANGED others
            \/ Step(i, "remade", "failed") /\ UNCHANGED <<dir, others>>
    /\ UNCHANGED <<events, summary, old, log, pruneVars, sentinels>>

\* Slip: a directory that was removed meanwhile is made again.
OpenLogAnyway(i) ==
    /\ Step(i, "mkdir", "live")
    /\ dir' = dir \cup {i}
    /\ events' = events \cup {i}
    /\ log' = [log EXCEPT ![i] = "start"]
    /\ UNCHANGED <<summary, others, old, pruneVars, sentinels>>

\* File::create of events.jsonl and the session_start line.
OpenLog(i) ==
    /\ IF i \in dir
       THEN /\ Step(i, "mkdir", "live")
            /\ events' = events \cup {i}
            /\ log' = [log EXCEPT ![i] = "start"]
       ELSE Step(i, "mkdir", "failed") /\ UNCHANGED <<events, log>>
    /\ UNCHANGED <<dir, summary, others, old, pruneVars, sentinels>>

\* terminal.raw is opened by its path for every chunk of output; an error is
\* ignored.
WriteTerminal(i) ==
    /\ run[i] = "live" /\ i \in dir
    /\ others' = [others EXCEPT ![i] = @ \cup {"raw"}]
    /\ UNCHANGED <<dir, events, summary, old, runVars, pruneVars, sentinels>>

\* Slip: the summary is saved before the events.
WriteEventsLater(i) ==
    /\ Step(i, "live", "ending")
    /\ UNCHANGED <<storeVars, log, pruneVars, sentinels>>

\* The agent has exited: everything observed is written, session_end last.
\* Between the two the diffs are saved, by path: with diffs/ removed the run
\* ends in an error there.
WriteEvents(i) ==
    /\ \/ /\ Step(i, "live", "ending")
          /\ log' = [log EXCEPT ![i] = "all"]
       \/ /\ "diffs" \notin others[i]
          /\ Step(i, "live", "failed")
          /\ UNCHANGED log
    /\ old' = old \ {i}
    /\ sentinels' = sentinels \ {i}
    /\ UNCHANGED <<dir, events, summary, others, pruneVars>>

\* fs::write of summary.json: open with truncation, then write.
OpenSummary(i) ==
    /\ IF i \in dir
       THEN /\ Step(i, "ending", "saving")
            /\ summary' = [summary EXCEPT ![i] = "torn"]
       ELSE Step(i, "ending", "failed") /\ UNCHANGED summary
    /\ UNCHANGED <<dir, events, others, old, log, pruneVars, sentinels>>

WriteSummary(i) ==
    /\ Step(i, "saving", "prune")
    /\ summary' = [summary EXCEPT ![i] = IF @ = "torn" THEN "full" ELSE @]
    /\ UNCHANGED <<dir, events, others, old, log, pruneVars, sentinels>>

\* The run is killed at any point of it, in the
\* middle of its prune included: what that had half removed stays so.
Crash(i) ==
    /\ \/ /\ run[i] \in Recording
          /\ run' = [run EXCEPT ![i] = "crashed"]
          /\ UNCHANGED pruneVars
       \/ /\ todo[i] # {} \/ doomed[i] # 0
          /\ todo' = [todo EXCEPT ![i] = {}]
          /\ doomed' = [doomed EXCEPT ![i] = 0]
          /\ emptied' = emptied \ {i}
          /\ UNCHANGED run
    /\ UNCHANGED <<storeVars, log, sentinels>>

\* 60 seconds without a write to events.jsonl.  A run whose agent is at work
\* writes nothing to it.
Ages(i) ==
    /\ i \in events \ old
    /\ old' = old \cup {i}
    /\ UNCHANGED <<dir, events, summary, others, runVars, pruneVars, sentinels>>

(***************************************************************************)
(* prune_sessions: the list is read once; then each entry behind the       *)
(* newest Keep is looked at, and removed in a later step.                  *)
(***************************************************************************)

\* The head of a list that is sorted newest first.
NewestOf(S) == {i \in S : \A j \in S : j <= i}

\* Slips: the first of the list is not counted; the list is oldest first.
BehindOffByOne(S) == {i \in S : Cardinality({j \in S : j >= i}) >= Keep}
BehindOldest(S) == {i \in S : Cardinality({j \in S : j < i}) >= Keep}

Behind(S) == {i \in S : Cardinality({j \in S : j > i}) >= Keep}

MayPrune(p) ==
    /\ todo[p] = {} /\ doomed[p] = 0
    /\ p \in Ids => run[p] = "prune"

List(p) ==
    /\ MayPrune(p)
    /\ todo' = [todo EXCEPT ![p] = Behind(dir)]
    /\ run' = [i \in Ids |-> IF i = p THEN "over" ELSE run[i]]
    /\ UNCHANGED <<storeVars, log, doomed, emptied, sentinels>>

\* Slip: an unfinished session is spared whatever its age.
SparedForEver(i) == summary[i] = "no" /\ i \in events

\* An unfinished session is spared while its log is fresh.
Spared(i) == summary[i] = "no" /\ i \in events /\ i \notin old

LookAt(p) ==
    /\ doomed[p] = 0
    /\ \E i \in NewestOf(todo[p]) :
        /\ todo' = [todo EXCEPT ![p] = @ \ {i}]
        /\ doomed' = [doomed EXCEPT ![p] = IF Spared(i) THEN 0 ELSE i]
    /\ UNCHANGED <<storeVars, runVars, emptied, sentinels>>

\* remove_dir_all: the files, then the directory, if nothing is in it again.
UnlinkFiles(p) ==
    /\ doomed[p] # 0 /\ p \notin emptied
    /\ emptied' = emptied \cup {p}
    /\ events' = events \ {doomed[p]}
    /\ summary' = [summary EXCEPT ![doomed[p]] = "no"]
    /\ others' = [others EXCEPT ![doomed[p]] = {}]
    /\ old' = old \ {doomed[p]}
    /\ sentinels' = sentinels \ {doomed[p]}
    /\ UNCHANGED <<dir, runVars, todo, doomed>>

\* Slip: the directory goes although something was put in it again.
RemovableAlways(i) == i \in dir

Removable(i) == i \in dir \ events /\ summary[i] = "no" /\ others[i] = {}

RemoveDir(p) ==
    /\ p \in emptied
    /\ dir' = dir \ {i \in {doomed[p]} : Removable(i)}
    /\ doomed' = [doomed EXCEPT ![p] = 0]
    /\ emptied' = emptied \ {p}
    /\ UNCHANGED <<events, summary, others, old, runVars, todo, sentinels>>

(***************************************************************************)
(* `postflight stop` without an id: the newest session that has a log and  *)
(* no summary.                                                             *)
(***************************************************************************)

Active == {i \in events : summary[i] = "no"}

Stop ==
    /\ \E i \in NewestOf(Active) : sentinels' = sentinels \cup {i}
    /\ UNCHANGED <<storeVars, runVars, pruneVars>>

Record(i) ==
    \/ MakeDir(i) \/ MakeDiffs(i) \/ OpenLog(i) \/ WriteTerminal(i)
    \/ WriteEvents(i) \/ OpenSummary(i) \/ WriteSummary(i)
Prune(p) == LookAt(p) \/ UnlinkFiles(p) \/ RemoveDir(p)

Next ==
    \/ \E i \in Ids : Record(i) \/ Crash(i) \/ Ages(i)
    \/ \E p \in Pruners : List(p) \/ Prune(p)
    \/ Stop

\* A prune that has read its list goes on, the minutes pass, and somebody runs
\* `postflight clean` again and again.
Fairness ==
    /\ \A p \in Pruners : WF_vars(Prune(p))
    /\ \A i \in Ids : WF_vars(Ages(i))
    /\ \A p \in Cleaners : WF_vars(List(p))

Spec == Init /\ [][Next]_vars /\ Fairness

-----------------------------------------------------------------------------
\* The newest Keep sessions are never lost, whoever prunes and however the
\* prunes and the recordings interleave, crashed ones among them included; and
\* no prune makes the recording of one of them fail.
AmongNewest(i) == i \in Created /\ Cardinality({j \in Created : j > i}) < Keep
NewestKept == \A i \in Ids : AmongNewest(i) => i \in dir /\ run[i] # "failed"

\* `report` finds what it needs: a session among the newest whose recording
\* went to its end has a complete summary and an event log.
NewestReportable ==
    \A i \in Ids : AmongNewest(i) /\ run[i] \in {"prune", "over"}
                     => summary[i] = "full" /\ i \in events

\* summary.json, by which stop, latest and prune know a finished session, is
\* not there before every event of the session has been written.
SummaryComesLast == \A i \in Ids : summary[i] # "no" => log[i] = "all"

\* Sessions that are over, crashed ones included, do not pile up: behind the
\* newest Keep they are removed in the end.
Retained == \A i \in Ids :
    (i \in Behind(dir) /\ run[i] \notin Recording) ~> i \notin dir

-----------------------------------------------------------------------------
(***************************************************************************)
(* Retention, seen from the files: a session is lost once its directory is *)
(* gone, or the log that was opened in it is.  While Session::create is at *)
(* its directories nothing is lost yet: the second call makes good what a  *)
(* prune did after the first.                                              *)
(***************************************************************************)

Lost(i) == i \notin dir \/ (log[i] # "none" /\ i \notin events)

SetUp(i) == run[i] \notin {"none", "made", "remade"}

ShownOf(i) ==
    CASE run[i] = "none" -> "none"
      [] run[i] \in {"made", "remade"} -> "creating"
      [] SetUp(i) /\ Lost(i) -> "lost"
      [] SetUp(i) /\ ~Lost(i) /\ summary[i] = "full" -> "saved"
      [] SetUp(i) /\ ~Lost(i) /\ summary[i] # "full" ->
           IF log[i] = "all" THEN "written" ELSE "open"

Shown == [i \in Ids |-> ShownOf(i)]
Promise == INSTANCE Retention WITH shown <- Shown

\* Whatever order recordings, crashes and prunes take: a session is begun,
\* set up, written and saved in this order, is lost only while Keep newer ones
\* have been begun, and once it was set up what is lost never comes back.
RetentionSpec == Promise!RetentionSpec

-----------------------------------------------------------------------------
\* main.rs: "Defaults to the most recent active session".  While some session
\* is being recorded, the one that stop picks by itself is being recorded.
StopPicksRunning ==
    [][(\E i \in events : run[i] \in Recording)
         => \A i \in sentinels' \ sentinels : run[i] \in Recording]_vars

\* main.rs: "The session still gets saved after the child exits".  A prune
\* does not choose a session whose agent is at work.
PruneSparesRunning ==
    [][\A p \in Pruners : doomed[p] = 0 /\ doomed'[p] # 0
                             => run[doomed'[p]] # "live"]_vars
=============================================================================
