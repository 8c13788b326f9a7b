------------------------------ MODULE Recorder ------------------------------
(***************************************************************************)
(* What a recording observes, and how it gets into the session's log       *)
(* (cmd_run in src/bin/main.rs with process.rs and network.rs).  A thread  *)
(* polls the process tree of the agent, another one its connections; both  *)
(* send what is new down a channel.  When the agent is over, the main      *)
(* thread clears `running`, joins both, writes the channels to events.jsonl *)
(* and builds the summary from what it reads back.                         *)
(*                                                                         *)
(* A process is a pid and a serial number; its argv is abstracted to the   *)
(* serial number, 0 being the text "<pid:N>" that stands for an argv that  *)
(* cannot be read.                                                         *)
(***************************************************************************)
EXTENDS Naturals, Sequences, FiniteSets, SequencesExt

CONSTANTS Pids,        \* pids the descendants of the agent can have
          Conns,       \* keys of connections: <<pid, remote end>>
          MaxForks,    \* how many processes are forked (bounds the model)
          Recycling,   \* whether the kernel's pids wrap around meanwhile
          ThreadForks  \* whether the agent also forks from other threads than
                       \* the main one of a process

Root == 1    \* the agent itself
Nobody == 0  \* no process of the tree

ASSUME RecorderAssumption ==
    /\ Pids \subseteq Nat \ {Root, Nobody} /\ IsFiniteSet(Pids)
    /\ IsFiniteSet(Conns)
    /\ MaxForks \in Nat
    /\ Recycling \in BOOLEAN /\ ThreadForks \in BOOLEAN

VARIABLES
    rootAlive, status, parent, serial, offMain, forks,  \* the agent's
    running,                          \* the flag both threads look at
    procPc, toCheck, pids, known,     \* the process tracker
    reading, listable, sure,          \* the list of children it is reading
    shaken,                           \* history: processes this poll can miss
    netPc, seen,                      \* the network observer
    procCh, netCh,                    \* the channels
    mainPc, log, subprocesses, remotes  \* main thread, events.jsonl, summary

agentVars == <<rootAlive, status, parent, serial, offMain, forks>>
readVars == <<reading, listable, sure, shaken>>
trackerVars == <<procPc, toCheck, pids, known, procCh>>
observerVars == <<netPc, seen, netCh>>
mainVars == <<running, mainPc, log, subprocesses, remotes>>
vars == <<agentVars, readVars, trackerVars, observerVars, mainVars>>

Serials == 0..MaxForks
Spawned(p, a) == [kind |-> "spawned", pid |-> p, argv |-> a]
Exited(p) == [kind |-> "exited", pid |-> p]
Connected(c) == [kind |-> "connection", key |-> c]
End == [kind |-> "end"]
Events ==
    {Spawned(p, a) : p \in Pids, a \in Serials} \cup {Exited(p) : p \in Pids}
      \cup {Connected(c) : c \in Conns} \cup {End}

TypeOK ==
    /\ rootAlive \in BOOLEAN
    /\ status \in [Pids -> {"free", "alive", "zombie"}]
    /\ parent \in [Pids -> Pids \cup {Root, Nobody}]
    /\ serial \in [Pids -> Serials]
    /\ offMain \subseteq Pids
    /\ forks \in Serials
    /\ running \in BOOLEAN
    /\ procPc \in {"sleep", "walk", "read", "compare", "done"}
    /\ toCheck \subseteq Pids \cup {Root}
    /\ reading \in Pids \cup {Root, Nobody}
    /\ sure \subseteq listable /\ listable \subseteq Pids
    /\ shaken \subseteq Pids
    /\ pids \subseteq Pids
    /\ known \subseteq Pids
    /\ netPc \in {"sleep", "done"}
    /\ seen \subseteq Conns
    /\ mainPc \in {"wait", "join", "drain", "summary", "saved", "failed"}
    /\ procCh \in Seq(Events) /\ netCh \in Seq(Events) /\ log \in Seq(Events)
    /\ subprocesses \in [DOMAIN subprocesses -> Pids \X Serials]
    /\ remotes \subseteq {c[2] : c \in Conns}

Init ==
    /\ rootAlive = TRUE
    /\ status = [p \in Pids |-> "free"]
    /\ parent = [p \in Pids |-> Nobody]
    /\ serial = [p \in Pids |-> 0]
    /\ offMain = {} /\ forks = 0
    /\ running = TRUE
    /\ procPc = "sleep" /\ toCheck = {} /\ pids = {} /\ known = {}
    /\ reading = Nobody /\ listable = {} /\ sure = {} /\ shaken = {}
    /\ netPc = "sleep" /\ seen = {}
    /\ procCh = <<>> /\ netCh = <<>>
    /\ mainPc = "wait" /\ log = <<>> /\ subprocesses = <<>> /\ remotes = {}

(***************************************************************************)
(* The agent and its descendants.                                          *)
(***************************************************************************)

Running(q) == IF q = Root THEN rootAlive ELSE status[q] = "alive"

Fork(q, p) ==
    /\ Running(q) /\ status[p] = "free" /\ forks < MaxForks
    /\ Recycling \/ serial[p] = 0
    /\ status' = [status EXCEPT ![p] = "alive"]
    /\ parent' = [parent EXCEPT ![p] = q]
    /\ serial' = [serial EXCEPT ![p] = forks + 1]
    /\ forks' = forks + 1
    /\ \/ offMain' = offMain \ {p}
       \/ ThreadForks /\ offMain' = offMain \cup {p}
    /\ UNCHANGED rootAlive

\* Those that process q descends from.
Ancestors(q) ==
    {r \in Pids \cup {Root} :
        \A S \in SUBSET (Pids \cup {Root, Nobody}) :
            parent[q] \in S /\ (\A p \in S \cap Pids : parent[p] \in S)
            => r \in S}

\* Who adopts the children of q: init, or a reaper outside the tree, which is
\* the same here, or a living ancestor that has made itself a subreaper.
Heirs(q) == {Nobody} \cup {r \in Ancestors(q) : Running(r)}

\* The children of q become those of its heir (of its main thread).
Orphaned(q, heir) ==
    /\ parent' = [p \in Pids |-> IF parent[p] = q THEN heir ELSE parent[p]]
    /\ offMain' = {p \in offMain : parent[p] # q}

Exits(q) ==
    /\ status[q] = "alive"
    /\ status' = [status EXCEPT ![q] = "zombie"]
    /\ \E heir \in Heirs(q) : Orphaned(q, heir)
    /\ UNCHANGED <<rootAlive, serial, forks>>

\* Its parent, or init, has waited for it.
IsReaped(p) ==
    /\ status[p] = "zombie"
    /\ status' = [status EXCEPT ![p] = "free"]
    /\ parent' = [parent EXCEPT ![p] = Nobody]
    /\ UNCHANGED <<rootAlive, serial, offMain, forks>>

\* A thread ends: the main thread inherits the children it forked.
ThreadEnds(q) ==
    /\ Running(q)
    /\ \E S \in SUBSET {p \in offMain : parent[p] = q} :
          S # {} /\ offMain' = offMain \ S
    /\ UNCHANGED <<rootAlive, status, parent, serial, forks>>

RootExits ==
    /\ rootAlive
    /\ rootAlive' = FALSE
    /\ Orphaned(Root, Nobody)
    /\ UNCHANGED <<status, serial, forks>>

\* /proc/<q>/task/<q>/children: those forked by the main thread of q.
Children(q) == {p \in Pids \ offMain : parent[p] = q /\ status[p] # "free"}

\* Processes whom this step puts into another list of children, or into none.
Moved ==
    {p \in Pids : /\ status[p] # "free"
                  /\ \/ parent'[p] # parent[p]
                     \/ p \in offMain \ offMain'}

\* What the step does to the list that the tracker is reading: proc(5) has it
\* that children may be left out once one of them goes.  Sure to be listed are
\* those that were there from the start, as long as all of them stay.
WhileReading ==
    /\ UNCHANGED reading
    /\ LET polling == procPc \in {"walk", "read", "compare"}
           now == IF procPc = "read" THEN Children(reading)' ELSE {}
           skipped == IF sure \subseteq now THEN {} ELSE sure
       IN  /\ listable' = listable \cup now
           /\ sure' = sure \ skipped
           /\ shaken' = IF polling THEN shaken \cup Moved \cup skipped
                        ELSE {}

Agent ==
    /\ \/ \E q \in Pids \cup {Root}, p \in Pids : Fork(q, p)
       \/ \E p \in Pids : Exits(p) \/ IsReaped(p)
       \/ \E q \in Pids \cup {Root} : ThreadEnds(q)
       \/ RootExits
    /\ WhileReading
    /\ UNCHANGED <<trackerVars, observerVars, mainVars>>

(***************************************************************************)
(* ProcessTracker.  poll walks the tree process by process, then reads the *)
(* argv of each new one, then records as exited the known ones it has not  *)
(* met.                                                                    *)
(***************************************************************************)

\* /proc/<p>/cmdline, which is empty for a zombie.
Argv(p) == IF status[p] = "alive" THEN serial[p] ELSE 0

\* Slip: the list starts with the agent, as that of the network observer does.
PollStartsWithRoot ==
    /\ procPc = "sleep" /\ running
    /\ procPc' = "walk"
    /\ toCheck' = {Root} /\ pids' = {Root}
    /\ UNCHANGED <<known, procCh, readVars>>

PollStarts ==
    /\ procPc = "sleep" /\ running
    /\ procPc' = "walk"
    /\ toCheck' = {Root} /\ pids' = {}
    /\ UNCHANGED <<known, procCh, readVars>>

\* The next process is popped and its list of children opened.
ReadStarts ==
    /\ procPc = "walk"
    /\ procPc' = "read"
    /\ \E q \in toCheck :
        /\ reading' = q
        /\ listable' = Children(q) /\ sure' = Children(q)
        /\ toCheck' = toCheck \ {q}
    /\ UNCHANGED <<pids, known, procCh, shaken>>

\* Slips: children of the agent only; what is below a known process is not
\* looked at again.
WalkOneLevel(S) ==
    /\ pids' = pids \cup S
    /\ UNCHANGED toCheck
WalkSkipsKnown(S) ==
    /\ pids' = pids \cup S
    /\ toCheck' = toCheck \cup (S \ known)

Walk(S) ==
    /\ pids' = pids \cup S
    /\ toCheck' = toCheck \cup S

\* The read came back with S.
ReadEnds ==
    /\ procPc = "read"
    /\ \E S \in SUBSET listable : sure \subseteq S /\ Walk(S)
    /\ reading' = Nobody /\ listable' = {} /\ sure' = {}
    /\ procPc' = IF toCheck' = {} THEN "compare" ELSE "walk"
    /\ UNCHANGED <<known, procCh, shaken>>

RecordSpawn ==
    /\ procPc = "compare"
    /\ \E p \in pids \ known :
        /\ known' = known \cup {p}
        /\ procCh' = Append(procCh, Spawned(p, Argv(p)))
    /\ UNCHANGED <<procPc, toCheck, pids, readVars>>

\* Slip: what is no longer there stays in known_pids.
ForgetNothing(S) ==
    /\ procCh' = procCh \o SetToSeq({Exited(p) : p \in S})
    /\ UNCHANGED known

\* known_pids.remove, and an exit event.
Forget(S) ==
    /\ procCh' = procCh \o SetToSeq({Exited(p) : p \in S})
    /\ known' = known \ S

RecordExits ==
    /\ procPc = "compare" /\ pids \subseteq known
    /\ Forget(known \ pids)
    /\ procPc' = "sleep" /\ shaken' = {}
    /\ UNCHANGED <<toCheck, pids, reading, listable, sure>>

\* finish_all.
FinishAll ==
    /\ procPc = "sleep" /\ ~running
    /\ Forget(known)
    /\ procPc' = "done"
    /\ UNCHANGED <<toCheck, pids, readVars>>

Tracker ==
    /\ \/ PollStarts \/ ReadStarts \/ ReadEnds
       \/ RecordSpawn \/ RecordExits \/ FinishAll
    /\ UNCHANGED <<agentVars, observerVars, mainVars>>

(***************************************************************************)
(* NetworkObserver.  What lsof prints, parsed and without loopback, is any *)
(* set of connections.                                                     *)
(***************************************************************************)

\* Slip: a connection is new in every poll.
AllNew(S) == S

New(S) == S \ seen

PollConnections ==
    /\ netPc = "sleep" /\ running
    /\ \E S \in SUBSET Conns :
        /\ seen' = seen \cup S
        /\ netCh' = netCh \o SetToSeq({Connected(c) : c \in New(S)})
    /\ UNCHANGED netPc

ObserverEnds ==
    /\ netPc = "sleep" /\ ~running
    /\ netPc' = "done"
    /\ UNCHANGED <<seen, netCh>>

Observer ==
    /\ PollConnections \/ ObserverEnds
    /\ UNCHANGED <<agentVars, readVars, trackerVars, mainVars>>

(***************************************************************************)
(* The main thread.                                                        *)
(***************************************************************************)

\* Slip: the flag is left for later.
ChildOverFlagUp ==
    /\ mainPc = "wait" /\ ~rootAlive
    /\ mainPc' = "join"
    /\ UNCHANGED <<running, log, subprocesses, remotes, procCh, netCh>>

ChildOver ==
    /\ mainPc = "wait" /\ ~rootAlive
    /\ running' = FALSE
    /\ mainPc' = "join"
    /\ UNCHANGED <<log, subprocesses, remotes, procCh, netCh>>

\* Slip: the channels are drained while the threads may still send.
JoinNobody ==
    /\ mainPc = "join"
    /\ mainPc' = "drain"
    /\ UNCHANGED <<running, log, subprocesses, remotes, procCh, netCh>>

Join ==
    /\ mainPc = "join" /\ procPc = "done" /\ netPc = "done"
    /\ mainPc' = "drain"
    /\ UNCHANGED <<running, log, subprocesses, remotes, procCh, netCh>>

\* try_recv and write_event, the process channel first.
WriteEvent ==
    /\ mainPc = "drain"
    /\ \/ /\ procCh # <<>>
          /\ log' = Append(log, Head(procCh))
          /\ procCh' = Tail(procCh)
          /\ UNCHANGED netCh
       \/ /\ procCh = <<>> /\ netCh # <<>>
          /\ log' = Append(log, Head(netCh))
          /\ netCh' = Tail(netCh)
          /\ UNCHANGED procCh
    /\ UNCHANGED <<running, mainPc, subprocesses, remotes>>

Drained ==
    /\ mainPc = "drain" /\ procCh = <<>> /\ netCh = <<>>
    /\ mainPc' = "summary"
    /\ UNCHANGED <<running, log, subprocesses, remotes, procCh, netCh>>

\* A write fails (`?`): cmd_run returns without a summary.
WriteFails ==
    /\ mainPc \in {"drain", "summary"}
    /\ mainPc' = "failed"
    /\ UNCHANGED <<running, log, subprocesses, remotes, procCh, netCh>>

OfKind(events, k) == {i \in DOMAIN events : events[i].kind = k}

\* Slip: the first spawn event, of whatever pid.
FirstArgvOfAny(events, p) ==
    LET spawns == OfKind(events, "spawned")
    IN  IF spawns = {} THEN 0 ELSE events[Min(spawns)].argv

\* find_map: the argv of the first event that spawned p, whichever process of
\* that pid the exit is of.
FirstArgv(events, p) ==
    LET spawns == {i \in OfKind(events, "spawned") : events[i].pid = p}
    IN  IF spawns = {} THEN 0 ELSE events[Min(spawns)].argv

\* One subprocess for each exit, known here by its place in the log.
Subprocesses(events) ==
    [k \in OfKind(events, "exited") |->
        <<events[k].pid, FirstArgv(events, events[k].pid)>>]

\* One line per remote end, whatever processes connected to it.
Remotes(events) == {events[k].key[2] : k \in OfKind(events, "connection")}

SaveSummary ==
    /\ mainPc = "summary"
    /\ subprocesses' = Subprocesses(log)
    /\ remotes' = Remotes(log)
    /\ log' = Append(log, End)
    /\ mainPc' = "saved"
    /\ UNCHANGED <<running, procCh, netCh>>

Main ==
    /\ ChildOver \/ Join \/ WriteEvent \/ Drained \/ WriteFails \/ SaveSummary
    /\ UNCHANGED <<agentVars, readVars, procPc, toCheck, pids, known, netPc,
                   seen>>

\* The process has exited; what the agent left behind may go on.
Terminated == mainPc \in {"saved", "failed"} /\ UNCHANGED vars

Next == Agent \/ Tracker \/ Observer \/ Main \/ Terminated

\* The three threads are scheduled; the agent does what it likes.
Fairness ==
    /\ WF_vars(Tracker)
    /\ WF_vars(Main)
    /\ WF_vars(Observer)

Spec == Init /\ [][Next]_vars /\ Fairness

-----------------------------------------------------------------------------
\* What the tracker has to say of a pid, in the log or on its way there.
Stream == log \o procCh
Turns(p) == {k \in DOMAIN Stream : /\ Stream[k].kind \in {"spawned", "exited"}
                                   /\ Stream[k].pid = p}

\* Spawns and exits of a pid alternate, from a spawn on, and the pid is known
\* to the tracker exactly when the last of them is a spawn: nothing is reported
\* twice, however the process tree changes under the walk (process.rs:32-96).
Paired ==
    \A p \in Pids :
        /\ \A i, k \in Turns(p) :
              i < k /\ Stream[i].kind = Stream[k].kind =>
                  \E j \in Turns(p) :
                      i < j /\ j < k /\ Stream[j].kind # Stream[k].kind
        /\ \A k \in Turns(p) :
              Stream[k].kind = "exited" =>
                  \E i \in Turns(p) : i < k /\ Stream[i].kind = "spawned"
        /\ p \in known <=>
              \E k \in Turns(p) : /\ Stream[k].kind = "spawned"
                                  /\ \A i \in Turns(p) : i <= k

Keys(events) == {events[k].key : k \in OfKind(events, "connection")}

\* DESIGN.md: "Each unique connection is reported once, regardless of how many
\* poll cycles it persists through" - and none the observer met is lost.
ReportedOnce ==
    /\ \A events \in {log, netCh} :
          \A i, k \in OfKind(events, "connection") :
              events[i].key = events[k].key => i = k
    /\ Keys(log) \cap Keys(netCh) = {}
    /\ Keys(log) \cup Keys(netCh) = seen

\* A saved session is whole: everything the threads ever sent is in its log,
\* before session_end, and every process that was spawned and every connection
\* is in the summary.
Whole ==
    mainPc = "saved" =>
        /\ procCh = <<>> /\ netCh = <<>> /\ known = {}
        /\ OfKind(log, "end") = {Len(log)}
        /\ \A i \in OfKind(log, "spawned") :
              \E k \in DOMAIN subprocesses :
                  i < k /\ subprocesses[k][1] = log[i].pid
        /\ remotes = {c[2] : c \in seen}

\* The processes that hang from the agent, as the kernel lists them, through
\* others than those of a set.
HangingBut(out) ==
    {p \in Pids :
        \A S \in SUBSET Pids :
            /\ Children(Root) \ out \subseteq S
            /\ \A q \in S : Children(q) \ out \subseteq S
            => p \in S}

Tree == HangingBut({})

\* Every process that was forked had a pid of its own.
NoPidReused == forks = Cardinality({p \in Pids : serial[p] # 0})

\* A poll records the exit of no process that is still in the tree, although
\* the walk sees the tree piece by piece: unless the process, or one it
\* descends from, was adopted by another process during the poll or lost a
\* sibling while the list with both was read.  (While no pid was used twice.)
ExitedHaveLeft ==
    [][\A p \in known \ known' :
          NoPidReused /\ procPc = "compare"
          => p \notin HangingBut(shaken)]_vars

\* A process that stays in the tree gets known, once the agent forks no more
\* (its forks are bounded): no list is cut short for ever.
LongRunnersGetKnown ==
    \A p \in Pids : p \in Tree ~> (p \in known \/ p \notin Tree)

\* When the agent is over the recording ends: the threads do not keep the main
\* thread waiting.
RecordingEnds == ~rootAlive ~> mainPc \in {"saved", "failed"}

\* README.md: "every subprocess spawned (argv, duration)".  The summary gives
\* no process the argv of another: each entry has that of its own process, or
\* the placeholder.  (While no pid was used twice.)
ArgvIsOfTheProcess ==
    mainPc = "saved" /\ NoPidReused =>
        \A k \in OfKind(log, "exited") :
            /\ subprocesses[k][1] = log[k].pid
            /\ subprocesses[k][2] \in {0, serial[log[k].pid]}

=============================================================================
