----------------------- MODULE GracefulShutdownProofs -----------------------
(***************************************************************************)
(* Theorems of GracefulShutdown, for every set of descendants and daemons, *)
(* every capacity of the terminal and every duration.                      *)
(***************************************************************************)
EXTENDS GracefulShutdown, TLAPS

(***************************************************************************)
(* The agent's side.                                                       *)
(***************************************************************************)

\* What the invariants say of the agent's side alone.
AgentInv ==
    /\ AgentTypeOK
    /\ owed <= outq
    /\ tty \subseteq Alive
    /\ status[Child] \in {"member", "dead"}
    /\ pid # "held" => ChildDead

\* What a step of the agent's side never does: bring the child back, hand
\* its pid to waitpid, add to what it owes once it is dead, or write to a
\* terminal that everybody has closed.
OneWay ==
    /\ ChildDead => ChildDead' /\ owed' = owed
    /\ pid' = "held" <=> pid = "held"
    /\ tty = {} => outq' = outq

\* Nor does it open such a terminal, but for AgentOpensTty.
StaysShut == tty = {} => tty' = {}

\* Processes dying keep all of it, and a child among them is dead after.
LEMMA Deaths ==
    ASSUME AgentInv, NEW S, Die(S), UNCHANGED <<pid, inq, outq>>,
           stray' \in BOOLEAN
    PROVE  AgentInv' /\ OneWay /\ StaysShut /\ (Child \in S => ChildDead')
<1>1. status' \in [Procs -> {"unborn", "member", "away", "dead"}]
  BY DEF AgentInv, AgentTypeOK, Die
<1>2. \A p \in Procs : status'[p] = IF p \in S THEN "dead" ELSE status[p]
  BY DEF Die
<1>3. tty' = tty \ S
  BY DEF Die
<1>4. Child \in Procs
  BY DEF Procs
<1>5. tty' \subseteq Alive' /\ tty' \subseteq Procs
  BY <1>2, <1>3 DEF AgentInv, AgentTypeOK, Alive
<1>6. owed' \in 0..OutCap /\ owed' <= outq'
  BY CapAssumption DEF AgentInv, AgentTypeOK, Die
<1>7. /\ status'[Child] \in {"member", "dead"}
      /\ ChildDead => ChildDead' /\ owed' = owed
      /\ Child \in S => ChildDead'
  BY <1>2, <1>4 DEF AgentInv, ChildDead, Die
<1>8. AgentTypeOK'
  BY <1>1, <1>5, <1>6 DEF AgentInv, AgentTypeOK
<1> QED
  BY <1>3, <1>5, <1>6, <1>7, <1>8 DEF AgentInv, OneWay, StaysShut

LEMMA GroupKilled ==
    ASSUME AgentInv, NEW sig, KillGroup(sig), UNCHANGED <<pid, inq, outq>>
    PROVE  AgentInv' /\ OneWay /\ StaysShut /\ (sig = "KILL" => ChildDead')
<1>1. CASE pid = "recycled"
  <2>1. UNCHANGED <<status, tty, pid, inq, outq, owed>> /\ stray' = TRUE
    BY <1>1 DEF KillGroup
  <2> QED
    BY <1>1, <2>1 DEF AgentInv, AgentTypeOK, OneWay, StaysShut, Alive, ChildDead
<1>2. CASE pid # "recycled"
  <2>1. stray' \in BOOLEAN
    BY <1>2 DEF KillGroup, AgentInv, AgentTypeOK
  <2>2. CASE sig = "KILL"
    <3>1. Die(Members)
      BY <1>2, <2>2 DEF KillGroup
    <3>2. AgentInv' /\ OneWay /\ StaysShut /\ (Child \in Members => ChildDead')
      BY <2>1, <3>1, Deaths
    <3>3. Child \in Members \/ ChildDead
      BY DEF AgentInv, Members, ChildDead, Procs
    <3> QED
      BY <3>2, <3>3 DEF OneWay, StaysShut
  <2>3. CASE sig # "KILL"
    <3>1. PICK S \in SUBSET Members : Die(S)
      BY <1>2, <2>3 DEF KillGroup
    <3> QED
      BY <2>1, <2>3, <3>1, Deaths
  <2> QED
    BY <2>2, <2>3
<1> QED
  BY <1>1, <1>2

LEMMA ChildKilled ==
    ASSUME AgentInv, KillChild
    PROVE  AgentInv' /\ OneWay /\ StaysShut
<1>1. CASE /\ DieWithHangup({Child})
           /\ UNCHANGED <<pid, inq, outq, stray>>
  <2>1. PICK H \in SUBSET Members : Die({Child} \cup H)
    BY <1>1 DEF DieWithHangup
  <2> QED
    BY <1>1, <2>1, Deaths DEF AgentInv, AgentTypeOK
<1>2. CASE UNCHANGED agentVars
  BY <1>2 DEF agentVars, AgentInv, AgentTypeOK, OneWay, StaysShut, Alive, ChildDead
<1>3. CASE stray' = TRUE /\ UNCHANGED <<status, tty, pid, inq, outq, owed>>
  BY <1>3 DEF AgentInv, AgentTypeOK, OneWay, StaysShut, Alive, ChildDead
<1> QED
  BY <1>1, <1>2, <1>3 DEF KillChild

LEMMA AgentMoves ==
    ASSUME AgentInv, AgentStep
    PROVE  AgentInv' /\ OneWay
<1> USE ChildAssumption, CapAssumption DEF AgentInv, AgentTypeOK, OneWay,
                                           Alive, ChildDead, Procs
<1>1. CASE \E p \in Procs, d \in Descendants : AgentForks(p, d)
  BY <1>1 DEF AgentForks
<1>2. CASE \E d \in Daemons : AgentLeaves(d)
  BY <1>2 DEF AgentLeaves
<1>3. CASE \E p \in Procs : AgentClosesTty(p)
  BY <1>3 DEF AgentClosesTty
<1>8. CASE \E p \in Procs : AgentOpensTty(p)
  BY <1>8 DEF AgentOpensTty
<1>4. CASE \E p \in Procs : AgentWrites(p)
  BY <1>4 DEF AgentWrites
<1>5. CASE \E p \in Procs : AgentReads(p)
  BY <1>5 DEF AgentReads
<1>6. CASE \E p \in Procs : AgentExits(p)
  <2>1. PICK p \in Procs : AgentExits(p)
    BY <1>6
  <2>2. PICK H \in SUBSET Members : Die({p} \cup H)
    BY <2>1 DEF AgentExits, DieWithHangup
  <2> QED
    BY <2>1, <2>2, Deaths DEF AgentExits
<1>7. CASE PidRecycled
  BY <1>7 DEF PidRecycled
<1> QED
  BY <1>1, <1>2, <1>3, <1>4, <1>5, <1>6, <1>7, <1>8 DEF AgentStep

(***************************************************************************)
(* The inductive invariant.                                                *)
(***************************************************************************)

Inv == TypeOK /\ IInv

\* Apart from what it says of the agent's side, Inv is about the two threads.
ThreadsInv ==
    /\ WatchdogTypeOK
    /\ RelayTypeOK
    /\ stopPc \in {"idle", "write"} /\ reopened \in BOOLEAN
    /\ FlagInv
    /\ wdPc \in {"cleanup", "done"} => ChildDead
    /\ GoneDeaf /\ ~reopened => tty = {} /\ outq = 0
    /\ OutputComplete
    /\ JoinInv

LEMMA InvParts == Inv <=> AgentInv /\ ThreadsInv
  BY DEF Inv, TypeOK, IInv, ChildInv, OutputInv, AgentInv, ThreadsInv

LEMMA InvPartsNext == Inv' <=> AgentInv' /\ ThreadsInv'
  BY DEF Inv, TypeOK, IInv, ChildInv, OutputInv, AgentInv, ThreadsInv

LEMMA InvInit == Init => Inv
<1> SUFFICES ASSUME Init PROVE AgentInv /\ ThreadsInv
  BY InvParts
<1>1. AgentInv
  <2>1. /\ status \in [Procs -> {"unborn", "member", "away", "dead"}]
        /\ status[Child] = "member"
        /\ Child \in Procs
    BY DEF Init, AgentInit, Procs
  <2>2. inq \in 0..InCap /\ outq \in 0..OutCap /\ owed \in 0..OutCap
    BY CapAssumption DEF Init, AgentInit
  <2>3. tty \subseteq Procs /\ pid = "held" /\ owed <= outq
    BY <2>1 DEF Init, AgentInit
  <2>5. stray \in BOOLEAN
    BY DEF Init, AgentInit
  <2>4. tty \subseteq Alive
    BY <2>1 DEF Init, AgentInit, Alive
  <2> QED
    BY <2>1, <2>2, <2>3, <2>4, <2>5 DEF AgentInv, AgentTypeOK
<1>2. ThreadsInv
  <2>1. /\ WatchdogTypeOK /\ RelayTypeOK
        /\ stopPc \in {"idle", "write"} /\ reopened \in BOOLEAN
    <3>1. asleep \in Nat /\ left \in Nat /\ budget \in Nat \cup {NoBudget} /\ since \in 0..Cap
      BY TimeAssumption DEF Init, WatchdogInit, Cap
    <3>2. childAlive \in BOOLEAN /\ sentinel \in BOOLEAN
      BY DEF Init, WatchdogInit
    <3>3. WatchdogTypeOK
      BY <3>1, <3>2 DEF Init, WatchdogInit, WatchdogTypeOK
    <3>4. revents \in [stdin : BOOLEAN, in : BOOLEAN, hup : BOOLEAN]
      BY DEF Init, RelayInit, NoEvents
    <3>5. kind \in {"tty", "pipe", "file"}
      BY StdinAssumption DEF Init, RelayInit
    <3>6. stdinOpen \in BOOLEAN /\ avail \in BOOLEAN /\ eof \in BOOLEAN
      BY DEF Init, RelayInit
    <3>7. RelayTypeOK
      BY <3>4, <3>5, <3>6 DEF Init, RelayInit, RelayTypeOK
    <3> QED
      BY <3>3, <3>7 DEF Init
  <2> QED
    BY <2>1 DEF Init, AgentInit, WatchdogInit, RelayInit, ThreadsInv, FlagInv,
           NoEvents, GoneDeaf, OutputComplete, JoinInv, Saving, Joined, Reaping
<1> QED
  BY <1>1, <1>2

\* A step of the agent's side leaves what is said of the threads true.
LEMMA ThreadsUndisturbed ==
    ASSUME Inv, OneWay, reopened' \in BOOLEAN, reopened => reopened',
           StaysShut \/ (GoneDeaf => reopened'),
           UNCHANGED <<childAlive, sentinel, wdVars, relayVars, stdinVars, stopPc>>
    PROVE  ThreadsInv'
<1>1. AgentInv /\ ThreadsInv
  BY InvParts
<1>2. /\ WatchdogTypeOK' /\ RelayTypeOK' /\ stopPc' \in {"idle", "write"}
      /\ reopened' \in BOOLEAN
      /\ FlagInv' /\ JoinInv'
      /\ (wdPc \in {"cleanup", "done"} => ChildDead)'
  BY <1>1 DEF ThreadsInv, WatchdogTypeOK, RelayTypeOK, FlagInv, JoinInv, OneWay,
              wdVars, relayVars, stdinVars
<1>3. (GoneDeaf /\ ~reopened => tty = {} /\ outq = 0)'
  BY <1>1 DEF ThreadsInv, OneWay, StaysShut, GoneDeaf, relayVars
<1>4. OutputComplete'
  BY <1>1 DEF ThreadsInv, AgentInv, FlagInv, OneWay, OutputComplete, Reaping,
              relayVars
<1> QED
  BY <1>2, <1>3, <1>4 DEF ThreadsInv

(***************************************************************************)
(* The watchdog's steps.                                                   *)
(***************************************************************************)

\* A step that leaves the agent's side alone.
LEMMA AgentUndisturbed ==
    ASSUME AgentInv, UNCHANGED agentVars
    PROVE  AgentInv' /\ OneWay /\ StaysShut
  BY DEF AgentInv, AgentTypeOK, OneWay, StaysShut, Alive, ChildDead, agentVars

\* What a watchdog step has to say of its own variables and the sentinel.
LEMMA WatchdogKeepsInv ==
    ASSUME Inv, AgentInv', OneWay, StaysShut, WatchdogTypeOK',
           (wdPc \in {"cleanup", "done"} => ChildDead)',
           wdPc = "done" => wdPc' = "done",
           UNCHANGED childAlive, UNCHANGED othersThanWatchdog
    PROVE  Inv'
<1> USE DEF othersThanWatchdog, relayVars, stdinVars
<1>1. AgentInv /\ ThreadsInv
  BY InvParts
<1>2. RelayTypeOK' /\ stopPc' \in {"idle", "write"} /\ reopened' \in BOOLEAN
  BY <1>1 DEF ThreadsInv, RelayTypeOK
<1>3. FlagInv' /\ JoinInv'
  BY <1>1 DEF ThreadsInv, FlagInv, JoinInv, OneWay
<1>4. (GoneDeaf /\ ~reopened => tty = {} /\ outq = 0)'
  BY <1>1 DEF ThreadsInv, OneWay, StaysShut, GoneDeaf
<1>5. OutputComplete'
  BY <1>1 DEF ThreadsInv, AgentInv, FlagInv, OneWay, OutputComplete, Reaping
<1>6. ThreadsInv'
  BY <1>2, <1>3, <1>4, <1>5 DEF ThreadsInv
<1> QED
  BY <1>6, InvPartsNext

\* The flag is cleared only when the child has been reaped.
LEMMA ClearedMeansDead == Inv /\ ~childAlive => ChildDead
  BY DEF Inv, IInv, FlagInv, ChildInv, Saving, Reaping

LEMMA WatchdogPreservesInv == Inv /\ Watching => Inv'
<1> SUFFICES ASSUME Inv, WatchdogStep, UNCHANGED othersThanWatchdog
             PROVE  Inv'
  BY DEF Watching
<1> USE DEF WatchdogTypeOK, wdVars, Awake, GoTo
<1>1. AgentInv /\ WatchdogTypeOK
  BY InvParts DEF ThreadsInv
<1>2. /\ wdPc = "done" => wdPc' = "done"
      /\ UNCHANGED childAlive
  BY DEF WatchdogStep, WdPoll, WdCleanup, CheckAlive, WdWarnCheck, WdWrite,
         WaitLoop, WdGrace, WdTermCheck, WdTerm, WdTermWait, WdKillCheck, WdKill
<1>3. ASSUME UNCHANGED agentVars
      PROVE  AgentInv' /\ OneWay /\ StaysShut
  BY <1>1, <1>3, AgentUndisturbed
<1>4. CASE WdPoll
  <2>1. AgentInv' /\ OneWay /\ StaysShut
    BY <1>3, <1>4 DEF WdPoll
  <2>2. WatchdogTypeOK'
    BY <1>1, <1>4, TimeAssumption DEF WdPoll
  <2>3. (wdPc \in {"cleanup", "done"} => ChildDead)'
    BY <1>4, <2>1, ClearedMeansDead DEF WdPoll, OneWay
  <2> QED
    BY <1>2, <2>1, <2>2, <2>3, WatchdogKeepsInv
<1>5. CASE WdCleanup
  <2>1. AgentInv' /\ OneWay /\ StaysShut
    BY <1>3, <1>5 DEF WdCleanup
  <2>2. WatchdogTypeOK'
    BY <1>1, <1>5 DEF WdCleanup
  <2>3. (wdPc \in {"cleanup", "done"} => ChildDead)'
    BY <1>5, <2>1, InvParts DEF WdCleanup, OneWay, ThreadsInv
  <2> QED
    BY <1>2, <2>1, <2>2, <2>3, WatchdogKeepsInv
<1>6. ASSUME NEW pc, NEW next \in {"write", "term", "kill"}, CheckAlive(pc, next)
      PROVE  Inv'
  <2>1. AgentInv' /\ OneWay /\ StaysShut
    BY <1>3, <1>6 DEF CheckAlive
  <2>2. WatchdogTypeOK'
    BY <1>1, <1>6 DEF CheckAlive
  <2>3. (wdPc \in {"cleanup", "done"} => ChildDead)'
    BY <1>6, <2>1, ClearedMeansDead DEF CheckAlive, OneWay
  <2> QED
    BY <1>2, <2>1, <2>2, <2>3, WatchdogKeepsInv
<1>7. ASSUME NEW pc \in {"grace", "termWait"}, NEW n \in Nat,
             NEW next \in {"termCheck", "killCheck"}, WaitLoop(pc, n, next)
      PROVE  Inv'
  <2>1. AgentInv' /\ OneWay /\ StaysShut
    BY <1>3, <1>7 DEF WaitLoop
  <2>2. WatchdogTypeOK'
    BY <1>1, <1>7 DEF WaitLoop
  <2>3. (wdPc \in {"cleanup", "done"} => ChildDead)'
    BY <1>7, <2>1, ClearedMeansDead DEF WaitLoop, OneWay
  <2> QED
    BY <1>2, <2>1, <2>2, <2>3, WatchdogKeepsInv
<1>8. CASE WdWrite
  <2>1. AgentInv' /\ OneWay /\ StaysShut
    <3>1. inq' \in 0..InCap
      BY <1>1, <1>8, CapAssumption DEF WdWrite, WriteInput, AgentInv, AgentTypeOK
    <3> QED
      BY <1>1, <1>8, <3>1 DEF WdWrite, AgentInv, AgentTypeOK, OneWay,
         StaysShut, Alive, ChildDead
  <2>2. WatchdogTypeOK'
    BY <1>1, <1>8, TimeAssumption DEF WdWrite, Take, Cap
  <2>3. (wdPc \in {"cleanup", "done"} => ChildDead)'
    BY <1>8 DEF WdWrite, Take
  <2> QED
    BY <1>2, <2>1, <2>2, <2>3, WatchdogKeepsInv
<1>9. CASE WdTerm
  <2>1. AgentInv' /\ OneWay /\ StaysShut
    BY <1>1, <1>9, GroupKilled DEF WdTerm
  <2>2. WatchdogTypeOK'
    BY <1>1, <1>9, TimeAssumption DEF WdTerm, Take, Cap
  <2>3. (wdPc \in {"cleanup", "done"} => ChildDead)'
    BY <1>9 DEF WdTerm, Take
  <2> QED
    BY <1>2, <2>1, <2>2, <2>3, WatchdogKeepsInv
<1>10. CASE WdKill
  <2>1. AgentInv' /\ OneWay /\ StaysShut /\ ChildDead'
    BY <1>1, <1>10, GroupKilled DEF WdKill
  <2>2. WatchdogTypeOK'
    BY <1>1, <1>10, TimeAssumption DEF WdKill, Take, Cap
  <2> QED
    BY <1>2, <2>1, <2>2, WatchdogKeepsInv
<1> QED
  BY <1>4, <1>5, <1>6, <1>7, <1>8, <1>9, <1>10, TimeAssumption
     DEF WatchdogStep, WdWarnCheck, WdGrace, WdTermCheck, WdTermWait, WdKillCheck

(***************************************************************************)
(* The main thread's steps.                                                *)
(***************************************************************************)

\* A main-thread step leaves the watchdog where it is and nobody dies of it.
LEMMA RelayKeepsInv ==
    ASSUME Inv, RelayTypeOK', FlagInv', OutputInv', JoinInv',
           AgentTypeOK', pid # "held" => pid' # "held",
           pid' # "held" => ChildDead,
           childAlive' \in BOOLEAN, sentinel' \in BOOLEAN,
           UNCHANGED <<status, wdVars, stopPc, reopened>>
    PROVE  Inv'
<1>1. WatchdogTypeOK' /\ (stopPc \in {"idle", "write"})' /\ reopened' \in BOOLEAN
  BY DEF Inv, TypeOK, WatchdogTypeOK, wdVars
<1>2. ChildInv'
  BY DEF Inv, IInv, ChildInv, ChildDead, wdVars
<1> QED
  BY <1>1, <1>2 DEF Inv, TypeOK, IInv

LEMMA RelayPreservesInv == Inv /\ Relaying => Inv'
<1> SUFFICES ASSUME Inv, RelayStep, UNCHANGED <<stopPc, reopened>>
             PROVE  Inv'
  BY DEF Relaying
<1> USE DEF Main, agentVars, wdVars, stdinVars, relayVars
<1>1. AgentTypeOK /\ WatchdogTypeOK /\ RelayTypeOK
  BY DEF Inv, TypeOK
<1>2. FlagInv /\ ChildInv /\ OutputInv /\ JoinInv
  BY DEF Inv, IInv
<1>3. CASE PollReady
  <2>1. /\ RelayTypeOK'
        /\ revents'.hup = (tty = {}) /\ revents'.in = (outq > 0)
    BY <1>1, <1>3 DEF PollReady, RelayTypeOK, StdinReadable, Hangup
  <2>2. FlagInv' /\ JoinInv'
    BY <1>2, <1>3 DEF PollReady, FlagInv, JoinInv, Saving, Reaping, Joined
  <2>3. OutputInv'
    <3>1. revents'.hup /\ ~revents'.in => outq = 0
      BY <1>1, <2>1 DEF AgentTypeOK
    <3> QED
      BY <1>2, <1>3, <2>1, <3>1 DEF PollReady, OutputInv, GoneDeaf, OutputComplete, Saving,
         Alive
  <2> QED
    BY <1>1, <1>2, <1>3, <2>1, <2>2, <2>3, RelayKeepsInv
       DEF PollReady, AgentTypeOK, WatchdogTypeOK, ChildInv
<1>4. CASE PollTimeout \/ NoStdin
  <2>1. RelayTypeOK' /\ FlagInv' /\ JoinInv'
    BY <1>1, <1>2, <1>4 DEF PollTimeout, NoStdin, RelayTypeOK, FlagInv, JoinInv,
       Saving, Reaping, Joined
  <2>2. OutputInv'
    BY <1>2, <1>4 DEF PollTimeout, NoStdin, OutputInv, GoneDeaf, OutputComplete, Saving, Alive
  <2> QED
    BY <1>1, <1>2, <1>4, <2>1, <2>2, RelayKeepsInv
       DEF PollTimeout, NoStdin, AgentTypeOK, WatchdogTypeOK, ChildInv
<1>5. CASE StdinEof
  <2>1. RelayTypeOK' /\ FlagInv' /\ JoinInv'
    BY <1>1, <1>2, <1>5 DEF StdinEof, RelayTypeOK, FlagInv, JoinInv,
       Saving, Reaping, Joined
  <2>2. OutputInv'
    BY <1>2, <1>5 DEF StdinEof, OutputInv, GoneDeaf, OutputComplete, Saving, Alive
  <2> QED
    BY <1>1, <1>2, <1>5, <2>1, <2>2, RelayKeepsInv
       DEF StdinEof, AgentTypeOK, WatchdogTypeOK, ChildInv
<1>6. ASSUME NEW hotkey \in BOOLEAN, NEW rest \in BOOLEAN,
             StdinChunk(hotkey, rest)
      PROVE  Inv'
  <2>1. sentinel' \in BOOLEAN /\ mainPc' \in {"forward", "child"}
    BY <1>1, <1>6 DEF StdinChunk, WatchdogTypeOK
  <2>2. RelayTypeOK' /\ FlagInv' /\ JoinInv'
    BY <1>1, <1>2, <1>6, <2>1 DEF StdinChunk, RelayTypeOK, FlagInv, JoinInv,
       Saving, Reaping, Joined
  <2>3. OutputInv'
    BY <1>2, <1>6, <2>1 DEF StdinChunk, OutputInv, GoneDeaf, OutputComplete, Saving, Alive
  <2> QED
    BY <1>1, <1>2, <1>6, <2>1, <2>2, <2>3, RelayKeepsInv
       DEF StdinChunk, AgentTypeOK, WatchdogTypeOK, ChildInv
<1>7. CASE Forward
  <2>1. RelayTypeOK' /\ FlagInv' /\ JoinInv'
    BY <1>1, <1>2, <1>7 DEF Forward, RelayTypeOK, FlagInv, JoinInv,
       Saving, Reaping, Joined
  <2>2. OutputInv'
    BY <1>2, <1>7 DEF Forward, OutputInv, GoneDeaf, OutputComplete, Saving, Alive
  <2>3. inq' \in 0..InCap
    BY <1>1, <1>7, CapAssumption DEF Forward, WriteInput, AgentTypeOK
  <2> QED
    BY <1>1, <1>2, <1>7, <2>1, <2>2, <2>3, RelayKeepsInv
       DEF Forward, AgentTypeOK, WatchdogTypeOK, ChildInv
<1>8. CASE ChildHangup \/ NoChildEvent
  <2>1. RelayTypeOK'
    <3>1. revents' \in [stdin : BOOLEAN, in : BOOLEAN, hup : BOOLEAN]
      <4>1. revents' = NoEvents
        BY <1>8 DEF ChildHangup, NoChildEvent
      <4>2. NoEvents \in [stdin : BOOLEAN, in : BOOLEAN, hup : BOOLEAN]
        BY DEF NoEvents
      <4> QED
        BY <4>1, <4>2
    <3>2. mainPc' \in {"poll", "waitBlock"} /\ UNCHANGED <<stdinOpen, stdinVars>>
      BY <1>8 DEF ChildHangup, NoChildEvent
    <3> QED
      BY <1>1, <3>1, <3>2 DEF RelayTypeOK
  <2>3. FlagInv' /\ JoinInv'
    BY <1>2, <1>8 DEF ChildHangup, NoChildEvent, FlagInv, JoinInv, Saving,
       Reaping, Joined
  <2>2. OutputInv'
    BY <1>2, <1>8 DEF ChildHangup, NoChildEvent, OutputInv, GoneDeaf, OutputComplete,
       NoEvents, Saving, Alive
  <2> QED
    BY <1>1, <1>2, <1>8, <2>1, <2>2, <2>3, RelayKeepsInv
       DEF ChildHangup, NoChildEvent, AgentTypeOK, WatchdogTypeOK, ChildInv
<1>9. ASSUME ReadOutput
      PROVE  outq' \in 0..OutCap /\ owed' \in 0..OutCap /\ owed' <= outq'
  BY <1>1, <1>2, <1>9, CapAssumption DEF ReadOutput, AgentTypeOK, OutputInv
<1>10. CASE ChildOutput
  <2>1. RelayTypeOK' /\ FlagInv' /\ JoinInv'
    BY <1>1, <1>2, <1>10 DEF ChildOutput, RelayTypeOK, FlagInv,
       JoinInv, NoEvents, Saving, Reaping, Joined
  <2>2. OutputInv'
    BY <1>2, <1>9, <1>10 DEF ChildOutput, OutputInv, GoneDeaf, OutputComplete,
       NoEvents, Saving, Alive
  <2> QED
    BY <1>1, <1>2, <1>9, <1>10, <2>1, <2>2, RelayKeepsInv
       DEF ChildOutput, AgentTypeOK, WatchdogTypeOK, ChildInv
<1>11. CASE WaitNow
  <2>1. RelayTypeOK' /\ FlagInv' /\ JoinInv'
    BY <1>1, <1>2, <1>11 DEF WaitNow, Reap, RelayTypeOK, FlagInv, JoinInv,
       Saving, Reaping, Joined
  <2>2. OutputInv'
    BY <1>2, <1>11 DEF WaitNow, OutputInv, GoneDeaf, OutputComplete, Saving, Alive
  <2>3. AgentTypeOK' /\ (pid # "held" => pid' # "held") /\ (pid' # "held" => ChildDead)
    BY <1>1, <1>2, <1>11 DEF WaitNow, Reap, AgentTypeOK, ChildInv
  <2> QED
    BY <1>1, <1>11, <2>1, <2>2, <2>3, RelayKeepsInv DEF WaitNow, WatchdogTypeOK
<1>12. CASE DrainChunk
  <2>1. RelayTypeOK' /\ FlagInv' /\ JoinInv'
    BY <1>1, <1>2, <1>12 DEF DrainChunk, RelayTypeOK, FlagInv, JoinInv,
       Saving, Reaping, Joined
  <2>2. OutputInv'
    <3>1. (GoneDeaf /\ ~reopened => tty = {} /\ outq = 0)'
      BY <1>1, <1>2, <1>12 DEF DrainChunk, ReadOutput, OutputInv, GoneDeaf,
         AgentTypeOK
    <3> QED
      BY <1>2, <1>9, <1>12, <3>1 DEF DrainChunk, OutputInv, GoneDeaf, OutputComplete,
         Saving, Alive
  <2> QED
    BY <1>1, <1>2, <1>9, <1>12, <2>1, <2>2, RelayKeepsInv
       DEF DrainChunk, AgentTypeOK, WatchdogTypeOK, ChildInv
<1>13. CASE DrainOver
  <2>1. RelayTypeOK' /\ FlagInv' /\ JoinInv'
    BY <1>1, <1>2, <1>13 DEF DrainOver, RelayTypeOK, FlagInv, JoinInv,
       Saving, Reaping, Joined
  <2>2. OutputInv'
    BY <1>1, <1>2, <1>13 DEF DrainOver, OutputInv, GoneDeaf, OutputComplete, Saving,
       AgentTypeOK, Alive
  <2> QED
    BY <1>1, <1>2, <1>13, <2>1, <2>2, RelayKeepsInv
       DEF DrainOver, AgentTypeOK, WatchdogTypeOK, ChildInv
<1>14. CASE WaitBlock
  <2>1. RelayTypeOK' /\ FlagInv' /\ JoinInv'
    BY <1>1, <1>2, <1>14 DEF WaitBlock, Reap, RelayTypeOK, FlagInv, JoinInv,
       Saving, Reaping, Joined
  <2>2. OutputInv'
    BY <1>1, <1>2, <1>14 DEF WaitBlock, OutputInv, GoneDeaf, OutputComplete, Saving,
       AgentTypeOK, Alive
  <2>3. AgentTypeOK' /\ (pid # "held" => pid' # "held") /\ (pid' # "held" => ChildDead)
    BY <1>1, <1>2, <1>14 DEF WaitBlock, Reap, AgentTypeOK, ChildInv
  <2> QED
    BY <1>1, <1>14, <2>1, <2>2, <2>3, RelayKeepsInv DEF WaitBlock, WatchdogTypeOK
<1>15. CASE ClearFlag \/ JoinWatchdog \/ RemoveSentinel \/ SaveSession
  <2> USE DEF ClearFlag, JoinWatchdog, RemoveSentinel, SaveSession
  <2>1. RelayTypeOK' /\ FlagInv' /\ JoinInv'
    BY <1>1, <1>2, <1>15 DEF RelayTypeOK, FlagInv, JoinInv,
       Saving, Reaping, Joined
  <2>2. OutputInv'
    BY <1>2, <1>15 DEF OutputInv, GoneDeaf, OutputComplete, Saving, Alive
  <2>3. childAlive' \in BOOLEAN /\ sentinel' \in BOOLEAN
    BY <1>1, <1>15 DEF WatchdogTypeOK
  <2> QED
    BY <1>1, <1>2, <1>15, <2>1, <2>2, <2>3, RelayKeepsInv
       DEF AgentTypeOK, ChildInv
<1> QED
  BY <1>3, <1>4, <1>5, <1>6, <1>7, <1>8, <1>10, <1>11, <1>12, <1>13, <1>14,
     <1>15 DEF RelayStep

(***************************************************************************)
(* Everybody else's steps, and the theorems.                               *)
(***************************************************************************)

LEMMA OthersPreserveInv ==
    Inv /\ (Time \/ Agent \/ User \/ StopChecks \/ StopWrites \/ SignalHandler)
        => Inv'
<1> SUFFICES ASSUME Inv,
                    Time \/ Agent \/ User \/ StopChecks \/ StopWrites \/ SignalHandler
             PROVE  Inv'
  OBVIOUS
<1>1. AgentInv /\ ThreadsInv
  BY InvParts
<1>2. CASE Time
  <2>1. AgentInv' /\ OneWay /\ StaysShut
    BY <1>1, <1>2, AgentUndisturbed DEF Time, Tick
  <2>2. WatchdogTypeOK'
    BY <1>1, <1>2, TimeAssumption
       DEF Time, Tick, ThreadsInv, WatchdogTypeOK, Down, Later, Cap
  <2>3. (wdPc \in {"cleanup", "done"} => ChildDead)'
    BY <1>1, <1>2, <2>1 DEF Time, Tick, ThreadsInv, OneWay
  <2> QED
    BY <1>2, <2>1, <2>2, <2>3, WatchdogKeepsInv DEF Time, Tick
<1>3. CASE Agent
  <2>1. AgentInv' /\ OneWay
    BY <1>1, <1>3, AgentMoves DEF Agent
  <2>2. reopened' = (reopened \/ (tty = {} /\ tty' # {} /\ GoneDeaf))
    BY <1>3 DEF Agent
  <2>3. reopened' \in BOOLEAN /\ (reopened => reopened')
    BY <1>1, <2>2 DEF ThreadsInv
  <2>4. StaysShut \/ (GoneDeaf => reopened')
    BY <2>2 DEF StaysShut
  <2> QED
    BY <1>3, <2>1, <2>3, <2>4, ThreadsUndisturbed, InvPartsNext DEF Agent
<1>4. CASE SignalHandler
  <2>1. reopened' \in BOOLEAN /\ (reopened => reopened')
    BY <1>1, <1>4 DEF SignalHandler, ThreadsInv
  <2> QED
    BY <1>1, <1>4, <2>1, ChildKilled, ThreadsUndisturbed, InvPartsNext
       DEF SignalHandler
<1>5. CASE User
  <2>1. UNCHANGED <<agentVars, childAlive, sentinel, wdVars, relayVars, stopPc,
                  reopened>>
    BY <1>5 DEF User, StdinArrives, StdinEnds
  <2>2. RelayTypeOK'
    <3>3. avail' \in BOOLEAN /\ eof' \in BOOLEAN
      BY <1>1, <1>5 DEF User, StdinArrives, StdinEnds, ThreadsInv, RelayTypeOK
    <3>2. UNCHANGED <<mainPc, revents, stdinOpen, kind>>
      BY <1>5 DEF User, StdinArrives, StdinEnds, relayVars
    <3> QED
      BY <1>1, <3>2, <3>3 DEF ThreadsInv, RelayTypeOK
  <2> QED
    BY <2>1, <2>2 DEF Inv, TypeOK, AgentTypeOK, WatchdogTypeOK, IInv, FlagInv,
       ChildInv, OutputInv, GoneDeaf, JoinInv, OutputComplete, ChildDead, Alive,
       agentVars, wdVars, relayVars
<1>6. CASE StopChecks \/ StopWrites
  <2>1. UNCHANGED <<agentVars, childAlive, wdVars, relayVars, stdinVars,
                  reopened>>
    BY <1>6 DEF StopChecks, StopWrites
  <2>2. sentinel' \in BOOLEAN /\ stopPc' \in {"idle", "write"}
    BY <1>1, <1>6 DEF StopChecks, StopWrites, ThreadsInv, WatchdogTypeOK
  <2> QED
    BY <2>1, <2>2 DEF Inv, TypeOK, AgentTypeOK, WatchdogTypeOK, RelayTypeOK, IInv,
       FlagInv, ChildInv, OutputInv, GoneDeaf, JoinInv, OutputComplete, ChildDead, Alive,
       agentVars, wdVars, relayVars, stdinVars
<1> QED
  BY <1>2, <1>3, <1>4, <1>5, <1>6

LEMMA InvStep == Inv /\ [Next]_vars => Inv'
<1>1. ASSUME Inv, UNCHANGED vars
      PROVE  Inv'
  BY <1>1 DEF vars, agentVars, wdVars, relayVars, stdinVars, Inv, TypeOK,
     AgentTypeOK, WatchdogTypeOK, RelayTypeOK, IInv, FlagInv, ChildInv,
     OutputInv, GoneDeaf, JoinInv, OutputComplete, ChildDead, Alive
<1> QED
  BY <1>1, WatchdogPreservesInv, RelayPreservesInv, OthersPreserveInv
     DEF Next, Terminated

THEOREM Invariance == Spec => []Inv
  BY InvInit, InvStep, PTL DEF Spec

\* Every variable keeps its type.
THEOREM TypeCorrect == Spec => []TypeOK
<1>1. Inv => TypeOK
  BY DEF Inv
<1> QED
  BY <1>1, Invariance, PTL

\* Flag, child, output and joins agree with where the two threads are: the flag is
\* up as long as the child may be signalled, nobody is joined who still runs, and
\* after a hangup nothing is in the terminal unless it was opened again.
THEOREM ThreadsAgree == Spec => []IInv
<1>1. Inv => IInv
  BY DEF Inv
<1> QED
  BY <1>1, Invariance, PTL

\* The watchdog thread returns only when the child is dead.
THEOREM Supervised == Spec => []NeverAbandoned
<1>1. Inv => NeverAbandoned
  BY DEF Inv, IInv, ChildInv, NeverAbandoned
<1> QED
  BY <1>1, Invariance, PTL

\* What the child wrote before it died is read before the session is saved, unless
\* the terminal was opened again after the relay had left it.
THEOREM NothingUnread == Spec => []OutputComplete
<1>1. Inv => OutputComplete
  BY DEF Inv, IInv, OutputInv
<1> QED
  BY <1>1, Invariance, PTL

(***************************************************************************)
(* The last rung leaves nothing of the group.                              *)
(***************************************************************************)

\* A pid names somebody else's group only when the child's group is empty, so
\* the SIGKILL either reaches the whole group or there is none to reach.
GroupInv == rung = "killed" \/ pid = "recycled" => Members = {}

\* An empty group stays empty: a process is born into the group of its parent.
LEMMA GroupStaysEmpty ==
    ASSUME TypeOK, [Next]_vars, Members = {}
    PROVE  Members' = {}
<1> SUFFICES ASSUME NEW p \in Procs
             PROVE  status'[p] # "member"
  BY DEF Members
<1> USE DEF Members, TypeOK, AgentTypeOK
<1>1. status[p] # "member"
  OBVIOUS
<1>2. ASSUME NEW S, Die(S) PROVE status'[p] # "member"
  BY <1>1, <1>2 DEF Die
<1>3. CASE Watching
  <2>1. ASSUME NEW sig, KillGroup(sig) PROVE status'[p] # "member"
    BY <1>1, <1>2, <2>1 DEF KillGroup
  <2>2. UNCHANGED status \/ \E sig : KillGroup(sig)
    BY <1>3 DEF Watching, WatchdogStep, WdPoll, WdCleanup, CheckAlive, WdWarnCheck,
       WdWrite, WaitLoop, WdGrace, WdTermCheck, WdTerm, WdTermWait, WdKillCheck,
       WdKill, agentVars
  <2> QED
    BY <1>1, <2>1, <2>2
<1>4. CASE Relaying
  BY <1>1, <1>4 DEF Relaying, RelayStep, PollReady, PollTimeout, NoStdin, StdinEof,
     Forward, StdinChunk, ChildHangup, ChildOutput, NoChildEvent, WaitNow,
     DrainChunk, DrainOver, WaitBlock, ClearFlag, JoinWatchdog, RemoveSentinel,
     SaveSession, agentVars
<1>5. CASE Agent
  <2>1. ASSUME NEW q \in Procs, NEW d \in Descendants, AgentForks(q, d)
        PROVE  status'[p] # "member"
    BY <1>1, <2>1 DEF AgentForks, Alive
  <2>2. ASSUME NEW q \in Procs, AgentExits(q) PROVE status'[p] # "member"
    BY <1>2, <2>2 DEF AgentExits, DieWithHangup
  <2>3. ASSUME NEW d \in Daemons, AgentLeaves(d) PROVE status'[p] # "member"
    BY <1>1, <2>3 DEF AgentLeaves
  <2> QED
    BY <1>1, <1>5, <2>1, <2>2, <2>3
       DEF Agent, AgentStep, AgentClosesTty, AgentOpensTty, AgentWrites, AgentReads, PidRecycled
<1>6. CASE SignalHandler
  BY <1>1, <1>2, <1>6 DEF SignalHandler, KillChild, DieWithHangup, agentVars
<1>7. CASE Time \/ User \/ StopChecks \/ StopWrites \/ Terminated \/ UNCHANGED vars
  BY <1>1, <1>7 DEF Time, Tick, User, StdinArrives, StdinEnds, StopChecks,
     StopWrites, Terminated, vars, agentVars
<1> QED
  BY <1>3, <1>4, <1>5, <1>6, <1>7 DEF Next

LEMMA GroupStep == TypeOK /\ GroupInv /\ [Next]_vars => GroupInv'
<1> SUFFICES ASSUME TypeOK, GroupInv, [Next]_vars
             PROVE  GroupInv'
  OBVIOUS
<1>1. CASE Members = {}
  BY <1>1, GroupStaysEmpty DEF GroupInv
<1>2. CASE Members # {}
  <2>1. rung # "killed" /\ pid # "recycled"
    BY <1>2 DEF GroupInv
  <2>2. CASE WdKill
    <3>1. Die(Members)
      BY <2>1, <2>2 DEF WdKill, KillGroup
    <3>2. Members' = {}
      BY <3>1 DEF Die, Members, Procs
    <3> QED
      BY <3>2 DEF GroupInv
  <2>3. CASE Watching /\ ~WdKill
    BY <2>1, <2>3 DEF GroupInv, Watching, WatchdogStep, WdPoll, WdCleanup,
       CheckAlive, WdWarnCheck, WdWrite, WaitLoop, WdGrace, WdTermCheck, WdTerm,
       WdTermWait, WdKillCheck, GoTo, Take, agentVars
  <2>4. CASE Relaying
    <3>1. UNCHANGED rung /\ (pid' = pid \/ pid' = "reaped")
      BY <2>4 DEF Relaying, RelayStep, PollReady, PollTimeout, NoStdin, StdinEof,
         Forward, StdinChunk, ChildHangup, ChildOutput, NoChildEvent, WaitNow, Reap,
         DrainChunk, DrainOver, WaitBlock, ClearFlag, JoinWatchdog, RemoveSentinel,
         SaveSession, agentVars, wdVars
    <3> QED
      BY <2>1, <3>1 DEF GroupInv
  <2>5. CASE Agent
    BY <1>2, <2>1, <2>5 DEF GroupInv, Agent, AgentStep, AgentForks, AgentLeaves,
       AgentClosesTty, AgentOpensTty, AgentWrites, AgentReads, AgentExits, PidRecycled, wdVars
  <2>6. CASE Time \/ SignalHandler
    BY <2>1, <2>6 DEF GroupInv, Time, Tick, SignalHandler, KillChild, agentVars,
       wdVars
  <2>7. CASE User \/ StopChecks \/ StopWrites \/ Terminated \/ UNCHANGED vars
    BY <2>1, <2>7 DEF GroupInv, User, StdinArrives, StdinEnds, StopChecks,
       StopWrites, Terminated, vars, agentVars, wdVars
  <2> QED
    BY <2>2, <2>3, <2>4, <2>5, <2>6, <2>7 DEF Next
<1> QED
  BY <1>1, <1>2

\* After the SIGKILL no process of the child's group is left, or comes back.
THEOREM GroupIsGone == Spec => []NoMemberSurvives
<1>1. Init => GroupInv
  BY DEF Init, WatchdogInit, AgentInit, GroupInv
<1>2. GroupInv => NoMemberSurvives
  BY DEF GroupInv, NoMemberSurvives
<1> QED
  BY <1>1, <1>2, GroupStep, TypeCorrect, PTL DEF Spec

(***************************************************************************)
(* Nothing is signalled after the watchdog is joined.                      *)
(***************************************************************************)

\* Once the main thread has joined the watchdog, no step takes a rung of the
\* ladder or sends a signal, the handler of SIGINT and SIGTERM included.
THEOREM QuietAfterJoin == Spec => NoSignalAfterJoin
<1>1. ASSUME Inv, [Next]_vars, mainPc \in Joined
      PROVE  UNCHANGED <<rung, stray>>
  <2>1. wdPc = "done" /\ ~childAlive
    BY <1>1 DEF Inv, IInv, JoinInv, FlagInv, Joined, Saving
  <2>2. ~Watching
    BY <2>1 DEF Watching, WatchdogStep, WdPoll, WdCleanup, CheckAlive,
       WdWarnCheck, WdWrite, WaitLoop, WdGrace, WdTermCheck, WdTerm, WdTermWait,
       WdKillCheck, WdKill, Awake
  <2>3. CASE Relaying
    <3> USE DEF Relaying, RelayStep, Main, Joined, agentVars, wdVars
    <3>1. RemoveSentinel \/ SaveSession
      BY <1>1, <2>3 DEF PollReady, PollTimeout, NoStdin, StdinEof, Forward,
         StdinChunk, ChildHangup, ChildOutput, NoChildEvent, WaitNow,
         DrainChunk, DrainOver, WaitBlock, ClearFlag, JoinWatchdog
    <3> QED
      BY <3>1 DEF RemoveSentinel, SaveSession
  <2>4. CASE Time
    BY <2>4 DEF Time, Tick, agentVars
  <2>5. CASE Agent
    BY <2>5 DEF Agent, AgentStep, AgentForks, AgentLeaves, AgentClosesTty, AgentOpensTty,
       AgentWrites, AgentReads, AgentExits, PidRecycled, wdVars
  <2>6. CASE User \/ StopChecks \/ StopWrites \/ Terminated \/ UNCHANGED vars
    BY <2>6 DEF User, StdinArrives, StdinEnds, StopChecks, StopWrites,
       Terminated, vars, agentVars, wdVars
  <2>7. ~SignalHandler
    BY <2>1 DEF SignalHandler
  <2> QED
    BY <1>1, <2>2, <2>3, <2>4, <2>5, <2>6, <2>7 DEF Next
<1>2. Inv /\ [Next]_vars
         => [(mainPc \in Joined) => UNCHANGED <<rung, stray>>]_vars
  BY <1>1
<1> QED
  BY <1>2, Invariance, PTL DEF Spec, NoSignalAfterJoin

(***************************************************************************)
(* The watchdog implements the ladder of Escalation.                       *)
(***************************************************************************)

LEMMA OnlyTheWatchdogClimbs ==
    [Next]_vars /\ ~Watching /\ ~Time => UNCHANGED <<wdPc, left, rung, since>>
<1> SUFFICES ASSUME [Next]_vars, ~Watching, ~Time
             PROVE  UNCHANGED wdVars
  BY DEF wdVars
<1>1. CASE Relaying
  BY <1>1 DEF Relaying, RelayStep, PollReady, PollTimeout, NoStdin, StdinEof,
     Forward, StdinChunk, ChildHangup, ChildOutput, NoChildEvent, WaitNow,
     DrainChunk, DrainOver, WaitBlock, ClearFlag, JoinWatchdog, RemoveSentinel,
     SaveSession
<1>2. CASE Agent \/ User \/ StopChecks \/ StopWrites \/ SignalHandler
  BY <1>2 DEF Agent, User, StdinArrives, StdinEnds, StopChecks, StopWrites,
     SignalHandler
<1> QED
  BY <1>1, <1>2 DEF Next, Terminated, vars

LEMMA LadderInvStep == TypeOK /\ LadderInv /\ [Next]_vars => LadderInv'
<1> SUFFICES ASSUME WatchdogTypeOK, LadderInv, [Next]_vars
             PROVE  LadderInv'
  BY DEF TypeOK
<1> USE TimeAssumption DEF LadderInv, WatchdogTypeOK, Cap
<1>1. CASE Watching
  <2> USE DEF Watching, Awake, GoTo, Take
  <2>1. CASE WdPoll \/ WdCleanup \/ WdWarnCheck
    BY <2>1 DEF WdPoll, WdCleanup, WdWarnCheck, CheckAlive
  <2>2. CASE WdWrite
    BY <2>2 DEF WdWrite
  <2>3. CASE WdGrace
    BY <2>3 DEF WdGrace, WaitLoop
  <2>4. CASE WdTermCheck
    BY <2>4 DEF WdTermCheck, CheckAlive
  <2>5. CASE WdTerm
    BY <2>5 DEF WdTerm
  <2>6. CASE WdTermWait
    BY <2>6 DEF WdTermWait, WaitLoop
  <2>7. CASE WdKillCheck
    BY <2>7 DEF WdKillCheck, CheckAlive
  <2>8. CASE WdKill
    BY <2>8 DEF WdKill
  <2> QED
    BY <1>1, <2>1, <2>2, <2>3, <2>4, <2>5, <2>6, <2>7, <2>8 DEF WatchdogStep
<1>2. CASE Time
  BY <1>2 DEF Time, Tick, Down, Later
<1>3. CASE ~Watching /\ ~Time
  BY <1>3, OnlyTheWatchdogClimbs
<1> QED
  BY <1>1, <1>2, <1>3

\* The deadlines the watchdog waits for are those of the ladder.
THEOREM DeadlinesKept == Spec => []LadderInv
<1>1. Init => LadderInv
  BY DEF Init, WatchdogInit, LadderInv
<1> QED
  BY <1>1, LadderInvStep, TypeCorrect, PTL DEF Spec

\* A step of the whole system takes at most one step of the ladder.
LEMMA StepSimulation ==
    Inv /\ LadderInv /\ Inv' /\ [Next]_vars
        => [Ladder!LadderNext]_(Ladder!ladderVars)
<1> SUFFICES ASSUME Inv, LadderInv, Inv', [Next]_vars
             PROVE  \/ Ladder!LadderNext
                    \/ UNCHANGED <<rung, since, ChildDead, wdPc = "done">>
  BY DEF Ladder!ladderVars
<1> USE DEF Ladder!LadderNext
<1>1. AgentInv /\ ThreadsInv
  BY InvParts
<1>2. CASE Watching
  <2> USE DEF Watching, Awake, GoTo, Take
  <2>1. CASE WdPoll \/ WdCleanup
    <3>1. UNCHANGED <<rung, since, ChildDead>> /\ wdPc # "done"
      BY <2>1 DEF WdPoll, WdCleanup, agentVars, ChildDead
    <3>2. wdPc' = "done" => ChildDead
      BY <2>1, <1>1, ClearedMeansDead DEF WdPoll, WdCleanup, ThreadsInv
    <3> QED
      BY <3>1, <3>2 DEF Ladder!LetGo
  <2>2. CASE WdWarnCheck \/ WdTermCheck \/ WdKillCheck \/ WdGrace \/ WdTermWait
    <3>1. UNCHANGED <<rung, since, ChildDead>> /\ wdPc # "done" /\ wdPc' # "done"
      BY <2>2 DEF WdWarnCheck, WdTermCheck, WdKillCheck, CheckAlive, WdGrace,
         WdTermWait, WaitLoop, agentVars, ChildDead
    <3> QED
      BY <3>1
  <2>3. CASE WdWrite
    <3>1. since >= 0
      BY <1>1 DEF ThreadsInv, WatchdogTypeOK
    <3> QED
      BY <2>3, <3>1 DEF WdWrite, LadderInv, ChildDead, Ladder!Warn, Ladder!Climb
  <2>4. CASE WdTerm
    <3>1. ChildDead => ChildDead'
      BY <1>1, <2>4, GroupKilled DEF WdTerm, OneWay
    <3>2. Ladder!Climb("warned", Grace, "termed")
      BY <2>4 DEF WdTerm, LadderInv, Ladder!Climb
    <3>3. ChildDead' \in {ChildDead, TRUE}
      BY <3>1 DEF ChildDead
    <3> QED
      BY <3>2, <3>3 DEF Ladder!Term
  <2>5. CASE WdKill
    <3>1. ChildDead'
      BY <1>1, <2>5, GroupKilled DEF WdKill
    <3>2. Ladder!Climb("termed", TermWait, "killed")
      BY <2>5 DEF WdKill, LadderInv, Ladder!Climb
    <3>3. ChildDead' = TRUE
      BY <3>1 DEF ChildDead
    <3> QED
      BY <3>2, <3>3 DEF Ladder!Kill
  <2> QED
    BY <1>2, <2>1, <2>2, <2>3, <2>4, <2>5 DEF WatchdogStep
<1>3. CASE Time
  BY <1>3 DEF Time, Tick, agentVars, ChildDead, Ladder!TimePasses, Later, Cap,
     Ladder!Later, Ladder!Cap
<1>4. CASE ~Watching /\ ~Time
  <2>1. UNCHANGED <<rung, since>> /\ wdPc' = wdPc
    BY <1>4, OnlyTheWatchdogClimbs
  <2>2. ChildDead => ChildDead'
    <3>1. CASE Agent \/ SignalHandler
      BY <1>1, <3>1, AgentMoves, ChildKilled DEF Agent, SignalHandler, OneWay
    <3>2. CASE Relaying
      BY <3>2 DEF Relaying, RelayStep, PollReady, PollTimeout, NoStdin,
         StdinEof, Forward, StdinChunk, ChildHangup, ChildOutput, NoChildEvent,
         WaitNow, DrainChunk, DrainOver, WaitBlock, ClearFlag, JoinWatchdog,
         RemoveSentinel, SaveSession, agentVars, ChildDead
    <3>3. CASE User \/ StopChecks \/ StopWrites \/ Terminated \/ UNCHANGED vars
      BY <3>3 DEF User, StdinArrives, StdinEnds, StopChecks, StopWrites,
         Terminated, vars, agentVars, ChildDead
    <3> QED
      BY <1>4, <3>1, <3>2, <3>3 DEF Next
  <2>3. CASE ChildDead' = ChildDead
    BY <2>1, <2>3
  <2>4. CASE ~ChildDead /\ ChildDead'
    <3>1. ChildDead' = TRUE
      BY <2>4 DEF ChildDead
    <3> QED
      BY <2>1, <2>4, <3>1 DEF Ladder!AgentExits
  <2>5. ChildDead' = ChildDead \/ (~ChildDead /\ ChildDead')
    BY <2>2 DEF ChildDead
  <2> QED
    BY <2>3, <2>4, <2>5
<1> QED
  BY <1>2, <1>3, <1>4

\* The run implements the abstract ladder: text, grace period, SIGTERM,
\* second wait, SIGKILL, in order, none early, and no letting go before the
\* agent is gone.
THEOREM ImplementsLadder == Spec => EscalationSpec
<1>1. Init => Ladder!LadderInit
  BY DEF Init, AgentInit, WatchdogInit, ChildDead, Procs, Ladder!LadderInit
<1> QED
  BY <1>1, StepSimulation, Invariance, DeadlinesKept, PTL
     DEF Spec, EscalationSpec, Ladder!LadderSpec
=============================================================================
