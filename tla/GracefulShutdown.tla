-------------------------- MODULE GracefulShutdown --------------------------
(***************************************************************************)
(* One recording, `postflight run`, with everything that can stop it: the  *)
(* main thread (PtyRelay), the watchdog thread (Watchdog), the agent's     *)
(* processes and the kernel (AgentPty), the clock, the signals that reach  *)
(* postflight itself, and `postflight stop` run from another terminal.     *)
(***************************************************************************)
EXTENDS PtyRelay

VARIABLES
    stopPc,   \* where the process of `postflight stop` is
    reopened  \* history: the terminal was opened again after the relay had
              \* learnt that everybody closed it

vars == <<agentVars, childAlive, sentinel, wdVars, relayVars, stdinVars, stopPc,
          reopened>>
othersThanWatchdog == <<relayVars, stdinVars, stopPc, reopened>>

TypeOK ==
    /\ AgentTypeOK
    /\ WatchdogTypeOK
    /\ RelayTypeOK
    /\ stopPc \in {"idle", "write"}
    /\ reopened \in BOOLEAN

Init ==
    /\ AgentInit /\ WatchdogInit /\ RelayInit
    /\ stopPc = "idle" /\ reopened = FALSE

(***************************************************************************)
(* `postflight stop`: two looks at the session directory, then the file.   *)
(* Between them the session may end.  Any number of them, one at a time.   *)
(***************************************************************************)

\* summary.json is absent and no stop is requested yet: go on to write.
StopChecks ==
    /\ stopPc = "idle"
    /\ mainPc # "exit"
    /\ ~sentinel
    /\ stopPc' = "write"
    /\ UNCHANGED <<agentVars, childAlive, sentinel, wdVars, relayVars, stdinVars,
                   reopened>>

StopWrites ==
    /\ stopPc = "write"
    /\ sentinel' = TRUE
    /\ stopPc' = "idle"
    /\ UNCHANGED <<agentVars, childAlive, wdVars, relayVars, stdinVars, reopened>>

(***************************************************************************)
(* SIGINT or SIGTERM to postflight: the handler runs on the main thread,   *)
(* between two of its steps, and passes the signal on while child_alive.   *)
(***************************************************************************)

SignalHandler ==
    /\ mainPc # "exit"
    /\ childAlive
    /\ KillChild
    /\ UNCHANGED <<childAlive, sentinel, wdVars, relayVars, stdinVars, stopPc,
                   reopened>>

\* The relay has learnt of a hangup with nothing left to read: it will leave
\* its loop, or has left it, and will not read the terminal again.
GoneDeaf == (revents.hup /\ ~revents.in) \/ mainPc = "waitBlock"

Watching == WatchdogStep /\ UNCHANGED othersThanWatchdog
Relaying == RelayStep /\ UNCHANGED <<stopPc, reopened>>
Time == Tick /\ UNCHANGED othersThanWatchdog
Agent == /\ AgentStep
         /\ reopened' = (reopened \/ (tty = {} /\ tty' # {} /\ GoneDeaf))
         /\ UNCHANGED <<childAlive, sentinel, wdVars, relayVars, stdinVars, stopPc>>
User == (StdinArrives \/ StdinEnds) /\ UNCHANGED <<stopPc, reopened>>

\* process::exit: nothing of postflight is left to take a step.
Terminated == mainPc = "exit" /\ UNCHANGED vars

Next ==
    \/ Watching \/ Relaying \/ Time
    \/ Agent \/ User
    \/ StopChecks \/ StopWrites \/ SignalHandler
    \/ Terminated

\* The two threads of postflight and the clock keep going, and a blocked write
\* to the terminal returns if the agent makes room for it again and again: that
\* is what the fairness of the threads is strong for, since no other step of
\* theirs, once enabled, is disabled by somebody else.  Nothing is asked of the
\* agent, of the user or of whoever runs `postflight stop`.
Fairness ==
    /\ SF_vars(Watching)
    /\ SF_vars(Relaying)
    /\ WF_vars(Time)

Spec == Init /\ [][Next]_vars /\ Fairness

-----------------------------------------------------------------------------
(***************************************************************************)
(* Safety.                                                                 *)
(***************************************************************************)

\* The watchdog never stops supervising an agent that is still running: when
\* its thread has returned, for whatever reason, the child is dead.
NeverAbandoned == wdPc = "done" => ChildDead

\* What the child had written when it died has been read from the terminal,
\* and so recorded, by the time the run goes on to save the session; unless
\* somebody opened the terminal again after the relay had left it for good.
Saving == {"clear", "join", "unlink", "save", "exit"}
OutputComplete == mainPc \in Saving /\ ~reopened => owed = 0

\* Once the watchdog is joined nobody climbs the ladder or signals anybody.
Joined == {"unlink", "save", "exit"}
NoSignalAfterJoin ==
    [][(mainPc \in Joined) => UNCHANGED <<rung, stray>>]_vars

\* DESIGN.md: signals go to "the entire process group", so that subprocesses and
\* background jobs get them too.  Nothing of the group survives the last rung,
\* and none of its members is started again.
NoMemberSurvives == rung = "killed" => Members = {}

\* What makes them inductive.  Only the main thread clears the flag, and only
\* after it has reaped the child; the watchdog ends on a cleared flag or on a
\* SIGKILL; a terminal the relay has left is silent, unless it was opened again.
Reaping == Saving \cup {"drain"}
FlagInv == /\ childAlive <=> mainPc \notin (Saving \ {"clear"})
           /\ pid = "held" <=> mainPc \notin Reaping
ChildInv == /\ status[Child] \in {"member", "dead"}
            /\ pid # "held" => ChildDead
            /\ wdPc \in {"cleanup", "done"} => ChildDead
OutputInv == /\ owed <= outq
             /\ tty \subseteq Alive
             /\ GoneDeaf /\ ~reopened => tty = {} /\ outq = 0
             /\ OutputComplete
JoinInv == mainPc \in Joined => wdPc = "done"
IInv == FlagInv /\ ChildInv /\ OutputInv /\ JoinInv

(***************************************************************************)
(* The ladder of Escalation, seen from the agent's exit.                   *)
(***************************************************************************)

Ladder == INSTANCE Escalation WITH agentGone <- ChildDead, letGo <- wdPc = "done"

\* The rungs are climbed in order and none before its wait has gone by.
EscalationSpec == Ladder!LadderSpec

\* What ties the watchdog's deadlines to the time since the last rung.
LadderInv ==
    /\ wdPc \in {"poll", "warnCheck", "write"} => rung = "watching"
    /\ wdPc = "grace" => rung = "warned" /\ left + since >= Grace
    /\ wdPc \in {"termCheck", "term"} => rung = "warned" /\ since >= Grace
    /\ wdPc = "termWait" => rung = "termed" /\ left + since >= TermWait
    /\ wdPc \in {"killCheck", "kill"} => rung = "termed" /\ since >= TermWait

-----------------------------------------------------------------------------
(***************************************************************************)
(* Liveness.                                                               *)
(***************************************************************************)

\* What the ladder cannot end: somebody who left the group has the terminal, and
\* may keep poll() busy and the drain going; the terminal stays full of input
\* that nobody reads, and a write to it does not return.
HeldFromOutside == \E d \in tty : status[d] = "away"
TerminalFull == tty # {} /\ inq = InCap
Unhindered == <>[]~HeldFromOutside /\ []<>~TerminalFull

\* A stop request ends the session, whatever the agent and its background jobs
\* do about it, unless the second lasts, or the first lasts or comes back again
\* and again.
StopEndsSession == Unhindered => (sentinel ~> mainPc = "exit")

\* Under the same conditions every session with a time budget ends.
BudgetEndsSession == Unhindered => (budget # NoBudget => <>(mainPc = "exit"))

-----------------------------------------------------------------------------
(***************************************************************************)
(* What the repository says of the program and the code does not do.       *)
(***************************************************************************)

\* main.rs: "The child_alive flag prevents signaling a recycled PID after
\* exit".  No signal goes to a process that is not the agent's.
NoStranger == ~stray

\* DESIGN.md: the ladder is text, grace period, SIGTERM, 5s, SIGKILL.  A stop
\* request ends with the child dead or SIGKILL sent.
LadderCompletes == sentinel ~> (rung = "killed" \/ ChildDead)

\* main.rs: "The session still gets saved after the child exits".
SavedAfterExit == ChildDead ~> mainPc = "exit"
=============================================================================
