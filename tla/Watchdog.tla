------------------------------ MODULE Watchdog ------------------------------
(***************************************************************************)
(* The shutdown watchdog thread of src/lib/shutdown.rs.  It shares with    *)
(* the rest of the run one atomic flag (child_alive) and one file (the     *)
(* stop_requested sentinel), and acts on the agent through the terminal    *)
(* and through signals to the agent's process group.                       *)
(*                                                                         *)
(* Clock readings are counted down in ticks: a sleep of n ticks ends when  *)
(* `asleep` has reached 0, `Instant::now() < deadline` is `left > 0`, and  *)
(* `elapsed() >= max_duration` is `budget = 0`.                            *)
(***************************************************************************)
EXTENDS AgentPty

CONSTANTS PollEvery,  \* sleep between two looks at the sentinel    (1s)
          GraceStep,  \* sleep between two looks in the grace period (500ms)
          TermStep,   \* sleep between two looks after SIGTERM       (250ms)
          Grace,      \* grace_period
          TermWait,   \* wait between SIGTERM and SIGKILL            (5s)
          NoBudget,   \* max_duration is None
          Budgets     \* what max_duration may be, NoBudget among it

ASSUME TimeAssumption ==
    /\ PollEvery \in Nat /\ GraceStep \in Nat /\ TermStep \in Nat
    /\ Grace \in Nat /\ TermWait \in Nat
    /\ NoBudget \notin Nat /\ Budgets \subseteq Nat \cup {NoBudget}

VARIABLES
    childAlive,  \* the AtomicBool child_alive
    sentinel,    \* the file stop_requested exists
    wdPc,        \* where the watchdog thread is
    asleep,      \* ticks left of its thread::sleep
    left,        \* ticks left to its current deadline
    budget,      \* ticks left of max_duration, or NoBudget
    rung,        \* history: the last step of the escalation it took
    since        \* history: ticks since that step (saturates at Cap)

wdVars == <<wdPc, asleep, left, budget, rung, since>>

Cap == Grace + TermWait
Later(n) == IF n < Cap THEN n + 1 ELSE n
\* Slip: a deadline that has passed keeps counting.
DownPastZero(n) == n - 1
Down(n) == IF n > 0 THEN n - 1 ELSE 0

WatchdogTypeOK ==
    /\ childAlive \in BOOLEAN
    /\ sentinel \in BOOLEAN
    /\ wdPc \in {"poll", "warnCheck", "write", "grace", "termCheck", "term",
                 "termWait", "killCheck", "kill", "cleanup", "done"}
    /\ asleep \in Nat
    /\ left \in Nat
    /\ budget \in Nat \cup {NoBudget}
    /\ rung \in {"watching", "warned", "termed", "killed"}
    /\ since \in 0..Cap

WatchdogInit ==
    /\ childAlive = TRUE
    /\ sentinel = FALSE
    /\ wdPc = "poll"
    /\ asleep = PollEvery
    /\ left = 0
    /\ budget \in Budgets
    /\ rung = "watching"
    /\ since = 0

\* The thread is running at pc: its sleep, if any, is over.
Awake(pc) == wdPc = pc /\ asleep = 0

GoTo(pc) == wdPc' = pc /\ UNCHANGED <<asleep, left, budget, rung, since>>

\* A step of the escalation has been taken; the wait that follows lasts n.
Take(step, n, pc) ==
    /\ rung' = step
    /\ since' = 0
    /\ left' = n
    /\ wdPc' = pc
    /\ UNCHANGED <<asleep, budget>>

(***************************************************************************)
(* The loop of start().                                                    *)
(***************************************************************************)

\* Slip: max_duration is read and never looked at.
ShouldStopOnSentinelOnly == sentinel
ShouldStop == sentinel \/ budget = 0

WdPoll ==
    /\ Awake("poll")
    /\ \/ ~childAlive /\ GoTo("done")
       \/ childAlive /\ ShouldStop /\ GoTo("warnCheck")
       \/ /\ childAlive /\ ~ShouldStop
          /\ asleep' = PollEvery
          /\ UNCHANGED <<wdPc, left, budget, rung, since>>
    /\ UNCHANGED <<agentVars, childAlive, sentinel>>

\* The sentinel is removed however initiate_shutdown ended, and the thread
\* returns: it serves one request.
WdCleanup ==
    /\ Awake("cleanup")
    /\ sentinel' = FALSE
    /\ GoTo("done")
    /\ UNCHANGED <<agentVars, childAlive>>

(***************************************************************************)
(* initiate_shutdown.  The flag is loaded, and acted upon in a later step. *)
(***************************************************************************)

\* `if !child_alive.load() { return }` at pc, else go on at next.
CheckAlive(pc, next) ==
    /\ Awake(pc)
    /\ GoTo(IF childAlive THEN next ELSE "cleanup")
    /\ UNCHANGED <<agentVars, childAlive, sentinel>>

WdWarnCheck == CheckAlive("warnCheck", "write")

\* Phase 1: the text.  The result of the write is not looked at.
WdWrite ==
    /\ Awake("write")
    /\ WriteInput
    /\ Take("warned", Grace, "grace")
    /\ UNCHANGED <<status, tty, pid, outq, owed, stray, childAlive, sentinel>>

\* Slip: the loop ends when less than one more sleep is left.
WaitLoopShort(pc, n, next) ==
    /\ Awake(pc)
    /\ \/ left <= n /\ GoTo(next)
       \/ left > n /\ ~childAlive /\ GoTo("cleanup")
       \/ /\ left > n /\ childAlive
          /\ asleep' = n
          /\ UNCHANGED <<wdPc, left, budget, rung, since>>
    /\ UNCHANGED <<agentVars, childAlive, sentinel>>

\* Phases 2 and 4: `while Instant::now() < deadline` at pc, sleeping n.
WaitLoop(pc, n, next) ==
    /\ Awake(pc)
    /\ \/ left = 0 /\ GoTo(next)
       \/ left > 0 /\ ~childAlive /\ GoTo("cleanup")
       \/ /\ left > 0 /\ childAlive
          /\ asleep' = n
          /\ UNCHANGED <<wdPc, left, budget, rung, since>>
    /\ UNCHANGED <<agentVars, childAlive, sentinel>>

WdGrace == WaitLoop("grace", GraceStep, "termCheck")
\* Slip: no SIGTERM before the SIGKILL.
WdTermCheckToKill == CheckAlive("termCheck", "kill")
WdTermCheck == CheckAlive("termCheck", "term")

\* Phase 3: SIGTERM to the group.
WdTerm ==
    /\ Awake("term")
    /\ KillGroup("TERM")
    /\ Take("termed", TermWait, "termWait")
    /\ UNCHANGED <<pid, inq, outq, childAlive, sentinel>>

WdTermWait == WaitLoop("termWait", TermStep, "killCheck")
\* Slip: the last resort is forgotten.
WdKillCheckToEnd == CheckAlive("killCheck", "cleanup")
WdKillCheck == CheckAlive("killCheck", "kill")

\* Slip: the last resort is one more SIGTERM.
WdKillWithTerm ==
    /\ Awake("kill")
    /\ KillGroup("TERM")
    /\ Take("killed", 0, "cleanup")
    /\ UNCHANGED <<pid, inq, outq, childAlive, sentinel>>

\* Phase 5: SIGKILL to the group.
WdKill ==
    /\ Awake("kill")
    /\ KillGroup("KILL")
    /\ Take("killed", 0, "cleanup")
    /\ UNCHANGED <<pid, inq, outq, childAlive, sentinel>>

WatchdogStep ==
    \/ WdPoll \/ WdWarnCheck \/ WdWrite \/ WdGrace \/ WdTermCheck \/ WdTerm
    \/ WdTermWait \/ WdKillCheck \/ WdKill \/ WdCleanup

\* One tick of the clock for every reading the watchdog takes of it.
Tick ==
    /\ asleep > 0 \/ left > 0 \/ budget \notin {0, NoBudget} \/ since < Cap
    /\ asleep' = Down(asleep)
    /\ left' = Down(left)
    /\ budget' = IF budget = NoBudget THEN NoBudget ELSE Down(budget)
    /\ since' = Later(since)
    /\ UNCHANGED <<agentVars, childAlive, sentinel, wdPc, rung>>
=============================================================================
