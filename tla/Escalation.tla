----------------------------- MODULE Escalation -----------------------------
(***************************************************************************)
(* What the graceful shutdown controller promises, with no thread, no      *)
(* terminal and no file in it: the ladder  text -> grace period ->         *)
(* SIGTERM -> second wait -> SIGKILL  is climbed one rung at a time, never *)
(* before the wait of the rung has gone by, and the controller lets go of  *)
(* the agent only once the agent is gone.  GracefulShutdown implements it. *)
(***************************************************************************)
EXTENDS Naturals

CONSTANTS Grace,      \* ticks between the text and SIGTERM
          TermWait    \* ticks between SIGTERM and SIGKILL

VARIABLES rung,       \* the last rung taken
          since,      \* ticks since it was taken (saturates at Cap)
          agentGone,  \* the agent process has exited
          letGo       \* the controller has stopped supervising

ladderVars == <<rung, since, agentGone, letGo>>

Rungs == {"watching", "warned", "termed", "killed"}
Cap == Grace + TermWait
Later(n) == IF n < Cap THEN n + 1 ELSE n

LadderInit ==
    /\ rung = "watching"
    /\ since = 0
    /\ agentGone = FALSE
    /\ letGo = FALSE

\* Take one rung: only from the rung below it, and only after its wait.
Climb(from, wait, to) ==
    /\ ~letGo
    /\ rung = from
    /\ since >= wait
    /\ rung' = to
    /\ since' = 0
    /\ UNCHANGED letGo

Warn == Climb("watching", 0, "warned") /\ UNCHANGED agentGone
\* SIGTERM may or may not end the agent; SIGKILL always does.
Term == Climb("warned", Grace, "termed") /\ agentGone' \in {agentGone, TRUE}
Kill == Climb("termed", TermWait, "killed") /\ agentGone' = TRUE

AgentExits ==
    /\ ~agentGone
    /\ agentGone' = TRUE
    /\ UNCHANGED <<rung, since, letGo>>

LetGo ==
    /\ agentGone
    /\ ~letGo
    /\ letGo' = TRUE
    /\ UNCHANGED <<rung, since, agentGone>>

TimePasses ==
    /\ since' = Later(since)
    /\ UNCHANGED <<rung, agentGone, letGo>>

LadderNext == Warn \/ Term \/ Kill \/ AgentExits \/ LetGo \/ TimePasses

LadderSpec == LadderInit /\ [][LadderNext]_ladderVars
=============================================================================
