----------------------------- MODULE Retention -----------------------------
(***************************************************************************)
(* What the session store promises to whoever reads it, with no file, no   *)
(* process and no list in it: a session is begun, set up, written and      *)
(* saved, in that order; it may be lost at any moment, but only while Keep *)
(* newer ones have been begun; and what is lost never comes back, in whole *)
(* or in part.  SessionStore implements it, with any number of processes   *)
(* that prune.                                                             *)
(***************************************************************************)
EXTENDS Naturals, FiniteSets

CONSTANTS MaxSessions,  \* how many sessions are begun
          Keep          \* how many of the newest are kept

VARIABLE shown          \* of each session, what a reader of the store finds

Sessions == 1..MaxSessions
Begun == {i \in Sessions : shown[i] # "none"}

RetentionInit == shown = [i \in Sessions |-> "none"]

Becomes(i, from, to) ==
    /\ shown[i] \in from
    /\ shown' = [shown EXCEPT ![i] = to]

Begin(i) == Becomes(i, {"none"}, "creating")
SetUp(i) == Becomes(i, {"creating"}, "open")
Write(i) == Becomes(i, {"open"}, "written")
Save(i) == Becomes(i, {"written"}, "saved")

Lose(i) ==
    /\ Cardinality({j \in Begun : j > i}) >= Keep
    /\ Becomes(i, {"creating", "open", "written", "saved"}, "lost")

RetentionNext ==
    \E i \in Sessions : Begin(i) \/ SetUp(i) \/ Write(i) \/ Save(i) \/ Lose(i)

RetentionSpec == RetentionInit /\ [][RetentionNext]_shown
=============================================================================
