------------------------------ MODULE AgentPty ------------------------------
(***************************************************************************)
(* The agent's side of a recording: the direct child (`/bin/sh -c CMD`,    *)
(* leader of its own session and process group), its descendants, the pid  *)
(* of the child as the kernel sees it, and the two queues of the           *)
(* pseudoterminal.  The code spawns the child and then only ever uses this *)
(* state through kill, waitpid, poll, read and write; what the processes   *)
(* do between is external and nondeterministic.                            *)
(***************************************************************************)
EXTENDS Naturals

CONSTANTS Child,        \* the process PtyChild::spawn forks
          Descendants,  \* processes the command may start
          Daemons,      \* descendants that may leave the group (setsid)
          InCap,        \* chunks the terminal holds towards the agent
          OutCap        \* chunks the terminal holds from the agent

Procs == {Child} \cup Descendants

ASSUME ChildAssumption ==
    /\ Child \notin Descendants
    /\ Daemons \subseteq Descendants
ASSUME CapAssumption == InCap \in Nat \ {0} /\ OutCap \in Nat

VARIABLES
    status,  \* of each process: unborn, member of the child's group, away, dead
    tty,     \* the processes that hold the secondary side of the terminal open
    pid,     \* the child's pid: held, reaped (free), recycled (someone else's)
    inq,     \* chunks written to the terminal and not read by the agent
    outq,    \* chunks written by the agent and not relayed
    owed,    \* history: the part of outq that was there when the child died
    stray    \* history: a signal went to a process that is not the agent's

agentVars == <<status, tty, pid, inq, outq, owed, stray>>

Alive == {p \in Procs : status[p] \in {"member", "away"}}
Members == {p \in Procs : status[p] = "member"}
ChildDead == status[Child] = "dead"

AgentTypeOK ==
    /\ status \in [Procs -> {"unborn", "member", "away", "dead"}]
    /\ tty \subseteq Procs
    /\ pid \in {"held", "reaped", "recycled"}
    /\ inq \in 0..InCap
    /\ outq \in 0..OutCap
    /\ owed \in 0..OutCap
    /\ stray \in BOOLEAN

\* After fork, setsid, TIOCSCTTY and dup2 the child leads its group and has
\* the terminal as stdin, stdout and stderr; nothing is queued.
AgentInit ==
    /\ status = [p \in Procs |-> IF p = Child THEN "member" ELSE "unborn"]
    /\ tty = {Child}
    /\ pid = "held"
    /\ inq = 0
    /\ outq = 0
    /\ owed = 0
    /\ stray = FALSE

(***************************************************************************)
(* Death, signals and waitpid.                                             *)
(***************************************************************************)

\* The processes of S die: their descriptors close, and if the child is one
\* of them the output queued so far is what it leaves to be relayed.
Die(S) ==
    /\ status' = [p \in Procs |-> IF p \in S THEN "dead" ELSE status[p]]
    /\ tty' = tty \ S
    /\ owed' = IF Child \in S /\ ~ChildDead THEN outq ELSE owed

\* When the child, a session leader, exits, the kernel sends SIGHUP to the
\* foreground group, which is the child's: some of the members die with it.
DieWithHangup(S) ==
    \E H \in SUBSET Members :
        /\ H # {} => Child \in S
        /\ Die(S \cup H)

\* Slip: the signal goes to the child only, kill(child_pid, sig).
KillLeader(sig) ==
    IF pid = "recycled"
    THEN stray' = TRUE /\ UNCHANGED <<status, tty, owed>>
    ELSE /\ IF sig = "KILL" THEN Die({Child})
                            ELSE \E S \in SUBSET {Child} : Die(S)
         /\ UNCHANGED stray

\* kill(-child_pid, sig).  The number stays the group's while a member lives
\* or the child is not reaped; afterwards it may name somebody else's group.
KillGroup(sig) ==
    IF pid = "recycled"
    THEN stray' = TRUE /\ UNCHANGED <<status, tty, owed>>
    ELSE /\ IF sig = "KILL" THEN Die(Members)
                            ELSE \E S \in SUBSET Members : Die(S)
         /\ UNCHANGED stray

\* kill(child_pid, SIGINT or SIGTERM): the child may die of it or handle it.
KillChild ==
    \/ /\ pid = "held"
       /\ ~ChildDead
       /\ DieWithHangup({Child})
       /\ UNCHANGED <<pid, inq, outq, stray>>
    \/ pid # "recycled" /\ UNCHANGED agentVars
    \/ /\ pid = "recycled"
       /\ stray' = TRUE
       /\ UNCHANGED <<status, tty, pid, inq, outq, owed>>

\* waitpid(child_pid) collects the dead child: its pid is free again.
Reap ==
    /\ ChildDead
    /\ pid = "held"
    /\ pid' = "reaped"

(***************************************************************************)
(* The terminal.                                                           *)
(***************************************************************************)

\* write(primary_fd) of one chunk: it blocks while the agent's side is full,
\* and fails at once when nobody holds the other side.
WriteInput ==
    \/ tty = {} /\ UNCHANGED inq
    \/ tty # {} /\ inq < InCap /\ inq' = inq + 1

\* read(primary_fd) of one chunk, in the order written.
ReadOutput ==
    /\ outq > 0
    /\ outq' = outq - 1
    /\ owed' = IF owed > 0 THEN owed - 1 ELSE 0

(***************************************************************************)
(* What the agent's processes may do on their own.                         *)
(***************************************************************************)

\* A living process starts a descendant, which inherits its group and fds.
AgentForks(p, d) ==
    /\ p \in Alive
    /\ status[d] = "unborn"
    /\ status' = [status EXCEPT ![d] = status[p]]
    /\ tty' = IF p \in tty THEN tty \cup {d} ELSE tty
    /\ UNCHANGED <<pid, inq, outq, owed, stray>>

\* setsid: only a process that is not the session leader can do it.
AgentLeaves(d) ==
    /\ status[d] = "member"
    /\ status' = [status EXCEPT ![d] = "away"]
    /\ UNCHANGED <<tty, pid, inq, outq, owed, stray>>

AgentClosesTty(p) ==
    /\ p \in tty
    /\ tty' = tty \ {p}
    /\ UNCHANGED <<status, pid, inq, outq, owed, stray>>

\* By the path of its device, /dev/pts/N: also after everybody closed it, which
\* ends the hangup.
AgentOpensTty(p) ==
    /\ p \in Alive \ tty
    /\ tty' = tty \cup {p}
    /\ UNCHANGED <<status, pid, inq, outq, owed, stray>>

AgentWrites(p) ==
    /\ p \in tty
    /\ outq < OutCap
    /\ outq' = outq + 1
    /\ UNCHANGED <<status, tty, pid, inq, owed, stray>>

AgentReads(p) ==
    /\ p \in tty
    /\ inq > 0
    /\ inq' = inq - 1
    /\ UNCHANGED <<status, tty, pid, outq, owed, stray>>

AgentExits(p) ==
    /\ p \in Alive
    /\ DieWithHangup({p})
    /\ UNCHANGED <<pid, inq, outq, stray>>

\* The kernel gives the freed number to a new process, which it may not do
\* while a process group of that number exists.
PidRecycled ==
    /\ pid = "reaped"
    /\ Members = {}
    /\ pid' = "recycled"
    /\ UNCHANGED <<status, tty, inq, outq, owed, stray>>

AgentStep ==
    \/ \E p \in Procs, d \in Descendants : AgentForks(p, d)
    \/ \E d \in Daemons : AgentLeaves(d)
    \/ \E p \in Procs : AgentClosesTty(p) \/ AgentOpensTty(p) \/ AgentWrites(p)
                        \/ AgentReads(p) \/ AgentExits(p)
    \/ PidRecycled
=============================================================================
