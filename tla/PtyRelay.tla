------------------------------ MODULE PtyRelay ------------------------------
(***************************************************************************)
(* The main thread of `postflight run` while the agent lives: the poll     *)
(* loop of PtyChild::wait_with_output_and_hotkey (src/lib/pty.rs), then    *)
(* the tail of cmd_run (src/bin/main.rs) that clears child_alive, joins    *)
(* the watchdog and saves the session.                                     *)
(***************************************************************************)
EXTENDS Watchdog

CONSTANT StdinKinds  \* what postflight's own stdin may be

ASSUME StdinAssumption == StdinKinds \subseteq {"tty", "pipe", "file"}

VARIABLES
    mainPc,     \* where the main thread is
    revents,    \* what the last poll() returned
    stdinOpen,  \* stdin_open: stdin is still polled
    kind,       \* what stdin is: a terminal, a pipe, a file or /dev/null
    avail,      \* a chunk can be read from stdin
    eof         \* stdin is at its end

stdinVars == <<kind, avail, eof>>
relayVars == <<mainPc, revents, stdinOpen>>

NoEvents == [stdin |-> FALSE, in |-> FALSE, hup |-> FALSE]

RelayTypeOK ==
    /\ mainPc \in {"poll", "stdin", "forward", "child", "waitNow", "drain",
                   "waitBlock", "clear", "join", "unlink", "save", "exit"}
    /\ revents \in [stdin : BOOLEAN, in : BOOLEAN, hup : BOOLEAN]
    /\ stdinOpen \in BOOLEAN
    /\ kind \in {"tty", "pipe", "file"}
    /\ avail \in BOOLEAN
    /\ eof \in BOOLEAN

RelayInit ==
    /\ mainPc = "poll"
    /\ revents = NoEvents
    /\ stdinOpen = TRUE
    /\ kind \in StdinKinds
    /\ avail = FALSE
    /\ eof = FALSE

Main(pc, next) == mainPc = pc /\ mainPc' = next

(***************************************************************************)
(* poll().  A file or /dev/null at its end is readable (read returns 0);   *)
(* a pipe whose writers are gone only reports POLLHUP, which the loop      *)
(* does not look at but which makes poll return at once.                   *)
(***************************************************************************)

StdinReadable == stdinOpen /\ (avail \/ (eof /\ kind = "file"))
StdinHangup == stdinOpen /\ eof /\ kind = "pipe"
Hangup == tty = {}
Ready == StdinReadable \/ StdinHangup \/ outq > 0 \/ Hangup

PollReady ==
    /\ Main("poll", "stdin")
    /\ Ready
    /\ revents' = [stdin |-> StdinReadable, in |-> outq > 0, hup |-> Hangup]
    /\ UNCHANGED <<agentVars, childAlive, sentinel, wdVars, stdinOpen, stdinVars>>

PollTimeout ==
    /\ Main("poll", "waitNow")
    /\ ~Ready
    /\ UNCHANGED <<agentVars, childAlive, sentinel, wdVars, revents, stdinOpen,
                   stdinVars>>

(***************************************************************************)
(* One iteration with events: stdin first, then the terminal.              *)
(***************************************************************************)

NoStdin ==
    /\ Main("stdin", "child")
    /\ ~revents.stdin
    /\ UNCHANGED <<agentVars, childAlive, sentinel, wdVars, revents, stdinOpen,
                   stdinVars>>

\* read() returned 0: stdin is no longer polled.
StdinEof ==
    /\ Main("stdin", "child")
    /\ revents.stdin /\ ~avail
    /\ stdinOpen' = FALSE
    /\ UNCHANGED <<agentVars, childAlive, sentinel, wdVars, revents, stdinVars>>

\* A chunk was read.  If the hotkey byte is in it the callback creates the
\* sentinel unless it exists, and the byte is stripped; what remains of the
\* chunk, if anything, is written to the agent.
StdinChunk(hotkey, rest) ==
    /\ mainPc = "stdin" /\ revents.stdin /\ avail
    /\ hotkey \/ rest
    /\ avail' = FALSE
    /\ sentinel' = (sentinel \/ hotkey)
    /\ mainPc' = IF rest THEN "forward" ELSE "child"
    /\ UNCHANGED <<agentVars, childAlive, wdVars, revents, stdinOpen, kind, eof>>

Forward ==
    /\ Main("forward", "child")
    /\ WriteInput
    /\ UNCHANGED <<status, tty, pid, outq, owed, stray, childAlive, sentinel,
                   wdVars, revents, stdinOpen, stdinVars>>

\* Slip: after a hangup the child is taken for dead and not waited for.
ChildHangupNoWait ==
    /\ Main("child", "clear")
    /\ revents.hup /\ ~revents.in
    /\ revents' = NoEvents
    /\ UNCHANGED <<agentVars, childAlive, sentinel, wdVars, stdinOpen, stdinVars>>

\* POLLHUP without POLLIN: every holder of the other side is gone, and the
\* loop is left for good.
ChildHangup ==
    /\ Main("child", "waitBlock")
    /\ revents.hup /\ ~revents.in
    /\ revents' = NoEvents
    /\ UNCHANGED <<agentVars, childAlive, sentinel, wdVars, stdinOpen, stdinVars>>

ChildOutput ==
    /\ Main("child", "poll")
    /\ revents.in
    /\ ReadOutput
    /\ revents' = NoEvents
    /\ UNCHANGED <<status, tty, pid, inq, stray, childAlive, sentinel, wdVars,
                   stdinOpen, stdinVars>>

NoChildEvent ==
    /\ Main("child", "poll")
    /\ ~revents.in /\ ~revents.hup
    /\ revents' = NoEvents
    /\ UNCHANGED <<agentVars, childAlive, sentinel, wdVars, stdinOpen, stdinVars>>

(***************************************************************************)
(* waitpid: without blocking after a poll timeout, blocking after a        *)
(* hangup.  The first is followed by drain_remaining, which reads until    *)
(* the terminal has been silent for 50ms or has hung up.                   *)
(***************************************************************************)

\* Slip: the loop returns as soon as waitpid has collected the child.
WaitNowNoDrain ==
    /\ mainPc = "waitNow"
    /\ \/ ~ChildDead /\ mainPc' = "poll" /\ UNCHANGED pid
       \/ Reap /\ mainPc' = "clear"
    /\ UNCHANGED <<status, tty, inq, outq, owed, stray, childAlive, sentinel,
                   wdVars, revents, stdinOpen, stdinVars>>

WaitNow ==
    /\ mainPc = "waitNow"
    /\ \/ ~ChildDead /\ mainPc' = "poll" /\ UNCHANGED pid
       \/ Reap /\ mainPc' = "drain"
    /\ UNCHANGED <<status, tty, inq, outq, owed, stray, childAlive, sentinel,
                   wdVars, revents, stdinOpen, stdinVars>>

DrainChunk ==
    /\ Main("drain", "drain")
    /\ ReadOutput
    /\ UNCHANGED <<status, tty, pid, inq, stray, childAlive, sentinel, wdVars,
                   revents, stdinOpen, stdinVars>>

DrainOver ==
    /\ Main("drain", "clear")
    /\ outq = 0
    /\ UNCHANGED <<agentVars, childAlive, sentinel, wdVars, revents, stdinOpen,
                   stdinVars>>

WaitBlock ==
    /\ Main("waitBlock", "clear")
    /\ Reap
    /\ UNCHANGED <<status, tty, inq, outq, owed, stray, childAlive, sentinel,
                   wdVars, revents, stdinOpen, stdinVars>>

(***************************************************************************)
(* The tail of cmd_run.                                                    *)
(***************************************************************************)

ClearFlag ==
    /\ Main("clear", "join")
    /\ childAlive' = FALSE
    /\ UNCHANGED <<agentVars, sentinel, wdVars, revents, stdinOpen, stdinVars>>

\* Slip: the watchdog is told to stop and not joined.
JoinWatchdogNoWait ==
    /\ Main("join", "unlink")
    /\ UNCHANGED <<agentVars, childAlive, sentinel, wdVars, revents, stdinOpen,
                   stdinVars>>

\* shutdown_watchdog.stop(): wait for the thread to return.
JoinWatchdog ==
    /\ Main("join", "unlink")
    /\ wdPc = "done"
    /\ UNCHANGED <<agentVars, childAlive, sentinel, wdVars, revents, stdinOpen,
                   stdinVars>>

RemoveSentinel ==
    /\ Main("unlink", "save")
    /\ sentinel' = FALSE
    /\ UNCHANGED <<agentVars, childAlive, wdVars, revents, stdinOpen, stdinVars>>

\* Everything up to save_summary and process::exit, in one step.
SaveSession ==
    /\ Main("save", "exit")
    /\ UNCHANGED <<agentVars, childAlive, sentinel, wdVars, revents, stdinOpen,
                   stdinVars>>

RelayStep ==
    \/ PollReady \/ PollTimeout
    \/ NoStdin \/ StdinEof \/ Forward
    \/ \E hotkey, rest \in BOOLEAN : StdinChunk(hotkey, rest)
    \/ ChildHangup \/ ChildOutput \/ NoChildEvent
    \/ WaitNow \/ DrainChunk \/ DrainOver \/ WaitBlock
    \/ ClearFlag \/ JoinWatchdog \/ RemoveSentinel \/ SaveSession

(***************************************************************************)
(* postflight's own stdin.                                                 *)
(***************************************************************************)

\* There may be more of it for ever.
StdinArrives ==
    /\ ~avail /\ ~eof
    /\ avail' = TRUE
    /\ UNCHANGED <<agentVars, childAlive, sentinel, wdVars, relayVars, kind, eof>>

\* A terminal has no end; a pipe or a file reaches it after its last chunk.
StdinEnds ==
    /\ kind # "tty" /\ ~avail /\ ~eof
    /\ eof' = TRUE
    /\ UNCHANGED <<agentVars, childAlive, sentinel, wdVars, relayVars, kind,
                   avail>>
=============================================================================
