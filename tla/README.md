# postflight in TLA+

`postflight run CMD` runs an AI agent in a pseudoterminal, observes what it
does, stops it gracefully when asked, and leaves a session behind (event log,
summary, diffs) that `report`, `sessions`, `replay`, `stop` and `clean` work
on. This directory models the concurrent and the failure-prone part of it in
TLA+, model-checks small instances with TLC and proves the main results for
every value of the constants with TLAPS. Source paths below are relative to
the repository.

## The system: inventory

| Component | State | Operations | Talks to |
|---|---|---|---|
| Graceful shutdown (`src/lib/shutdown.rs`) | thread, deadline of the current wait, `child_alive` (shared), sentinel file `stop_requested` | poll once a second for the sentinel or the time budget; escalate: text, grace period, SIGTERM to the group, 5s, SIGKILL to the group; stop and join | agent (terminal, signals), `postflight stop` (file), main thread (flag, join) |
| PTY relay (`src/lib/pty.rs`) | terminal's primary fd, `stdin_open`, result of `poll` | fork the agent, relay stdin and output, hotkey Ctrl+], waitpid, drain | agent, user, sentinel (hotkey) |
| `cmd_run` and signal handlers (`src/bin/main.rs`) | `child_alive`, `running`, channels | start the threads; on SIGINT and SIGTERM pass the signal on; after the exit clear flags, join, write, summarise, prune | everything |
| Session store (`src/lib/session.rs`) | `~/.postflight/sessions/<id>/` with `events.jsonl`, `summary.json` | create, append, save, list, latest, prune | all postflight processes, without a lock |
| `stop`, `clean` (`src/bin/main.rs`) | none | choose a session and write the sentinel; prune | session store |
| Process tracker (`src/lib/process.rs`) | `known_pids` | poll the tree below the agent; spawn and exit events; `finish_all` | kernel (`/proc`), channel |
| Network observer (`src/lib/network.rs`) | `seen_connections` | poll `lsof`; one event for a new connection | kernel, channel |
| File watcher (`src/lib/fs_watcher.rs`) | inotify watches, event list, read paths | watch new directories, translate events; polling variant on macOS | kernel, main thread |
| Snapshots and diffs (`src/lib/diff.rs`) | two maps path to metadata | walk, compare, keep text for unified diffs | `cmd_run` |
| Configuration (`src/lib/config.rs`) | settings | load, `should_exclude`, `glob_match` | watcher, snapshots |
| Report (`src/lib/report.rs`), `report`, `sessions`, `replay`, `init` | none | render what is on disk | session store |

What is hard about it, and what has to hold:

- **Shutdown.** Main thread, watchdog, signal handlers, hotkey, `postflight
  stop` and the agent's own exit interleave around one relaxed atomic flag, one
  file and one pid. The agent must not be abandoned while it runs, nobody else
  may be signalled, the rungs must be climbed in order and not early, and a
  stop must end the session whatever the agent and its background jobs do.
- **Relay.** The exit of the agent races its last output, a hangup, the end of
  stdin, background jobs that keep the terminal. All output is to be recorded,
  and the exit noticed.
- **Store.** Recordings, their prunes, `clean` and crashes work on one
  directory without a lock, on lists that are out of date when they are used.
  The newest sessions must survive and stay reportable, the rest must go.
- **Recording.** The process tree changes while it is read, one list of children
  after the other, the kernel's lists are not exact then, pids are reused,
  events travel through channels that are drained after two joins. Spawns and
  exits have to pair up, nothing sent may be lost, the joins must not hang.
- **Watching.** Directories appear, move and vanish while the watcher adds
  watches, lists and reads batches from a queue the kernel bounds. No directory may
  go unnoticed for good, and what the log says must be true.
- **Snapshots.** Two walks that take their time, of files that others change, in
  directories that others close and open.
  What is said of a file nobody else touched has to be right, and excluded files
  must stay out, although patterns are compared with texts.

## Modules

| Module | Models |
|---|---|
| `Escalation` | what graceful shutdown promises: an abstract ladder watching → warned → termed → killed with the waits between the rungs, from which nobody lets go of a live agent |
| `AgentPty` | external: the agent's processes, group, terminal queues and pid, as far as the code acts on them with `kill`, `waitpid`, `poll`, `read`, `write` |
| `Watchdog` | `GracefulShutdown::start` and `initiate_shutdown`, one action per sleep, test and act; time is counted down in ticks |
| `PtyRelay` | `wait_with_output_and_hotkey`, `drain_remaining`, and the tail of `cmd_run` up to the exit |
| `GracefulShutdown` | the composition: both threads, agent, clock, signal handler, `postflight stop`; all properties of shutdown |
| `Retention` | what the session store promises its readers: a session is begun, set up, written, saved, and lost only while `Keep` newer ones have been begun, and then for good |
| `SessionStore` | all recordings, prunes, `clean` and `stop` on one sessions directory |
| `Recorder` | process tracker, network observer, channels, event log, summary |
| `FsWatcher` | the inotify watcher on Linux: watches, the kernel's queue, recursive watching, the loop, stop and join, beside an agent that changes the tree |
| `ExcludePatterns` | `should_exclude` and `glob_match` on characters, and what the patterns mean by the names of a path |
| `Snapshots` | `capture_snapshot`, `capture_content`, `diff_snapshots`, and the diffs `cmd_run` saves, beside others who change files |
| `GracefulShutdownProofs`, `SessionStoreProofs`, `RecorderProofs`, `FsWatcherProofs`, `ExcludePatternsProofs`, `SnapshotsProofs` | theorems |
| `MCShutdown`, `MCSessionStore`, `MCRecorder`, `MCWatcher`, `MCSnapshots` | values for TLC |

How state corresponds to code:

- `wdPc`, `mainPc`, `procPc`, `netPc`, `run` are program counters; `childAlive`,
  `sentinel`, `running` are the shared flags and the file of these names.
  `mainPc` in `GracefulShutdown` and in `Recorder` is the same thread seen in
  different detail: there the saving of the session is one step, here the agent
  is one process that exits some time.
- A load of `child_alive` and the signal sent because of it are two actions
  (`WdTermCheck`/`WdTerm`, `WdKillCheck`/`WdKill`), as in
  `src/lib/shutdown.rs:139-142` and `155-156`. So are the looks of `cmd_stop` at
  `summary.json` and the sentinel, and its write (`StopChecks`, `StopWrites`).
- `Instant::now() < deadline` is `left > 0`, `thread::sleep` is `asleep`,
  `elapsed() >= max_duration` is `budget = 0`. `rung`, `since`, `owed` and
  `stray` are history variables.
- In `SessionStore` a session's id is its rank in the order of creation. The two
  calls of `create_dir_all` are `MakeDir` and `MakeDiffs`, and the second is two
  steps if the directory has gone meanwhile: it makes it again, and then `diffs`
  in it. `remove_dir_all` is two steps (`UnlinkFiles`, `RemoveDir`), `fs::write`
  of the summary too (`OpenSummary`, `WriteSummary`). What goes to a log that was
  unlinked is lost without an error; `terminal.raw` is opened for every chunk and
  may appear between the two steps of a removal (`others`).
- The terminal in `AgentPty` can be opened again when everybody has closed it
  (`AgentOpensTty`): its path stays valid, and opening it ends the hangup.
  `reopened` remembers that this happened after the relay had left it.
- In `Recorder` the walk of `get_descendant_pids` reads one
  `/proc/<pid>/task/<pid>/children` at a time, and a read takes time
  (`ReadStarts`, `ReadEnds`). proc(5) warns that the list is only exact while
  nothing in it changes: when one of the children goes during the read, any other
  may be missing in it; who comes meanwhile may be in it or not (`WhileReading`:
  `listable` are the children there were at some moment of the read, `sure`
  those that cannot be left out). The history variable `shaken` has the processes
  whose place changed during the poll: that were adopted by another process or
  thread, or lost a sibling during the read of the list. An orphan goes to init or
  to a living ancestor in the tree that has made itself a subreaper (`Heirs`);
  when a thread ends, its children become those of the main thread. An argv is
  abstracted to the serial number of its process, 0 standing for `<pid:N>`.
  `to_check` is a stack in the code and a set here, so every order is covered. The
  log is a sequence of events, and the summary's list of subprocesses a function from the
  place of an exit in the log to pid and argv.
- In `FsWatcher` a directory is an inode and its path a sequence of names; `wds`
  and `wdPath` are `wd_to_path`: which inodes are watched and under which path
  they were added. An event remembers its number and the path it really happened
  at (`n`, `real`), which the code does not know; `owed`, `moved` and `overflow`
  are history. `todo` and `at` are the recursion of `add_watches_recursive`:
  adding a watch and listing the directory are two steps, and the agent acts in
  between. Either may be refused by the kernel (`Refuse`), which the code ignores;
  `refused` is history. Paths are made with `to_string_lossy`, a function of names
  (`Lossy`): one whose value is another name is not UTF-8. `inotify(7)` is modelled
  from its use: a watch belongs to an inode and follows it through
  renames, events equal to the last one queued are merged, and listing a watched
  directory's subdirectory is an access that is reported.
- In `Snapshots` reading a file's metadata and hashing its content are two steps
  (`LookAt`, `HashFile`), as in `src/lib/diff.rs:51-53`, and the walk goes through
  a directory in any order. A content is a model value; `Text`, `Small` and
  `Locked` are what the code tells apart. `restless` is the set of files somebody
  touched or closed off while `cmd_run` looked. A directory can be unreadable, so
  that `read_dir` fails, and unsearchable, so that nothing is reached through it
  (`unreadable`, `unsearchable`, changed by `CloseOrOpen`); the walk silently
  leaves out what it cannot see, `atStart` and `atEnd` are what was to be seen.
- In `ExcludePatterns` paths are texts, characters one by one, because that is
  what the code compares: `contains`, `starts_with`, `ends_with` and the cursor of
  `glob_match` are there as they are in `src/lib/config.rs:77-127`. `IsLeftOut` is
  the other side: a directory pattern means a run of whole names anywhere on the
  way to the file, or the directory with this absolute path; any other pattern is
  matched, stars for any texts, with an absolute path. The alphabet is a constant.

Operators introduced by a comment that starts with "Slip:" are variants of the
definition after them, each with a plausible mistake in it. Putting one in the
place of the definition has to break the property it is paired with in
`PROJECT.json`; no specification uses them.

## Runs

| Run | Instance | Shows |
|---|---|---|
| `shutdown_safety` | child, one descendant that may call setsid, stdin a terminal, a pipe or a file, with and without a time budget | `NeverAbandoned`, `OutputComplete`, `NoMemberSurvives`, `NoSignalAfterJoin`, the deadlines (`LadderInv`), the inductive invariant `IInv`; the system implements `Escalation` |
| `shutdown_ends` | the same processes, input and output without end, with and without a time budget | a stop request and a budget end the session (`StopEndsSession`, `BudgetEndsSession`) |
| `store` | two recordings, two processes of `clean`, keep 1 | `NewestKept`, `NewestReportable`, `SummaryComesLast`, `Retained`; the store implements `Retention` (`RetentionSpec`) |
| `record` | two pids that may be used twice, forks from any thread, subreapers, two connections to one remote end | `Paired`, `ReportedOnce`, `Whole`, `ExitedHaveLeft`, `ArgvIsOfTheProcess`, and that long runners get known and the recording ends |
| `watcher` | two directories on two levels and one file, an excluded name and one that is not UTF-8, a queue of two events, three acts of the agent or refusals of the kernel | `Covered`, `LogIsTrue`, `InOrder`, `NothingSkipped`, `DirsGetWatched`, `WatcherStops` |
| `snapshots` | four files, two of which have the same diff name, five contents, five settings of `exclude_patterns`, two changes of files or of directories' modes at any time | `Authoritative`, `ExcludedStayOut`, `DiffsFaithful`, `DiffsComplete` |

Some of these are weaker than one would like, because the code is:

- `StopEndsSession` and `BudgetEndsSession` are about sessions that are
  `Unhindered`. A job that called setsid, keeps the terminal and goes on writing
  starves `waitpid` (`src/lib/pty.rs:263`) before the child's exit is noticed and
  makes the drain (`:294`) endless after it, and no signal reaches it; and a
  terminal that stays full blocks the watchdog's write. The hypothesis excludes
  that somebody outside the group holds the terminal again and again, and that it
  is full for good; a daemon that holds it for a while is in the run.
- `OutputComplete` holds unless the terminal was opened again: the relay takes
  the first hangup for the last (`src/lib/pty.rs:231-235`) and waits without
  draining (`:281`), so what is written after a reopening is lost.
- `RetentionSpec`: until both directories are made, a session can be removed and
  come back (`src/lib/session.rs:57-58`); it is "creating" all the while.
- `ExitedHaveLeft` is about processes that are not `shaken` and do not hang from
  one that is: the others can be recorded as exited while they run.
- `Covered` and `DirsGetWatched` are about directories, not files, and not about
  those the watcher was refused or whose name is not UTF-8; `LogIsTrue` is about
  paths as `to_string_lossy` renders their last name.
- `Authoritative` calls a file deleted when the agent closed a directory above
  it, and created when one was opened.

Six runs find what the repository says and the code does not do; the findings of
`PROJECT.json` quote the lines:

| Run | Statement that fails | Why |
|---|---|---|
| `recycled_pid` | the flag "prevents signaling a recycled PID" (`src/bin/main.rs:149`) | it is cleared after `waitpid` and the drain; a signal in between goes to the freed number |
| `ladder_blocks` | text → grace → SIGTERM → 5s → SIGKILL (`DESIGN.md:214`) | the text is a blocking write; a terminal full of unread input stops the ladder at its first rung |
| `never_saved` | "The session still gets saved after the child exits" (`src/bin/main.rs:148`) | stdin is tested for POLLIN only: a pipe at its end makes every `poll` return at once, and a background job that holds the terminal prevents the hangup that would end the loop |
| `stop_picks_crashed` | `stop` takes "the most recent active session" (`src/bin/main.rs:94`) | a crashed session looks active for good |
| `prunes_running` | "The session still gets saved" (`src/bin/main.rs:148`) | a recording older than a minute looks stale and is removed while its agent works |
| `long_names` | "The session still gets saved after the child exits" (`src/bin/main.rs:148`) | a diff's file name is the whole path of the file; when it is too long, the error is returned from `cmd_run` before the summary is written |

Smaller disagreements were met while modelling and have no run.

- A descendant that leaves the process group survives the ladder, although
  `DESIGN.md:211` speaks of all descendants.
- A job that called setsid, holds the terminal and goes on writing keeps the
  session from ending, and what is written to a terminal that was closed by
  everybody and opened again is not recorded (above, under the runs).
- Children forked by another thread than the main one are not in the file the
  tracker reads (`offMain`), and when a pid is used twice in a session both
  processes get the argv of the first, although `README.md:60` promises every
  subprocess with its argv. `ArgvIsOfTheProcess` and `ExitedHaveLeft` are
  therefore stated for sessions in which no pid was used twice (`NoPidReused`);
  `Paired` and `Whole` hold of all.
- A process that the kernel left out of a list, because a sibling went while it
  was read, or that was adopted within the tree behind the walk's back, gets an
  exit event and in the next poll another spawn event, so that the summary has it
  twice.
- An orphan gets an exit event while it runs on, although `DESIGN.md:125` says
  that the exit is recorded when the pid disappears.
- Events leave the channels only after the agent's exit, although
  `DESIGN.md:152` speaks of streaming consumers that process them as they arrive.
- Moves are subscribed to (`DESIGN.md:74`) but make no line in the log. A watch
  keeps the path its directory had, so that after a rename the log gives paths
  that do not exist any more, and an overflow of the queue goes unnoticed.
- A watch the kernel refuses (`fs.inotify.max_user_watches`, permissions) leaves
  a directory unwatched without a word (`src/lib/fs_watcher.rs:285`). So does a
  name that is not UTF-8: the path with replacement characters does not exist
  (`:228`, `:236`), and the log has it all the same.
- A prune between the two `create_dir_all` removes a session's directory and the
  second makes it again.
- Snapshots take a file in a directory that cannot be listed or entered any more
  for deleted, and in one that can be again for created (`src/lib/diff.rs:34-37`,
  `51`), although `DESIGN.md:66` calls them authoritative.
- Directories the watcher itself lists are accesses that a watch above them
  reports; they end up among the files the agent read (`README.md:58`).
- `README.md:57` promises unified diffs for every create, modify and delete;
  there are diffs of modified small texts only. `DESIGN.md:62` and `:175` still
  describe snapshots without hashes and cached contents.
- Patterns are compared with absolute paths: a workspace below a directory that
  is called like a pattern is left out as a whole, and a glob without a leading
  `*` never matches.

### Bounds

- `Descendants` has one process. The code never tells descendants apart; one is
  enough to hold the terminal, to write, to leave the group, to outlive the
  child and to die with it.
- `InCap`, `OutCap` are one chunk: empty and full happen, so that writers block
  and are let go. How much the agent writes and how much input comes is not
  bounded.
- Waits are up to two ticks, longer and shorter than the sleeps they are made
  of. Which thread goes first at a tick is not fixed, so longer waits add
  nothing but states. In `shutdown_ends` the grace period is 0: how long the rungs
  last is the matter of `shutdown_safety`.
- `MaxSessions` is 2 with 1 to keep: one session is behind the newest, one is
  not, and two `clean` with old lists race a recording's own prune. The safety
  properties of this run are proved for all values.
- `MaxForks` is 2 with two pids: a child and a grandchild, an orphan, or a pid
  used twice. No further level of the tree is handled differently, and the safety
  properties are proved for any number.
- `Limit` is 2 events, so that three acts overflow the queue; `MaxActs` is 3:
  enough to make a directory, make another in it and rename or use one of them,
  or have one refused, while the watcher is at any of its steps.
- `MaxActs` of `Snapshots` is 2 changes of files or of modes of directories by
  anybody, before, during and after either walk: a file may become another one and
  be changed back, a directory closed and opened, or two files change. A run
  starts with files or without (`Starts`), or with a directory closed already.
  `NameMax` is 255 in `snapshots`, longer than any name in it, and 10 in
  `long_names`, so that a short path stands for a long one.
- The five sets of patterns are none, a directory pattern, a glob for names, an
  absolute glob and an absolute directory; the built-in one is always there. What
  a pattern means is proved for all patterns and paths.

`CHECK_DEADLOCK FALSE` is in the store's configurations only: when all sessions
were created and are over, that system really stops. The others end in an
explicit `Terminated`.

### Fairness

`GracefulShutdown` asks for weak fairness of the clock, and for strong fairness of
the watchdog and of the main thread: a thread that waits in a `write` or a `read`
is disabled and enabled again as the agent fills and empties the terminal, and
the kernel wakes it whenever it can go on; if that happens again and again, the
thread is scheduled at last. `Recorder` asks for weak fairness of its three
threads, `FsWatcher` of the watcher's thread and of the join. Nothing is
asked of the agent, its descendants, the user, `postflight stop`, or signals: an agent may ignore
everything and write for ever. `SessionStore` asks that a prune that was started
goes on, that time passes, and that somebody runs `postflight clean` again and
again; without the last one nothing would remove what is left when no new
recording ends. A step of a thread that waits for the agent (a blocking write, a
blocking `waitpid`) is disabled until the agent acts; strong fairness promises it
only if the agent lets it happen again and again.

## Theorems

`GracefulShutdownProofs` (any set of descendants and daemons, any capacities and
durations):

- `Invariance`: `Inv == TypeOK /\ IInv` is an invariant. `NeverAbandoned` is not
  inductive by itself: the watchdog returns on a cleared flag, so one needs that
  only the main thread clears it and only after it has reaped the child
  (`FlagInv`), that a reaped child is dead and a dead child stays dead
  (`ChildInv`). `OutputComplete` needs that a terminal the relay has left on a
  hangup has nothing more to say unless it was opened again (`OutputInv`). The
  steps of the agent's side are dealt with by lemmas about `AgentInv` and
  `OneWay`, and each step of the two threads by a case.
- `TypeCorrect`, `Supervised` (`NeverAbandoned`), `NothingUnread`
  (`OutputComplete`) follow from it.
- `QuietAfterJoin`: after the join no step signals anybody (`NoSignalAfterJoin`).
- `GroupIsGone` (`NoMemberSurvives`): a SIGKILL aimed at a recycled number misses,
  so the invariant adds that the number is recycled only when the group is
  empty, and an empty group stays empty.
- `DeadlinesKept` (`LadderInv`): ticks left of a wait plus ticks since the rung
  never add up to less than the wait.
- `ImplementsLadder`: `Spec => EscalationSpec`, under `agentGone <- ChildDead`,
  `letGo <- wdPc = "done"`; a rung is climbed by a step that maps to the same
  rung of `Escalation`, everything else to the exit of the agent, to time or to a
  stutter.

`SessionStoreProofs` (any number of sessions, any `Keep`, any set of cleaners):

- `StoreInvariance` and, from it, `StoreTypeCorrect`, `NewestAreKept`,
  `NewestAreReportable`, `SummaryIsLast`. The argument: being among the newest
  `Keep` can only be lost (`NewestNoMore`, by cardinality), and what is behind in
  a list of existing directories is behind among all created sessions
  (`BehindIsNotNewest`); so what any pruner has on its list, however old it is,
  is not among the newest (`ListsInv`), and a session among the newest keeps the
  files it had (`FilesOf`).
- `ImplementsRetention`: `Spec => RetentionSpec`, under `shown <- Shown`. What a
  reader finds of a session is read off its files and off how far
  `Session::create` is: creating while that makes the two directories, then lost
  without the session's directory or without the log that was opened in it, saved
  with a complete summary, written with all events, open otherwise. There is a
  lemma for every action that touches the files (`MakeDirBegins`,
  `MakeDiffsShows`, ..., `RemoveDirShows`); each moves one session at most
  (`OneBecomes`). A removal is a `Lose` because of `ListsInv`, and it may already
  have been one: the files are gone a step before the directory is. The end of
  the creation, by `diffs` or by a crash, is a `SetUp` if the directory is there
  and a `Lose` if not (`CreatingEnds`), the latter again by `FilesOf`: who is
  among the newest has a directory. That a lost session never comes back needs
  what `LogInv` says of the log and the summary in each phase: what a recording
  writes after its directory was removed opens no file again. Two exceptions the
  code leaves are part of the model: a session that is being created may lose its
  directory and get it back, and a directory emptied before `events.jsonl` was
  opened is not lost, the log is made in it and `remove_dir` fails.

`RecorderProofs` (any pids, connections and number of forks):

- `Invariance`: `IInv` has the types, what can be in the channels in each phase
  (`Phases`), `Paired` and `ReportedOnce` about the log and the channels together
  (`Stream` is what was logged and what is on its way), that the summary is the
  one of the log before `session_end` (`SummaryRight`), and what the walk knows
  (`WalkInv`).
- `SpawnsPairUp` (`Paired`) and `ConnectionsOnce` (`ReportedOnce`) are conjuncts of
  it. A poll sends at most one event for each pid (`Turn`), a spawn to one that
  was not known and an exit to one that was, and lists extended like that stay
  paired (`PairedExtends`): no fact about the tree is needed, so it holds however
  pids are recycled.
- `SessionIsWhole` (`Whole`): behind the joins no thread sends, behind the drains
  nothing is left, and a spawn whose pid is not known any more has its exit in the
  log (`SpawnThenExit`).
- `NobodyInTheTreeExited` (`ExitedHaveLeft`) needs `WalkInv`, which holds while no
  pid was used twice. Who was found or is known has a parent that was found or is
  known, so that an orphan among them is adopted by one of them or by nobody in
  the tree (`HeirsAreAbove`). A known process that is not `shaken` was found if
  its parent was looked at before, and is sure to be found if its parent's list
  is being read (`ReadGoesOn`). So the processes that are not known, or were
  found, contain the children of each of them that are not shaken, and what
  hangs from the agent by such children (`HangingBut(shaken)`) lies in them. The
  count of used pids makes the hypothesis a hereditary one.
- `ArgvsAreRight` (`ArgvIsOfTheProcess`): with `WalkInv` every spawn event on its
  way or in the log, of which a process may have more than one, has the argv of
  its process or the placeholder.

`FsWatcherProofs` (any directories, names, starting trees, queue limit and number
of acts):

- `Invariance` of `IInv`: types, that the queue, the batch and the log are
  numbered in this order (`Numbered`), that the path under which an unmoved
  directory is watched is its path (`PathsKnown`), that what is owed is coming
  (`OwedComing`), and `Covered`. From it `TypeCorrect`, `WatchedIsCovered`,
  `LogTellsTruth`, `LogIsOrdered` and `LogIsComplete`. `Covered` is inductive
  because the watch is added before the directory is listed: a directory made
  after the watch has its event, one made before is found by the listing. Where
  the kernel refuses the watch or the listing, the step puts the directories
  concerned among the `refused`, and where a name is not UTF-8 the event's path
  is another one than the directory's: these are the two hypotheses `Covered` has
  besides those about moves and the overflow.

`SnapshotsProofs` (any files, contents, patterns and first disks):

- `Invariance` of `IInv`: of a file nobody touched or closed off, a finished
  snapshot has the entry that what was to be seen of it at the start or at the end
  of the run calls for (`Seen`: nothing, if a directory above it cannot be listed
  or entered), if and only if no prefix of its path is skipped by `should_exclude`
  (`Sound` and its parts);
  what is cached and every diff are right (`DiffsRight`). From it `TypeCorrect` and
  `DiffsAreTrue`.
- `ExclusionWorks`, `DifferenceIsRight` and `NoDiffIsMissing` state
  `ExcludedStayOut`, `Authoritative` and `DiffsComplete`. They need that
  `should_exclude` computes what the patterns mean, which is `ExcludePatternsProofs`.

`ExcludePatternsProofs` (any alphabet, workspace, patterns and paths):

- Induction is by least elements: a set of naturals that is not empty has one
  (`LeastOf`, from the library's theorem on well-founded relations), so a set with
  0 in it that is closed under successors holds all numbers (`InductionOn`), and a
  step function has the function that follows it (`RecursionExists`). The library's
  own induction theorems take a predicate, which the provers cannot instantiate;
  a set does for it. The recursive functions of the model (`SplitOf`, `AfterParts`,
  the one in `FlattenSeq`) are shown to satisfy their equations that way
  (`SplitRecursion`, `LoopRecursion`, `AsTextRecursion`).
- `GlobIsRight`: `glob_match` accepts the texts the pattern matches. A match is a
  cut of the text, a piece for each character of the pattern (`Matches`); it is
  there when the parts between the stars have places one behind the other, the
  first at the start and the last at the end (`SplitPlaces`, character by
  character). The loop takes the leftmost place for every part and stands at the
  least end there is (`LoopFindsLeastEnd`), so it fails only when there are no
  places; and the last part may be moved from where the loop found it to the end
  of the text (`EndIsRight`), which is why `ends_with` is enough, although the loop
  stops somewhere else.
- `ExcludesIsRight`: with a directory pattern the four comparisons of
  `should_exclude` find a directory and nothing else. The text of a path has its
  slashes exactly in front of the names (`IsLayout`, `SlashesAre`), so that a
  slash, the pattern's directory and another slash, or the end, can only be a run
  of whole names (`BlockText`, `ExcludesDirIs`, `MeansDirIs`); `starts_with` and
  equality find the directory with this absolute path.
- `ShouldExcludeIsRight`: what is left out by its meaning is what `should_exclude`
  holds of, or of a directory it lies in: the form the walks need.

The assumptions are the ASSUMEs of the modules: `Child` is not a descendant,
daemons are descendants, capacities, waits and counts are naturals, the input
queue holds at least one chunk, cleaners are no session ids, pids and
connections are finitely many, in the watcher's model no name is both a file's
and a directory's and `to_string_lossy` is a function of names, a file's path is
not the beginning of another's, and a name is a text that is not empty and has no
slash in it.

Liveness (`StopEndsSession`, `BudgetEndsSession`, `Retained`,
`LongRunnersGetKnown`, `RecordingEnds`, `DirsGetWatched`, `WatcherStops`) is
model-checked only: it rests on fairness and ENABLED, which the prover does not
handle.

## Abstractions

- Linux is modelled: POLLHUP without POLLIN for a pipe at its end, EIO of a
  terminal nobody holds, `/proc`. The macOS branches are not.
- A chunk of terminal data is a token; what is in it matters only as far as the
  hotkey is or is not in it. Of `terminal.raw` only the file counts, as something
  that can be in a session's directory; raw mode is not modelled. Error
  returns of `poll` and `read` (`src/lib/pty.rs:255`, `277`) do not occur on a
  Linux terminal and are left out.
- A signal handler is atomic and sees the flag and the pid as they are.
  `child_alive` is one atomic, so relaxed ordering makes no difference to it.
- A list of children is not an ordered one: when a child goes during the read, any
  other may be missing, although the kernel skips only some of the later ones.
  The main thread of a process lives as long as the process.
- Killing a process is the only crash in `SessionStore`: nothing is flushed to
  disk by the code, and what a loss of power leaves of the files is not modelled.
- Ids of sessions are unique: two recordings in the same millisecond would share
  a directory (`src/lib/session.rs:53`).
- The clock of a session's log is one bit, older than 60 seconds or not.
- What `lsof` prints is any set of connections.
- Directories of the model of snapshots exist as long as there is a file in them:
  the snapshots do not tell of others. The text of a unified diff is the pair of
  the text before and the text after. Contents that cannot be read hash alike.
- In the model of the watcher files are one to a name, their contents and sizes
  are left out, and the workspace itself is neither moved nor removed. A rename
  onto an existing empty directory does not occur.

## Not modelled

- The polling watcher of macOS (`src/lib/fs_watcher.rs`, the other half of the
  file) and the macOS variants of the tracker and the relay: the models are of
  Linux. The polling watcher is one snapshot a round, compared like those of
  `Snapshots`.
- Symbolic links. `add_watches_recursive` follows them (`path.is_dir()`), so that
  two paths share one watch, and a loop of links ends only at the kernel's limit;
  `walk_dir` does not. `FsWatcher` and `Snapshots` have none.
- `Recorder` composed with `SessionStore`: a log that is pruned while the summary
  is built from it (`Session::load_events` fails and the summary is empty), and the
  Drop of the watchdog when `cmd_run` returns early.
- Parsing of `lsof`'s output and the loopback filter, rendering of reports,
  `sessions`, `replay` and `init`, `resolve_session_id`, loading of the
  configuration: text processing and plain file access of one process, without a
  state that lasts.
- The contents of `terminal.raw`, the size of the window and raw mode.
