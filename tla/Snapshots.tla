----------------------------- MODULE Snapshots -----------------------------
(***************************************************************************)
(* What a recording finds out about changed files (src/lib/diff.rs and its *)
(* use in cmd_run): a snapshot of the workspace before the agent and one   *)
(* after it, their difference, and a diff for each modified text.  A       *)
(* snapshot takes its time, file by file, and the workspace is never       *)
(* quiet: an editor may be at work before the agent starts, and what the   *)
(* agent left in the background after it has exited.                       *)
(*                                                                         *)
(* A path is the sequence of names from the workspace on.  Directories are *)
(* there as long as there is a file in them: the snapshots do not tell of  *)
(* others.  A directory may be closed to cmd_run: not readable, or not     *)
(* searchable, and what it closes off the snapshots miss without a word.   *)
(***************************************************************************)
EXTENDS ExcludePatterns

CONSTANTS Files,        \* paths of files
          Contents,     \* what a file may hold,
          Text,         \*   of it what is text,
          Small,        \*   at most MAX_DIFF_FILE_SIZE long,
          Locked,       \*   and what cannot be read
          Gone,         \* of a file: it does not exist
          Unread,       \* the hash of what cannot be read, 0 in the code
          PatternSets,  \* exclude_patterns the configuration may hold
          Starts,       \* workspaces a recording may begin in
          NameMax,      \* length of a file name, at most
          MaxActs       \* how often the workspace changes (bounds the model)

\* The directories with files in them.
Dirs == {<<>>} \cup ((UNION {Prefixes(f) : f \in Files}) \ Files)

\* What is a file is no directory.
ASSUME SnapshotsAssumption ==
    /\ Files \subseteq Seq(NameTexts) \ {<<>>}
    /\ PatternSets \subseteq SUBSET Texts
    /\ \A f, g \in Files : ~IsStrictPrefix(f, g)
    /\ Text \cup Small \cup Locked \subseteq Contents
    /\ Text \cap Locked = {}
    /\ {Gone, Unread} \cap Contents = {} /\ Gone # Unread
    /\ Starts \subseteq [disk : [Files -> Contents \cup {Gone}],
                         unreadable : SUBSET Dirs, unsearchable : SUBSET Dirs]
    /\ NameMax \in Nat /\ MaxActs \in Nat

VARIABLES
    patterns,        \* Config::exclude_patterns
    pc,              \* where cmd_run is
    disk,            \* the files of the workspace
    unreadable,      \* directories whose names cannot be listed,
    unsearchable,    \* or whose files cannot be reached
    acts,            \* how often all this has changed
    dirs, left,      \* directories to be listed, files to be looked at
    file, size,      \* the file that is being read, and its size before that
    pre, post,       \* pre_snapshot and post_snapshot
    contents,        \* pre_content
    diffs,           \* the files of the session's diffs directory
    atStart, atEnd,  \* history: what was to be seen when a snapshot was begun
    restless         \* history: files that changed, or that a directory was
                     \* closed or opened above, while cmd_run looked

diskVars == <<disk, unreadable, unsearchable, acts, restless>>
walkVars == <<dirs, left, file, size>>
foundVars == <<pre, post, contents, diffs>>
vars == <<patterns, pc, diskVars, walkVars, foundVars, atStart, atEnd>>

NoFile == <<>>
Sizes == {"small", "large"}
Entry == [size : Sizes, hash : Contents \cup {Unread}]

TypeOK ==
    /\ patterns \in PatternSets
    /\ pc \in {"pre", "content", "run", "post", "diff", "saved", "failed"}
    /\ {disk, atStart, atEnd} \subseteq [Files -> Contents \cup {Gone}]
    /\ {unreadable, unsearchable, dirs} \subseteq SUBSET Dirs
    /\ acts \in Nat
    /\ left \subseteq Files
    /\ file \in Files \cup {NoFile} /\ size \in Sizes
    /\ DOMAIN pre \subseteq Files /\ \A f \in DOMAIN pre : pre[f] \in Entry
    /\ DOMAIN post \subseteq Files /\ \A f \in DOMAIN post : post[f] \in Entry
    /\ DOMAIN contents \subseteq DOMAIN pre
    /\ \A f \in DOMAIN contents : contents[f] \in Text
    /\ \A n \in DOMAIN diffs : diffs[n] \in Files \X Text \X Text
    /\ restless \subseteq Files

Nothing == [x \in {} |-> x]
Put(f, x, v) == [y \in DOMAIN f \cup {x} |-> IF y = x THEN v ELSE f[y]]

\* What open and stat make of f, and what a walk from the workspace on does:
\* it also has to list the directories above.
Above(f) == {d \in Dirs : IsStrictPrefix(d, f)}
Reached(f) == IF Above(f) \cap unsearchable = {} THEN disk[f] ELSE Gone
Seen == [f \in Files |->
            IF Above(f) \cap unreadable = {} THEN Reached(f) ELSE Gone]

Init ==
    /\ patterns \in PatternSets
    /\ \E s \in Starts : /\ disk = s.disk
                         /\ unreadable = s.unreadable
                         /\ unsearchable = s.unsearchable
    /\ atStart = Seen /\ atEnd = Seen
    /\ pc = "pre" /\ dirs = {<<>>} /\ left = {}
    /\ file = NoFile /\ size = "small"
    /\ pre = Nothing /\ post = Nothing
    /\ contents = Nothing /\ diffs = Nothing
    /\ acts = 0 /\ restless = {}

(***************************************************************************)
(* Whoever works in the workspace.                                         *)
(***************************************************************************)

Disturb(files) ==
    /\ acts < MaxActs /\ acts' = acts + 1
    /\ restless' = IF pc = "run" THEN restless ELSE restless \cup files
    /\ UNCHANGED <<patterns, pc, walkVars, foundVars, atStart, atEnd>>

ChangeFile ==
    \E f \in Files, c \in Contents \cup {Gone} :
        /\ c # disk[f] /\ disk' = [disk EXCEPT ![f] = c]
        /\ Disturb({f}) /\ UNCHANGED <<unreadable, unsearchable>>

\* chmod
CloseOrOpen ==
    \E d \in Dirs :
        /\ unreadable' \in {unreadable \ {d}, unreadable \cup {d}}
        /\ unsearchable' \in {unsearchable \ {d}, unsearchable \cup {d}}
        /\ unreadable' # unreadable \/ unsearchable' # unsearchable
        /\ Disturb({f \in Files : d \in Above(f)}) /\ UNCHANGED disk

Others == ChangeFile \/ CloseOrOpen

(***************************************************************************)
(* capture_snapshot: walk_dir goes through the workspace in the order of   *)
(* read_dir, which is no order.                                            *)
(***************************************************************************)

Capturing == pc \in {"pre", "post"}

\* read_dir: the names in d of files, and of directories with files in them,
\* or none if d cannot be read or reached.
Entries(d) ==
    IF d \in unreadable \/ Above(d) \cap unsearchable # {} THEN {}
    ELSE {SubSeq(f, 1, Len(d) + 1) : f \in
             {g \in Files : disk[g] # Gone /\ d \in Above(g)}}

ListDir ==
    /\ Capturing /\ file = NoFile
    /\ \E d \in dirs :
          LET found == {e \in Entries(d) : ~should_exclude(patterns, e)}
          IN  /\ left' = left \cup (found \cap Files)
              /\ dirs' = (dirs \ {d}) \cup (found \ Files)
    /\ UNCHANGED <<patterns, pc, diskVars, file, size, foundVars, atStart,
                   atEnd>>

SizeOf(c) == IF c \in Small THEN "small" ELSE "large"
Hash(c) == IF c \in Contents \ Locked THEN c ELSE Unread

\* The metadata are read; a file that cannot be reached is skipped.
LookAt(f) ==
    /\ Capturing /\ file = NoFile
    /\ f \in left /\ left' = left \ {f}
    /\ IF Reached(f) = Gone THEN UNCHANGED <<file, size>>
                            ELSE file' = f /\ size' = SizeOf(Reached(f))
    /\ UNCHANGED <<patterns, pc, diskVars, dirs, foundVars, atStart, atEnd>>

\* Its content is read after that, and may have become another one.
HashFile ==
    /\ Capturing /\ file # NoFile
    /\ LET entry == [size |-> size, hash |-> Hash(Reached(file))]
       IN  IF pc = "pre" THEN pre' = Put(pre, file, entry) /\ UNCHANGED post
                         ELSE post' = Put(post, file, entry) /\ UNCHANGED pre
    /\ file' = NoFile
    /\ UNCHANGED <<patterns, pc, diskVars, dirs, left, size, contents, diffs,
                   atStart, atEnd>>

WalkIsOver == Capturing /\ dirs = {} /\ left = {} /\ file = NoFile

(***************************************************************************)
(* cmd_run, around the agent.                                              *)
(***************************************************************************)

PreCaptured ==
    /\ pc = "pre" /\ WalkIsOver
    /\ pc' = "content" /\ left' = DOMAIN pre
    /\ UNCHANGED <<patterns, diskVars, dirs, file, size, foundVars, atStart,
                   atEnd>>

\* Slip: what is no text is made one.
ReadLossy(f) ==
    /\ pc = "content"
    /\ f \in left /\ left' = left \ {f}
    /\ contents' = IF pre[f].size = "small" /\ Reached(f) # Gone
                   THEN Put(contents, f, Reached(f)) ELSE contents
    /\ UNCHANGED <<patterns, pc, diskVars, dirs, file, size, pre, post, diffs,
                   atStart, atEnd>>

\* capture_content: what is small, by the snapshot, and text, by now.
ReadContent(f) ==
    /\ pc = "content"
    /\ f \in left /\ left' = left \ {f}
    /\ contents' = IF pre[f].size = "small" /\ Reached(f) \in Text
                   THEN Put(contents, f, Reached(f)) ELSE contents
    /\ UNCHANGED <<patterns, pc, diskVars, dirs, file, size, pre, post, diffs,
                   atStart, atEnd>>

AgentStarts ==
    /\ pc = "content" /\ left = {}
    /\ pc' = "run"
    /\ UNCHANGED <<patterns, diskVars, walkVars, foundVars, atStart, atEnd>>

AgentExits ==
    /\ pc = "run"
    /\ pc' = "post" /\ dirs' = {<<>>} /\ atEnd' = Seen
    /\ UNCHANGED <<patterns, diskVars, left, file, size, foundVars, atStart>>

\* Slip: files of the same size are taken for the same.
ModifiedBySize ==
    {f \in DOMAIN pre \cap DOMAIN post : pre[f].size # post[f].size}

\* diff_snapshots
Created == DOMAIN post \ DOMAIN pre
Deleted == DOMAIN pre \ DOMAIN post
Modified == {f \in DOMAIN pre \cap DOMAIN post : pre[f].hash # post[f].hash}

PostCaptured ==
    /\ pc = "post" /\ WalkIsOver
    /\ pc' = "diff" /\ left' = Modified
    /\ UNCHANGED <<patterns, diskVars, dirs, file, size, foundVars, atStart,
                   atEnd>>

\* The name of a diff is the whole path, with "_" for "/".
SafeName(f) ==
    LET text == AsText(FullPath(f))
    IN  [i \in DOMAIN text |-> IF text[i] = "/" THEN "_" ELSE text[i]]
            \o <<".", "d", "i", "f", "f">>

\* Slip: the new text is taken for the old one.
DiffBackwards(f) ==
    /\ pc = "diff"
    /\ f \in left /\ left' = left \ {f}
    /\ diffs' = IF f \in DOMAIN contents /\ Reached(f) \in Text \ {contents[f]}
                THEN Put(diffs, SafeName(f), <<f, Reached(f), contents[f]>>)
                ELSE diffs
    /\ UNCHANGED <<patterns, pc, diskVars, dirs, file, size, pre, post,
                   contents, atStart, atEnd>>

\* Slip: a modified file that is no text ends the loop.
DiffUntilBinary(f) ==
    /\ pc = "diff"
    /\ f \in left
    /\ IF f \in DOMAIN contents /\ Reached(f) \in Text \ {contents[f]}
       THEN /\ left' = left \ {f}
            /\ diffs' = Put(diffs, SafeName(f), <<f, contents[f], Reached(f)>>)
       ELSE left' = {} /\ UNCHANGED diffs
    /\ UNCHANGED <<patterns, pc, diskVars, dirs, file, size, pre, post,
                   contents, atStart, atEnd>>

\* generate_unified_diff_relative and save_diff, in the order of the paths,
\* which is any here.  A name that is too long ends cmd_run.
DiffFile(f) ==
    /\ pc = "diff"
    /\ f \in left /\ left' = left \ {f}
    /\ IF f \in DOMAIN contents /\ Reached(f) \in Text \ {contents[f]}
       THEN IF Len(SafeName(f)) > NameMax
            THEN pc' = "failed" /\ UNCHANGED diffs
            ELSE /\ diffs' =
                      Put(diffs, SafeName(f), <<f, contents[f], Reached(f)>>)
                 /\ UNCHANGED pc
       ELSE UNCHANGED <<pc, diffs>>
    /\ UNCHANGED <<patterns, diskVars, dirs, file, size, pre, post, contents,
                   atStart, atEnd>>

SaveSummary ==
    /\ pc = "diff" /\ left = {}
    /\ pc' = "saved"
    /\ UNCHANGED <<patterns, diskVars, walkVars, foundVars, atStart, atEnd>>

Over == pc \in {"saved", "failed"} /\ UNCHANGED vars

CmdRun ==
    \/ ListDir \/ HashFile \/ PreCaptured \/ AgentStarts \/ AgentExits
    \/ PostCaptured \/ SaveSummary
    \/ \E f \in left : LookAt(f) \/ ReadContent(f) \/ DiffFile(f)

Next == Others \/ CmdRun \/ Over

Spec == Init /\ [][Next]_vars

(***************************************************************************)
(* Properties.                                                             *)
(***************************************************************************)

Compared == pc \in {"diff", "saved", "failed"}

\* Files nobody touched or closed off while they were looked at, and that are
\* not left out.
Quiet == {f \in Files \ restless : ~IsLeftOut(patterns, f)}

\* The difference of the snapshots says of every quiet file what became of it,
\* whatever happens to the others meanwhile and whatever their excluded
\* neighbours are called ("authoritative", DESIGN.md:66).  Contents that cannot
\* be read are all alike, and what cannot be seen is as good as gone: a file is
\* "deleted", too, if the agent has closed a directory above it, and "created"
\* if one was opened.
Authoritative ==
    Compared =>
        \A f \in Quiet :
            /\ f \in Created <=> atStart[f] = Gone /\ atEnd[f] # Gone
            /\ f \in Deleted <=> atStart[f] # Gone /\ atEnd[f] = Gone
            /\ f \in Modified <=> /\ Gone \notin {atStart[f], atEnd[f]}
                                  /\ Hash(atStart[f]) # Hash(atEnd[f])

\* Nothing of an excluded file or directory is recorded, by name or by content:
\* should_exclude, which works on texts, stops the walk where the patterns say
\* it is to stop.
ExcludedStayOut ==
    \A f \in DOMAIN pre \cup DOMAIN post : ~IsLeftOut(patterns, f)

\* A diff is of a modified file whose path gives its name, and shows the text
\* before and the text after the agent if nobody touched the file, or closed it
\* off, meanwhile.
DiffsFaithful ==
    \A n \in DOMAIN diffs :
        LET f == diffs[n][1]
        IN  /\ f \in Modified /\ n = SafeName(f)
            /\ f \notin restless => diffs[n] = <<f, atStart[f], atEnd[f]>>

\* A session that is saved has a diff for every quiet file that was to be seen
\* as a small text and then as another text, unless one with the same name took
\* its place.
DiffsComplete ==
    pc = "saved" =>
        \A f \in Quiet :
            (/\ atStart[f] \in Text \cap Small
             /\ atEnd[f] \in Text \ {atStart[f]})
                => /\ SafeName(f) \in DOMAIN diffs
                   /\ \/ diffs[SafeName(f)][1] = f
                      \/ \E g \in Files \ {f} : SafeName(g) = SafeName(f)

\* "The session still gets saved after the child exits" (main.rs:148).  Not so:
\* the name of a diff can be too long although no name in its path is, and the
\* error is returned from cmd_run before the summary is written.
SessionSaved == pc # "failed"
=============================================================================
