--------------------------- MODULE SnapshotsProofs ---------------------------
(***************************************************************************)
(* Theorems of Snapshots, for all files, contents and patterns.  What the  *)
(* patterns mean is what should_exclude computes, by ExcludePatternsProofs.*)
(***************************************************************************)
EXTENDS Snapshots, ExcludePatternsProofs

Skipped(P, path) == \E i \in DOMAIN path : should_exclude(P, SubSeq(path, 1, i))

LEMMA ExcludesRight ==
    \A P \in PatternSets, f \in Files : IsLeftOut(P, f) <=> Skipped(P, f)
BY ShouldExcludeIsRight, SnapshotsAssumption DEF Skipped

(***************************************************************************)
(* Paths.                                                                  *)
(***************************************************************************)

LEMMA FilesArePaths ==
    /\ Files \subseteq Seq(NameTexts) /\ NoFile \notin Files
    /\ \A f, g \in Files : ~IsStrictPrefix(f, g)
BY SnapshotsAssumption DEF NoFile

LEMMA Prefix ==
    ASSUME NEW f \in Files, NEW k \in 0 .. Len(f)
    PROVE  LET p == SubSeq(f, 1, k)
           IN  /\ p \in Seq(NameTexts) /\ Len(p) = k /\ DOMAIN p = 1 .. k
               /\ \A i \in 1 .. k : SubSeq(p, 1, i) = SubSeq(f, 1, i)
               /\ IsPrefix(p, f)
<1> DEFINE p == SubSeq(f, 1, k)
<1>1. f \in Seq(NameTexts) /\ Len(f) \in Nat /\ \A i \in 1 .. k : f[i] \in NameTexts
  BY FilesArePaths, LenProperties, ElementOfSeq
<1>2. /\ p \in Seq(NameTexts) /\ Len(p) = k
      /\ \A i \in 1 .. k : p[i] = f[i]
  BY <1>1, SubSeqProperties
<1>3. DOMAIN p = 1 .. k
  BY <1>2, LenProperties
<1> HIDE DEF p
<1>4. ASSUME NEW i \in 1 .. k
      PROVE  SubSeq(p, 1, i) = SubSeq(f, 1, i)
  <2>1. /\ SubSeq(p, 1, i) \in Seq(NameTexts) /\ SubSeq(f, 1, i) \in Seq(NameTexts)
        /\ Len(SubSeq(p, 1, i)) = i /\ Len(SubSeq(f, 1, i)) = i
        /\ \A j \in 1 .. i : SubSeq(p, 1, i)[j] = p[j]
        /\ \A j \in 1 .. i : SubSeq(f, 1, i)[j] = f[j]
    <3>1. \A j \in 1 .. i : p[j] \in NameTexts /\ f[j] \in NameTexts
      BY <1>1, <1>2
    <3> QED
      BY <3>1, SubSeqProperties
  <2> QED
    BY <1>2, <2>1, SeqEqual
<1>5. IsPrefix(p, f)
  <2>1. SubSeq(p, 1, Len(p)) = SubSeq(f, 1, Len(p))
    BY <1>2, SubSeqFull DEF p
  <2> QED
    BY <1>1, <1>2, <2>1 DEF IsPrefix
<1> QED
  BY <1>2, <1>3, <1>4, <1>5 DEF p

LEMMA StrictPrefix ==
    ASSUME NEW d \in Seq(NameTexts), NEW f \in Files, IsStrictPrefix(d, f)
    PROVE  /\ Len(d) + 1 \in 1 .. Len(f) /\ Len(d) \in Nat
           /\ d = SubSeq(f, 1, Len(d))
<1>1. /\ f \in Seq(NameTexts) /\ Len(f) \in Nat /\ Len(d) \in Nat
      /\ SubSeq(d, 1, Len(d)) = d /\ SubSeq(f, 1, Len(f)) = f
  BY FilesArePaths, LenProperties, SubSeqFull
<1>2. Len(d) <= Len(f) /\ d = SubSeq(f, 1, Len(d)) /\ d # f
  BY <1>1 DEF IsStrictPrefix, IsPrefix
<1>3. Len(d) # Len(f)
  BY <1>1, <1>2
<1>4. \A k, l \in Nat : k <= l /\ k # l => k + 1 \in 1 .. l
  OBVIOUS
<1>5. Len(d) + 1 \in 1 .. Len(f)
  <2> DEFINE k == Len(d)
             l == Len(f)
  <2>1. k \in Nat /\ l \in Nat /\ k <= l /\ k # l
    BY <1>1, <1>2, <1>3
  <2> HIDE DEF k, l
  <2>2. k + 1 \in 1 .. l
    BY <1>4, <2>1
  <2> QED
    BY <2>2 DEF k, l
<1> QED
  BY <1>1, <1>2, <1>5

\* An entry on the way to a file is the file or above it, and is skipped only
\* if the directory is, or it is excluded itself.
LEMMA OneDeeper ==
    ASSUME NEW d \in Seq(NameTexts), NEW f \in Files, IsStrictPrefix(d, f)
    PROVE  LET e == SubSeq(f, 1, Len(d) + 1)
           IN  /\ e \in Seq(NameTexts)
               /\ e \in Files => e = f
               /\ e \notin Files => IsStrictPrefix(e, f)
               /\ IsStrictPrefix(d, e)
               /\ \A c \in Seq(NameTexts) :
                     IsStrictPrefix(c, e) => c = d \/ IsStrictPrefix(c, d)
               /\ \A P : ~Skipped(P, f) => ~should_exclude(P, e)
               /\ \A P : ~Skipped(P, d) /\ ~should_exclude(P, e)
                             => ~Skipped(P, e)
<1> DEFINE k == Len(d) + 1
           e == SubSeq(f, 1, k)
<1>1. /\ k \in 1 .. Len(f) /\ Len(d) \in Nat /\ Len(f) \in Nat
      /\ d = SubSeq(f, 1, Len(d)) /\ DOMAIN f = 1 .. Len(f)
  BY StrictPrefix, FilesArePaths, LenProperties
<1>2. /\ e \in Seq(NameTexts) /\ Len(e) = k /\ DOMAIN e = 1 .. k
      /\ \A i \in 1 .. k : SubSeq(e, 1, i) = SubSeq(f, 1, i)
      /\ IsPrefix(e, f)
  BY <1>1, Prefix
<1>3. /\ DOMAIN d = 1 .. Len(d)
      /\ \A i \in 1 .. Len(d) : SubSeq(d, 1, i) = SubSeq(f, 1, i)
  BY <1>1, Prefix
<1>4. SubSeq(f, 1, k) = e
  OBVIOUS
<1> HIDE DEF e
<1>5. e \in Files => e = f
  BY <1>2, FilesArePaths DEF IsStrictPrefix
<1>6. e \notin Files => IsStrictPrefix(e, f)
  BY <1>2 DEF IsStrictPrefix
<1>7. \A P : ~Skipped(P, f) => ~should_exclude(P, e)
  BY <1>1, <1>4 DEF Skipped
<1>8. ASSUME NEW P, ~Skipped(P, d), ~should_exclude(P, e)
      PROVE  ~Skipped(P, e)
  <2>1. SUFFICES ASSUME NEW i \in 1 .. k, should_exclude(P, SubSeq(e, 1, i))
                 PROVE  FALSE
    BY <1>2 DEF Skipped
  <2>2. CASE i = k
    BY <1>2, <1>4, <1>8, <2>1, <2>2
  <2>3. CASE i # k
    <3>1. i \in 1 .. Len(d)
      BY <1>1, <2>3
    <3> QED
      BY <1>2, <1>3, <1>8, <2>1, <3>1 DEF Skipped
  <2> QED
    BY <2>2, <2>3
<1>9. ASSUME NEW c \in Seq(NameTexts), IsStrictPrefix(c, e)
      PROVE  c = d \/ IsStrictPrefix(c, d)
  <2>1. /\ Len(c) \in Nat /\ Len(c) <= k /\ c # e
        /\ SubSeq(c, 1, Len(c)) = c /\ SubSeq(e, 1, k) = e
        /\ SubSeq(c, 1, Len(c)) = SubSeq(e, 1, Len(c))
    <3>1. Len(c) \in Nat /\ SubSeq(c, 1, Len(c)) = c /\ SubSeq(e, 1, k) = e
      BY <1>2, LenProperties, SubSeqFull
    <3> QED
      BY <1>2, <1>9, <3>1 DEF IsStrictPrefix, IsPrefix
  <2>2. Len(c) # k
    BY <2>1
  <2>3. Len(c) \in 0 .. Len(d) /\ Len(c) <= Len(d)
    <3> DEFINE l == Len(c)
               m == Len(d)
    <3>1. l \in Nat /\ m \in Nat /\ l <= m + 1 /\ l # m + 1
      BY <1>1, <2>1, <2>2
    <3> HIDE DEF l, m
    <3>2. l \in 0 .. m /\ l <= m
      BY <3>1
    <3> QED
      BY <3>2 DEF l, m
  <2>4. CASE Len(c) = 0
    <3>1. c = <<>> /\ SubSeq(d, 1, 0) = <<>> /\ SubSeq(c, 1, 0) = <<>>
      BY <2>4, SubSeqEmpty, EmptySeq
    <3> QED
      BY <2>3, <2>4, <3>1 DEF IsStrictPrefix, IsPrefix
  <2>5. CASE Len(c) # 0
    <3>1. Len(c) \in 1 .. Len(d) /\ Len(c) \in 1 .. k
      <4> DEFINE l == Len(c)
                 m == Len(d)
      <4>1. l \in Nat /\ m \in Nat /\ l <= m /\ l # 0
        BY <1>1, <2>1, <2>3, <2>5
      <4> HIDE DEF l, m
      <4>2. l \in 1 .. m /\ l \in 1 .. m + 1
        BY <4>1
      <4> QED
        BY <4>2 DEF l, m
    <3>2. SubSeq(e, 1, Len(c)) = SubSeq(d, 1, Len(c))
      BY <1>2, <1>3, <3>1
    <3> QED
      BY <2>1, <2>3, <3>2 DEF IsStrictPrefix, IsPrefix
  <2> QED
    BY <2>4, <2>5
<1>10. IsStrictPrefix(d, e)
  <2>1. SubSeq(d, 1, Len(d)) = d /\ Len(d) <= k /\ Len(d) # k
    <3>1. \A l \in Nat : l <= l + 1 /\ l # l + 1
      OBVIOUS
    <3> QED
      BY <1>1, <3>1, SubSeqFull, Zenon
  <2>2. SubSeq(e, 1, Len(d)) = d
    <3>1. CASE Len(d) = 0
      BY <2>1, <3>1, SubSeqEmpty
    <3>2. CASE Len(d) # 0
      <4>1. Len(d) \in 1 .. k
        BY <1>1, <3>2
      <4> QED
        BY <1>1, <1>2, <4>1
    <3> QED
      BY <3>1, <3>2
  <2> QED
    BY <1>2, <2>1, <2>2 DEF IsStrictPrefix, IsPrefix
<1> QED
  BY <1>2, <1>5, <1>6, <1>7, <1>8, <1>9, <1>10 DEF e

LEMMA DirsAre ==
    ASSUME NEW d
    PROVE  d \in Dirs
             <=> \/ d = <<>>
                 \/ d \notin Files /\ \E f \in Files : d \in Prefixes(f)
<1> DEFINE U == UNION {Prefixes(f) : f \in Files}
<1>1. d \in U <=> \E f \in Files : d \in Prefixes(f)
  OBVIOUS
<1>2. Dirs = {<<>>} \cup (U \ Files)
  BY DEF Dirs
<1> HIDE DEF U
<1>3. d \in Dirs <=> d = <<>> \/ (d \notin Files /\ d \in U)
  BY <1>2
<1> QED
  BY <1>1, <1>3, Zenon

\* Directories are paths, and what is above a directory is above its files.
LEMMA DirsArePaths ==
    /\ Dirs \subseteq Seq(NameTexts) /\ Dirs \cap Files = {}
    /\ \A c, d \in Dirs, f \in Files :
          IsStrictPrefix(c, d) /\ IsStrictPrefix(d, f) => IsStrictPrefix(c, f)
<1>1. <<>> \in Seq(NameTexts) /\ <<>> \notin Files
  BY EmptySeq, FilesArePaths DEF NoFile
<1>2. \A f \in Files : Prefixes(f) \subseteq Seq(NameTexts)
  BY Prefix DEF Prefixes
<1>3. ASSUME NEW c \in Seq(NameTexts), NEW d \in Seq(NameTexts),
             NEW f \in Files, IsStrictPrefix(c, d), IsStrictPrefix(d, f)
      PROVE  IsStrictPrefix(c, f)
  <2>1. /\ Len(c) \in Nat /\ Len(d) \in Nat /\ Len(f) \in Nat
        /\ Len(c) <= Len(d) /\ Len(d) <= Len(f)
        /\ d = SubSeq(f, 1, Len(d)) /\ SubSeq(c, 1, Len(c)) = c
        /\ SubSeq(c, 1, Len(c)) = SubSeq(d, 1, Len(c))
        /\ Len(d) + 1 \in 1 .. Len(f)
    BY <1>3, StrictPrefix, FilesArePaths, LenProperties, SubSeqFull
    DEF IsStrictPrefix, IsPrefix
  <2>2. Len(c) <= Len(f) /\ Len(c) < Len(f) /\ Len(c) \in 0 .. Len(d)
        /\ Len(d) \in 0 .. Len(f)
    BY <2>1, SMT
  <2>3. SubSeq(d, 1, Len(c)) = SubSeq(f, 1, Len(c))
    <3>1. CASE Len(c) = 0
      BY <3>1, SubSeqEmpty
    <3>2. CASE Len(c) # 0
      <4>1. Len(c) \in 1 .. Len(d)
        BY <2>1, <2>2, <3>2
      <4> QED
        BY <2>1, <2>2, <4>1, Prefix
    <3> QED
      BY <3>1, <3>2
  <2>4. c # f
    BY <2>1, <2>2
  <2> QED
    BY <2>1, <2>2, <2>3, <2>4 DEF IsStrictPrefix, IsPrefix
<1>4. ASSUME NEW d \in Dirs
      PROVE  d \in Seq(NameTexts) /\ d \notin Files
  <2>1. CASE d = <<>>
    BY <1>1, <2>1
  <2>2. CASE \E f \in Files : d \in Prefixes(f) \ Files
    BY <1>2, <2>2
  <2> QED
    BY <2>1, <2>2, DirsAre
<1> QED
  BY <1>3, <1>4

(***************************************************************************)
(* The inductive invariant.                                                *)
(***************************************************************************)

Out(f) == Skipped(patterns, f)

\* Of a file at rest is to be seen what was when the snapshot was begun.
AtRest ==
    /\ pc \in {"pre", "content"}
          => \A f \in Files \ restless : Seen[f] = atStart[f]
    /\ pc \in {"post", "diff", "saved", "failed"}
          => \A f \in Files \ restless : Seen[f] = atEnd[f]

\* What the snapshot that is being taken is to show.
Shown == IF pc = "pre" THEN atStart ELSE atEnd

\* Where the walk is: in directories and at files that are not skipped, with
\* nothing above them that cannot be read, and with a file that was there.
Open(path) == Above(path) \cap unreadable = {}

OnTheWay ==
    /\ Capturing =>
         /\ \A d \in dirs :
               /\ ~Out(d)
               /\ \A f \in Files \ restless : d \in Above(f) => Open(d)
         /\ \A f \in left : ~Out(f) /\ (f \notin restless => Open(f))
         /\ file # NoFile => /\ ~Out(file)
                             /\ file \notin restless =>
                                   /\ Shown[file] # Gone
                                   /\ size = SizeOf(Shown[file])
    /\ ~Capturing => file = NoFile /\ dirs = {}
    /\ pc = "run" => left = {}

\* What is in a snapshot was there, unless it was touched meanwhile.
Sound(snapshot, shown) ==
    \A f \in DOMAIN snapshot :
        /\ f \in Files /\ ~Out(f)
        /\ f \notin restless =>
              /\ shown[f] # Gone
              /\ snapshot[f] = [size |-> SizeOf(shown[f]),
                                hash |-> Hash(shown[f])]

\* What was there is in it, or still ahead of the walk.
Ahead(f) == f \in left \/ f = file \/ \E d \in dirs : d \in Above(f)

Found(snapshot, shown) ==
    \A f \in Files \ restless :
        shown[f] # Gone /\ ~Out(f) => f \in DOMAIN snapshot \/ Ahead(f)

Complete(snapshot, shown) ==
    \A f \in Files \ restless :
        shown[f] # Gone /\ ~Out(f) => f \in DOMAIN snapshot

SnapshotsRight ==
    /\ Sound(pre, atStart) /\ Sound(post, atEnd)
    /\ pc = "pre" => Found(pre, atStart)
    /\ pc # "pre" => Complete(pre, atStart)
    /\ pc \in {"pre", "content", "run"} => DOMAIN post = {}
    /\ pc = "post" => Found(post, atEnd)
    /\ pc \in {"diff", "saved", "failed"} => Complete(post, atEnd)

\* Texts are kept of small texts that are found.
TextsKept ==
    /\ pc = "pre" => DOMAIN contents = {}
    /\ pc = "content" => left \subseteq DOMAIN pre
    /\ \A f \in DOMAIN contents \ restless : contents[f] = atStart[f]
    /\ pc # "pre" =>
         \A f \in DOMAIN pre \ restless :
             atStart[f] \in Text \cap Small
                 => \/ f \in DOMAIN contents
                    \/ pc = "content" /\ f \in left

\* Diffs are made of modified files, one after the other.
DiffsRight ==
    /\ pc \notin {"diff", "saved", "failed"} => DOMAIN diffs = {}
    /\ pc = "diff" => left \subseteq Modified
    /\ DiffsFaithful
    /\ pc \in {"diff", "saved"} =>
         \A f \in Modified \ restless :
             (atStart[f] \in Text \cap Small /\ atEnd[f] \in Text \ {atStart[f]})
                 => SafeName(f) \in DOMAIN diffs \/ (pc = "diff" /\ f \in left)

IInv ==
    /\ TypeOK /\ AtRest /\ OnTheWay /\ SnapshotsRight /\ TextsKept /\ DiffsRight

LEMMA TheRoot ==
    ASSUME NEW f \in Files
    PROVE  <<>> \in Above(f) /\ Above(<<>>) = {}
<1>1. f \in Seq(NameTexts) /\ Len(f) \in Nat /\ f # <<>> /\ Len(<<>>) = 0
  BY FilesArePaths, LenProperties, EmptySeq DEF NoFile
<1>2. SubSeq(f, 1, 0) = <<>> /\ SubSeq(<<>>, 1, 0) = <<>>
  BY SubSeqEmpty
<1>3. IsStrictPrefix(<<>>, f)
  BY <1>1, <1>2 DEF IsStrictPrefix, IsPrefix
<1>4. ASSUME NEW c \in Dirs, IsStrictPrefix(c, <<>>)
      PROVE  FALSE
  <2>1. c \in Seq(NameTexts) /\ Len(c) = 0
    BY <1>1, <1>4, DirsArePaths, LenProperties DEF IsStrictPrefix, IsPrefix
  <2> QED
    BY <1>4, <2>1, EmptySeq DEF IsStrictPrefix
<1> QED
  BY <1>3, <1>4 DEF Above, Dirs

\* What is to be seen of a file can be reached, and is all that can be reached
\* if the directories above can be read.
LEMMA SeenIsReached ==
    ASSUME NEW f \in Files
    PROVE  /\ Seen[f] # Gone => Open(f) /\ Reached(f) = Seen[f]
                               /\ Above(f) \cap unsearchable = {}
                               /\ disk[f] = Seen[f]
           /\ Open(f) => Reached(f) = Seen[f]
BY DEF Seen, Reached, Open

LEMMA SeenHasType ==
    disk \in [Files -> Contents \cup {Gone}]
        => Seen \in [Files -> Contents \cup {Gone}]
BY DEF Seen, Reached

LEMMA InitHolds == Init => IInv
<1> SUFFICES ASSUME Init PROVE IInv
  OBVIOUS
<1>1. DOMAIN Nothing = {}
  BY DEF Nothing
<1>2. TypeOK
  <2>1. PICK s \in Starts : /\ disk = s.disk /\ unreadable = s.unreadable
                            /\ unsearchable = s.unsearchable
    BY DEF Init
  <2>2. s \in [disk : [Files -> Contents \cup {Gone}],
               unreadable : SUBSET Dirs, unsearchable : SUBSET Dirs]
    BY SnapshotsAssumption
  <2>3. /\ disk \in [Files -> Contents \cup {Gone}]
        /\ unreadable \subseteq Dirs /\ unsearchable \subseteq Dirs
    BY <2>1, <2>2
  <2>4. Seen \in [Files -> Contents \cup {Gone}]
    BY <2>3, SeenHasType
  <2>5. {<<>>} \subseteq Dirs
    BY DEF Dirs
  <2> QED
    BY <1>1, <2>3, <2>4, <2>5 DEF Init, TypeOK, Sizes
<1>3. <<>> \in Seq(NameTexts) /\ ~Out(<<>>)
  <2>1. <<>> \in Seq(NameTexts) /\ DOMAIN <<>> = {}
    BY EmptySeq
  <2> QED
    BY <2>1 DEF Out, Skipped
<1>4. AtRest /\ OnTheWay
  BY <1>3, TheRoot DEF Init, AtRest, OnTheWay, Capturing, Open
<1>5. SnapshotsRight
  <2>1. \A f \in Files : <<>> \in Above(f)
    BY TheRoot
  <2> QED
    BY <1>1, <2>1 DEF Init, SnapshotsRight, Sound, Found, Ahead
<1>6. TextsKept /\ DiffsRight
  BY <1>1 DEF Init, TextsKept, DiffsRight, DiffsFaithful
<1> QED
  BY <1>2, <1>4, <1>5, <1>6 DEF IInv

(***************************************************************************)
(* The steps.                                                              *)
(***************************************************************************)

\* A file somebody touches is not at rest any more.
LEMMA OthersPreserve == IInv /\ Others => IInv'
<1> SUFFICES ASSUME IInv, Others PROVE IInv'
  OBVIOUS
<1>1. /\ acts' = acts + 1
      /\ UNCHANGED <<patterns, pc, dirs, left, file, size, pre, post, contents,
                     diffs, atStart, atEnd>>
  BY DEF Others, ChangeFile, CloseOrOpen, Disturb, walkVars, foundVars
<1>2. PICK files \in SUBSET Files :
        /\ restless' = IF pc = "run" THEN restless ELSE restless \cup files
        /\ \A f \in Files \ files :
              /\ disk'[f] = disk[f]
              /\ Above(f) \cap unreadable' = Above(f) \cap unreadable
              /\ Above(f) \cap unsearchable' = Above(f) \cap unsearchable
        /\ disk' \in [Files -> Contents \cup {Gone}]
        /\ unreadable' \subseteq Dirs /\ unsearchable' \subseteq Dirs
  <2>1. CASE ChangeFile
    <3>1. PICK f \in Files, c \in Contents \cup {Gone} :
            /\ disk' = [disk EXCEPT ![f] = c] /\ Disturb({f})
            /\ UNCHANGED <<unreadable, unsearchable>>
      BY <2>1 DEF ChangeFile
    <3>2. /\ restless' = IF pc = "run" THEN restless ELSE restless \cup {f}
          /\ \A g \in Files \ {f} : disk'[g] = disk[g]
          /\ disk' \in [Files -> Contents \cup {Gone}]
          /\ unreadable' \subseteq Dirs /\ unsearchable' \subseteq Dirs
      BY <3>1 DEF Disturb, IInv, TypeOK
    <3>3. {f} \in SUBSET Files
      OBVIOUS
    <3> QED
      BY <3>1, <3>2, <3>3
  <2>2. CASE CloseOrOpen
    <3>1. PICK d \in Dirs :
            /\ unreadable' \in {unreadable \ {d}, unreadable \cup {d}}
            /\ unsearchable' \in {unsearchable \ {d}, unsearchable \cup {d}}
            /\ Disturb({f \in Files : d \in Above(f)}) /\ UNCHANGED disk
      BY <2>2 DEF CloseOrOpen
    <3> DEFINE files == {f \in Files : d \in Above(f)}
    <3>2. /\ restless' = IF pc = "run" THEN restless ELSE restless \cup files
          /\ files \in SUBSET Files
      BY <3>1 DEF Disturb
    <3>3. /\ disk' = disk /\ disk' \in [Files -> Contents \cup {Gone}]
          /\ unreadable' \subseteq Dirs /\ unsearchable' \subseteq Dirs
      BY <3>1 DEF IInv, TypeOK
    <3>4. ASSUME NEW f \in Files \ files
          PROVE  /\ Above(f) \cap unreadable' = Above(f) \cap unreadable
                 /\ Above(f) \cap unsearchable' = Above(f) \cap unsearchable
      <4>1. d \notin Above(f)
        OBVIOUS
      <4> QED
        BY <3>1, <4>1
    <3> QED
      BY <3>2, <3>3, <3>4
  <2> QED
    BY <2>1, <2>2 DEF Others
<1>3. restless \subseteq restless' /\ restless' \subseteq Files
  BY <1>2 DEF IInv, TypeOK
<1>4. TypeOK'
  BY <1>1, <1>2, <1>3 DEF IInv, TypeOK
<1>5. AtRest'
  <2>1. \A f \in Files \ files : Seen'[f] = Seen[f]
    BY <1>2 DEF Seen, Reached, Above
  <2> QED
    BY <1>1, <1>2, <2>1 DEF IInv, AtRest
<1>6. OnTheWay'
  <2>1. CASE pc # "run"
    <3>1. \A f \in Files \ restless' : Open(f) => Open(f)'
      BY <1>2, <2>1 DEF Open, Above
    <3>2. ASSUME Capturing, NEW d \in dirs, NEW f \in Files \ restless',
                 d \in Above(f)
          PROVE  Open(d)'
      <4>1. d \in Dirs /\ Open(d)
        BY <1>3, <3>2 DEF IInv, TypeOK, OnTheWay
      <4>2. Above(d) \subseteq Above(f)
        BY <3>2, <4>1, DirsArePaths DEF Above
      <4>3. Above(f) \cap unreadable' = Above(f) \cap unreadable
        BY <1>2, <2>1, <3>2
      <4> QED
        BY <4>1, <4>2, <4>3 DEF Open, Above
    <3> QED
      BY <1>1, <1>3, <3>1, <3>2
      DEF IInv, TypeOK, OnTheWay, Capturing, Shown, Out, Above
  <2>2. CASE pc = "run"
    BY <1>1, <2>2 DEF IInv, OnTheWay, Capturing
  <2> QED
    BY <2>1, <2>2
<1>7. SnapshotsRight'
  BY <1>1, <1>3
  DEF IInv, SnapshotsRight, Sound, Found, Complete, Ahead, Out, Above
<1>8. TextsKept'
  BY <1>1, <1>3 DEF IInv, TextsKept
<1>9. DiffsRight'
  BY <1>1, <1>3 DEF IInv, DiffsRight, DiffsFaithful, Modified
<1> QED
  BY <1>4, <1>5, <1>6, <1>7, <1>8, <1>9 DEF IInv

LEMMA ListDirPreserves == IInv /\ ListDir => IInv'
<1> SUFFICES ASSUME IInv, ListDir PROVE IInv'
  OBVIOUS
<1>1. /\ Capturing /\ file = NoFile
      /\ UNCHANGED <<patterns, pc, disk, unreadable, unsearchable, acts,
                     restless, file, size, pre, post, contents, diffs, atStart,
                     atEnd>>
  BY DEF ListDir, diskVars, foundVars
<1>2. PICK d \in dirs :
        LET found == {e \in Entries(d) : ~should_exclude(patterns, e)}
        IN  /\ left' = left \cup (found \cap Files)
            /\ dirs' = (dirs \ {d}) \cup (found \ Files)
  BY DEF ListDir
<1> DEFINE found == {e \in Entries(d) : ~should_exclude(patterns, e)}
<1>3. /\ d \in Seq(NameTexts) /\ ~Skipped(patterns, d) /\ d \in Dirs
      /\ \A f \in Files \ restless : d \in Above(f) => Open(d)
  BY <1>1, DirsArePaths DEF IInv, TypeOK, OnTheWay, Out
\* What is found is not skipped, and is a file or leads to one.
<1>4. ASSUME NEW e \in found
      PROVE  /\ ~Out(e) /\ e \in Dirs \cup Files
             /\ \A f \in Files \ restless :
                   f = e \/ e \in Above(f) => Open(e)
  <2>1. PICK f \in Files : /\ d \notin unreadable /\ IsStrictPrefix(d, f)
                           /\ e = SubSeq(f, 1, Len(d) + 1)
    BY DEF Entries, Above
  <2>2. /\ e \in Seq(NameTexts) /\ (e \in Files => e = f)
        /\ IsStrictPrefix(d, e)
        /\ \A c \in Seq(NameTexts) :
              IsStrictPrefix(c, e) => c = d \/ IsStrictPrefix(c, d)
        /\ \A P : ~Skipped(P, d) /\ ~should_exclude(P, e) => ~Skipped(P, e)
    BY <1>3, <2>1, OneDeeper
  <2>3. e \in Prefixes(f)
    BY <1>3, <2>1, StrictPrefix DEF Prefixes
  <2>4. e \in Dirs \cup Files
    BY <2>3, DirsAre
  <2>5. Above(e) \subseteq Above(d) \cup {d}
    BY <2>2, DirsArePaths DEF Above
  <2>6. ASSUME NEW g \in Files \ restless, g = e \/ e \in Above(g)
        PROVE  d \in Above(g)
    BY <1>3, <2>2, <2>6, DirsArePaths DEF Above
  <2>7. ASSUME NEW g \in Files \ restless, g = e \/ e \in Above(g)
        PROVE  Open(e)
    BY <1>3, <2>1, <2>5, <2>6, <2>7 DEF Open
  <2> QED
    BY <1>3, <2>2, <2>4, <2>7 DEF Out
\* What d leads to is found, if it is to be seen.
<1>5. ASSUME NEW f \in Files, Seen[f] # Gone, d \in Above(f), ~Out(f)
      PROVE  \E e \in found : IF e \in Files THEN e = f ELSE e \in Above(f)
  <2> DEFINE e == SubSeq(f, 1, Len(d) + 1)
  <2>1. e \in Entries(d)
    <3>1. /\ Above(f) \cap unreadable = {} /\ Above(f) \cap unsearchable = {}
          /\ disk[f] # Gone
      BY <1>5, SeenIsReached DEF Open
    <3>2. Above(d) \subseteq Above(f)
      BY <1>3, <1>5, DirsArePaths DEF Above
    <3> QED
      BY <1>5, <3>1, <3>2 DEF Entries
  <2>2. /\ e \in Files => e = f
        /\ e \notin Files => IsStrictPrefix(e, f)
        /\ \A P : ~Skipped(P, f) => ~should_exclude(P, e)
    BY <1>3, <1>5, OneDeeper DEF Above
  <2>3. ~should_exclude(patterns, e)
    BY <1>5, <2>2 DEF Out
  <2>4. e \in found
    BY <2>1, <2>3
  <2>5. e \in Dirs \cup Files
    BY <1>4, <2>4
  <2> QED
    BY <2>2, <2>4, <2>5 DEF Above
<1>6. /\ left' = left \cup (found \cap Files)
      /\ dirs' = (dirs \ {d}) \cup (found \ Files)
  BY <1>2
<1>7. \A f \in Files \ restless : Seen[f] = Shown[f]
  BY <1>1 DEF IInv, AtRest, Capturing, Shown
<1> HIDE DEF found
<1>8. TypeOK'
  BY <1>1, <1>4, <1>6 DEF IInv, TypeOK
<1>9. AtRest'
  BY <1>1 DEF IInv, AtRest, Seen, Reached, Above
<1>10. OnTheWay'
  <2>1. ASSUME NEW e \in dirs'
        PROVE  /\ ~Out(e)'
               /\ \A f \in Files \ restless : e \in Above(f) => Open(e)
    BY <1>1, <1>4, <1>6 DEF IInv, OnTheWay, Out
  <2>2. ASSUME NEW f \in left'
        PROVE  ~Out(f)' /\ (f \notin restless => Open(f))
    BY <1>1, <1>4, <1>6 DEF IInv, TypeOK, OnTheWay, Out
  <2> QED
    BY <1>1, <2>1, <2>2 DEF IInv, OnTheWay, Capturing, Open, Above
<1>11. SnapshotsRight'
  <2>1. ASSUME NEW f \in Files \ restless, Shown[f] # Gone, ~Out(f), Ahead(f)
        PROVE  Ahead(f)'
    <3>1. CASE f \in left \/ f = file
      BY <1>1, <1>6, <3>1 DEF Ahead
    <3>2. CASE \E c \in dirs \ {d} : c \in Above(f)
      BY <1>6, <3>2 DEF Ahead, Above
    <3>3. CASE d \in Above(f)
      BY <1>5, <1>6, <1>7, <2>1, <3>3 DEF Ahead, Above
    <3> QED
      BY <2>1, <3>1, <3>2, <3>3 DEF Ahead
  <2>2. pc = "pre" => Found(pre, atStart)'
    BY <1>1, <2>1 DEF IInv, SnapshotsRight, Found, Shown, Out
  <2>3. pc = "post" => Found(post, atEnd)'
    BY <1>1, <2>1 DEF IInv, SnapshotsRight, Found, Shown, Out
  <2> QED
    BY <1>1, <2>2, <2>3 DEF IInv, SnapshotsRight, Sound, Complete, Out
<1>12. TextsKept' /\ DiffsRight'
  BY <1>1 DEF IInv, TextsKept, DiffsRight, DiffsFaithful, Modified, Capturing
<1> QED
  BY <1>8, <1>9, <1>10, <1>11, <1>12 DEF IInv

LEMMA LookAtPreserves ==
    ASSUME NEW f \in left, IInv, LookAt(f)
    PROVE  IInv'
<1>1. /\ Capturing /\ file = NoFile /\ left' = left \ {f}
      /\ UNCHANGED <<patterns, pc, disk, unreadable, unsearchable, acts,
                     restless, dirs, pre, post, contents, diffs, atStart,
                     atEnd>>
  BY DEF LookAt, diskVars, foundVars
<1>2. \/ Reached(f) = Gone /\ UNCHANGED <<file, size>>
      \/ Reached(f) # Gone /\ file' = f /\ size' = SizeOf(Reached(f))
  BY DEF LookAt
<1>3. f \in Files /\ ~Out(f) /\ (f \notin restless => Reached(f) = Shown[f])
  BY <1>1, SeenIsReached DEF IInv, TypeOK, OnTheWay, AtRest, Capturing, Shown
<1>4. TypeOK'
  BY <1>1, <1>2, <1>3 DEF IInv, TypeOK, SizeOf, Sizes
<1>5. AtRest'
  BY <1>1 DEF IInv, AtRest, Seen, Reached, Above
<1>6. OnTheWay'
  BY <1>1, <1>2, <1>3 DEF IInv, OnTheWay, Capturing, Shown, Out, Open, Above
<1>7. SnapshotsRight'
  <2>1. ASSUME NEW g \in Files \ restless, Shown[g] # Gone, Ahead(g)
        PROVE  Ahead(g)'
    BY <1>1, <1>2, <1>3, <2>1, FilesArePaths DEF Ahead, Above
  <2>2. pc = "pre" => Found(pre, atStart)'
    BY <1>1, <2>1 DEF IInv, SnapshotsRight, Found, Shown, Out
  <2>3. pc = "post" => Found(post, atEnd)'
    BY <1>1, <2>1 DEF IInv, SnapshotsRight, Found, Shown, Out
  <2> QED
    BY <1>1, <2>2, <2>3 DEF IInv, SnapshotsRight, Sound, Complete, Out
<1>8. TextsKept' /\ DiffsRight'
  BY <1>1 DEF IInv, TextsKept, DiffsRight, DiffsFaithful, Modified, Capturing
<1> QED
  BY <1>4, <1>5, <1>6, <1>7, <1>8 DEF IInv

LEMMA HashFilePreserves == IInv /\ HashFile => IInv'
<1> SUFFICES ASSUME IInv, HashFile PROVE IInv'
  OBVIOUS
<1> DEFINE entry == [size |-> size, hash |-> Hash(Reached(file))]
<1>1. /\ Capturing /\ file # NoFile /\ file' = NoFile
      /\ UNCHANGED <<patterns, pc, disk, unreadable, unsearchable, acts,
                     restless, dirs, left, size, contents, diffs, atStart,
                     atEnd>>
  BY DEF HashFile, diskVars
<1>2. IF pc = "pre" THEN pre' = Put(pre, file, entry) /\ post' = post
                    ELSE post' = Put(post, file, entry) /\ pre' = pre
  BY DEF HashFile
<1>3. /\ file \in Files /\ ~Out(file)
      /\ file \notin restless =>
            /\ Shown[file] # Gone
            /\ entry = [size |-> SizeOf(Shown[file]),
                        hash |-> Hash(Shown[file])]
  BY <1>1, SeenIsReached
  DEF IInv, TypeOK, OnTheWay, AtRest, Capturing, Shown
<1>4. entry \in Entry
  BY DEF IInv, TypeOK, Entry, Hash, Reached
<1> HIDE DEF entry
<1>5. pc = "pre" => /\ DOMAIN pre' = DOMAIN pre \cup {file}
                     /\ pre'[file] = entry
                     /\ \A g \in DOMAIN pre \ {file} : pre'[g] = pre[g]
                     /\ post' = post
  BY <1>2 DEF Put
<1>6. pc # "pre" => /\ DOMAIN post' = DOMAIN post \cup {file}
                     /\ post'[file] = entry
                     /\ \A g \in DOMAIN post \ {file} : post'[g] = post[g]
                     /\ pre' = pre
  BY <1>2 DEF Put
<1>7. TypeOK'
  <2>1. CASE pc = "pre"
    <3>1. \A g \in DOMAIN pre' : g \in Files /\ pre'[g] \in Entry
      BY <1>3, <1>4, <1>5, <2>1 DEF IInv, TypeOK
    <3>2. DOMAIN contents' \subseteq DOMAIN pre'
      BY <1>1, <1>5, <2>1 DEF IInv, TypeOK
    <3> QED
      BY <1>1, <1>2, <2>1, <3>1, <3>2 DEF IInv, TypeOK
  <2>2. CASE pc # "pre"
    <3>1. \A g \in DOMAIN post' : g \in Files /\ post'[g] \in Entry
      BY <1>3, <1>4, <1>6, <2>2 DEF IInv, TypeOK
    <3> QED
      BY <1>1, <1>2, <2>2, <3>1 DEF IInv, TypeOK
  <2> QED
    BY <2>1, <2>2
<1>8. AtRest' /\ OnTheWay'
  BY <1>1
  DEF IInv, AtRest, OnTheWay, Capturing, Shown, Out, Seen, Reached, Above, Open
<1>9. SnapshotsRight'
  <2>1. \A g \in Files : Ahead(g) => Ahead(g)' \/ g = file
    BY <1>1 DEF Ahead, Above
  <2>2. CASE pc = "pre"
    <3>1. Sound(pre, atStart)'
      BY <1>1, <1>3, <1>5, <2>2
      DEF IInv, SnapshotsRight, Sound, Shown, Out
    <3>2. Found(pre, atStart)'
      BY <1>1, <1>5, <2>1, <2>2
      DEF IInv, SnapshotsRight, Found, Out
    <3> QED
      BY <1>1, <1>2, <2>2, <3>1, <3>2 DEF IInv, SnapshotsRight, Sound, Out
  <2>3. CASE pc = "post"
    <3>1. Sound(post, atEnd)'
      BY <1>1, <1>3, <1>6, <2>3
      DEF IInv, SnapshotsRight, Sound, Shown, Out
    <3>2. Found(post, atEnd)'
      BY <1>1, <1>6, <2>1, <2>3
      DEF IInv, SnapshotsRight, Found, Out
    <3> QED
      BY <1>1, <1>2, <2>3, <3>1, <3>2
      DEF IInv, SnapshotsRight, Sound, Complete, Out
  <2> QED
    BY <1>1, <2>2, <2>3 DEF Capturing
<1>10. TextsKept'
  BY <1>1, <1>2 DEF IInv, TextsKept
<1>11. DiffsRight'
  BY <1>1 DEF IInv, DiffsRight, DiffsFaithful, Capturing
<1> QED
  BY <1>7, <1>8, <1>9, <1>10, <1>11 DEF IInv

\* The walk is over: what it has found is all there was.
LEMMA PreCapturedPreserves == IInv /\ PreCaptured => IInv'
<1> SUFFICES ASSUME IInv, PreCaptured PROVE IInv'
  OBVIOUS
<1>1. /\ pc = "pre" /\ WalkIsOver /\ pc' = "content" /\ left' = DOMAIN pre
      /\ UNCHANGED <<patterns, disk, unreadable, unsearchable, acts, restless,
                     dirs, file, size, pre, post, contents, diffs, atStart,
                     atEnd>>
  BY DEF PreCaptured, diskVars, foundVars
<1>2. TypeOK'
  BY <1>1 DEF IInv, TypeOK
<1>3. AtRest' /\ OnTheWay'
  BY <1>1
  DEF IInv, AtRest, OnTheWay, Capturing, WalkIsOver, Seen, Reached, Above, Open
<1>4. SnapshotsRight'
  <2>1. \A f \in Files : ~Ahead(f)
    BY <1>1, FilesArePaths DEF Ahead, WalkIsOver, Above
  <2> QED
    BY <1>1, <2>1 DEF IInv, SnapshotsRight, Sound, Found, Complete, Out
<1>5. TextsKept' /\ DiffsRight'
  BY <1>1 DEF IInv, TextsKept, DiffsRight, DiffsFaithful
<1> QED
  BY <1>2, <1>3, <1>4, <1>5 DEF IInv

LEMMA ReadContentPreserves ==
    ASSUME NEW f \in left, IInv, ReadContent(f)
    PROVE  IInv'
<1>1. /\ pc = "content" /\ left' = left \ {f}
      /\ UNCHANGED <<patterns, pc, disk, unreadable, unsearchable, acts,
                     restless, dirs, file, size, pre, post, diffs, atStart,
                     atEnd>>
  BY DEF ReadContent, diskVars
<1>2. CASE ~(pre[f].size = "small" /\ Reached(f) \in Text)
  <2>1. contents' = contents
    BY <1>2 DEF ReadContent
  <2>2. f \in DOMAIN pre \ restless => atStart[f] \notin Text \cap Small
    BY <1>1, <1>2, SeenIsReached
    DEF IInv, TypeOK, AtRest, SnapshotsRight, Sound, SizeOf
  <2>3. TypeOK' /\ AtRest' /\ OnTheWay'
    BY <1>1, <2>1
    DEF IInv, TypeOK, AtRest, OnTheWay, Capturing, Seen, Reached, Above, Open
  <2>4. SnapshotsRight'
    BY <1>1 DEF IInv, SnapshotsRight, Sound, Complete, Out
  <2>5. TextsKept' /\ DiffsRight'
    BY <1>1, <2>1, <2>2 DEF IInv, TextsKept, DiffsRight, DiffsFaithful
  <2> QED
    BY <2>3, <2>4, <2>5 DEF IInv
<1>3. CASE pre[f].size = "small" /\ Reached(f) \in Text
  <2>1. /\ DOMAIN contents' = DOMAIN contents \cup {f}
        /\ contents'[f] = Reached(f)
        /\ \A g \in DOMAIN contents \ {f} : contents'[g] = contents[g]
    BY <1>3 DEF ReadContent, Put
  <2>2. f \in DOMAIN pre /\ (f \notin restless => Reached(f) = atStart[f])
    BY <1>1, SeenIsReached
    DEF IInv, TypeOK, AtRest, SnapshotsRight, Sound, TextsKept
  <2>3. TypeOK'
    <3>1. /\ DOMAIN contents' \subseteq DOMAIN pre'
          /\ \A g \in DOMAIN contents' : contents'[g] \in Text
      BY <1>1, <1>3, <2>1, <2>2 DEF IInv, TypeOK
    <3> QED
      BY <1>1, <3>1 DEF IInv, TypeOK
  <2>4. AtRest' /\ OnTheWay'
    BY <1>1 DEF IInv, AtRest, OnTheWay, Capturing, Seen, Reached, Above, Open
  <2>5. SnapshotsRight'
    BY <1>1 DEF IInv, SnapshotsRight, Sound, Complete, Out
  <2>6. TextsKept' /\ DiffsRight'
    BY <1>1, <2>1, <2>2 DEF IInv, TextsKept, DiffsRight, DiffsFaithful
  <2> QED
    BY <2>3, <2>4, <2>5, <2>6 DEF IInv
<1> QED
  BY <1>2, <1>3

LEMMA AgentStartsPreserves == IInv /\ AgentStarts => IInv'
<1> SUFFICES ASSUME IInv, AgentStarts PROVE IInv'
  OBVIOUS
<1>1. /\ pc = "content" /\ left = {} /\ pc' = "run"
      /\ UNCHANGED <<patterns, disk, unreadable, unsearchable, acts, restless,
                     dirs, left, file, size, pre, post, contents, diffs,
                     atStart, atEnd>>
  BY DEF AgentStarts, diskVars, walkVars, foundVars
<1>2. TypeOK' /\ AtRest' /\ OnTheWay'
  BY <1>1
  DEF IInv, TypeOK, AtRest, OnTheWay, Capturing, Seen, Reached, Above, Open
<1>3. SnapshotsRight'
  BY <1>1 DEF IInv, SnapshotsRight, Sound, Complete, Out
<1>4. TextsKept' /\ DiffsRight'
  BY <1>1 DEF IInv, TextsKept, DiffsRight, DiffsFaithful
<1> QED
  BY <1>2, <1>3, <1>4 DEF IInv

\* The second walk begins: nothing is found yet, and all is ahead of it.
LEMMA AgentExitsPreserves == IInv /\ AgentExits => IInv'
<1> SUFFICES ASSUME IInv, AgentExits PROVE IInv'
  OBVIOUS
<1>1. /\ pc = "run" /\ pc' = "post" /\ dirs' = {<<>>} /\ atEnd' = Seen
      /\ UNCHANGED <<patterns, disk, unreadable, unsearchable, acts, restless,
                     left, file, size, pre, post, contents, diffs, atStart>>
  BY DEF AgentExits, diskVars, foundVars
<1>2. TypeOK'
  <2>1. {<<>>} \subseteq Dirs
    BY DEF Dirs
  <2> QED
    BY <1>1, <2>1, SeenHasType DEF IInv, TypeOK
<1>3. AtRest'
  BY <1>1 DEF AtRest, Seen, Reached, Above
<1>4. OnTheWay'
  <2>1. DOMAIN <<>> = {} /\ Above(<<>>)' = Above(<<>>)
    BY EmptySeq DEF Above
  <2> QED
    BY <1>1, <2>1, TheRoot
    DEF IInv, OnTheWay, Capturing, Out, Skipped, Open
<1>5. SnapshotsRight'
  <2>1. \A f \in Files : <<>> \in Above(f)
    BY TheRoot
  <2> QED
    BY <1>1, <2>1
    DEF IInv, SnapshotsRight, Sound, Found, Complete, Ahead, Out, Above
<1>6. TextsKept' /\ DiffsRight'
  BY <1>1 DEF IInv, TextsKept, DiffsRight, DiffsFaithful
<1> QED
  BY <1>2, <1>3, <1>4, <1>5, <1>6 DEF IInv

LEMMA PostCapturedPreserves == IInv /\ PostCaptured => IInv'
<1> SUFFICES ASSUME IInv, PostCaptured PROVE IInv'
  OBVIOUS
<1>1. /\ pc = "post" /\ WalkIsOver /\ pc' = "diff" /\ left' = Modified
      /\ UNCHANGED <<patterns, disk, unreadable, unsearchable, acts, restless,
                     dirs, file, size, pre, post, contents, diffs, atStart,
                     atEnd>>
  BY DEF PostCaptured, diskVars, foundVars
<1>2. TypeOK'
  BY <1>1 DEF IInv, TypeOK, Modified
<1>3. AtRest' /\ OnTheWay'
  BY <1>1
  DEF IInv, AtRest, OnTheWay, Capturing, WalkIsOver, Seen, Reached, Above, Open
<1>4. SnapshotsRight'
  <2>1. \A f \in Files : ~Ahead(f)
    BY <1>1, FilesArePaths DEF Ahead, WalkIsOver, Above
  <2> QED
    BY <1>1, <2>1 DEF IInv, SnapshotsRight, Sound, Found, Complete, Out
<1>5. TextsKept' /\ DiffsRight'
  BY <1>1 DEF IInv, TextsKept, DiffsRight, DiffsFaithful, Modified
<1> QED
  BY <1>2, <1>3, <1>4, <1>5 DEF IInv

LEMMA DiffFilePreserves ==
    ASSUME NEW f \in left, IInv, DiffFile(f)
    PROVE  IInv'
<1> DEFINE d == <<f, contents[f], Reached(f)>>
           differs == /\ f \in DOMAIN contents
                      /\ Reached(f) \in Text \ {contents[f]}
<1>1. /\ pc = "diff" /\ left' = left \ {f}
      /\ UNCHANGED <<patterns, disk, unreadable, unsearchable, acts, restless,
                     dirs, file, size, pre, post, contents, atStart, atEnd>>
  BY DEF DiffFile, diskVars
<1>2. \/ ~differs /\ UNCHANGED <<pc, diffs>>
      \/ pc' = "failed" /\ UNCHANGED diffs
      \/ differs /\ pc' = pc /\ diffs' = Put(diffs, SafeName(f), d)
  BY DEF DiffFile
<1>3. /\ f \in Modified /\ f \in Files
      /\ f \in DOMAIN contents => contents[f] \in Text
      /\ f \notin restless =>
           /\ Reached(f) = atEnd[f]
           /\ f \in DOMAIN contents => contents[f] = atStart[f]
           /\ atStart[f] \in Text \cap Small => f \in DOMAIN contents
  <2>1. f \in DOMAIN pre /\ f \in DOMAIN post /\ f \in Modified
    BY <1>1 DEF IInv, DiffsRight, Modified
  <2>2. f \notin restless => Seen[f] = atEnd[f] /\ atEnd[f] # Gone
    BY <1>1, <2>1 DEF IInv, TypeOK, AtRest, SnapshotsRight, Sound
  <2> QED
    BY <1>1, <2>1, <2>2, SeenIsReached DEF IInv, TypeOK, TextsKept
<1>4. /\ Modified' = Modified
      /\ pc' \in {"diff", "failed"}
  BY <1>1, <1>2 DEF Modified
<1>5. diffs' = diffs
        \/ /\ DOMAIN diffs' = DOMAIN diffs \cup {SafeName(f)}
           /\ diffs'[SafeName(f)] = d /\ differs
           /\ \A n \in DOMAIN diffs \ {SafeName(f)} : diffs'[n] = diffs[n]
  BY <1>2 DEF Put
<1>6. TypeOK'
  <2>1. differs => d \in Files \X Text \X Text
    BY <1>3
  <2> HIDE DEF d
  <2>2. \A n \in DOMAIN diffs' : diffs'[n] \in Files \X Text \X Text
    BY <1>5, <2>1 DEF IInv, TypeOK
  <2> QED
    BY <1>1, <1>4, <2>2 DEF IInv, TypeOK
<1>7. AtRest' /\ OnTheWay'
  BY <1>1, <1>4
  DEF IInv, AtRest, OnTheWay, Capturing, Seen, Reached, Above, Open
<1>8. SnapshotsRight'
  BY <1>1, <1>4 DEF IInv, SnapshotsRight, Sound, Complete, Out
<1>9. TextsKept'
  BY <1>1, <1>4 DEF IInv, TextsKept
<1>10. DiffsRight'
  <2>1. DiffsFaithful'
    <3>1. SUFFICES
            ASSUME NEW n \in DOMAIN diffs'
            PROVE  /\ diffs'[n][1] \in Modified /\ n = SafeName(diffs'[n][1])
                   /\ diffs'[n][1] \notin restless =>
                        diffs'[n] = <<diffs'[n][1], atStart[diffs'[n][1]],
                                      atEnd[diffs'[n][1]]>>
      BY <1>1, <1>4 DEF DiffsFaithful, SafeName
    <3>2. CASE n \in DOMAIN diffs /\ diffs'[n] = diffs[n]
      BY <3>2 DEF IInv, DiffsRight, DiffsFaithful
    <3>3. CASE n = SafeName(f) /\ diffs'[n] = d /\ differs
      BY <1>3, <3>3
    <3> QED
      BY <1>5, <3>1, <3>2, <3>3
  <2>2. pc' = "diff" =>
          \A g \in Modified \ restless :
             (atStart[g] \in Text \cap Small /\ atEnd[g] \in Text \ {atStart[g]})
                 => SafeName(g) \in DOMAIN diffs' \/ g \in left'
    <3>1. SUFFICES
            ASSUME pc' = "diff", NEW g \in Modified \ restless,
                   atStart[g] \in Text \cap Small,
                   atEnd[g] \in Text \ {atStart[g]}
            PROVE  SafeName(g) \in DOMAIN diffs' \/ g \in left'
      OBVIOUS
    <3>2. CASE SafeName(g) \in DOMAIN diffs
      BY <1>5, <3>2
    <3>3. CASE g \in left /\ g # f
      BY <1>1, <3>3
    <3>4. CASE g = f
      <4>1. differs
        BY <1>3, <3>1, <3>4
      <4>2. SafeName(f) \in DOMAIN diffs'
        BY <1>1, <1>2, <3>1, <4>1 DEF Put
      <4> QED
        BY <3>4, <4>2
    <3> QED
      BY <1>1, <3>1, <3>2, <3>3, <3>4 DEF IInv, DiffsRight
  <2> QED
    BY <1>1, <1>4, <2>1, <2>2 DEF IInv, DiffsRight, SafeName
<1> QED
  BY <1>6, <1>7, <1>8, <1>9, <1>10 DEF IInv

LEMMA SaveSummaryPreserves == IInv /\ SaveSummary => IInv'
<1> SUFFICES ASSUME IInv, SaveSummary PROVE IInv'
  OBVIOUS
<1>1. /\ pc = "diff" /\ left = {} /\ pc' = "saved"
      /\ UNCHANGED <<patterns, disk, unreadable, unsearchable, acts, restless,
                     dirs, left, file, size, pre, post, contents, diffs,
                     atStart, atEnd>>
  BY DEF SaveSummary, diskVars, walkVars, foundVars
<1>2. TypeOK' /\ AtRest' /\ OnTheWay'
  BY <1>1
  DEF IInv, TypeOK, AtRest, OnTheWay, Capturing, Seen, Reached, Above, Open
<1>3. SnapshotsRight'
  BY <1>1 DEF IInv, SnapshotsRight, Sound, Complete, Out
<1>4. TextsKept' /\ DiffsRight'
  BY <1>1 DEF IInv, TextsKept, DiffsRight, DiffsFaithful, Modified
<1> QED
  BY <1>2, <1>3, <1>4 DEF IInv

LEMMA StutterPreserves == IInv /\ UNCHANGED vars => IInv'
<1> SUFFICES ASSUME IInv, UNCHANGED vars PROVE IInv'
  OBVIOUS
<1>1. UNCHANGED <<patterns, pc, disk, unreadable, unsearchable, acts, restless,
                  dirs, left, file, size, pre, post, contents, diffs, atStart,
                  atEnd>>
  BY DEF vars, diskVars, walkVars, foundVars
<1>2. TypeOK' /\ AtRest' /\ OnTheWay'
  BY <1>1
  DEF IInv, TypeOK, AtRest, OnTheWay, Capturing, Shown, Out, Seen, Reached,
      Above, Open
<1>3. SnapshotsRight'
  BY <1>1 DEF IInv, SnapshotsRight, Sound, Found, Complete, Ahead, Out, Above
<1>4. TextsKept' /\ DiffsRight'
  BY <1>1 DEF IInv, TextsKept, DiffsRight, DiffsFaithful, Modified
<1> QED
  BY <1>2, <1>3, <1>4 DEF IInv

(***************************************************************************)
(* The theorems.                                                           *)
(***************************************************************************)

\* The invariant holds whatever others do to the files meanwhile.
THEOREM Invariance == Spec => []IInv
<1>1. IInv /\ [Next]_vars => IInv'
  <2> SUFFICES ASSUME IInv, [Next]_vars PROVE IInv'
    OBVIOUS
  <2>1. CASE UNCHANGED vars
    BY <2>1, StutterPreserves
  <2>2. CASE Others
    BY <2>2, OthersPreserve
  <2>3. CASE ListDir \/ HashFile \/ PreCaptured
    BY <2>3, ListDirPreserves, HashFilePreserves, PreCapturedPreserves
  <2>4. CASE AgentStarts \/ AgentExits \/ PostCaptured \/ SaveSummary
    BY <2>4, AgentStartsPreserves, AgentExitsPreserves,
       PostCapturedPreserves, SaveSummaryPreserves
  <2>5. ASSUME NEW f \in left, LookAt(f) \/ ReadContent(f) \/ DiffFile(f)
        PROVE  IInv'
    BY <2>5, LookAtPreserves, ReadContentPreserves, DiffFilePreserves
  <2> QED
    BY <2>1, <2>2, <2>3, <2>4, <2>5 DEF Next, CmdRun, Over
<1> QED
  BY <1>1, InitHolds, PTL DEF Spec

\* Every variable of cmd_run has its type.
THEOREM TypeCorrect == Spec => []TypeOK
<1>1. IInv => TypeOK
  BY DEF IInv
<1> QED
  BY <1>1, Invariance, PTL

\* A diff shows what the agent did to the file that gives it its name, if only
\* the agent touched it.
THEOREM DiffsAreTrue == Spec => []DiffsFaithful
<1>1. IInv => DiffsFaithful
  BY DEF IInv, DiffsRight
<1> QED
  BY <1>1, Invariance, PTL

\* The walks record nothing that a pattern leaves out, for any patterns, ...
THEOREM ExclusionWorks == Spec => []ExcludedStayOut
<1>1. IInv => ExcludedStayOut
  BY ExcludesRight
  DEF IInv, TypeOK, SnapshotsRight, Sound, Out, ExcludedStayOut
<1> QED
  BY <1>1, Invariance, PTL

\* ... their difference tells what became of every file at rest, ...
THEOREM DifferenceIsRight == Spec => []Authoritative
<1>1. IInv => Authoritative
  <2> SUFFICES ASSUME IInv, Compared, NEW f \in Quiet
               PROVE  /\ f \in Created <=> atStart[f] = Gone /\ atEnd[f] # Gone
                      /\ f \in Deleted <=> atStart[f] # Gone /\ atEnd[f] = Gone
                      /\ f \in Modified <=>
                            /\ Gone \notin {atStart[f], atEnd[f]}
                            /\ Hash(atStart[f]) # Hash(atEnd[f])
    BY DEF Authoritative
  <2>1. f \in Files \ restless /\ ~Out(f)
    BY ExcludesRight DEF IInv, TypeOK, Out, Quiet
  <2>2. f \in DOMAIN pre <=> atStart[f] # Gone
    BY <2>1 DEF IInv, SnapshotsRight, Sound, Complete, Compared
  <2>3. f \in DOMAIN post <=> atEnd[f] # Gone
    BY <2>1 DEF IInv, SnapshotsRight, Sound, Complete, Compared
  <2>4. /\ f \in DOMAIN pre => pre[f].hash = Hash(atStart[f])
        /\ f \in DOMAIN post => post[f].hash = Hash(atEnd[f])
    BY <2>1 DEF IInv, SnapshotsRight, Sound
  <2> QED
    BY <2>2, <2>3, <2>4 DEF Created, Deleted, Modified
<1> QED
  BY <1>1, Invariance, PTL

\* ... and every small text among them that became another has its diff.
THEOREM NoDiffIsMissing == Spec => []DiffsComplete
<1>1. IInv => DiffsComplete
  <2> SUFFICES ASSUME IInv, pc = "saved", NEW f \in Quiet,
                      atStart[f] \in Text \cap Small,
                      atEnd[f] \in Text \ {atStart[f]}
               PROVE  /\ SafeName(f) \in DOMAIN diffs
                      /\ \/ diffs[SafeName(f)][1] = f
                         \/ \E g \in Files \ {f} : SafeName(g) = SafeName(f)
    BY DEF DiffsComplete
  <2>1. f \in Files \ restless /\ ~Out(f)
    BY ExcludesRight DEF IInv, TypeOK, Out, Quiet
  <2>2. /\ atStart[f] # Gone /\ atEnd[f] # Gone
        /\ Hash(atStart[f]) # Hash(atEnd[f])
    BY SnapshotsAssumption DEF Hash
  <2>3. f \in Modified
    BY <2>1, <2>2 DEF IInv, SnapshotsRight, Sound, Complete, Modified
  <2>4. SafeName(f) \in DOMAIN diffs
    BY <2>1, <2>3 DEF IInv, DiffsRight
  <2> DEFINE g == diffs[SafeName(f)][1]
  <2>5. g \in Files /\ SafeName(g) = SafeName(f)
    BY <2>4 DEF IInv, TypeOK, DiffsRight, DiffsFaithful
  <2> QED
    BY <2>4, <2>5
<1> QED
  BY <1>1, Invariance, PTL
=============================================================================
