--------------------------- MODULE RecorderProofs ---------------------------
(***************************************************************************)
(* Theorems of Recorder, for any pids, connections and number of forks:    *)
(* spawns and exits pair up, connections are reported once, a saved        *)
(* session is whole, and, as long as no pid is used twice, nothing that is *)
(* still in the tree is recorded as exited, unless the kernel moved it     *)
(* while it was looked for, and argvs are not mixed up.                    *)
(***************************************************************************)
EXTENDS Recorder, SequenceTheorems, FiniteSetTheorems, WellFoundedInduction,
        TLAPS

(***************************************************************************)
(* The inductive invariant.                                                *)
(***************************************************************************)

\* Which thread is where, and what can be in the channels and in the log.
Phases ==
    /\ running <=> mainPc = "wait"
    /\ mainPc \in {"drain", "summary", "saved", "failed"}
          => procPc = "done" /\ netPc = "done"
    /\ procPc = "done" => known = {} /\ ~running
    /\ netPc = "done" => ~running
    /\ procPc = "compare" => toCheck = {}
    /\ toCheck \subseteq pids \cup {Root}
    /\ procPc = "read" => reading \in pids \cup {Root}
    /\ procPc # "read" => reading = Nobody /\ listable = {}
    /\ mainPc \in {"wait", "join"} => log = <<>>
    /\ mainPc \in {"summary", "saved"} => procCh = <<>> /\ netCh = <<>>
    /\ \A k \in DOMAIN procCh : procCh[k].kind \in {"spawned", "exited"}
    /\ \A k \in DOMAIN netCh : netCh[k].kind = "connection"

\* The summary is that of the log before session_end, with which it ends.
SummaryRight ==
    /\ mainPc # "saved" => OfKind(log, "end") = {}
    /\ mainPc = "saved" =>
          /\ log # <<>> /\ OfKind(log, "end") = {Len(log)}
          /\ OfKind(Front(log), "end") = {}
          /\ remotes = Remotes(Front(log))
          /\ subprocesses = Subprocesses(Front(log))

\* What the tracker knows, or has found and will know.
Met == known \cup (IF procPc = "compare" THEN pids ELSE {})

Used == {p \in Pids : serial[p] # 0}

\* While no pid is used twice.  Of a process that does not exist nothing is
\* known.  Found or known processes have found or known parents, if any in the
\* tree, so that only these can adopt a child.  A known process whose parent
\* was looked at was found too, and is sure to be found when the parent is
\* being looked at: unless it was shaken.  Argvs are those of their processes.
WalkInv ==
    /\ \A p \in Pids \ Used :
          p \notin known \cup pids \cup listable /\ status[p] = "free"
    /\ \A c \in pids \cup listable : parent[c] \in pids \cup {Root, Nobody}
    /\ \A c \in Met : parent[c] \in Met \cup {Root, Nobody}
    /\ procPc \in {"walk", "read", "compare"} =>
          \A q \in Pids \cup {Root} :
             \A c \in (Children(q) \cap known) \ shaken :
                /\ q = reading => c \in sure
                /\ q \in ((pids \cup {Root}) \ toCheck) \ {reading} => c \in pids
    /\ \A k \in OfKind(Stream, "spawned") :
          /\ Stream[k].pid \in Used
          /\ Stream[k].argv \in {0, serial[Stream[k].pid]}

IInv ==
    /\ TypeOK /\ Phases /\ Paired /\ ReportedOnce /\ SummaryRight
    /\ Cardinality(Used) <= forks
    /\ NoPidReused => WalkInv

(***************************************************************************)
(* Events and lists of them.                                               *)
(***************************************************************************)

LEMMA EventFacts ==
    /\ \A e \in Events : /\ e.kind \in {"spawned", "exited", "connection", "end"}
                         /\ e.kind = "spawned" => /\ e.pid \in Pids
                                                  /\ e.argv \in Serials
                         /\ e.kind = "exited" => /\ e.pid \in Pids
                                                 /\ e = Exited(e.pid)
                         /\ e.kind = "connection" => e.key \in Conns
    /\ \A p \in Pids, a \in Serials :
          /\ Spawned(p, a) \in Events /\ Spawned(p, a).kind = "spawned"
          /\ Spawned(p, a).pid = p
    /\ \A p \in Pids : /\ Exited(p) \in Events /\ Exited(p).kind = "exited"
                       /\ Exited(p).pid = p
    /\ \A c \in Conns : /\ Connected(c) \in Events
                        /\ Connected(c).kind = "connection"
                        /\ Connected(c).key = c
    /\ End \in Events /\ End.kind = "end"
<1>1. \A p \in Pids, a \in Serials :
         /\ Spawned(p, a) \in Events /\ Spawned(p, a).kind = "spawned"
         /\ Spawned(p, a).pid = p /\ Spawned(p, a).argv = a
  BY DEF Events, Spawned
<1>2. \A p \in Pids : /\ Exited(p) \in Events /\ Exited(p).kind = "exited"
                      /\ Exited(p).pid = p
  BY DEF Events, Exited
<1>3. \A c \in Conns : /\ Connected(c) \in Events
                       /\ Connected(c).kind = "connection"
                       /\ Connected(c).key = c
  BY DEF Events, Connected
<1>4. End \in Events /\ End.kind = "end"
  BY DEF Events, End
<1>5. ASSUME NEW e \in Events
      PROVE  \/ \E p \in Pids, a \in Serials : e = Spawned(p, a)
             \/ \E p \in Pids : e = Exited(p)
             \/ \E c \in Conns : e = Connected(c)
             \/ e = End
  BY DEF Events
<1> QED
  BY <1>1, <1>2, <1>3, <1>4, <1>5

\* A finite set as a list has each of its members once.
LEMMA ListProperties ==
    ASSUME NEW S, IsFiniteSet(S)
    PROVE  LET t == SetToSeq(S)
           IN  /\ t \in Seq(S)
               /\ \A i, k \in DOMAIN t : t[i] = t[k] => i = k
               /\ \A x \in S : \E i \in DOMAIN t : t[i] = x
<1> DEFINE n == Cardinality(S)
           t == SetToSeq(S)
<1>1. n \in Nat /\ ExistsBijection(1 .. n, S)
  BY FS_CardinalityType
<1>2. PICK f \in Bijection(1 .. n, S) : TRUE
  BY <1>1 DEF ExistsBijection
<1>3. f \in [1 .. n -> S] /\ IsInjective(f)
  BY <1>2 DEF Bijection, Injection, IsInjective
<1>4. t \in [1 .. n -> S] /\ IsInjective(t)
  BY <1>3 DEF SetToSeq
<1>5. t \in Injection(1 .. n, S)
  BY <1>4 DEF Injection, IsInjective
<1>6. IsFiniteSet(1 .. n) /\ Cardinality(1 .. n) = n
  <2>1. 1 \in Int /\ n \in Int
    BY <1>1
  <2>2. /\ IsFiniteSet(1 .. n)
        /\ Cardinality(1 .. n) = IF 1 > n THEN 0 ELSE n - 1 + 1
    BY <2>1, FS_Interval
  <2> QED
    BY <1>1, <2>2
<1>7. t \in Surjection(1 .. n, S)
  BY <1>5, <1>6, FS_Injection
<1>8. t \in Seq(S) /\ DOMAIN t = 1 .. n
  BY <1>1, <1>4
<1> QED
  BY <1>4, <1>7, <1>8 DEF IsInjective, Surjection

LEMMA ConcatElements ==
    ASSUME NEW S, NEW s \in Seq(S), NEW t \in Seq(S)
    PROVE  /\ s \o t \in Seq(S) /\ Len(s) \in Nat /\ Len(t) \in Nat
           /\ DOMAIN s = 1 .. Len(s) /\ DOMAIN t = 1 .. Len(t)
           /\ DOMAIN (s \o t) = 1 .. Len(s) + Len(t)
           /\ \A i \in DOMAIN s : i \in DOMAIN (s \o t) /\ (s \o t)[i] = s[i]
           /\ \A i \in DOMAIN t : /\ Len(s) + i \in DOMAIN (s \o t)
                                  /\ (s \o t)[Len(s) + i] = t[i]
           /\ \A k \in DOMAIN (s \o t) :
                 k \in DOMAIN s \/ \E i \in DOMAIN t : k = Len(s) + i
<1>1. /\ Len(s) \in Nat /\ Len(t) \in Nat
      /\ DOMAIN s = 1 .. Len(s) /\ DOMAIN t = 1 .. Len(t)
  BY LenProperties
<1>2. /\ s \o t \in Seq(S) /\ Len(s \o t) = Len(s) + Len(t)
      /\ \A i \in 1 .. Len(s) + Len(t) :
            (s \o t)[i] = IF i <= Len(s) THEN s[i] ELSE t[i - Len(s)]
  BY ConcatProperties
<1>3. DOMAIN (s \o t) = 1 .. Len(s) + Len(t)
  BY <1>2, LenProperties
<1> DEFINE m == Len(s)
           n == Len(t)
           u == s \o t
<1> HIDE DEF m, n, u
<1>4. /\ m \in Nat /\ n \in Nat /\ DOMAIN s = 1 .. m /\ DOMAIN t = 1 .. n
      /\ DOMAIN u = 1 .. m + n
      /\ \A i \in 1 .. m + n : u[i] = IF i <= m THEN s[i] ELSE t[i - m]
  BY <1>1, <1>2, <1>3 DEF m, n, u
<1>5. \A i \in DOMAIN s : i \in DOMAIN u /\ u[i] = s[i]
  BY <1>4
<1>6. \A i \in DOMAIN t : m + i \in DOMAIN u /\ u[m + i] = t[i]
  BY <1>4
<1>7. ASSUME NEW k \in DOMAIN u, k \notin DOMAIN s
      PROVE  \E i \in DOMAIN t : k = m + i
  <2>1. k - m \in DOMAIN t /\ k = m + (k - m)
    BY <1>4, <1>7
  <2> QED
    BY <2>1
<1> QED
  BY <1>1, <1>2, <1>3, <1>5, <1>6, <1>7 DEF m, n, u

(***************************************************************************)
(* Pairs of spawns and exits, in any list.                                 *)
(***************************************************************************)

TurnsIn(s, p) ==
    {k \in DOMAIN s : s[k].kind \in {"spawned", "exited"} /\ s[k].pid = p}

PairedIn(s, K) ==
    \A p \in Pids :
        /\ \A i, k \in TurnsIn(s, p) :
              i < k /\ s[i].kind = s[k].kind =>
                  \E j \in TurnsIn(s, p) :
                      i < j /\ j < k /\ s[j].kind # s[k].kind
        /\ \A k \in TurnsIn(s, p) :
              s[k].kind = "exited" =>
                  \E i \in TurnsIn(s, p) : i < k /\ s[i].kind = "spawned"
        /\ p \in K <=>
              \E k \in TurnsIn(s, p) : /\ s[k].kind = "spawned"
                                       /\ \A i \in TurnsIn(s, p) : i <= k

\* What takes a tracker that knows K to one that knows L: at most one event for
\* each process.
Turn(t, K, L) ==
    \A p \in Pids :
        \/ TurnsIn(t, p) = {} /\ (p \in L <=> p \in K)
        \/ \E m \in TurnsIn(t, p) :
              /\ TurnsIn(t, p) = {m}
              /\ \/ t[m].kind = "spawned" /\ p \notin K /\ p \in L
                 \/ t[m].kind = "exited" /\ p \in K /\ p \notin L

LEMMA PairedMeans == Paired <=> PairedIn(Stream, known)
BY DEF Paired, PairedIn, Turns, TurnsIn

LEMMA TurnsOfConcat ==
    ASSUME NEW s \in Seq(Events), NEW t \in Seq(Events), NEW p
    PROVE  LET u == s \o t
           IN  /\ TurnsIn(u, p) =
                     TurnsIn(s, p) \cup {Len(s) + m : m \in TurnsIn(t, p)}
               /\ \A k \in TurnsIn(s, p) : u[k] = s[k] /\ k \in 1 .. Len(s)
               /\ \A m \in TurnsIn(t, p) : u[Len(s) + m] = t[m] /\ m \in 1 .. Len(t)
<1> DEFINE u == s \o t
<1>1. /\ DOMAIN s = 1 .. Len(s) /\ DOMAIN t = 1 .. Len(t)
      /\ \A i \in DOMAIN s : i \in DOMAIN u /\ u[i] = s[i]
      /\ \A i \in DOMAIN t : Len(s) + i \in DOMAIN u /\ u[Len(s) + i] = t[i]
      /\ \A k \in DOMAIN u :
            k \in DOMAIN s \/ \E i \in DOMAIN t : k = Len(s) + i
  BY ConcatElements
<1> HIDE DEF u
<1> QED
  BY <1>1 DEF TurnsIn, u

LEMMA PairedExtends ==
    ASSUME NEW s \in Seq(Events), NEW t \in Seq(Events), NEW K, NEW L,
           PairedIn(s, K), Turn(t, K, L)
    PROVE  PairedIn(s \o t, L)
<1> DEFINE u == s \o t
           n == Len(s)
<1>1. SUFFICES
        ASSUME NEW p \in Pids
        PROVE  /\ \A i, k \in TurnsIn(u, p) :
                     i < k /\ u[i].kind = u[k].kind =>
                         \E j \in TurnsIn(u, p) :
                             i < j /\ j < k /\ u[j].kind # u[k].kind
               /\ \A k \in TurnsIn(u, p) :
                     u[k].kind = "exited" =>
                         \E i \in TurnsIn(u, p) :
                             i < k /\ u[i].kind = "spawned"
               /\ p \in L <=>
                     \E k \in TurnsIn(u, p) :
                         /\ u[k].kind = "spawned"
                         /\ \A i \in TurnsIn(u, p) : i <= k
  BY DEF PairedIn
<1> DEFINE T == TurnsIn(s, p)
<1>2. /\ n \in Nat
      /\ TurnsIn(u, p) = T \cup {n + m : m \in TurnsIn(t, p)}
      /\ \A k \in T : u[k] = s[k] /\ k \in 1 .. n
      /\ \A m \in TurnsIn(t, p) : u[n + m] = t[m] /\ m \in 1 .. Len(t)
  BY TurnsOfConcat, LenProperties
<1>3. /\ \A i, k \in T :
            i < k /\ s[i].kind = s[k].kind =>
                \E j \in T : i < j /\ j < k /\ s[j].kind # s[k].kind
      /\ \A k \in T :
            s[k].kind = "exited" => \E i \in T : i < k /\ s[i].kind = "spawned"
      /\ p \in K <=>
            \E k \in T : s[k].kind = "spawned" /\ \A i \in T : i <= k
      /\ \A k \in T : s[k].kind \in {"spawned", "exited"}
  BY DEF PairedIn, TurnsIn
<1> HIDE DEF u, n, T
<1>4. CASE TurnsIn(t, p) = {} /\ (p \in L <=> p \in K)
  <2>1. TurnsIn(u, p) = T
    BY <1>2, <1>4
  <2>2. /\ \A i, k \in T :
              i < k /\ u[i].kind = u[k].kind =>
                  \E j \in T : i < j /\ j < k /\ u[j].kind # u[k].kind
        /\ \A k \in T :
              u[k].kind = "exited" =>
                  \E i \in T : i < k /\ u[i].kind = "spawned"
    <3>1. \A k \in T : u[k].kind = s[k].kind
      BY <1>2
    <3>2. ASSUME NEW i \in T, NEW k \in T, i < k, u[i].kind = u[k].kind
          PROVE  \E j \in T : i < j /\ j < k /\ u[j].kind # u[k].kind
      BY <1>3, <3>1, <3>2
    <3>3. ASSUME NEW k \in T, u[k].kind = "exited"
          PROVE  \E i \in T : i < k /\ u[i].kind = "spawned"
      BY <1>3, <3>1, <3>3
    <3> QED
      BY <3>2, <3>3
  <2>3. p \in L <=> \E k \in T : u[k].kind = "spawned" /\ \A i \in T : i <= k
    BY <1>2, <1>3, <1>4
  <2> QED
    BY <2>1, <2>2, <2>3
<1>5. CASE \E m \in TurnsIn(t, p) :
              /\ TurnsIn(t, p) = {m}
              /\ \/ t[m].kind = "spawned" /\ p \notin K /\ p \in L
                 \/ t[m].kind = "exited" /\ p \in K /\ p \notin L
  <2>1. PICK m \in TurnsIn(t, p) :
              /\ TurnsIn(t, p) = {m}
              /\ \/ t[m].kind = "spawned" /\ p \notin K /\ p \in L
                 \/ t[m].kind = "exited" /\ p \in K /\ p \notin L
    BY <1>5
  <2> DEFINE z == n + m
  <2>2. /\ TurnsIn(u, p) = T \cup {z} /\ u[z] = t[m]
        /\ z \in Nat /\ \A k \in T : k \in Nat /\ k < z
    BY <1>2, <2>1
  <2> HIDE DEF z
  <2>3. \A i, k \in T :
           i < k /\ u[i].kind = u[k].kind =>
               \E j \in T : i < j /\ j < k /\ u[j].kind # u[k].kind
    <3>1. \A k \in T : u[k].kind = s[k].kind
      BY <1>2
    <3>2. ASSUME NEW i \in T, NEW k \in T, i < k, u[i].kind = u[k].kind
          PROVE  \E j \in T : i < j /\ j < k /\ u[j].kind # u[k].kind
      <4>1. s[i].kind = s[k].kind
        BY <3>1, <3>2
      <4>2. PICK j \in T : i < j /\ j < k /\ s[j].kind # s[k].kind
        BY <1>3, <3>2, <4>1
      <4> QED
        BY <3>1, <4>2
    <3> QED
      BY <3>2
  <2>4. ASSUME NEW i \in T, s[i].kind = t[m].kind
        PROVE  \E j \in T : i < j /\ s[j].kind # t[m].kind
    <3>1. CASE t[m].kind = "spawned"
      BY <1>2, <1>3, <2>1, <2>2, <2>4, <3>1
    <3>2. CASE t[m].kind = "exited"
      BY <1>2, <1>3, <2>1, <2>2, <2>4, <3>2
    <3> QED
      BY <2>1, <3>1, <3>2
  <2>5. \A i, k \in TurnsIn(u, p) :
           i < k /\ u[i].kind = u[k].kind =>
               \E j \in TurnsIn(u, p) :
                   i < j /\ j < k /\ u[j].kind # u[k].kind
    <3>1. SUFFICES ASSUME NEW i \in T \cup {z}, NEW k \in T \cup {z},
                          i < k, u[i].kind = u[k].kind
                   PROVE  \E j \in T \cup {z} :
                              i < j /\ j < k /\ u[j].kind # u[k].kind
      BY <2>2
    <3>2. CASE k \in T
      <4>1. i \in T
        BY <2>2, <3>1, <3>2
      <4> QED
        BY <2>3, <3>1, <3>2, <4>1
    <3>3. CASE k = z
      <4>1. i \in T
        BY <2>2, <3>1, <3>3
      <4> QED
        BY <1>2, <2>2, <2>4, <3>1, <3>3, <4>1
    <3> QED
      BY <3>2, <3>3
  <2>6. \A k \in TurnsIn(u, p) :
           u[k].kind = "exited" =>
               \E i \in TurnsIn(u, p) : i < k /\ u[i].kind = "spawned"
    <3>1. SUFFICES ASSUME NEW k \in T \cup {z}, u[k].kind = "exited"
                   PROVE  \E i \in T : i < k /\ u[i].kind = "spawned"
      BY <2>2
    <3>2. CASE k \in T
      <4>1. PICK i \in T : i < k /\ s[i].kind = "spawned"
        BY <1>2, <1>3, <3>1, <3>2
      <4> QED
        BY <1>2, <4>1
    <3>3. CASE k = z
      <4>1. p \in K
        BY <2>1, <2>2, <3>1, <3>3
      <4> QED
        BY <1>2, <1>3, <2>2, <3>3, <4>1
    <3> QED
      BY <3>2, <3>3
  <2>7. p \in L <=>
           \E k \in TurnsIn(u, p) : /\ u[k].kind = "spawned"
                                    /\ \A i \in TurnsIn(u, p) : i <= k
    <3>1. \A i \in T \cup {z} : i <= z
      BY <2>2
    <3>2. \A k \in T : ~(z <= k)
      BY <2>2
    <3>3. p \in L <=> u[z].kind = "spawned"
      BY <2>1, <2>2
    <3> QED
      BY <2>2, <3>1, <3>2, <3>3
  <2> QED
    BY <2>5, <2>6, <2>7
<1> QED
  BY <1>4, <1>5 DEF Turn, u

(***************************************************************************)
(* What is sent down the tracker's channel.                                *)
(***************************************************************************)

LEMMA Constants ==
    /\ Pids \subseteq Nat /\ Root \notin Pids /\ Nobody \notin Pids
    /\ IsFiniteSet(Pids) /\ IsFiniteSet(Conns) /\ MaxForks \in Nat
    /\ Root # Nobody
BY RecorderAssumption DEF Root, Nobody

\* The exits of S, each once.
LEMMA ExitsOf ==
    ASSUME NEW S \in SUBSET Pids
    PROVE  LET t == SetToSeq({Exited(p) : p \in S})
           IN  /\ t \in Seq(Events)
               /\ \A k \in DOMAIN t : t[k].kind = "exited"
               /\ \A p \in Pids : p \in S <=> \E k \in DOMAIN t : t[k] = Exited(p)
               /\ \A K : S \subseteq K => Turn(t, K, K \ S)
<1> DEFINE E == {Exited(p) : p \in S}
           t == SetToSeq(E)
<1>1. IsFiniteSet(E)
  <2> DEFINE f == [p \in S |-> Exited(p)]
  <2>1. f \in Surjection(S, E)
    BY DEF Surjection
  <2>2. IsFiniteSet(S)
    BY Constants, FS_Subset
  <2> QED
    BY <2>1, <2>2, FS_Surjection
<1>2. /\ t \in Seq(E)
      /\ \A i, k \in DOMAIN t : t[i] = t[k] => i = k
      /\ \A x \in E : \E i \in DOMAIN t : t[i] = x
  BY <1>1, ListProperties
<1>3. /\ E \subseteq Events
      /\ \A p \in S : Exited(p).kind = "exited" /\ Exited(p).pid = p
  BY EventFacts
<1>4. t \in Seq(Events)
  BY <1>2, <1>3, SeqMonotonic
<1> HIDE DEF t, E
<1>5. \A k \in DOMAIN t : t[k] \in E
  BY <1>2, LenProperties, ElementOfSeq
<1> USE DEF E
<1>6. \A k \in DOMAIN t : t[k].kind = "exited"
  BY <1>3, <1>5
<1>7. \A p \in Pids : p \in S <=> \E k \in DOMAIN t : t[k] = Exited(p)
  BY <1>2, <1>5, EventFacts
<1>8. ASSUME NEW K, S \subseteq K, NEW p \in Pids
      PROVE  \/ TurnsIn(t, p) = {} /\ (p \in K \ S <=> p \in K)
             \/ \E m \in TurnsIn(t, p) :
                   /\ TurnsIn(t, p) = {m}
                   /\ t[m].kind = "exited" /\ p \in K /\ p \notin K \ S
  <2>1. \A k \in TurnsIn(t, p) : k \in DOMAIN t /\ t[k] = Exited(p) /\ p \in S
    BY <1>3, <1>5, EventFacts DEF TurnsIn
  <2>2. CASE p \in S
    <3>1. PICK m \in DOMAIN t : t[m] = Exited(p)
      BY <1>7, <2>2
    <3>2. m \in TurnsIn(t, p)
      BY <3>1, EventFacts DEF TurnsIn
    <3>3. TurnsIn(t, p) = {m}
      BY <1>2, <2>1, <3>1, <3>2
    <3> QED
      BY <1>6, <1>8, <2>2, <3>1, <3>2, <3>3
  <2>3. CASE p \notin S
    BY <2>1, <2>3
  <2> QED
    BY <2>2, <2>3
<1> QED
  BY <1>4, <1>6, <1>7, <1>8 DEF Turn, t

\* The stream grows by t.
LEMMA StreamGrows ==
    ASSUME TypeOK, NEW t \in Seq(Events), Stream' = Stream \o t
    PROVE  /\ Paired /\ Turn(t, known, known') => Paired'
           /\ \A k \in OfKind(Stream, "spawned") : Stream'[k] = Stream[k]
           /\ \A k \in OfKind(Stream', "spawned") :
                 \/ k \in OfKind(Stream, "spawned")
                 \/ \E m \in OfKind(t, "spawned") :
                       k = Len(Stream) + m /\ Stream'[k] = t[m]
           /\ Len(Stream) \in Nat
<1>1. Stream \in Seq(Events)
  BY ConcatProperties DEF TypeOK, Stream
<1> DEFINE s == Stream
           u == s \o t
<1>2. /\ DOMAIN s = 1 .. Len(s) /\ DOMAIN t = 1 .. Len(t) /\ Len(s) \in Nat
      /\ \A i \in DOMAIN s : i \in DOMAIN u /\ u[i] = s[i]
      /\ \A i \in DOMAIN t : Len(s) + i \in DOMAIN u /\ u[Len(s) + i] = t[i]
      /\ \A k \in DOMAIN u :
            k \in DOMAIN s \/ \E i \in DOMAIN t : k = Len(s) + i
  BY <1>1, ConcatElements
<1>3. Paired /\ Turn(t, known, known') => Paired'
  <2>1. ASSUME PairedIn(s, known), Turn(t, known, known')
        PROVE  PairedIn(u, known')
    BY <1>1, <2>1, PairedExtends
  <2>2. PairedIn(Stream', known') => Paired'
    BY PairedMeans DEF Paired, PairedIn, Turns, TurnsIn
  <2> QED
    BY <2>1, <2>2, PairedMeans
<1> HIDE DEF u
<1>4. Stream' = u
  BY DEF u
<1>6. \A k \in OfKind(s, "spawned") : u[k] = s[k]
  BY <1>2 DEF OfKind
<1>7. \A k \in OfKind(u, "spawned") :
         \/ k \in OfKind(s, "spawned")
         \/ \E m \in OfKind(t, "spawned") : k = Len(s) + m /\ u[k] = t[m]
  BY <1>2 DEF OfKind
<1> QED
  BY <1>2, <1>3, <1>4, <1>6, <1>7

(***************************************************************************)
(* Steps that leave parts of the invariant alone.                          *)
(***************************************************************************)

LEMMA ReportedUnchanged ==
    ASSUME ReportedOnce, UNCHANGED <<log, netCh, seen>>
    PROVE  ReportedOnce'
<1>1. /\ \A i, k \in OfKind(log, "connection") :
            log[i].key = log[k].key => i = k
      /\ \A i, k \in OfKind(netCh, "connection") :
            netCh[i].key = netCh[k].key => i = k
  BY DEF ReportedOnce
<1>2. ASSUME NEW events \in {log', netCh'}, NEW i \in OfKind(events, "connection"),
             NEW k \in OfKind(events, "connection"), events[i].key = events[k].key
      PROVE  i = k
  BY <1>1, <1>2
<1>3. Keys(log') \cap Keys(netCh') = {} /\ Keys(log') \cup Keys(netCh') = seen'
  BY DEF ReportedOnce
<1> QED
  BY <1>2, <1>3 DEF ReportedOnce, Keys, OfKind

LEMMA SummaryUnchanged ==
    ASSUME SummaryRight, UNCHANGED <<mainPc, log, subprocesses, remotes>>
    PROVE  SummaryRight'
<1>1. /\ Subprocesses(Front(log')) = Subprocesses(Front(log))
      /\ Remotes(Front(log')) = Remotes(Front(log))
  OBVIOUS
<1>2. /\ OfKind(log', "end") = OfKind(log, "end")
      /\ OfKind(Front(log'), "end") = OfKind(Front(log), "end")
  OBVIOUS
<1> QED
  BY <1>1, <1>2 DEF SummaryRight

(***************************************************************************)
(* Steps of the agent.                                                     *)
(***************************************************************************)

\* Who adopts a child hangs from nothing but the ancestors of its parent: it is
\* in every set that has the parent, and with each of its members its parent.
LEMMA HeirsAreAbove ==
    ASSUME TypeOK, NEW q \in Pids, NEW heir \in Heirs(q),
           NEW X \in SUBSET Pids, q \in X,
           \A c \in X : parent[c] \in X \cup {Root, Nobody}
    PROVE  heir \in X \cup {Root, Nobody}
<1> DEFINE S == X \cup {Root, Nobody}
<1>1. /\ S \in SUBSET (Pids \cup {Root, Nobody}) /\ parent[q] \in S
      /\ \A p \in S \cap Pids : parent[p] \in S
  BY Constants
<1>2. \A r \in Ancestors(q) : r \in S
  BY <1>1 DEF Ancestors
<1> QED
  BY <1>2 DEF Heirs

\* What a step of the agent does to the tree: new processes have new pids, or
\* the count notices; who gets another parent has moved; and so has who comes
\* into a list of children without being new.
LEMMA AgentMoves ==
    ASSUME TypeOK, Agent, Cardinality(Used) <= forks
    PROVE  /\ TypeOK' /\ Cardinality(Used)' <= forks'
           /\ NoPidReused' =>
                /\ NoPidReused
                /\ \A q \in Pids \cup {Root}, c \in Pids :
                      c \in Children(q)' =>
                         c \in Children(q) \cup Moved \/ serial[c] = 0
                /\ \A c \in Pids : serial[c] # 0 => serial'[c] = serial[c]
                /\ \A c \in Pids : serial'[c] = 0 /\ status[c] = "free" =>
                      status'[c] = "free"
                /\ \A c \in Pids :
                      \/ serial[c] = 0
                      \/ parent'[c] \in {parent[c], Nobody}
                      \/ parent[c] \in Pids /\ parent'[c] \in Heirs(parent[c])
<1>1. UNCHANGED <<procPc, toCheck, pids, known, procCh, netPc, seen, netCh,
                  running, mainPc, log, subprocesses, remotes, reading>>
  BY DEF Agent, trackerVars, observerVars, mainVars, WhileReading
<1>2. IsFiniteSet(Used) /\ Cardinality(Used) \in Nat /\ forks \in Nat
  BY Constants, FS_Subset, FS_CardinalityType DEF Used, TypeOK, Serials
<1>3. sure' \subseteq listable' /\ listable' \subseteq Pids /\ shaken' \subseteq Pids
  <2>1. Children(reading)' \subseteq Pids /\ Moved \subseteq Pids
    BY DEF Children, Moved
  <2> QED
    BY <2>1 DEF Agent, WhileReading, TypeOK
<1>4. ASSUME status' \in [Pids -> {"free", "alive", "zombie"}],
             parent' \in [Pids -> Pids \cup {Root, Nobody}],
             offMain' \subseteq Pids, serial' \in [Pids -> Serials],
             forks' \in Serials, rootAlive' \in BOOLEAN
      PROVE  TypeOK'
  BY <1>1, <1>3, <1>4 DEF TypeOK, Serials, Events
<1>5. ASSUME NEW q \in Pids \cup {Root}, NEW p \in Pids, Fork(q, p)
      PROVE  /\ TypeOK' /\ Cardinality(Used)' <= forks'
             /\ NoPidReused' =>
                  /\ NoPidReused
                  /\ \A r \in Pids \cup {Root}, c \in Pids :
                        c \in Children(r)' =>
                           c \in Children(r) \cup Moved \/ serial[c] = 0
                  /\ \A c \in Pids : serial[c] # 0 => serial'[c] = serial[c]
                  /\ \A c \in Pids : serial'[c] = 0 /\ status[c] = "free" =>
                        status'[c] = "free"
                  /\ \A c \in Pids :
                        serial[c] = 0 \/ parent'[c] \in {parent[c], Nobody}
  <2>1. TypeOK'
    <3>1. /\ status' \in [Pids -> {"free", "alive", "zombie"}]
          /\ parent' \in [Pids -> Pids \cup {Root, Nobody}]
          /\ offMain' \subseteq Pids /\ serial' \in [Pids -> Serials]
          /\ forks' \in Serials /\ rootAlive' \in BOOLEAN
      BY <1>5, Constants DEF TypeOK, Fork, Serials
    <3> QED
      BY <1>4, <3>1
  <2>2. serial' = [serial EXCEPT ![p] = forks + 1] /\ forks' = forks + 1
    BY <1>5 DEF Fork
  <2>3. Used' = Used \cup {p}
    BY <1>2, <2>2 DEF Used, TypeOK
  <2>4. Cardinality(Used') =
          IF p \in Used THEN Cardinality(Used) ELSE Cardinality(Used) + 1
    BY <1>2, <2>3, FS_AddElement
  <2>5. Cardinality(Used)' <= forks'
    BY <1>2, <2>2, <2>4
  <2>6. ASSUME NoPidReused'
        PROVE  NoPidReused /\ serial[p] = 0
    <3>1. forks' = Cardinality(Used')
      BY <2>6 DEF NoPidReused, Used
    <3>2. p \notin Used /\ forks = Cardinality(Used)
      BY <1>2, <2>2, <2>4, <3>1
    <3> QED
      BY <3>2 DEF NoPidReused, Used
  <2>7. \A c \in Pids \ {p} :
           /\ status'[c] = status[c] /\ parent'[c] = parent[c]
           /\ serial'[c] = serial[c] /\ (c \in offMain' <=> c \in offMain)
    BY <1>5 DEF Fork, TypeOK
  <2>8. \A r \in Pids \cup {Root}, c \in Pids \ {p} :
           c \in Children(r)' => c \in Children(r)
    BY <2>7 DEF Children
  <2>9. serial'[p] # 0
    BY <1>2, <2>2 DEF TypeOK
  <2> QED
    BY <2>1, <2>5, <2>6, <2>7, <2>8, <2>9
<1>6. ASSUME \/ \E p \in Pids : Exits(p) \/ IsReaped(p)
             \/ \E q \in Pids \cup {Root} : ThreadEnds(q)
             \/ RootExits
      PROVE  /\ TypeOK' /\ UNCHANGED <<serial, forks>>
             /\ \A c \in Pids : status[c] = "free" => status'[c] = "free"
             /\ offMain' \subseteq offMain
             /\ \A c \in Pids :
                   \/ parent'[c] \in {parent[c], Nobody}
                   \/ parent[c] \in Pids /\ parent'[c] \in Heirs(parent[c])
  <2>1. CASE \E p \in Pids : Exits(p)
    <3>1. PICK p \in Pids : Exits(p)
      BY <2>1
    <3>2. PICK heir \in Heirs(p) : Orphaned(p, heir)
      BY <3>1 DEF Exits
    <3>3. /\ heir \in Pids \cup {Root, Nobody}
          /\ UNCHANGED <<serial, forks, rootAlive>>
          /\ status' = [status EXCEPT ![p] = "zombie"] /\ status[p] = "alive"
      BY <3>1, <3>2 DEF Heirs, Ancestors, Exits
    <3>4. /\ parent' = [c \in Pids |-> IF parent[c] = p THEN heir ELSE parent[c]]
          /\ offMain' \subseteq offMain
      BY <3>2 DEF Orphaned
    <3>5. TypeOK'
      <4>1. /\ status' \in [Pids -> {"free", "alive", "zombie"}]
            /\ parent' \in [Pids -> Pids \cup {Root, Nobody}]
            /\ offMain' \subseteq Pids
        BY <3>3, <3>4 DEF TypeOK
      <4> QED
        BY <1>4, <3>3, <4>1 DEF TypeOK
    <3>6. \A c \in Pids : status[c] = "free" => status'[c] = "free"
      BY <3>3 DEF TypeOK
    <3>7. \A c \in Pids :
             \/ parent'[c] = parent[c]
             \/ parent[c] = p /\ parent'[c] = heir
      BY <3>4
    <3> QED
      BY <3>2, <3>3, <3>4, <3>5, <3>6, <3>7
  <2>2. CASE \E p \in Pids : IsReaped(p)
    <3>1. PICK p \in Pids : IsReaped(p)
      BY <2>2
    <3>2. /\ UNCHANGED <<serial, forks, rootAlive, offMain>>
          /\ status' = [status EXCEPT ![p] = "free"]
          /\ parent' = [parent EXCEPT ![p] = Nobody]
      BY <3>1 DEF IsReaped
    <3>3. TypeOK'
      <4>1. /\ status' \in [Pids -> {"free", "alive", "zombie"}]
            /\ parent' \in [Pids -> Pids \cup {Root, Nobody}]
            /\ offMain' \subseteq Pids
        BY <3>2 DEF TypeOK
      <4> QED
        BY <1>4, <3>2, <4>1 DEF TypeOK
    <3> QED
      BY <3>2, <3>3 DEF TypeOK
  <2>3. CASE \E q \in Pids \cup {Root} : ThreadEnds(q)
    <3>1. /\ UNCHANGED <<serial, forks, rootAlive, status, parent>>
          /\ offMain' \subseteq offMain
      BY <2>3 DEF ThreadEnds
    <3>2. TypeOK'
      BY <1>4, <3>1 DEF TypeOK
    <3> QED
      BY <3>1, <3>2
  <2>4. CASE RootExits
    <3>1. /\ UNCHANGED <<serial, forks, status>> /\ rootAlive' = FALSE
          /\ parent' = [c \in Pids |->
                           IF parent[c] = Root THEN Nobody ELSE parent[c]]
          /\ offMain' \subseteq offMain
      BY <2>4 DEF RootExits, Orphaned
    <3>2. TypeOK'
      <4>1. /\ parent' \in [Pids -> Pids \cup {Root, Nobody}]
            /\ offMain' \subseteq Pids /\ rootAlive' \in BOOLEAN
        BY <3>1 DEF TypeOK
      <4> QED
        BY <1>4, <3>1, <4>1 DEF TypeOK
    <3> QED
      BY <3>1, <3>2
  <2> QED
    BY <1>6, <2>1, <2>2, <2>3, <2>4
<1>7. CASE \E q \in Pids \cup {Root}, p \in Pids : Fork(q, p)
  BY <1>5, <1>7
<1>8. CASE \/ \E p \in Pids : Exits(p) \/ IsReaped(p)
           \/ \E q \in Pids \cup {Root} : ThreadEnds(q)
           \/ RootExits
  <2>1. Used' = Used /\ (NoPidReused' => NoPidReused)
    BY <1>6, <1>8 DEF Used, NoPidReused
  <2>2. ASSUME NEW r \in Pids \cup {Root}, NEW c \in Pids, c \in Children(r)'
        PROVE  c \in Children(r) \cup Moved
    <3>1. status[c] # "free" /\ parent'[c] = r /\ c \notin offMain'
      BY <1>6, <1>8, <2>2 DEF Children
    <3> QED
      BY <3>1 DEF Children, Moved
  <2> QED
    BY <1>6, <1>8, <2>1, <2>2
<1> QED
  BY <1>7, <1>8 DEF Agent

\* A read in progress: who is in the list now can be read, and is sure to be,
\* when it was before; otherwise it has been shaken.
LEMMA ReadGoesOn ==
    ASSUME TypeOK, Phases, Agent
    PROVE  /\ listable' \subseteq listable \cup
                 (IF procPc = "read" THEN Children(reading)' ELSE {})
           /\ sure \subseteq sure' \cup shaken' \/ procPc # "read"
           /\ procPc \in {"walk", "read", "compare"} =>
                 shaken \cup Moved \subseteq shaken'
           /\ procPc # "read" => listable' = {}
BY DEF Agent, WhileReading, Phases

LEMMA AgentPreserves == IInv /\ Agent => IInv'
<1> SUFFICES ASSUME IInv, Agent PROVE IInv'
  OBVIOUS
<1>1. UNCHANGED <<procPc, toCheck, pids, known, procCh, netPc, seen, netCh,
                  running, mainPc, log, subprocesses, remotes, reading>>
  BY DEF Agent, trackerVars, observerVars, mainVars, WhileReading
<1>2. /\ TypeOK' /\ Cardinality(Used)' <= forks'
      /\ NoPidReused' =>
           /\ NoPidReused
           /\ \A q \in Pids \cup {Root}, c \in Pids :
                 c \in Children(q)' =>
                    c \in Children(q) \cup Moved \/ serial[c] = 0
           /\ \A c \in Pids : serial[c] # 0 => serial'[c] = serial[c]
           /\ \A c \in Pids : serial'[c] = 0 /\ status[c] = "free" =>
                 status'[c] = "free"
           /\ \A c \in Pids :
                 \/ serial[c] = 0
                 \/ parent'[c] \in {parent[c], Nobody}
                 \/ parent[c] \in Pids /\ parent'[c] \in Heirs(parent[c])
  BY AgentMoves DEF IInv
<1>3. /\ listable' \subseteq listable \cup
            (IF procPc = "read" THEN Children(reading)' ELSE {})
      /\ sure \subseteq sure' \cup shaken' \/ procPc # "read"
      /\ procPc \in {"walk", "read", "compare"} =>
            shaken \cup Moved \subseteq shaken'
      /\ procPc # "read" => listable' = {}
  BY ReadGoesOn DEF IInv
<1>4. Phases'
  BY <1>1, <1>3 DEF IInv, Phases
<1>5. Stream' = Stream /\ Met' = Met
  BY <1>1 DEF Stream, Met
<1>6. Paired'
  BY <1>1, <1>5 DEF IInv, Paired, Turns
<1>7. ReportedOnce' /\ SummaryRight'
  BY <1>1, SummaryUnchanged, ReportedUnchanged DEF IInv
<1>8. ASSUME NoPidReused'
      PROVE  WalkInv'
  <2>1. /\ WalkInv /\ TypeOK /\ Phases
        /\ pids \subseteq Pids /\ known \subseteq Pids /\ listable \subseteq Pids
        /\ Met \subseteq Pids
    BY <1>2, <1>8 DEF IInv, TypeOK, Met
  <2>2. \A c \in Pids : serial'[c] = 0 => serial[c] = 0
    BY <1>2, <1>8
  <2>3. \A c \in Pids \ Used' :
           c \notin known \cup pids \cup listable /\ status[c] = "free"
                                               /\ status'[c] = "free"
    BY <1>2, <1>8, <2>1, <2>2 DEF WalkInv, Used
  <2>4. \A c \in Children(reading)' : c \in Used' /\ parent'[c] = reading
    BY <1>1, <2>3 DEF Children
  <2>5. ASSUME NEW X \in SUBSET Pids, NEW c \in Pids, serial[c] # 0,
               \A x \in X : parent[x] \in X \cup {Root, Nobody},
               parent[c] \in X \cup {Root, Nobody}
        PROVE  parent'[c] \in X \cup {Root, Nobody}
    <3>1. CASE parent'[c] \in {parent[c], Nobody}
      BY <2>5, <3>1
    <3>2. CASE parent[c] \in Pids /\ parent'[c] \in Heirs(parent[c])
      <4>1. parent[c] \in X
        BY <2>5, <3>2, Constants
      <4> QED
        BY <2>1, <2>5, <3>2, <4>1, HeirsAreAbove
    <3> QED
      BY <1>2, <1>8, <2>5, <3>1, <3>2
  <2>6. \A c \in known \cup pids \cup listable : serial[c] # 0
    BY <2>1 DEF WalkInv, Used
  <2>7. \A c \in pids \cup listable :
           parent'[c] \in pids \cup {Root, Nobody}
    <3>1. \A c \in pids \cup listable : parent[c] \in pids \cup {Root, Nobody}
      BY <2>1 DEF WalkInv
    <3> QED
      BY <2>1, <2>5, <2>6, <3>1
  <2>8. \A c \in pids \cup listable' :
           parent'[c] \in pids \cup {Root, Nobody}
    BY <1>3, <2>1, <2>4, <2>7 DEF Phases
  <2>9. \A c \in Met : parent'[c] \in Met \cup {Root, Nobody}
    <3>1. \A c \in Met :
             /\ parent[c] \in Met \cup {Root, Nobody}
             /\ serial[c] # 0
      BY <2>1, <2>6 DEF WalkInv, Met
    <3> QED
      BY <2>1, <2>5, <3>1
  <2>10. ASSUME procPc \in {"walk", "read", "compare"},
                NEW q \in Pids \cup {Root},
                NEW c \in (Children(q)' \cap known) \ shaken'
         PROVE  /\ q = reading => c \in sure'
                /\ q \in ((pids \cup {Root}) \ toCheck) \ {reading} => c \in pids
    <3>1. c \in (Children(q) \cap known) \ shaken
      BY <1>2, <1>3, <1>8, <2>1, <2>6, <2>10
    <3>2. /\ q = reading => c \in sure
          /\ q \in ((pids \cup {Root}) \ toCheck) \ {reading} => c \in pids
      BY <2>1, <2>10, <3>1 DEF WalkInv
    <3>3. q = reading => procPc = "read"
      BY <2>1, Constants DEF Phases
    <3> QED
      BY <1>3, <2>10, <3>2, <3>3
  <2>11. \A k \in OfKind(Stream, "spawned") :
            /\ Stream[k].pid \in Used'
            /\ Stream[k].argv \in {0, serial'[Stream[k].pid]}
    <3>1. \A p \in Used : p \in Used' /\ serial'[p] = serial[p]
      BY <1>2, <1>8 DEF Used
    <3> QED
      BY <2>1, <3>1 DEF WalkInv
  <2>12. \A c \in Pids \ Used' :
            c \notin known \cup pids \cup listable' /\ status'[c] = "free"
    BY <1>3, <2>3, <2>4
  <2> QED
    BY <1>1, <1>5, <2>8, <2>9, <2>10, <2>11, <2>12 DEF WalkInv, OfKind
<1> QED
  BY <1>2, <1>4, <1>6, <1>7, <1>8 DEF IInv

(***************************************************************************)
(* Steps that say nothing of a process.                                    *)
(***************************************************************************)

LEMMA OneEvent ==
    ASSUME NEW e \in Events
    PROVE  /\ <<e>> \in Seq(Events) /\ DOMAIN <<e>> = {1} /\ <<e>>[1] = e
           /\ Len(<<e>>) = 1
           /\ \A p \in Pids :
                 TurnsIn(<<e>>, p) =
                    IF e.kind \in {"spawned", "exited"} /\ e.pid = p
                    THEN {1} ELSE {}
<1>1. <<e>> \in Seq(Events) /\ DOMAIN <<e>> = {1} /\ <<e>>[1] = e /\ Len(<<e>>) = 1
  OBVIOUS
<1> QED
  BY <1>1 DEF TurnsIn

LEMMA Appending ==
    ASSUME NEW s \in Seq(Events), NEW t \in Seq(Events), NEW e \in Events
    PROVE  /\ Append(s, e) = s \o <<e>>
           /\ s \o Append(t, e) = (s \o t) \o <<e>>
           /\ t # <<>> => /\ Head(t) \in Events /\ Tail(t) \in Seq(Events)
                          /\ Append(s, Head(t)) \o Tail(t) = s \o t
<1>1. /\ Append(s, e) = s \o <<e>> /\ Append(t, e) = t \o <<e>>
      /\ <<e>> \in Seq(Events)
  BY AppendIsConcat
<1>2. s \o Append(t, e) = (s \o t) \o <<e>>
  BY <1>1, ConcatAssociative
<1>3. ASSUME t # <<>>
      PROVE  /\ Head(t) \in Events /\ Tail(t) \in Seq(Events)
             /\ Append(s, Head(t)) \o Tail(t) = s \o t
  <2>1. /\ Head(t) \in Events /\ Tail(t) \in Seq(Events)
        /\ t = <<Head(t)>> \o Tail(t)
    BY <1>3, HeadTailProperties
  <2>2. Append(s, Head(t)) = s \o <<Head(t)>> /\ <<Head(t)>> \in Seq(Events)
    BY <2>1, AppendIsConcat
  <2>3. (s \o <<Head(t)>>) \o Tail(t) = s \o (<<Head(t)>> \o Tail(t))
    BY <2>1, <2>2, ConcatAssociative
  <2> QED
    BY <2>1, <2>2, <2>3
<1> QED
  BY <1>1, <1>2, <1>3

\* The walk does not notice what is no spawn.
LEMMA WalkUnchanged ==
    ASSUME WalkInv,
           UNCHANGED <<agentVars, readVars, procPc, toCheck, pids, known>>,
           \A k \in OfKind(Stream, "spawned") : Stream'[k] = Stream[k],
           OfKind(Stream', "spawned") \subseteq OfKind(Stream, "spawned")
    PROVE  WalkInv'
<1>1. /\ UNCHANGED <<status, parent, serial, offMain, forks>>
      /\ UNCHANGED <<reading, listable, sure, shaken>>
      /\ Met' = Met /\ Used' = Used
      /\ \A q : Children(q)' = Children(q)
  BY DEF agentVars, readVars, Met, Used, Children
<1>2. \A k \in OfKind(Stream', "spawned") :
         /\ Stream'[k].pid \in Used'
         /\ Stream'[k].argv \in {0, serial'[Stream'[k].pid]}
  BY <1>1 DEF WalkInv
<1>3. \A p \in Pids \ Used' :
         p \notin known' \cup pids' \cup listable' /\ status'[p] = "free"
  BY <1>1 DEF WalkInv
<1>4. /\ \A c \in pids' \cup listable' : parent'[c] \in pids' \cup {Root, Nobody}
      /\ \A c \in Met' : parent'[c] \in Met' \cup {Root, Nobody}
  BY <1>1 DEF WalkInv
<1>5. procPc' \in {"walk", "read", "compare"} =>
         \A q \in Pids \cup {Root} :
            \A c \in (Children(q)' \cap known') \ shaken' :
               /\ q = reading' => c \in sure'
               /\ q \in ((pids' \cup {Root}) \ toCheck') \ {reading'} => c \in pids'
  BY <1>1 DEF WalkInv
<1> QED
  BY <1>2, <1>3, <1>4, <1>5 DEF WalkInv, OfKind

LEMMA Silent ==
    ASSUME IInv,
           UNCHANGED <<agentVars, readVars, procPc, toCheck, pids, known>>,
           \/ Stream' = Stream
           \/ \E e \in Events : /\ e.kind \in {"connection", "end"}
                                /\ Stream' = Stream \o <<e>>
    PROVE  /\ Paired' /\ Cardinality(Used)' <= forks'
           /\ NoPidReused' => WalkInv'
<1>1. Cardinality(Used)' <= forks' /\ (NoPidReused' <=> NoPidReused)
  BY DEF IInv, agentVars, Used, NoPidReused
<1>2. CASE Stream' = Stream
  <2>1. Paired'
    BY <1>2 DEF IInv, Paired, Turns
  <2> QED
    BY <1>1, <1>2, <2>1, WalkUnchanged DEF IInv
<1>3. ASSUME NEW e \in Events, e.kind \in {"connection", "end"},
             Stream' = Stream \o <<e>>
      PROVE  Paired' /\ (NoPidReused' => WalkInv')
  <2> DEFINE t == <<e>>
  <2>1. /\ t \in Seq(Events) /\ DOMAIN t = {1} /\ t[1] = e
        /\ \A p \in Pids : TurnsIn(t, p) = {}
    BY <1>3, OneEvent
  <2> HIDE DEF t
  <2>2. Turn(t, known, known')
    BY <2>1 DEF Turn
  <2>3. OfKind(t, "spawned") = {}
    BY <1>3, <2>1 DEF OfKind
  <2>4. /\ Paired /\ Turn(t, known, known') => Paired'
        /\ \A k \in OfKind(Stream, "spawned") : Stream'[k] = Stream[k]
        /\ \A k \in OfKind(Stream', "spawned") :
              \/ k \in OfKind(Stream, "spawned")
              \/ \E m \in OfKind(t, "spawned") :
                    k = Len(Stream) + m /\ Stream'[k] = t[m]
    BY <1>3, <2>1, StreamGrows DEF IInv, t
  <2>5. OfKind(Stream', "spawned") \subseteq OfKind(Stream, "spawned")
    BY <2>3, <2>4
  <2> QED
    BY <1>1, <2>2, <2>4, <2>5, WalkUnchanged DEF IInv
<1> QED
  BY <1>1, <1>2, <1>3

(***************************************************************************)
(* The initial state.                                                      *)
(***************************************************************************)

LEMMA InitHolds == Init => IInv
<1> SUFFICES ASSUME Init PROVE IInv
  OBVIOUS
<1>1. TypeOK
  BY Constants DEF Init, TypeOK, Serials, Events
<1>2. Phases
  BY DEF Init, Phases
<1>3. Stream = <<>> /\ known = {} /\ pids = {}
  BY DEF Init, Stream
<1>4. Paired
  BY <1>3 DEF Paired, Turns
<1>5. ReportedOnce /\ SummaryRight
  BY DEF Init, ReportedOnce, SummaryRight, Keys, OfKind
<1>6. Cardinality(Used) <= forks
  <2>1. Used = {} /\ forks = 0
    BY DEF Init, Used
  <2> QED
    BY <2>1, FS_EmptySet
<1>7. WalkInv
  <2>1. OfKind(Stream, "spawned") = {} /\ Met = {} /\ listable = {}
    BY <1>3 DEF OfKind, Met, Init
  <2> QED
    BY <1>3, <2>1 DEF WalkInv, Init, Used
<1> QED
  BY <1>1, <1>2, <1>4, <1>5, <1>6, <1>7 DEF IInv

(***************************************************************************)
(* Steps of the tracker.                                                   *)
(***************************************************************************)

\* What the tracker leaves alone.
LEMMA TrackerLeaves ==
    ASSUME IInv, UNCHANGED <<agentVars, observerVars, mainVars>>
    PROVE  /\ UNCHANGED <<rootAlive, status, parent, serial, offMain, forks,
                          running, netPc, seen, netCh, mainPc, log,
                          subprocesses, remotes>>
           /\ ReportedOnce' /\ SummaryRight' /\ Cardinality(Used)' <= forks'
           /\ NoPidReused' => NoPidReused
           /\ Used' = Used
           /\ \A q : Children(q)' = Children(q)
<1>1. UNCHANGED <<rootAlive, status, parent, serial, offMain, forks,
                  running, netPc, seen, netCh, mainPc, log,
                  subprocesses, remotes>>
  BY DEF agentVars, observerVars, mainVars
<1>2. ReportedOnce' /\ SummaryRight'
  BY <1>1, ReportedUnchanged, SummaryUnchanged DEF IInv
<1>3. Cardinality(Used)' <= forks' /\ (NoPidReused' => NoPidReused)
  BY <1>1 DEF IInv, Used, NoPidReused
<1>4. Used' = Used /\ \A q : Children(q)' = Children(q)
  BY <1>1 DEF Children, Used
<1> QED
  BY <1>1, <1>2, <1>3, <1>4

LEMMA PollStartsPreserves ==
    ASSUME IInv, PollStarts, UNCHANGED <<agentVars, observerVars, mainVars>>
    PROVE  IInv'
<1>1. /\ UNCHANGED <<rootAlive, status, parent, serial, offMain, forks,
                     running, netPc, seen, netCh, mainPc, log,
                     subprocesses, remotes>>
      /\ ReportedOnce' /\ SummaryRight' /\ Cardinality(Used)' <= forks'
      /\ NoPidReused' => NoPidReused
      /\ Used' = Used
      /\ \A q : Children(q)' = Children(q)
  BY TrackerLeaves
<1>2. /\ procPc = "sleep" /\ running
      /\ procPc' = "walk" /\ toCheck' = {Root} /\ pids' = {}
      /\ known' = known /\ procCh' = procCh
  BY DEF PollStarts
<1>3. TypeOK'
  BY <1>1, <1>2 DEF IInv, TypeOK, Serials, Events, PollStarts, readVars
<1>4. Phases'
  BY <1>1, <1>2 DEF IInv, Phases, PollStarts, readVars
<1>5. Stream' = Stream
  BY <1>1, <1>2 DEF Stream
<1>6. Paired'
  BY <1>2, <1>5 DEF IInv, Paired, Turns
<1>7. Met' = known /\ Met = known
  BY <1>2 DEF Met
<1>8. UNCHANGED <<reading, listable, sure, shaken>> /\ listable = {}
  BY <1>2 DEF PollStarts, readVars, IInv, Phases
<1>9. ASSUME NoPidReused'
      PROVE  WalkInv'
  <2>1. WalkInv
    BY <1>1, <1>9 DEF IInv
  <2>2. \A p \in Pids \ Used' :
           p \notin known' \cup pids' \cup listable' /\ status'[p] = "free"
    BY <1>1, <1>2, <1>8, <2>1 DEF WalkInv
  <2>3. /\ \A c \in pids' \cup listable' :
              parent'[c] \in pids' \cup {Root, Nobody}
        /\ \A c \in Met' : parent'[c] \in Met' \cup {Root, Nobody}
    BY <1>1, <1>2, <1>7, <1>8, <2>1 DEF WalkInv
  <2>4. \A q \in Pids \cup {Root} :
           /\ q # reading'
           /\ q \notin (pids' \cup {Root}) \ toCheck'
    BY <1>2, <1>8, Constants DEF IInv, Phases
  <2>5. \A k \in OfKind(Stream', "spawned") :
           /\ Stream'[k].pid \in Used'
           /\ Stream'[k].argv \in {0, serial'[Stream'[k].pid]}
    BY <1>1, <1>5, <2>1 DEF WalkInv
  <2> QED
    BY <2>2, <2>3, <2>4, <2>5 DEF WalkInv, OfKind
<1> QED
  BY <1>1, <1>3, <1>4, <1>6, <1>9 DEF IInv

LEMMA ReadStartsPreserves ==
    ASSUME IInv, ReadStarts, UNCHANGED <<agentVars, observerVars, mainVars>>
    PROVE  IInv'
<1>1. /\ UNCHANGED <<rootAlive, status, parent, serial, offMain, forks,
                     running, netPc, seen, netCh, mainPc, log,
                     subprocesses, remotes>>
      /\ ReportedOnce' /\ SummaryRight' /\ Cardinality(Used)' <= forks'
      /\ NoPidReused' => NoPidReused
      /\ Used' = Used
      /\ \A q : Children(q)' = Children(q)
  BY TrackerLeaves
<1>2. PICK q \in toCheck : /\ reading' = q
                           /\ listable' = Children(q) /\ sure' = Children(q)
                           /\ toCheck' = toCheck \ {q}
  BY DEF ReadStarts
<1>3. /\ procPc = "walk" /\ procPc' = "read"
      /\ UNCHANGED <<pids, known, procCh, shaken>>
  BY DEF ReadStarts
<1>4. /\ q \in pids \cup {Root} /\ Children(q) \subseteq Pids
      /\ \A c \in Children(q) : parent[c] = q /\ status[c] # "free"
      /\ pids \subseteq Pids /\ reading = Nobody
  BY <1>2, <1>3 DEF IInv, Phases, TypeOK, Children
<1>5. TypeOK'
  BY <1>1, <1>2, <1>3, <1>4 DEF IInv, TypeOK, Serials, Events
<1>6. Phases'
  BY <1>1, <1>2, <1>3, <1>4 DEF IInv, Phases
<1>7. Stream' = Stream /\ Met' = Met
  BY <1>1, <1>3 DEF Stream, Met
<1>8. Paired'
  BY <1>3, <1>7 DEF IInv, Paired, Turns
<1>9. ASSUME NoPidReused'
      PROVE  WalkInv'
  <2>1. WalkInv
    BY <1>1, <1>9 DEF IInv
  <2>2. \A p \in Pids \ Used' :
           p \notin known' \cup pids' \cup listable' /\ status'[p] = "free"
    BY <1>1, <1>2, <1>3, <1>4, <2>1 DEF WalkInv
  <2>3. /\ \A c \in pids' \cup listable' :
              parent'[c] \in pids' \cup {Root, Nobody}
        /\ \A c \in Met' : parent'[c] \in Met' \cup {Root, Nobody}
    BY <1>1, <1>2, <1>3, <1>4, <1>7, <2>1 DEF WalkInv
  <2>4. ASSUME NEW r \in Pids \cup {Root},
               NEW c \in (Children(r)' \cap known') \ shaken'
        PROVE  /\ r = reading' => c \in sure'
               /\ r \in ((pids' \cup {Root}) \ toCheck') \ {reading'} => c \in pids'
    <3>1. r \in (pids \cup {Root}) \ toCheck => c \in pids
      BY <1>1, <1>3, <1>4, <2>1, <2>4, Constants DEF WalkInv
    <3> QED
      BY <1>1, <1>2, <1>3, <3>1
  <2>5. \A k \in OfKind(Stream', "spawned") :
           /\ Stream'[k].pid \in Used'
           /\ Stream'[k].argv \in {0, serial'[Stream'[k].pid]}
    BY <1>1, <1>7, <2>1 DEF WalkInv
  <2> QED
    BY <2>2, <2>3, <2>4, <2>5 DEF WalkInv, OfKind
<1> QED
  BY <1>1, <1>5, <1>6, <1>8, <1>9 DEF IInv

LEMMA ReadEndsPreserves ==
    ASSUME IInv, ReadEnds, UNCHANGED <<agentVars, observerVars, mainVars>>
    PROVE  IInv'
<1>1. /\ UNCHANGED <<rootAlive, status, parent, serial, offMain, forks,
                     running, netPc, seen, netCh, mainPc, log,
                     subprocesses, remotes>>
      /\ ReportedOnce' /\ SummaryRight' /\ Cardinality(Used)' <= forks'
      /\ NoPidReused' => NoPidReused
      /\ Used' = Used
      /\ \A q : Children(q)' = Children(q)
  BY TrackerLeaves
<1>2. PICK S \in SUBSET listable : sure \subseteq S /\ Walk(S)
  BY DEF ReadEnds
<1>3. /\ procPc = "read" /\ procPc' \in {"walk", "compare"}
      /\ procPc' = "compare" => toCheck' = {}
      /\ UNCHANGED <<known, procCh, shaken>>
      /\ reading' = Nobody /\ listable' = {} /\ sure' = {}
      /\ pids' = pids \cup S /\ toCheck' = toCheck \cup S
  BY <1>2 DEF ReadEnds, Walk
<1>4. /\ S \subseteq Pids /\ pids \subseteq Pids /\ known \subseteq Pids
      /\ reading \in pids \cup {Root}
      /\ Root \notin Pids /\ Nobody \notin Pids
  BY <1>2, <1>3, Constants DEF IInv, TypeOK, Phases
<1>5. TypeOK'
  BY <1>1, <1>3, <1>4 DEF IInv, TypeOK, Serials, Events
<1>6. Phases'
  BY <1>1, <1>3, <1>4 DEF IInv, Phases
<1>7. /\ Stream' = Stream /\ Met = known
      /\ Met' = known \cup (IF procPc' = "compare" THEN pids' ELSE {})
  BY <1>1, <1>3 DEF Stream, Met
<1>8. Paired'
  BY <1>3, <1>7 DEF IInv, Paired, Turns
<1>9. ASSUME NoPidReused'
      PROVE  WalkInv'
  <2>1. WalkInv
    BY <1>1, <1>9 DEF IInv
  <2>2. \A p \in Pids \ Used' :
           p \notin known' \cup pids' \cup listable' /\ status'[p] = "free"
    BY <1>1, <1>2, <1>3, <2>1 DEF WalkInv
  <2>3. \A c \in pids' : parent'[c] \in pids' \cup {Root, Nobody}
    BY <1>1, <1>2, <1>3, <2>1 DEF WalkInv
  <2>4. \A c \in Met' : parent'[c] \in Met' \cup {Root, Nobody}
    BY <1>1, <1>7, <2>1, <2>3 DEF WalkInv
  <2>5. ASSUME NEW r \in Pids \cup {Root},
               NEW c \in (Children(r)' \cap known') \ shaken',
               r \in ((pids' \cup {Root}) \ toCheck') \ {reading'}
        PROVE  c \in pids'
    <3>1. /\ r = reading => c \in sure
          /\ r \in ((pids \cup {Root}) \ toCheck) \ {reading} => c \in pids
      BY <1>1, <1>3, <2>1, <2>5 DEF WalkInv
    <3>2. r \in (pids \cup {Root}) \ toCheck
      BY <1>3, <2>5
    <3> QED
      BY <1>2, <1>3, <3>1, <3>2
  <2>6. \A k \in OfKind(Stream', "spawned") :
           /\ Stream'[k].pid \in Used'
           /\ Stream'[k].argv \in {0, serial'[Stream'[k].pid]}
    BY <1>1, <1>7, <2>1 DEF WalkInv
  <2>7. \A r \in Pids \cup {Root} : r # reading'
    BY <1>3, Constants
  <2> QED
    BY <1>3, <2>2, <2>3, <2>4, <2>5, <2>6, <2>7 DEF WalkInv, OfKind
<1> QED
  BY <1>1, <1>5, <1>6, <1>8, <1>9 DEF IInv

\* A spawn of a pid that is no longer known was followed by an exit.
LEMMA SpawnThenExit ==
    ASSUME TypeOK, Paired, NEW i \in OfKind(Stream, "spawned"),
           Stream[i].pid \in Pids \ known
    PROVE  \E x \in DOMAIN Stream :
               i < x /\ Stream[x].kind = "exited" /\ Stream[x] = Exited(Stream[i].pid)
<1> DEFINE p == Stream[i].pid
<1>1. Stream \in Seq(Events)
  BY ConcatProperties DEF Stream, TypeOK
<1>2. i \in Turns(p) /\ Stream[i].kind = "spawned"
  BY DEF OfKind, Turns
<1>3. Turns(p) \subseteq Nat
  BY <1>1, LenProperties DEF Turns
<1>4. PICK j \in Turns(p) : ~(j <= i)
  BY <1>2 DEF Paired
<1>5. i < j
  BY <1>2, <1>3, <1>4
<1>6. PICK x \in Turns(p) : i < x /\ Stream[x].kind = "exited"
  <2>1. Stream[j].kind \in {"spawned", "exited"}
    BY DEF Turns
  <2>2. CASE Stream[j].kind = "spawned"
    <3>1. PICK x \in Turns(p) : i < x /\ Stream[x].kind # "spawned"
      BY <1>2, <1>5, <2>2 DEF Paired
    <3> QED
      BY <3>1 DEF Turns
  <2> QED
    BY <1>5, <2>1, <2>2
<1>7. Stream[x] \in Events /\ Stream[x].pid = p /\ x \in DOMAIN Stream
  BY <1>1, LenProperties, ElementOfSeq DEF Turns
<1>8. Stream[x] = Exited(p)
  BY <1>6, <1>7, EventFacts
<1> QED
  BY <1>6, <1>7, <1>8

LEMMA RecordSpawnPreserves ==
    ASSUME IInv, RecordSpawn, UNCHANGED <<agentVars, observerVars, mainVars>>
    PROVE  IInv'
<1>1. /\ UNCHANGED <<rootAlive, status, parent, serial, offMain, forks,
                     running, netPc, seen, netCh, mainPc, log,
                     subprocesses, remotes>>
      /\ ReportedOnce' /\ SummaryRight' /\ Cardinality(Used)' <= forks'
      /\ NoPidReused' => NoPidReused
      /\ Used' = Used
      /\ \A q : Children(q)' = Children(q)
  BY TrackerLeaves
<1>2. PICK p \in pids \ known :
         /\ known' = known \cup {p}
         /\ procCh' = Append(procCh, Spawned(p, Argv(p)))
  BY DEF RecordSpawn
<1> DEFINE e == Spawned(p, Argv(p))
           t == <<e>>
<1>3. /\ procPc = "compare" /\ procPc' = "compare"
      /\ UNCHANGED <<toCheck, pids, reading, listable, sure, shaken>>
      /\ p \in Pids /\ pids \subseteq Pids /\ known \subseteq Pids
      /\ log \in Seq(Events) /\ procCh \in Seq(Events)
  BY <1>2 DEF RecordSpawn, IInv, TypeOK, readVars
<1>4. Argv(p) \in Serials
  BY <1>3, Constants DEF Argv, IInv, TypeOK, Serials
<1>5. /\ e \in Events /\ e.kind = "spawned" /\ e.pid = p
      /\ e.argv \in {0, serial[p]}
  <2>1. e.argv = Argv(p)
    BY DEF Spawned
  <2> QED
    BY <1>3, <1>4, <2>1, EventFacts DEF Argv
<1> HIDE DEF e
<1>6. procCh' = Append(procCh, e)
  BY <1>2 DEF e
<1>7. /\ t \in Seq(Events) /\ DOMAIN t = {1} /\ t[1] = e
      /\ \A r \in Pids : TurnsIn(t, r) = IF r = p THEN {1} ELSE {}
  BY <1>5, OneEvent
<1>8. Stream' = Stream \o t
  BY <1>1, <1>3, <1>5, <1>6, Appending DEF Stream
<1> HIDE DEF t
<1>9. TypeOK'
  <2>1. procCh' \in Seq(Events)
    BY <1>3, <1>5, <1>6
  <2> QED
    BY <1>1, <1>2, <1>3, <2>1 DEF IInv, TypeOK, Serials, Events
<1>10. Phases'
  <2>1. \A k \in DOMAIN procCh' : procCh'[k].kind \in {"spawned", "exited"}
    BY <1>3, <1>5, <1>6 DEF IInv, Phases
  <2>2. mainPc \notin {"summary", "saved"}
    BY <1>3 DEF IInv, Phases
  <2> QED
    BY <1>1, <1>2, <1>3, <2>1, <2>2 DEF IInv, Phases
<1>11. Turn(t, known, known')
  BY <1>2, <1>3, <1>5, <1>7 DEF Turn
<1>12. /\ Paired'
       /\ \A k \in OfKind(Stream, "spawned") : Stream'[k] = Stream[k]
       /\ \A k \in OfKind(Stream', "spawned") :
             \/ k \in OfKind(Stream, "spawned")
             \/ \E m \in OfKind(t, "spawned") :
                   k = Len(Stream) + m /\ Stream'[k] = t[m]
  BY <1>7, <1>8, <1>11, StreamGrows DEF IInv
<1>13. Met' = Met
  BY <1>2, <1>3 DEF Met
<1>14. ASSUME NoPidReused'
       PROVE  WalkInv'
  <2>1. WalkInv /\ reading = Nobody
    BY <1>1, <1>3, <1>14 DEF IInv, Phases
  <2>2. \A r \in Pids \ Used' :
           r \notin known' \cup pids' \cup listable' /\ status'[r] = "free"
    BY <1>1, <1>2, <1>3, <2>1 DEF WalkInv
  <2>3. /\ \A c \in pids' \cup listable' :
              parent'[c] \in pids' \cup {Root, Nobody}
        /\ \A c \in Met' : parent'[c] \in Met' \cup {Root, Nobody}
    BY <1>1, <1>3, <1>13, <2>1 DEF WalkInv
  <2>4. ASSUME NEW r \in Pids \cup {Root},
               NEW c \in (Children(r)' \cap known') \ shaken'
        PROVE  /\ r # reading'
               /\ r \in ((pids' \cup {Root}) \ toCheck') \ {reading'} => c \in pids'
    <3>1. CASE c = p
      BY <1>2, <1>3, <2>1, <3>1, Constants
    <3>2. CASE c \in known
      BY <1>1, <1>3, <2>1, <2>4, <3>2, Constants DEF WalkInv
    <3> QED
      BY <1>2, <2>4, <3>1, <3>2
  <2>5. ASSUME NEW k \in OfKind(Stream', "spawned")
        PROVE  /\ Stream'[k].pid \in Used'
               /\ Stream'[k].argv \in {0, serial'[Stream'[k].pid]}
    <3>1. CASE k \in OfKind(Stream, "spawned")
      BY <1>1, <1>12, <2>1, <3>1 DEF WalkInv
    <3>2. CASE k \notin OfKind(Stream, "spawned")
      <4>1. Stream'[k] = e
        BY <1>7, <1>12, <2>5, <3>2 DEF OfKind
      <4>2. p \in Used
        BY <1>2, <1>3, <2>1 DEF WalkInv
      <4> QED
        BY <1>1, <1>5, <4>1, <4>2
    <3> QED
      BY <3>1, <3>2
  <2> QED
    BY <2>2, <2>3, <2>4, <2>5 DEF WalkInv, OfKind
<1> QED
  BY <1>1, <1>9, <1>10, <1>12, <1>14 DEF IInv

\* The exits of some known processes, one by one in any order.
LEMMA Forgetting ==
    ASSUME IInv, NEW S \in SUBSET known, Forget(S), log' = log
    PROVE  /\ procCh' \in Seq(Events) /\ Paired'
           /\ \A k \in DOMAIN procCh' : procCh'[k].kind \in {"spawned", "exited"}
           /\ \A k \in OfKind(Stream', "spawned") :
                 k \in OfKind(Stream, "spawned") /\ Stream'[k] = Stream[k]
<1> DEFINE t == SetToSeq({Exited(p) : p \in S})
<1>1. /\ S \in SUBSET Pids /\ log \in Seq(Events) /\ procCh \in Seq(Events)
      /\ known' = known \ S /\ procCh' = procCh \o t
  BY DEF IInv, TypeOK, Forget
<1>2. /\ t \in Seq(Events)
      /\ \A k \in DOMAIN t : t[k].kind = "exited"
      /\ \A p \in Pids : p \in S <=> \E k \in DOMAIN t : t[k] = Exited(p)
      /\ Turn(t, known, known \ S)
  BY <1>1, ExitsOf
<1> HIDE DEF t
<1>3. Stream' = Stream \o t
  BY <1>1, <1>2, ConcatAssociative DEF Stream
<1>4. /\ Paired /\ Turn(t, known, known') => Paired'
      /\ \A k \in OfKind(Stream, "spawned") : Stream'[k] = Stream[k]
      /\ \A k \in OfKind(Stream', "spawned") :
            \/ k \in OfKind(Stream, "spawned")
            \/ \E m \in OfKind(t, "spawned") :
                  k = Len(Stream) + m /\ Stream'[k] = t[m]
  BY <1>2, <1>3, StreamGrows DEF IInv
<1>5. OfKind(t, "spawned") = {}
  BY <1>2 DEF OfKind
<1>6. /\ procCh' \in Seq(Events)
      /\ \A k \in DOMAIN procCh' : procCh'[k].kind \in {"spawned", "exited"}
  <2>1. \A k \in DOMAIN procCh : procCh[k].kind \in {"spawned", "exited"}
    BY DEF IInv, Phases
  <2>2. /\ procCh \o t \in Seq(Events)
        /\ \A i \in DOMAIN procCh : (procCh \o t)[i] = procCh[i]
        /\ \A i \in DOMAIN t : (procCh \o t)[Len(procCh) + i] = t[i]
        /\ \A k \in DOMAIN (procCh \o t) :
              k \in DOMAIN procCh \/ \E i \in DOMAIN t : k = Len(procCh) + i
    BY <1>1, <1>2, ConcatElements
  <2> HIDE DEF t
  <2> QED
    BY <1>1, <1>2, <2>1, <2>2
<1> QED
  BY <1>1, <1>2, <1>4, <1>5, <1>6 DEF IInv

LEMMA RecordExitsPreserves ==
    ASSUME IInv, RecordExits, UNCHANGED <<agentVars, observerVars, mainVars>>
    PROVE  IInv'
<1>1. /\ UNCHANGED <<rootAlive, status, parent, serial, offMain, forks,
                     running, netPc, seen, netCh, mainPc, log,
                     subprocesses, remotes>>
      /\ ReportedOnce' /\ SummaryRight' /\ Cardinality(Used)' <= forks'
      /\ NoPidReused' => NoPidReused
      /\ Used' = Used
      /\ \A q : Children(q)' = Children(q)
  BY TrackerLeaves
<1> DEFINE S == known \ pids
<1>2. /\ procPc = "compare" /\ procPc' = "sleep" /\ pids \subseteq known
      /\ known' = pids /\ pids' = pids /\ toCheck' = toCheck /\ toCheck = {}
      /\ Root \notin Pids /\ known \subseteq Pids
      /\ mainPc \notin {"summary", "saved"}
  BY Constants DEF RecordExits, Forget, IInv, Phases, TypeOK
<1>3. /\ procCh' \in Seq(Events) /\ Paired'
      /\ \A k \in DOMAIN procCh' : procCh'[k].kind \in {"spawned", "exited"}
      /\ \A k \in OfKind(Stream', "spawned") :
            k \in OfKind(Stream, "spawned") /\ Stream'[k] = Stream[k]
  BY <1>1, Forgetting DEF RecordExits
<1>4. reading' = Nobody /\ listable' = {} /\ sure' = {} /\ shaken' = {}
  BY <1>2 DEF RecordExits, IInv, Phases, TypeOK
<1>5. TypeOK'
  BY <1>1, <1>2, <1>3, <1>4 DEF IInv, TypeOK, Serials, Events
<1>6. Phases'
  BY <1>1, <1>2, <1>3, <1>4 DEF IInv, Phases
<1>7. ASSUME NoPidReused'
      PROVE  WalkInv'
  <2>1. WalkInv
    BY <1>1, <1>7 DEF IInv
  <2>2. \A p \in Pids \ Used' :
           p \notin known' \cup pids' \cup listable' /\ status'[p] = "free"
    BY <1>1, <1>2, <1>4, <2>1 DEF WalkInv
  <2>3. Met' = pids
    BY <1>2 DEF Met
  <2>4. \A c \in pids : parent'[c] \in pids \cup {Root, Nobody}
    BY <1>1, <2>1 DEF WalkInv
  <2>5. \A k \in OfKind(Stream', "spawned") :
           /\ Stream'[k].pid \in Used'
           /\ Stream'[k].argv \in {0, serial'[Stream'[k].pid]}
    BY <1>1, <1>3, <2>1 DEF WalkInv
  <2> QED
    BY <1>2, <1>4, <2>2, <2>3, <2>4, <2>5 DEF WalkInv, OfKind
<1> QED
  BY <1>1, <1>3, <1>5, <1>6, <1>7 DEF IInv

LEMMA FinishAllPreserves ==
    ASSUME IInv, FinishAll, UNCHANGED <<agentVars, observerVars, mainVars>>
    PROVE  IInv'
<1>1. /\ UNCHANGED <<rootAlive, status, parent, serial, offMain, forks,
                     running, netPc, seen, netCh, mainPc, log,
                     subprocesses, remotes>>
      /\ ReportedOnce' /\ SummaryRight' /\ Cardinality(Used)' <= forks'
      /\ NoPidReused' => NoPidReused
      /\ Used' = Used
      /\ \A q : Children(q)' = Children(q)
  BY TrackerLeaves
<1>2. /\ procPc = "sleep" /\ procPc' = "done" /\ ~running
      /\ known' = {} /\ pids' = pids /\ toCheck' = toCheck
      /\ mainPc \notin {"summary", "saved"}
  BY DEF FinishAll, Forget, IInv, Phases
<1>3. /\ procCh' \in Seq(Events) /\ Paired'
      /\ \A k \in DOMAIN procCh' : procCh'[k].kind \in {"spawned", "exited"}
      /\ \A k \in OfKind(Stream', "spawned") :
            k \in OfKind(Stream, "spawned") /\ Stream'[k] = Stream[k]
  BY <1>1, Forgetting DEF FinishAll
<1>4. UNCHANGED <<reading, listable, sure, shaken>> /\ listable = {}
  BY <1>2 DEF FinishAll, readVars, IInv, Phases
<1>5. TypeOK'
  BY <1>1, <1>2, <1>3, <1>4 DEF IInv, TypeOK, Serials, Events
<1>6. Phases'
  BY <1>1, <1>2, <1>3, <1>4 DEF IInv, Phases
<1>7. ASSUME NoPidReused'
      PROVE  WalkInv'
  <2>1. WalkInv
    BY <1>1, <1>7 DEF IInv
  <2>2. \A p \in Pids \ Used' :
           p \notin known' \cup pids' \cup listable' /\ status'[p] = "free"
    BY <1>1, <1>2, <1>4, <2>1 DEF WalkInv
  <2>3. Met' = {}
    BY <1>2 DEF Met
  <2>4. \A c \in pids' \cup listable' : parent'[c] \in pids' \cup {Root, Nobody}
    BY <1>1, <1>2, <1>4, <2>1 DEF WalkInv
  <2>5. \A k \in OfKind(Stream', "spawned") :
           /\ Stream'[k].pid \in Used'
           /\ Stream'[k].argv \in {0, serial'[Stream'[k].pid]}
    BY <1>1, <1>3, <2>1 DEF WalkInv
  <2> QED
    BY <1>2, <2>2, <2>3, <2>4, <2>5 DEF WalkInv, OfKind
<1> QED
  BY <1>1, <1>3, <1>5, <1>6, <1>7 DEF IInv

LEMMA TrackerPreserves == IInv /\ Tracker => IInv'
BY PollStartsPreserves, ReadStartsPreserves, ReadEndsPreserves,
   RecordSpawnPreserves, RecordExitsPreserves, FinishAllPreserves DEF Tracker

(***************************************************************************)
(* Steps of the network observer.                                          *)
(***************************************************************************)

\* Connections at the end of a list: their keys are added, and are still all
\* different when they were and are new.
LEMMA KeysGrow ==
    ASSUME NEW s \in Seq(Events), NEW t \in Seq(Events)
    PROVE  /\ Keys(s \o t) = Keys(s) \cup Keys(t)
           /\ /\ \A i, k \in OfKind(s, "connection") : s[i].key = s[k].key => i = k
              /\ \A i, k \in OfKind(t, "connection") : t[i].key = t[k].key => i = k
              /\ Keys(s) \cap Keys(t) = {}
              => \A i, k \in OfKind(s \o t, "connection") :
                    (s \o t)[i].key = (s \o t)[k].key => i = k
<1> DEFINE u == s \o t
           n == Len(s)
<1>1. /\ \A i \in DOMAIN s : i \in DOMAIN u /\ u[i] = s[i]
      /\ \A i \in DOMAIN t : n + i \in DOMAIN u /\ u[n + i] = t[i]
      /\ \A k \in DOMAIN u :
            k \in DOMAIN s \/ \E i \in DOMAIN t : k = n + i
  BY ConcatElements
<1> HIDE DEF u, n
<1>2. \A k \in OfKind(s, "connection") :
         k \in OfKind(u, "connection") /\ u[k] = s[k] /\ s[k].key \in Keys(s)
  BY <1>1 DEF OfKind, Keys
<1>3. \A k \in OfKind(t, "connection") :
         /\ n + k \in OfKind(u, "connection") /\ u[n + k] = t[k]
         /\ t[k].key \in Keys(t)
  BY <1>1 DEF OfKind, Keys
<1>4. \A k \in OfKind(u, "connection") :
         \/ k \in OfKind(s, "connection")
         \/ \E i \in OfKind(t, "connection") : k = n + i
  BY <1>1 DEF OfKind
<1>5. Keys(u) = Keys(s) \cup Keys(t)
  <2>1. Keys(u) \subseteq Keys(s) \cup Keys(t)
    BY <1>2, <1>3, <1>4 DEF Keys
  <2>2. Keys(s) \subseteq Keys(u)
    BY <1>2 DEF Keys
  <2>3. Keys(t) \subseteq Keys(u)
    BY <1>3 DEF Keys
  <2> QED
    BY <2>1, <2>2, <2>3
<1>6. ASSUME \A i, k \in OfKind(s, "connection") : s[i].key = s[k].key => i = k,
             \A i, k \in OfKind(t, "connection") : t[i].key = t[k].key => i = k,
             Keys(s) \cap Keys(t) = {},
             NEW i \in OfKind(u, "connection"), NEW k \in OfKind(u, "connection"),
             u[i].key = u[k].key
      PROVE  i = k
  <2>1. CASE i \in OfKind(s, "connection") /\ k \in OfKind(s, "connection")
    BY <1>2, <1>6, <2>1
  <2>2. CASE /\ i \in OfKind(s, "connection")
             /\ \E j \in OfKind(t, "connection") : k = n + j
    BY <1>2, <1>3, <1>6, <2>2
  <2>3. CASE /\ k \in OfKind(s, "connection")
             /\ \E j \in OfKind(t, "connection") : i = n + j
    BY <1>2, <1>3, <1>6, <2>3
  <2>4. CASE /\ \E j \in OfKind(t, "connection") : i = n + j
             /\ \E j \in OfKind(t, "connection") : k = n + j
    BY <1>3, <1>6, <2>4
  <2> QED
    BY <1>4, <2>1, <2>2, <2>3, <2>4
<1> QED
  BY <1>5, <1>6 DEF u

\* The connections of S, each once.
LEMMA ConnectionsOf ==
    ASSUME NEW S \in SUBSET Conns
    PROVE  LET t == SetToSeq({Connected(c) : c \in S})
           IN  /\ t \in Seq(Events) /\ Keys(t) = S
               /\ \A k \in DOMAIN t : t[k].kind = "connection"
               /\ \A i, k \in OfKind(t, "connection") : t[i].key = t[k].key => i = k
<1> DEFINE C == {Connected(c) : c \in S}
           t == SetToSeq(C)
<1>1. IsFiniteSet(C)
  <2> DEFINE f == [c \in S |-> Connected(c)]
  <2>1. f \in Surjection(S, C)
    BY DEF Surjection
  <2>2. IsFiniteSet(S)
    BY Constants, FS_Subset
  <2> QED
    BY <2>1, <2>2, FS_Surjection
<1>2. /\ t \in Seq(C)
      /\ \A i, k \in DOMAIN t : t[i] = t[k] => i = k
      /\ \A x \in C : \E i \in DOMAIN t : t[i] = x
  BY <1>1, ListProperties
<1>3. /\ C \subseteq Events
      /\ \A c \in S : Connected(c).kind = "connection" /\ Connected(c).key = c
  BY EventFacts
<1>4. t \in Seq(Events)
  BY <1>2, <1>3, SeqMonotonic
<1> HIDE DEF t, C
<1>5. \A k \in DOMAIN t : t[k] \in C
  BY <1>2, LenProperties, ElementOfSeq
<1> USE DEF C
<1>6. \A k \in DOMAIN t : \E c \in S : /\ t[k] = Connected(c)
                                       /\ t[k].kind = "connection" /\ t[k].key = c
  BY <1>3, <1>5
<1>7. Keys(t) = S
  <2>1. Keys(t) \subseteq S
    BY <1>6 DEF Keys, OfKind
  <2>2. ASSUME NEW c \in S PROVE c \in Keys(t)
    <3>1. PICK k \in DOMAIN t : t[k] = Connected(c)
      BY <1>2
    <3> QED
      BY <1>3, <3>1 DEF Keys, OfKind
  <2> QED
    BY <2>1, <2>2
<1>8. \A i, k \in OfKind(t, "connection") : t[i].key = t[k].key => i = k
  BY <1>2, <1>6 DEF OfKind
<1> QED
  BY <1>4, <1>6, <1>7, <1>8 DEF t

LEMMA PollConnectionsPreserves ==
    ASSUME IInv, PollConnections, UNCHANGED <<agentVars, readVars, trackerVars, mainVars>>
    PROVE  IInv'
<1>1. /\ UNCHANGED <<reading, listable, sure, shaken, rootAlive, status,
                     parent, serial, offMain, forks, procPc, toCheck, pids,
                     known, procCh, running, mainPc, log, subprocesses,
                     remotes, netPc>>
      /\ netPc = "sleep" /\ running
  BY DEF agentVars, readVars, trackerVars, mainVars, PollConnections
<1>2. PICK S \in SUBSET Conns :
         /\ seen' = seen \cup S
         /\ netCh' = netCh \o SetToSeq({Connected(c) : c \in New(S)})
  BY DEF PollConnections
<1> DEFINE t == SetToSeq({Connected(c) : c \in New(S)})
<1>3. /\ t \in Seq(Events) /\ Keys(t) = S \ seen
      /\ \A k \in DOMAIN t : t[k].kind = "connection"
      /\ \A i, k \in OfKind(t, "connection") : t[i].key = t[k].key => i = k
  <2>1. New(S) \in SUBSET Conns /\ New(S) = S \ seen
    BY DEF New
  <2> QED
    BY <2>1, ConnectionsOf
<1>4. netCh' = netCh \o t
  BY <1>2
<1> HIDE DEF t
<1>5. netCh \in Seq(Events) /\ seen \subseteq Conns
  BY DEF IInv, TypeOK
<1>6. /\ netCh' \in Seq(Events)
      /\ \A k \in DOMAIN netCh' : netCh'[k].kind = "connection"
  <2>1. \A k \in DOMAIN netCh : netCh[k].kind = "connection"
    BY DEF IInv, Phases
  <2> QED
    BY <1>3, <1>4, <1>5, <2>1, ConcatElements
<1>7. TypeOK'
  BY <1>1, <1>2, <1>6 DEF IInv, TypeOK, Serials, Events
<1>8. Phases'
  BY <1>1, <1>6 DEF IInv, Phases
<1>9. ReportedOnce'
  <2>1. /\ \A i, k \in OfKind(log, "connection") : log[i].key = log[k].key => i = k
        /\ \A i, k \in OfKind(netCh, "connection") :
              netCh[i].key = netCh[k].key => i = k
        /\ Keys(log) \cap Keys(netCh) = {} /\ Keys(log) \cup Keys(netCh) = seen
    BY DEF IInv, ReportedOnce
  <2>2. /\ Keys(netCh') = Keys(netCh) \cup Keys(t)
        /\ \A i, k \in OfKind(netCh', "connection") :
              netCh'[i].key = netCh'[k].key => i = k
    BY <1>3, <1>4, <1>5, <2>1, KeysGrow
  <2>3. Keys(log') \cap Keys(netCh') = {} /\ Keys(log') \cup Keys(netCh') = seen'
    BY <1>1, <1>2, <1>3, <2>1, <2>2
  <2>4. \A i, k \in OfKind(log', "connection") : log'[i].key = log'[k].key => i = k
    BY <1>1, <2>1
  <2>5. ASSUME NEW events \in {log', netCh'},
               NEW i \in OfKind(events, "connection"),
               NEW k \in OfKind(events, "connection"), events[i].key = events[k].key
        PROVE  i = k
    BY <2>2, <2>4, <2>5
  <2> QED
    BY <2>3, <2>5 DEF ReportedOnce, Keys, OfKind
<1>10. SummaryRight'
  BY <1>1, SummaryUnchanged DEF IInv
<1>11. Stream' = Stream
  BY <1>1 DEF Stream
<1>12. /\ Paired' /\ Cardinality(Used)' <= forks'
       /\ NoPidReused' => WalkInv'
  BY <1>1, <1>11, Silent DEF agentVars, readVars
<1> QED
  BY <1>7, <1>8, <1>9, <1>10, <1>12 DEF IInv

LEMMA ObserverPreserves == IInv /\ Observer => IInv'
<1> SUFFICES ASSUME IInv, Observer PROVE IInv'
  OBVIOUS
<1>1. CASE PollConnections
  BY <1>1, PollConnectionsPreserves DEF Observer
<1>2. CASE ObserverEnds
  <2>1. /\ UNCHANGED <<reading, listable, sure, shaken, rootAlive, status,
                       parent, serial, offMain, forks, procPc, toCheck, pids,
                       known, procCh, running, mainPc, log, subprocesses,
                       remotes, seen, netCh>>
        /\ netPc' = "done" /\ ~running
    BY <1>2 DEF Observer, agentVars, readVars, trackerVars, mainVars, ObserverEnds
  <2>2. TypeOK' /\ Phases'
    BY <2>1 DEF IInv, TypeOK, Serials, Events, Phases
  <2>3. ReportedOnce' /\ SummaryRight'
    BY <2>1, ReportedUnchanged, SummaryUnchanged DEF IInv
  <2>4. Stream' = Stream
    BY <2>1 DEF Stream
  <2>5. /\ Paired' /\ Cardinality(Used)' <= forks'
        /\ NoPidReused' => WalkInv'
    BY <2>1, <2>4, Silent DEF agentVars, readVars
  <2> QED
    BY <2>2, <2>3, <2>5 DEF IInv
<1> QED
  BY <1>1, <1>2 DEF Observer

(***************************************************************************)
(* Steps of the main thread.                                               *)
(***************************************************************************)

LEMMA FrontOfAppend ==
    ASSUME NEW s \in Seq(Events), NEW e \in Events
    PROVE  /\ Front(Append(s, e)) = s /\ Append(s, e) \in Seq(Events)
           /\ Len(Append(s, e)) = Len(s) + 1 /\ Len(s) \in Nat
           /\ Append(s, e)[Len(s) + 1] = e /\ Append(s, e) # <<>>
<1> DEFINE u == Append(s, e)
           n == Len(s)
<1>1. /\ u \in Seq(Events) /\ Len(u) = n + 1 /\ n \in Nat
      /\ u[n + 1] = e /\ \A i \in 1 .. n : u[i] = s[i]
  BY AppendProperties, LenProperties
<1>2. Front(u) = SubSeq(u, 1, n)
  BY <1>1 DEF Front
<1>3. /\ SubSeq(u, 1, n) \in Seq(Events)
      /\ Len(SubSeq(u, 1, n)) = n
      /\ \A i \in 1 .. n : SubSeq(u, 1, n)[i] = u[i]
  BY <1>1
<1>4. SubSeq(u, 1, n) = s
  BY <1>1, <1>3, SeqEqual
<1>5. u # <<>>
  BY <1>1
<1> QED
  BY <1>1, <1>2, <1>4, <1>5

\* What an event at the end of the log adds.
LEMMA LogGrows ==
    ASSUME TypeOK, NEW e \in Events, log' = Append(log, e)
    PROVE  /\ log' \in Seq(Events)
           /\ Keys(log') = Keys(log) \cup
                              (IF e.kind = "connection" THEN {e.key} ELSE {})
           /\ (\A i, k \in OfKind(log, "connection") :
                  log[i].key = log[k].key => i = k)
              /\ (e.kind = "connection" => e.key \notin Keys(log))
              => \A i, k \in OfKind(log', "connection") :
                    log'[i].key = log'[k].key => i = k
           /\ e.kind # "end" => OfKind(log', "end") = OfKind(log, "end")
           /\ e.kind = "end" /\ OfKind(log, "end") = {}
                 => OfKind(log', "end") = {Len(log')}
<1> DEFINE t == <<e>>
<1>1. /\ log \in Seq(Events) /\ t \in Seq(Events) /\ DOMAIN t = {1} /\ t[1] = e
      /\ log' = log \o t /\ Len(log') = Len(log) + 1
  BY OneEvent, Appending, FrontOfAppend DEF TypeOK
<1> HIDE DEF t
<1>2. Keys(t) = IF e.kind = "connection" THEN {e.key} ELSE {}
  BY <1>1 DEF Keys, OfKind
<1>3. \A i, k \in OfKind(t, "connection") : i = k
  BY <1>1 DEF OfKind
<1>4. /\ \A i \in DOMAIN log : i \in DOMAIN log' /\ log'[i] = log[i]
      /\ \A i \in DOMAIN t : Len(log) + i \in DOMAIN log' /\ log'[Len(log) + i] = t[i]
      /\ \A k \in DOMAIN log' :
            k \in DOMAIN log \/ \E i \in DOMAIN t : k = Len(log) + i
      /\ log' \in Seq(Events)
  BY <1>1, ConcatElements
<1>5. e.kind # "end" => OfKind(log', "end") = OfKind(log, "end")
  BY <1>1, <1>4 DEF OfKind
<1>6. e.kind = "end" /\ OfKind(log, "end") = {} => OfKind(log', "end") = {Len(log')}
  BY <1>1, <1>4 DEF OfKind
<1>7. Keys(log') = Keys(log) \cup Keys(t)
  BY <1>1, KeysGrow
<1>8. /\ \A i, k \in OfKind(log, "connection") : log[i].key = log[k].key => i = k
      /\ e.kind = "connection" => e.key \notin Keys(log)
      => \A i, k \in OfKind(log', "connection") :
            log'[i].key = log'[k].key => i = k
  <2>1. (e.kind = "connection" => e.key \notin Keys(log)) =>
           Keys(log) \cap Keys(t) = {}
    BY <1>2
  <2> QED
    BY <1>1, <1>3, <2>1, KeysGrow
<1> QED
  BY <1>2, <1>4, <1>5, <1>6, <1>7, <1>8

\* The first connection leaves the observer's channel.
LEMMA HeadOfNet ==
    ASSUME NEW s \in Seq(Events), s # <<>>,
           \A k \in DOMAIN s : s[k].kind = "connection",
           \A i, k \in OfKind(s, "connection") : s[i].key = s[k].key => i = k
    PROVE  /\ Head(s) \in Events /\ Tail(s) \in Seq(Events)
           /\ Head(s).kind = "connection"
           /\ \A k \in DOMAIN Tail(s) : Tail(s)[k].kind = "connection"
           /\ Keys(s) = {Head(s).key} \cup Keys(Tail(s))
           /\ Head(s).key \notin Keys(Tail(s))
           /\ \A i, k \in OfKind(Tail(s), "connection") :
                 Tail(s)[i].key = Tail(s)[k].key => i = k
<1> DEFINE h == Head(s)
           t == Tail(s)
<1>1. /\ h \in Events /\ t \in Seq(Events) /\ h = s[1]
      /\ Len(s) \in Nat /\ Len(s) >= 1 /\ Len(t) = Len(s) - 1
      /\ DOMAIN s = 1 .. Len(s) /\ DOMAIN t = 1 .. Len(s) - 1
      /\ \A i \in 1 .. Len(s) - 1 : t[i] = s[i + 1]
  BY HeadTailProperties, LenProperties, EmptySeq
<1> DEFINE n == Len(s)
<1> HIDE DEF h, t, n
<1>2. /\ n \in Nat /\ n >= 1 /\ DOMAIN s = 1 .. n /\ DOMAIN t = 1 .. n - 1
      /\ \A i \in 1 .. n - 1 : t[i] = s[i + 1]
  BY <1>1 DEF n
<1>3. OfKind(s, "connection") = 1 .. n
  BY <1>2 DEF OfKind
<1>4. \A k \in DOMAIN t : t[k] = s[k + 1] /\ k + 1 \in DOMAIN s /\ k + 1 # 1
  BY <1>2
<1>5. \A k \in DOMAIN s : k = 1 \/ (k - 1 \in DOMAIN t /\ t[k - 1] = s[k])
  BY <1>2
<1>6. /\ h.kind = "connection" /\ \A k \in DOMAIN t : t[k].kind = "connection"
      /\ 1 \in DOMAIN s
  BY <1>1, <1>2, <1>4
<1>7. OfKind(t, "connection") = DOMAIN t /\ OfKind(s, "connection") = DOMAIN s
  BY <1>6 DEF OfKind
<1>8. /\ Keys(s) = {s[k].key : k \in DOMAIN s}
      /\ Keys(t) = {t[k].key : k \in DOMAIN t}
  BY <1>7 DEF Keys
<1>9. /\ Keys(s) \subseteq {h.key} \cup Keys(t)
      /\ {h.key} \subseteq Keys(s) /\ Keys(t) \subseteq Keys(s)
  <2>1. ASSUME NEW k \in DOMAIN s PROVE s[k].key = h.key \/ s[k].key \in Keys(t)
    BY <1>1, <1>5, <1>8
  <2>2. ASSUME NEW k \in DOMAIN t PROVE t[k].key \in Keys(s)
    BY <1>4, <1>8
  <2>3. h.key \in Keys(s)
    BY <1>1, <1>6, <1>8
  <2> QED
    BY <1>8, <2>1, <2>2, <2>3
<1>11. h.key \notin Keys(t)
  <2>1. ASSUME NEW k \in DOMAIN t PROVE t[k].key # h.key
    BY <1>1, <1>4, <1>6, <1>7
  <2> QED
    BY <1>8, <2>1
<1>10. \A i, k \in OfKind(t, "connection") : t[i].key = t[k].key => i = k
  <2>1. SUFFICES ASSUME NEW i \in DOMAIN t, NEW k \in DOMAIN t, t[i].key = t[k].key
                 PROVE  i = k
    BY <1>7
  <2>2. i + 1 = k + 1
    BY <1>4, <1>7, <2>1
  <2> QED
    BY <1>2, <2>2
<1> QED
  BY <1>1, <1>6, <1>9, <1>10, <1>11 DEF h, t

LEMMA MainLeaves ==
    ASSUME IInv,
           UNCHANGED <<agentVars, readVars, procPc, toCheck, pids, known,
                       netPc, seen>>
    PROVE  UNCHANGED <<reading, listable, sure, shaken, rootAlive, status,
                       parent, serial, offMain, forks, procPc, toCheck, pids,
                       known, netPc, seen>>
BY DEF agentVars, readVars

LEMMA ChannelKept ==
    ASSUME IInv, UNCHANGED <<procCh, log>>,
           UNCHANGED <<agentVars, readVars, procPc, toCheck, pids, known,
                       netPc, seen>>
    PROVE  /\ Paired' /\ Cardinality(Used)' <= forks'
           /\ NoPidReused' => WalkInv'
<1>1. Stream' = Stream
  BY DEF Stream
<1> QED
  BY <1>1, Silent DEF agentVars, readVars

\* The event at the head of the tracker's channel.
LEMMA WriteProcPreserves ==
    ASSUME IInv, mainPc = "drain", procCh # <<>>,
           log' = Append(log, Head(procCh)), procCh' = Tail(procCh),
           UNCHANGED <<netCh, running, mainPc, subprocesses, remotes>>,
           UNCHANGED <<agentVars, readVars, procPc, toCheck, pids, known,
                       netPc, seen>>
    PROVE  IInv'
<1>1. UNCHANGED <<reading, listable, sure, shaken, rootAlive, status, parent,
                  serial, offMain, forks, procPc, toCheck, pids, known, netPc,
                  seen>>
  BY MainLeaves
<1> DEFINE e == Head(procCh)
<1>2. log \in Seq(Events) /\ procCh \in Seq(Events)
  BY DEF IInv, TypeOK
<1>3. /\ e \in Events /\ procCh' \in Seq(Events) /\ e = procCh[1]
      /\ DOMAIN procCh = 1 .. Len(procCh) /\ Len(procCh) \in Nat /\ Len(procCh) >= 1
      /\ DOMAIN procCh' = 1 .. Len(procCh) - 1
      /\ \A i \in 1 .. Len(procCh) - 1 : procCh'[i] = procCh[i + 1]
  BY <1>2, HeadTailProperties, LenProperties, EmptySeq
<1>4. Stream' = Stream
  BY <1>2, <1>3, Appending DEF Stream
<1> HIDE DEF e
<1>5. \A k \in DOMAIN procCh : procCh[k].kind \in {"spawned", "exited"}
  BY DEF IInv, Phases
<1>6. e.kind \in {"spawned", "exited"}
  BY <1>3, <1>5
<1>7. \A k \in DOMAIN procCh' : procCh'[k].kind \in {"spawned", "exited"}
  BY <1>3, <1>5
<1>8. log' = Append(log, e) /\ TypeOK
  BY DEF e, IInv
<1>9. /\ log' \in Seq(Events) /\ Keys(log') = Keys(log)
      /\ OfKind(log', "end") = OfKind(log, "end")
      /\ (\A i, k \in OfKind(log, "connection") :
             log[i].key = log[k].key => i = k)
         => \A i, k \in OfKind(log', "connection") :
               log'[i].key = log'[k].key => i = k
  BY <1>3, <1>6, <1>8, LogGrows
<1>10. TypeOK'
  BY <1>1, <1>3, <1>9 DEF IInv, TypeOK, Serials, Events
<1>11. Phases'
  BY <1>1, <1>7 DEF IInv, Phases
<1>12. ReportedOnce'
  <2>1. /\ \A i, k \in OfKind(log, "connection") : log[i].key = log[k].key => i = k
        /\ \A i, k \in OfKind(netCh, "connection") :
              netCh[i].key = netCh[k].key => i = k
        /\ Keys(log) \cap Keys(netCh) = {} /\ Keys(log) \cup Keys(netCh) = seen
    BY DEF IInv, ReportedOnce
  <2>2. Keys(log') \cap Keys(netCh') = {} /\ Keys(log') \cup Keys(netCh') = seen'
    BY <1>1, <1>9, <2>1
  <2>3. ASSUME NEW events \in {log', netCh'},
               NEW i \in OfKind(events, "connection"),
               NEW k \in OfKind(events, "connection"), events[i].key = events[k].key
        PROVE  i = k
    BY <1>9, <2>1, <2>3
  <2> QED
    BY <2>2, <2>3 DEF ReportedOnce, Keys, OfKind
<1>13. SummaryRight'
  <2>1. OfKind(log', "end") = {}
    BY <1>9 DEF IInv, SummaryRight
  <2> QED
    BY <2>1 DEF SummaryRight, OfKind
<1>14. /\ Paired' /\ Cardinality(Used)' <= forks'
       /\ NoPidReused' => WalkInv'
  BY <1>1, <1>4, Silent DEF agentVars, readVars
<1> QED
  BY <1>10, <1>11, <1>12, <1>13, <1>14 DEF IInv

\* The event at the head of the observer's, once the other one is empty.
LEMMA WriteNetPreserves ==
    ASSUME IInv, mainPc = "drain", procCh = <<>>, netCh # <<>>,
           log' = Append(log, Head(netCh)), netCh' = Tail(netCh),
           UNCHANGED <<procCh, running, mainPc, subprocesses, remotes>>,
           UNCHANGED <<agentVars, readVars, procPc, toCheck, pids, known,
                       netPc, seen>>
    PROVE  IInv'
<1>1. UNCHANGED <<reading, listable, sure, shaken, rootAlive, status, parent,
                  serial, offMain, forks, procPc, toCheck, pids, known, netPc,
                  seen>>
  BY MainLeaves
<1> DEFINE e == Head(netCh)
<1>2. log \in Seq(Events) /\ netCh \in Seq(Events)
  BY DEF IInv, TypeOK
<1>3. /\ \A i, k \in OfKind(log, "connection") : log[i].key = log[k].key => i = k
      /\ \A i, k \in OfKind(netCh, "connection") :
            netCh[i].key = netCh[k].key => i = k
      /\ Keys(log) \cap Keys(netCh) = {} /\ Keys(log) \cup Keys(netCh) = seen
  BY DEF IInv, ReportedOnce
<1>4. \A k \in DOMAIN netCh : netCh[k].kind = "connection"
  BY DEF IInv, Phases
<1>5. /\ e \in Events /\ netCh' \in Seq(Events) /\ e.kind = "connection"
      /\ \A k \in DOMAIN netCh' : netCh'[k].kind = "connection"
      /\ Keys(netCh) = {e.key} \cup Keys(netCh') /\ e.key \notin Keys(netCh')
      /\ \A i, k \in OfKind(netCh', "connection") :
            netCh'[i].key = netCh'[k].key => i = k
  BY <1>2, <1>3, <1>4, HeadOfNet
<1> HIDE DEF e
<1>6. log' = Append(log, e) /\ TypeOK
  BY DEF e, IInv
<1>7. /\ log' \in Seq(Events) /\ Keys(log') = Keys(log) \cup {e.key}
      /\ OfKind(log', "end") = OfKind(log, "end")
      /\ \A i, k \in OfKind(log', "connection") :
            log'[i].key = log'[k].key => i = k
  BY <1>3, <1>5, <1>6, LogGrows
<1>8. Stream' = Stream \o <<e>>
  <2>1. Stream = log /\ Stream' = log'
    BY <1>2, <1>7, ConcatEmptySeq DEF Stream
  <2> QED
    BY <1>2, <1>5, <1>6, <2>1, Appending
<1>9. TypeOK'
  BY <1>1, <1>5, <1>7 DEF IInv, TypeOK, Serials, Events
<1>10. Phases'
  BY <1>1, <1>5 DEF IInv, Phases
<1>11. ReportedOnce'
  <2>1. Keys(log') \cap Keys(netCh') = {} /\ Keys(log') \cup Keys(netCh') = seen'
    BY <1>1, <1>3, <1>5, <1>7
  <2>2. ASSUME NEW events \in {log', netCh'},
               NEW i \in OfKind(events, "connection"),
               NEW k \in OfKind(events, "connection"), events[i].key = events[k].key
        PROVE  i = k
    BY <1>5, <1>7, <2>2
  <2> QED
    BY <2>1, <2>2 DEF ReportedOnce, Keys, OfKind
<1>12. SummaryRight'
  <2>1. OfKind(log', "end") = {}
    BY <1>7 DEF IInv, SummaryRight
  <2> QED
    BY <2>1 DEF SummaryRight, OfKind
<1>13. /\ Paired' /\ Cardinality(Used)' <= forks'
       /\ NoPidReused' => WalkInv'
  BY <1>1, <1>5, <1>8, Silent DEF agentVars, readVars
<1> QED
  BY <1>9, <1>10, <1>11, <1>12, <1>13 DEF IInv

\* Sets of positions have a first one.
LEMMA FirstPosition ==
    ASSUME NEW S \in SUBSET Nat, S # {}
    PROVE  Min(S) \in S
<1> DEFINE R == {pair \in Nat \X Nat : pair[1] < pair[2]}
<1>1. IsWellFoundedOn(R, Nat)
  BY NatLessThanWellFounded DEF OpToRel
<1>2. \E x \in S : \A y \in S : ~ (<<y, x>> \in R)
  BY <1>1, WFMin, Zenon
<1>3. ASSUME NEW x \in Nat, NEW y \in Nat, y < x
      PROVE  <<y, x>> \in R
  BY <1>3
<1> HIDE DEF R
<1>4. PICK x \in S : \A y \in S : ~ (<<y, x>> \in R)
  BY <1>2
<1>5. ASSUME NEW y \in S
      PROVE  x <= y
  <2>1. ~(y < x)
    BY <1>3, <1>4
  <2> QED
    BY <2>1
<1> QED
  BY <1>5 DEF Min

\* What the summary says has the types of the log's events.
LEMMA SummaryTypes ==
    ASSUME NEW s \in Seq(Events)
    PROVE  /\ \A k \in OfKind(s, "exited") :
                 s[k].pid \in Pids /\ FirstArgv(s, s[k].pid) \in Serials
           /\ Remotes(s) \subseteq {c[2] : c \in Conns}
<1>1. /\ DOMAIN s \subseteq Nat /\ \A k \in DOMAIN s : s[k] \in Events
      /\ 0 \in Serials
  BY LenProperties, ElementOfSeq, Constants DEF Serials
<1>2. ASSUME NEW k \in OfKind(s, "exited")
      PROVE  s[k].pid \in Pids /\ FirstArgv(s, s[k].pid) \in Serials
  <2> DEFINE spawns == {i \in OfKind(s, "spawned") : s[i].pid = s[k].pid}
  <2>1. s[k].pid \in Pids
    BY <1>1, <1>2, EventFacts DEF OfKind
  <2>2. \A i \in spawns : i \in Nat /\ s[i].argv \in Serials
    BY <1>1, EventFacts DEF OfKind
  <2>3. FirstArgv(s, s[k].pid) =
           IF spawns = {} THEN 0 ELSE s[Min(spawns)].argv
    BY DEF FirstArgv
  <2> HIDE DEF spawns
  <2>4. CASE spawns = {}
    BY <1>1, <2>1, <2>3, <2>4
  <2>5. CASE spawns # {}
    <3>1. Min(spawns) \in spawns
      BY <2>2, <2>5, FirstPosition
    <3> QED
      BY <2>1, <2>2, <2>3, <2>5, <3>1
  <2> QED
    BY <2>4, <2>5
<1>3. \A k \in OfKind(s, "connection") : s[k].key \in Conns
  BY <1>1, EventFacts DEF OfKind
<1> QED
  BY <1>2, <1>3 DEF Remotes

LEMMA SaveSummaryPreserves ==
    ASSUME IInv, SaveSummary,
           UNCHANGED <<agentVars, readVars, procPc, toCheck, pids, known,
                       netPc, seen>>
    PROVE  IInv'
<1>1. /\ UNCHANGED <<reading, listable, sure, shaken, rootAlive, status,
                     parent, serial, offMain, forks, procPc, toCheck, pids,
                     known, netPc, seen>>
      /\ UNCHANGED <<running, procCh, netCh>>
      /\ mainPc = "summary" /\ mainPc' = "saved" /\ log' = Append(log, End)
      /\ subprocesses' = Subprocesses(log) /\ remotes' = Remotes(log)
  BY MainLeaves DEF SaveSummary
<1>2. /\ log \in Seq(Events) /\ End \in Events /\ End.kind = "end"
      /\ procCh = <<>> /\ netCh = <<>>
  BY <1>1, EventFacts DEF IInv, TypeOK, Phases
<1>3. Front(log') = log /\ log' # <<>>
  BY <1>1, <1>2, FrontOfAppend
<1>4. OfKind(log, "end") = {}
  BY <1>1 DEF IInv, SummaryRight
<1>5. /\ log' \in Seq(Events) /\ Keys(log') = Keys(log)
      /\ OfKind(log', "end") = {Len(log')}
      /\ (\A i, k \in OfKind(log, "connection") :
             log[i].key = log[k].key => i = k)
         => \A i, k \in OfKind(log', "connection") :
               log'[i].key = log'[k].key => i = k
  BY <1>1, <1>2, <1>4, LogGrows DEF IInv
<1>6. TypeOK'
  <2>1. ASSUME NEW k \in OfKind(log, "exited")
        PROVE  log[k].pid \in Pids /\ FirstArgv(log, log[k].pid) \in Serials
    BY <1>2, SummaryTypes
  <2>2. subprocesses' \in [DOMAIN subprocesses' -> Pids \X Serials]
    BY <1>1, <2>1 DEF Subprocesses
  <2>3. remotes' \subseteq {c[2] : c \in Conns}
    BY <1>1, <1>2, SummaryTypes
  <2> QED
    BY <1>1, <1>5, <2>2, <2>3 DEF IInv, TypeOK, Serials, Events
<1>7. Phases'
  BY <1>1 DEF IInv, Phases
<1>8. ReportedOnce'
  <2>1. /\ \A i, k \in OfKind(log, "connection") : log[i].key = log[k].key => i = k
        /\ \A i, k \in OfKind(netCh, "connection") :
              netCh[i].key = netCh[k].key => i = k
        /\ Keys(log) \cap Keys(netCh) = {} /\ Keys(log) \cup Keys(netCh) = seen
    BY DEF IInv, ReportedOnce
  <2>2. Keys(log') \cap Keys(netCh') = {} /\ Keys(log') \cup Keys(netCh') = seen'
    BY <1>1, <1>5, <2>1
  <2>3. ASSUME NEW events \in {log', netCh'},
               NEW i \in OfKind(events, "connection"),
               NEW k \in OfKind(events, "connection"), events[i].key = events[k].key
        PROVE  i = k
    BY <1>1, <1>5, <2>1, <2>3
  <2> QED
    BY <2>2, <2>3 DEF ReportedOnce, Keys, OfKind
<1>9. SummaryRight'
  <2>1. /\ log' # <<>> /\ OfKind(log', "end") = {Len(log')}
        /\ OfKind(Front(log'), "end") = {}
        /\ remotes' = Remotes(Front(log'))
        /\ subprocesses' = Subprocesses(Front(log'))
    BY <1>1, <1>3, <1>4, <1>5
  <2> QED
    BY <1>1, <2>1 DEF SummaryRight
<1>10. Stream' = Stream \o <<End>>
  <2>1. Stream = log /\ Stream' = log'
    BY <1>1, <1>2, <1>5, ConcatEmptySeq DEF Stream
  <2> QED
    BY <1>1, <1>2, <2>1, Appending
<1>11. /\ Paired' /\ Cardinality(Used)' <= forks'
       /\ NoPidReused' => WalkInv'
  BY <1>1, <1>2, <1>10, Silent DEF agentVars, readVars
<1> QED
  BY <1>6, <1>7, <1>8, <1>9, <1>11 DEF IInv

LEMMA MainPreserves == IInv /\ Main => IInv'
<1> SUFFICES ASSUME IInv, Main PROVE IInv'
  OBVIOUS
<1>1. UNCHANGED <<agentVars, readVars, procPc, toCheck, pids, known, netPc,
                  seen>>
  BY DEF Main
<1>2. CASE ChildOver \/ Join \/ Drained \/ WriteFails
  <2>1. /\ UNCHANGED <<reading, listable, sure, shaken, rootAlive, status,
                       parent, serial, offMain, forks, procPc, toCheck, pids,
                       known, netPc, seen>>
        /\ UNCHANGED <<procCh, netCh, log, subprocesses, remotes>>
        /\ mainPc \in {"wait", "join", "drain", "summary"}
        /\ mainPc' \in {"join", "drain", "summary", "failed"}
    BY <1>1, <1>2, MainLeaves DEF ChildOver, Join, Drained, WriteFails
  <2>2. TypeOK'
    <3>1. running' \in BOOLEAN
      BY <1>2 DEF ChildOver, Join, Drained, WriteFails, IInv, TypeOK
    <3> QED
      BY <2>1, <3>1 DEF IInv, TypeOK, Serials, Events
  <2>3. Phases'
    BY <1>2, <2>1 DEF IInv, Phases, ChildOver, Join, Drained, WriteFails
  <2>4. ReportedOnce'
    BY <2>1, ReportedUnchanged DEF IInv
  <2>5. SummaryRight'
    <3>1. OfKind(log', "end") = {} /\ mainPc' # "saved"
      BY <2>1 DEF IInv, SummaryRight
    <3> QED
      BY <3>1 DEF SummaryRight, OfKind
  <2> QED
    BY <1>1, <2>1, <2>2, <2>3, <2>4, <2>5, ChannelKept DEF IInv
<1>3. CASE WriteEvent
  <2>1. CASE procCh # <<>> /\ log' = Append(log, Head(procCh))
             /\ procCh' = Tail(procCh) /\ netCh' = netCh
    BY <1>1, <1>3, <2>1, WriteProcPreserves DEF WriteEvent
  <2>2. CASE procCh = <<>> /\ netCh # <<>> /\ log' = Append(log, Head(netCh))
             /\ netCh' = Tail(netCh) /\ procCh' = procCh
    BY <1>1, <1>3, <2>2, WriteNetPreserves DEF WriteEvent
  <2> QED
    BY <1>3, <2>1, <2>2 DEF WriteEvent
<1>4. CASE SaveSummary
  BY <1>1, <1>4, SaveSummaryPreserves
<1> QED
  BY <1>2, <1>3, <1>4 DEF Main

LEMMA StutterPreserves == IInv /\ UNCHANGED vars => IInv'
<1> SUFFICES ASSUME IInv, UNCHANGED vars PROVE IInv'
  OBVIOUS
<1>1. UNCHANGED <<reading, listable, sure, shaken, rootAlive, status, parent,
                  serial, offMain, forks, running, procPc, toCheck, pids,
                  known, netPc, seen, procCh, netCh, mainPc, log,
                  subprocesses, remotes>>
  BY DEF vars, agentVars, readVars, trackerVars, observerVars, mainVars
<1>2. TypeOK' /\ Phases'
  BY <1>1 DEF IInv, TypeOK, Serials, Events, Phases
<1>3. ReportedOnce' /\ SummaryRight'
  BY <1>1, ReportedUnchanged, SummaryUnchanged DEF IInv
<1> QED
  BY <1>1, <1>2, <1>3, ChannelKept DEF IInv, agentVars, readVars

(***************************************************************************)
(* The theorems.                                                           *)
(***************************************************************************)

\* The invariant: the threads, the channels and the log agree on what was seen,
\* and the walk knows what it has met (process.rs, network.rs, main.rs).
THEOREM Invariance == Spec => []IInv
<1>1. IInv /\ [Next]_vars => IInv'
  BY AgentPreserves, TrackerPreserves, ObserverPreserves, MainPreserves,
     StutterPreserves DEF Next, Terminated
<1> QED
  BY InitHolds, <1>1, PTL DEF Spec

\* Every variable keeps its type.
THEOREM RecorderTypeCorrect == Spec => []TypeOK
<1>1. IInv => TypeOK
  BY DEF IInv
<1> QED
  BY Invariance, <1>1, PTL

\* Spawns and exits of a pid alternate in what is reported, a spawn first,
\* however the process tree changes under the walk (process.rs:32-96).
THEOREM SpawnsPairUp == Spec => []Paired
<1>1. IInv => Paired
  BY DEF IInv
<1> QED
  BY Invariance, <1>1, PTL

\* A connection is reported once, and all that were met are (network.rs:50-84).
THEOREM ConnectionsOnce == Spec => []ReportedOnce
<1>1. IInv => ReportedOnce
  BY DEF IInv
<1> QED
  BY Invariance, <1>1, PTL

\* A saved log is the one the summary was made from, and session_end.
LEMMA SavedLog ==
    ASSUME IInv, mainPc = "saved"
    PROVE  /\ Stream = log /\ procCh = <<>> /\ netCh = <<>> /\ known = {}
           /\ OfKind(log, "end") = {Len(log)}
           /\ log \in Seq(Events) /\ DOMAIN log \subseteq Nat
           /\ remotes = Remotes(Front(log))
           /\ subprocesses = Subprocesses(Front(log))
           /\ \A k : k # "end" => OfKind(Front(log), k) = OfKind(log, k)
           /\ \A i \in DOMAIN Front(log) : Front(log)[i] = log[i]
<1>1. /\ procCh = <<>> /\ netCh = <<>> /\ known = {}
      /\ log # <<>> /\ log \in Seq(Events)
      /\ OfKind(log, "end") = {Len(log)}
      /\ remotes = Remotes(Front(log))
      /\ subprocesses = Subprocesses(Front(log))
  BY DEF IInv, Phases, SummaryRight, TypeOK
<1>2. Stream = log
  BY <1>1, ConcatEmptySeq DEF Stream
<1> DEFINE n == Len(log)
           f == Front(log)
<1>3. /\ n \in Nat /\ n >= 1 /\ DOMAIN log = 1 .. n
  BY <1>1, LenProperties, EmptySeq
<1>4. f = SubSeq(log, 1, n - 1)
  BY DEF Front
<1>5. \A i \in 1 .. n - 1 : log[i] \in Events
  BY <1>1, <1>3
<1>6. /\ f \in Seq(Events) /\ Len(f) = n - 1
      /\ \A i \in 1 .. n - 1 : f[i] = log[i]
  BY <1>1, <1>3, <1>4, <1>5
<1>7. DOMAIN f = 1 .. n - 1
  BY <1>6, LenProperties
<1> HIDE DEF n, f
<1>8. log[n].kind = "end"
  BY <1>1 DEF OfKind, n
<1>9. \A k : k # "end" => OfKind(f, k) = OfKind(log, k)
  <2>1. /\ \A i \in DOMAIN f : i \in DOMAIN log /\ f[i] = log[i]
        /\ \A i \in DOMAIN log : i \in DOMAIN f \/ i = n
    BY <1>3, <1>6, <1>7
  <2> QED
    BY <1>8, <2>1 DEF OfKind
<1> QED
  BY <1>1, <1>2, <1>3, <1>6, <1>7, <1>9 DEF n, f

\* Nothing that was observed is missing from a saved session
\* (main.rs: the threads are joined before the channels are drained).
THEOREM SessionIsWhole == Spec => []Whole
<1>1. ASSUME IInv, mainPc = "saved"
      PROVE  /\ procCh = <<>> /\ netCh = <<>> /\ known = {}
             /\ OfKind(log, "end") = {Len(log)}
             /\ \A i \in OfKind(log, "spawned") :
                   \E k \in DOMAIN subprocesses :
                       i < k /\ subprocesses[k][1] = log[i].pid
             /\ remotes = {c[2] : c \in seen}
  <2>1. /\ Stream = log /\ procCh = <<>> /\ netCh = <<>> /\ known = {}
        /\ OfKind(log, "end") = {Len(log)}
        /\ log \in Seq(Events) /\ DOMAIN log \subseteq Nat
        /\ remotes = Remotes(Front(log))
        /\ subprocesses = Subprocesses(Front(log))
        /\ \A k : k # "end" => OfKind(Front(log), k) = OfKind(log, k)
        /\ \A i \in DOMAIN Front(log) : Front(log)[i] = log[i]
    BY <1>1, SavedLog
  <2> DEFINE f == Front(log)
  <2> HIDE DEF f
  <2>2. /\ OfKind(f, "exited") = OfKind(log, "exited")
        /\ OfKind(f, "connection") = OfKind(log, "connection")
        /\ \A i \in DOMAIN f : f[i] = log[i]
    BY <2>1 DEF f
  <2>3. ASSUME NEW i \in OfKind(log, "spawned")
        PROVE  \E k \in DOMAIN subprocesses :
                  i < k /\ subprocesses[k][1] = log[i].pid
    <3>1. log[i].pid \in Pids
      BY <2>1, EventFacts, ElementOfSeq, LenProperties DEF OfKind
    <3>2. TypeOK /\ Paired /\ i \in OfKind(Stream, "spawned")
          /\ Stream[i].pid \in Pids \ known
      BY <1>1, <2>1, <3>1 DEF IInv
    <3>3. PICK x \in DOMAIN log : /\ i < x /\ log[x].kind = "exited"
                                  /\ log[x] = Exited(log[i].pid)
      BY <2>1, <3>2, SpawnThenExit
    <3>4. x \in OfKind(f, "exited") /\ f[x].pid = log[i].pid
      BY <2>2, <3>1, <3>3, EventFacts DEF OfKind
    <3>5. x \in DOMAIN subprocesses /\ subprocesses[x][1] = log[i].pid
      BY <2>1, <3>4 DEF Subprocesses, f
    <3> QED
      BY <3>3, <3>5
  <2>4. remotes = {c[2] : c \in seen}
    <3>1. Keys(netCh) = {}
      BY <2>1 DEF Keys, OfKind
    <3>2. Keys(log) = seen
      BY <1>1, <3>1 DEF IInv, ReportedOnce
    <3>3. Remotes(f) = {log[k].key[2] : k \in OfKind(log, "connection")}
      BY <2>2 DEF Remotes, OfKind
    <3>4. {log[k].key[2] : k \in OfKind(log, "connection")} = {c[2] : c \in Keys(log)}
      BY DEF Keys
    <3> QED
      BY <2>1, <3>2, <3>3, <3>4 DEF f
  <2> QED
    BY <2>1, <2>3, <2>4
<1>2. IInv => Whole
  BY <1>1 DEF Whole
<1> QED
  BY Invariance, <1>2, PTL

\* A poll records the exit of no process that hangs from the agent through
\* processes whose place the kernel did not change while the poll looked for
\* them, as long as no pid is used twice (process.rs:32-96, 123-142).
THEOREM NobodyInTheTreeExited == Spec => ExitedHaveLeft
<1>1. ASSUME IInv, [Next]_vars, NEW p \in known \ known', NoPidReused,
             procPc = "compare"
      PROVE  p \notin HangingBut(shaken)
  <2>1. RecordExits
    BY <1>1 DEF Next, Agent, Tracker, Observer, Main, Terminated, vars,
                trackerVars, PollStarts, ReadStarts, ReadEnds, RecordSpawn,
                FinishAll
  <2>2. /\ pids \subseteq known /\ known' = known \cap pids /\ toCheck = {}
        /\ known \subseteq Pids /\ reading = Nobody
    BY <1>1, <2>1 DEF RecordExits, Forget, IInv, Phases, TypeOK
  <2>3. Met = known /\ WalkInv
    BY <1>1, <2>2 DEF Met, IInv
  <2> DEFINE S == {x \in Pids : x \notin known \/ x \in pids}
  <2>4. ASSUME NEW q \in pids \cup {Root}, NEW c \in Children(q) \ shaken
        PROVE  c \in S
    <3>1. q \in Pids \cup {Root} /\ q # reading /\ c \in Pids
      BY <2>2, Constants DEF Children
    <3> QED
      BY <1>1, <2>2, <2>3, <3>1 DEF WalkInv
  <2>5. ASSUME NEW q \in S \ pids, NEW c \in Children(q) \ shaken
        PROVE  c \in S
    <3>1. parent[c] = q /\ c \in Pids
      BY DEF Children
    <3>2. c \notin known
      BY <2>3, <3>1, Constants DEF WalkInv
    <3> QED
      BY <3>1, <3>2
  <2>6. HangingBut(shaken) \subseteq S
    BY <2>4, <2>5 DEF HangingBut
  <2> QED
    BY <1>1, <2>2, <2>6
<1>2. IInv /\ [Next]_vars =>
        [\A p \in known \ known' :
            NoPidReused /\ procPc = "compare" => p \notin HangingBut(shaken)]_vars
  BY <1>1
<1> QED
  BY Invariance, <1>2, PTL DEF Spec, ExitedHaveLeft

\* No entry of the summary has the argv of another process, as long as no pid
\* is used twice (main.rs: find_map over the log).
THEOREM ArgvsAreRight == Spec => []ArgvIsOfTheProcess
<1>1. ASSUME IInv, mainPc = "saved", NoPidReused, NEW k \in OfKind(log, "exited")
      PROVE  /\ subprocesses[k][1] = log[k].pid
             /\ subprocesses[k][2] \in {0, serial[log[k].pid]}
  <2> DEFINE f == Front(log)
             p == log[k].pid
             all == {i \in OfKind(f, "spawned") : f[i].pid = p}
  <2>1. /\ Stream = log /\ DOMAIN log \subseteq Nat
        /\ subprocesses = Subprocesses(f)
        /\ OfKind(f, "exited") = OfKind(log, "exited")
        /\ OfKind(f, "spawned") = OfKind(log, "spawned")
        /\ \A i \in DOMAIN f : f[i] = log[i]
    BY <1>1, SavedLog
  <2> HIDE DEF f
  <2>2. \A i \in OfKind(f, "spawned") \cup OfKind(f, "exited") : f[i] = log[i]
    BY <2>1 DEF OfKind
  <2>3. \A i \in OfKind(log, "spawned") : log[i].argv \in {0, serial[log[i].pid]}
    BY <1>1, <2>1 DEF IInv, WalkInv
  <2>4. FirstArgv(f, p) \in {0, serial[p]}
    <3>1. CASE all = {}
      BY <3>1 DEF FirstArgv
    <3>2. CASE all # {}
      <4>1. all \subseteq Nat
        BY <2>1 DEF OfKind
      <4>2. Min(all) \in all
        BY <3>2, <4>1, FirstPosition
      <4>3. f[Min(all)].argv \in {0, serial[p]}
        BY <2>1, <2>2, <2>3, <4>2
      <4> QED
        BY <3>2, <4>3 DEF FirstArgv
    <3> QED
      BY <3>1, <3>2
  <2>5. subprocesses[k] = <<f[k].pid, FirstArgv(f, f[k].pid)>> /\ f[k] = log[k]
    BY <1>1, <2>1, <2>2 DEF Subprocesses
  <2> QED
    BY <2>4, <2>5
<1>2. IInv => ArgvIsOfTheProcess
  BY <1>1 DEF ArgvIsOfTheProcess
<1> QED
  BY Invariance, <1>2, PTL

=============================================================================
