----------------------- MODULE ExcludePatternsProofs -----------------------
(***************************************************************************)
(* should_exclude computes what the patterns mean, for every workspace,    *)
(* path and pattern.  The library's induction theorems take a predicate,   *)
(* so induction is done here on sets: a set of naturals that is not empty  *)
(* has a least element.                                                    *)
(***************************************************************************)
EXTENDS ExcludePatterns, SequenceTheorems, WellFoundedInduction, TLAPS

(***************************************************************************)
(* Induction and recursion.                                                *)
(***************************************************************************)

LEMMA LeastOf ==
    ASSUME NEW S \in SUBSET Nat, S # {}
    PROVE  \E m \in S : \A k \in S : m <= k
<1>1. PICK m \in S : \A k \in S : <<k, m>> \notin OpToRel(<, Nat)
  BY NatLessThanWellFounded, WFMin
<1>2. OpToRel(<, Nat) = {ss \in Nat \X Nat : ss[1] < ss[2]}
  BY Zenon DEF OpToRel
<1>3. \A k \in S : <<k, m>> \notin {ss \in Nat \X Nat : ss[1] < ss[2]}
  BY <1>1, <1>2
<1>4. ASSUME NEW k \in S
      PROVE  m <= k
  <2>1. k \in Nat /\ m \in Nat /\ <<k, m>> \in Nat \X Nat
    OBVIOUS
  <2>2. ~(<<k, m>>[1] < <<k, m>>[2])
    BY <1>3, <2>1
  <2> QED
    BY <2>1, <2>2
<1> QED
  BY <1>4

LEMMA InductionOn ==
    ASSUME NEW S, 0 \in S, \A n \in Nat : n \in S => n + 1 \in S
    PROVE  Nat \subseteq S
<1> DEFINE T == Nat \ S
<1>1. SUFFICES ASSUME T # {} PROVE FALSE
  OBVIOUS
<1>2. PICK m \in T : \A k \in T : m <= k
  BY <1>1, LeastOf
<1>3. m # 0 /\ m - 1 \in Nat /\ m - 1 \in S
  BY <1>2
<1> QED
  BY <1>2, <1>3

LEMMA InductionUpTo ==
    ASSUME NEW n \in Nat, NEW S, 0 \in S,
           \A k \in 0 .. n - 1 : k \in S => k + 1 \in S
    PROVE  0 .. n \subseteq S
<1> DEFINE T == S \cup {k \in Nat : k > n}
<1>1. 0 \in T /\ \A k \in Nat : k \in T => k + 1 \in T
  OBVIOUS
<1>2. Nat \subseteq T
  BY <1>1, InductionOn
<1> QED
  BY <1>2

\* A step from each place to the next one defines a function.
Leads(step, n, S) == \A i \in 1 .. n, x \in S : step[<<i, x>>] \in S
Follows(f, step, b, n, S) ==
    /\ f \in [0 .. n -> S]
    /\ f[0] = b
    /\ \A i \in 1 .. n : f[i] = step[<<i, f[i - 1]>>]

LEMMA RecursionExists ==
    ASSUME NEW n \in Nat, NEW S, NEW b \in S, NEW step, Leads(step, n, S)
    PROVE  \E f : Follows(f, step, b, n, S)
<1> USE DEF Leads, Follows
<1> DEFINE UpTo(f, k) == Follows(f, step, b, k, S)
           T == {k \in Nat : k <= n => \E f : UpTo(f, k)}
<1>0. \A k \in Nat : k \in T <=> (k <= n => \E f : UpTo(f, k))
  <2> HIDE DEF UpTo
  <2> QED
    BY Zenon
<1> HIDE DEF T
<1>1. 0 \in T
  <2>1. UpTo([i \in 0 .. 0 |-> b], 0)
    OBVIOUS
  <2> QED
    BY <2>1, <1>0
<1>2. ASSUME NEW k \in Nat, k \in T
      PROVE  k + 1 \in T
  <2>1. SUFFICES ASSUME k + 1 <= n PROVE \E f : UpTo(f, k + 1)
    <3> HIDE DEF UpTo
    <3> QED
      BY <1>0
  <2>2. PICK f : UpTo(f, k)
    <3> HIDE DEF UpTo
    <3> QED
      BY <1>2, <1>0, <2>1
  <2> DEFINE g == [i \in 0 .. k + 1 |->
                     IF i = k + 1 THEN step[<<k + 1, f[k]>>] ELSE f[i]]
  <2>3. step[<<k + 1, f[k]>>] \in S
    BY <2>1, <2>2
  <2>4. g \in [0 .. k + 1 -> S]
    BY <2>2, <2>3
  <2>5. \A i \in 1 .. k + 1 : g[i] = step[<<i, g[i - 1]>>]
    <3> TAKE i \in 1 .. k + 1
    <3>1. CASE i = k + 1
      BY <3>1
    <3>2. CASE i # k + 1
      BY <3>2, <2>2
    <3> QED
      BY <3>1, <3>2
  <2>6. UpTo(g, k + 1)
    <3>1. g[0] = b
      BY <2>2
    <3> HIDE DEF g
    <3> QED
      BY <2>4, <2>5, <3>1
  <2> HIDE DEF UpTo, g
  <2> QED
    BY <2>6
<1>3. n \in T
  BY <1>1, <1>2, InductionOn
<1> HIDE DEF UpTo
<1>4. \E f : UpTo(f, n)
  BY <1>3, <1>0
<1> HIDE DEF Follows
<1> QED
  BY <1>4 DEF UpTo

(***************************************************************************)
(* Texts.                                                                  *)
(***************************************************************************)

\* The part stands in the text behind its first k characters.
Stands(part, text, k) ==
    /\ k + Len(part) <= Len(text)
    /\ \A j \in 1 .. Len(part) : text[k + j] = part[j]

LEMMA TextFacts ==
    ASSUME NEW S, NEW t \in Seq(S)
    PROVE  /\ Len(t) \in Nat /\ DOMAIN t = 1 .. Len(t)
           /\ \A i \in 1 .. Len(t) : t[i] \in S
           /\ \A u \in Seq(S) :
                 t = u <=> /\ Len(t) = Len(u)
                           /\ \A i \in 1 .. Len(t) : t[i] = u[i]
<1>1. Len(t) \in Nat /\ t \in [1 .. Len(t) -> S]
  BY LenProperties
<1> QED
  BY <1>1, SeqEqual

LEMMA PieceFacts ==
    ASSUME NEW S, NEW t \in Seq(S), NEW k \in Nat, NEW n \in Nat, k + n <= Len(t)
    PROVE  /\ SubSeq(t, k + 1, k + n) \in Seq(S)
           /\ Len(SubSeq(t, k + 1, k + n)) = n
           /\ \A i \in 1 .. n : SubSeq(t, k + 1, k + n)[i] = t[k + i]
OBVIOUS

LEMMA PieceIs ==
    ASSUME NEW S, NEW part \in Seq(S), NEW text \in Seq(S), NEW k \in Nat,
           k + Len(part) <= Len(text)
    PROVE  SubSeq(text, k + 1, k + Len(part)) = part <=> Stands(part, text, k)
<1> DEFINE piece == SubSeq(text, k + 1, k + Len(part))
<1>1. Len(part) \in Nat
  BY TextFacts
<1>2. /\ piece \in Seq(S) /\ Len(piece) = Len(part)
      /\ \A i \in 1 .. Len(part) : piece[i] = text[k + i]
  BY <1>1, PieceFacts
<1> HIDE DEF piece
<1>3. piece = part <=> \A i \in 1 .. Len(part) : piece[i] = part[i]
  BY <1>2, TextFacts
<1>4. piece = part <=> Stands(part, text, k)
  BY <1>2, <1>3 DEF Stands
<1> QED
  BY <1>4 DEF piece

LEMMA OccurrencesAre ==
    ASSUME NEW S, NEW part \in Seq(S), NEW text \in Seq(S), NEW pos \in Nat
    PROVE  Occurrences(part, text, pos) = {k \in Nat : k >= pos /\ Stands(part, text, k)}
<1>1. Len(part) \in Nat /\ Len(text) \in Nat
  BY TextFacts
<1>2. ASSUME NEW k
      PROVE  k \in Occurrences(part, text, pos)
                <=> k \in Nat /\ k >= pos /\ Stands(part, text, k)
  <2>1. k \in pos .. Len(text) - Len(part)
          <=> k \in Nat /\ k >= pos /\ k + Len(part) <= Len(text)
    BY <1>1
  <2>2. ASSUME k \in Nat, k + Len(part) <= Len(text)
        PROVE  SubSeq(text, k + 1, k + Len(part)) = part <=> Stands(part, text, k)
    BY <2>2, PieceIs
  <2> QED
    BY <2>1, <2>2 DEF Occurrences, Stands
<1> QED
  BY <1>2

LEMMA PrefixStands ==
    ASSUME NEW S, NEW s \in Seq(S), NEW t \in Seq(S)
    PROVE  IsPrefix(s, t) <=> Stands(s, t, 0)
<1>1. Len(s) \in Nat
  BY TextFacts
<1>2. SubSeq(s, 1, Len(s)) = s
  BY SubSeqFull
<1>3. ASSUME Len(s) <= Len(t)
      PROVE  SubSeq(t, 1, Len(s)) = s <=> Stands(s, t, 0)
  BY <1>1, <1>3, PieceIs
<1> QED
  BY <1>1, <1>2, <1>3 DEF IsPrefix, Stands

LEMMA SuffixStands ==
    ASSUME NEW S, NEW s \in Seq(S), NEW t \in Seq(S)
    PROVE  IsSuffix(s, t) <=> Len(s) <= Len(t) /\ Stands(s, t, Len(t) - Len(s))
<1> DEFINE m == Len(s)  n == Len(t)
<1>1. m \in Nat /\ n \in Nat
  BY TextFacts
<1>2. /\ Reverse(s) \in Seq(S) /\ Len(Reverse(s)) = m
      /\ \A i \in 1 .. m : Reverse(s)[i] = s[m - i + 1]
      /\ Reverse(t) \in Seq(S) /\ Len(Reverse(t)) = n
      /\ \A i \in 1 .. n : Reverse(t)[i] = t[n - i + 1]
  BY <1>1, TextFacts DEF Reverse
<1>3. IsSuffix(s, t) <=> m <= n /\ \A j \in 1 .. m : Reverse(t)[j] = Reverse(s)[j]
  BY <1>1, <1>2, PrefixStands DEF IsSuffix, Stands
<1>4. ASSUME m <= n
      PROVE  (\A j \in 1 .. m : Reverse(t)[j] = Reverse(s)[j])
                <=> \A i \in 1 .. m : t[n - m + i] = s[i]
  <2>1. ASSUME \A j \in 1 .. m : Reverse(t)[j] = Reverse(s)[j], NEW i \in 1 .. m
        PROVE  t[n - m + i] = s[i]
    <3>1. m - i + 1 \in 1 .. m /\ m - i + 1 \in 1 .. n
      BY <1>1, <1>4
    <3>2. /\ Reverse(t)[m - i + 1] = t[n - (m - i + 1) + 1]
          /\ Reverse(s)[m - i + 1] = s[m - (m - i + 1) + 1]
      BY <3>1, <1>2
    <3>3. n - (m - i + 1) + 1 = n - m + i /\ m - (m - i + 1) + 1 = i
      BY <1>1
    <3> QED
      BY <2>1, <3>1, <3>2, <3>3
  <2>2. ASSUME \A i \in 1 .. m : t[n - m + i] = s[i], NEW j \in 1 .. m
        PROVE  Reverse(t)[j] = Reverse(s)[j]
    <3>1. m - j + 1 \in 1 .. m /\ j \in 1 .. n
      BY <1>1, <1>4
    <3>2. t[n - m + (m - j + 1)] = s[m - j + 1]
      BY <2>2, <3>1
    <3>3. n - m + (m - j + 1) = n - j + 1
      BY <1>1
    <3> QED
      BY <1>2, <3>1, <3>2, <3>3
  <2> QED
    BY <2>1, <2>2
<1> QED
  BY <1>1, <1>3, <1>4 DEF Stands

(***************************************************************************)
(* split.                                                                  *)
(***************************************************************************)

NextParts(parts, c) ==
    IF <<c>> = Star THEN Append(parts, <<>>)
    ELSE Front(parts) \o << Append(Last(parts), c) >>

PartLists == Seq(Texts) \ {<<>>}
IsLonger(longer, part, c) == longer = Append(part, c)

LEMMA NextPartsFacts ==
    ASSUME NEW parts \in PartLists, NEW c \in Characters
    PROVE  /\ NextParts(parts, c) \in PartLists
           /\ <<c>> = Star =>
                /\ Len(NextParts(parts, c)) = Len(parts) + 1
                /\ \A i \in 1 .. Len(parts) : NextParts(parts, c)[i] = parts[i]
                /\ NextParts(parts, c)[Len(parts) + 1] = <<>>
           /\ <<c>> # Star =>
                /\ Len(NextParts(parts, c)) = Len(parts)
                /\ \A i \in 1 .. Len(parts) - 1 : NextParts(parts, c)[i] = parts[i]
                /\ IsLonger(NextParts(parts, c)[Len(parts)], parts[Len(parts)], c)
<1>1. /\ Len(parts) \in Nat /\ Len(parts) > 0
      /\ \A i \in 1 .. Len(parts) : parts[i] \in Texts
  BY TextFacts, EmptySeq DEF PartLists
<1>2. CASE <<c>> = Star
  <2>1. NextParts(parts, c) = Append(parts, <<>>)
    BY <1>2 DEF NextParts
  <2>2. <<>> \in Texts
    BY DEF Texts
  <2> QED
    BY <1>1, <1>2, <2>1, <2>2, AppendProperties DEF PartLists
<1>3. CASE <<c>> # Star
  <2> DEFINE front == Front(parts)
             last == Append(parts[Len(parts)], c)
  <2>1. NextParts(parts, c) = front \o <<last>>
    BY <1>3 DEF NextParts, Last
  <2>2. /\ front \in Seq(Texts) /\ Len(front) = Len(parts) - 1
        /\ \A i \in 1 .. Len(parts) - 1 : front[i] = parts[i]
    <3>1. parts \in Seq(Texts) /\ Len(parts) - 1 \in Nat
      BY <1>1 DEF PartLists
    <3>2. /\ SubSeq(parts, 1, Len(parts) - 1) \in Seq(Texts)
          /\ Len(SubSeq(parts, 1, Len(parts) - 1)) = Len(parts) - 1
          /\ \A i \in 1 .. Len(parts) - 1 :
                SubSeq(parts, 1, Len(parts) - 1)[i] = parts[i]
      <4>1. /\ 0 \in Nat /\ 0 + (Len(parts) - 1) <= Len(parts)
            /\ 0 + 1 = 1 /\ 0 + (Len(parts) - 1) = Len(parts) - 1
            /\ \A i \in 1 .. Len(parts) - 1 : 0 + i = i
        BY <3>1
      <4> QED
        BY <3>1, <4>1, PieceFacts
    <3> QED
      BY <3>2 DEF Front
  <2>3. last \in Texts
    <3>1. parts[Len(parts)] \in Seq(Characters)
      BY <1>1 DEF Texts
    <3> QED
      BY <3>1, AppendProperties DEF Texts
  <2> HIDE DEF front, last
  <2>4. <<last>> \in Seq(Texts) /\ Len(<<last>>) = 1 /\ <<last>>[1] = last
    BY <2>3
  <2>5. /\ front \o <<last>> \in Seq(Texts)
        /\ Len(front \o <<last>>) = Len(parts)
        /\ \A i \in 1 .. Len(parts) - 1 : (front \o <<last>>)[i] = parts[i]
        /\ (front \o <<last>>)[Len(parts)] = last
    BY <1>1, <2>2, <2>4, ConcatProperties
  <2>6. front \o <<last>> # <<>>
    BY <1>1, <2>5
  <2> QED
    BY <1>3, <2>1, <2>5, <2>6 DEF PartLists, last, IsLonger
<1> QED
  BY <1>2, <1>3

\* The recursion of split is well-founded.
LEMMA SplitRecursion ==
    ASSUME NEW pat \in Texts
    PROVE  /\ \A i \in 0 .. Len(pat) : SplitOf(pat)[i] \in PartLists
           /\ SplitOf(pat)[0] = << <<>> >>
           /\ \A i \in 1 .. Len(pat) :
                 SplitOf(pat)[i] = NextParts(SplitOf(pat)[i - 1], pat[i])
<1> DEFINE n == Len(pat)
           Def(g) == [i \in 0 .. n |-> IF i = 0 THEN << <<>> >>
                                      ELSE NextParts(g[i - 1], pat[i])]
           step == [x \in (1 .. n) \X PartLists |-> NextParts(x[2], pat[x[1]])]
<1>1. n \in Nat /\ \A i \in 1 .. n : pat[i] \in Characters
  BY TextFacts DEF Texts
<1>2. << <<>> >> \in PartLists
  BY DEF PartLists, Texts
<1>3. step \in [(1 .. n) \X PartLists -> PartLists]
  BY <1>1, NextPartsFacts
<1>4. PICK f \in [0 .. n -> PartLists] :
         f[0] = << <<>> >> /\ \A i \in 1 .. n : f[i] = step[<<i, f[i - 1]>>]
  <2>1. Leads(step, n, PartLists)
    BY <1>1, <1>3 DEF Leads
  <2> HIDE DEF step, n
  <2>2. PICK f : Follows(f, step, << <<>> >>, n, PartLists)
    BY <1>1, <1>2, <2>1, RecursionExists
  <2> QED
    BY <2>2 DEF Follows
<1>5. \A i \in 1 .. n : f[i] = NextParts(f[i - 1], pat[i])
  <2> TAKE i \in 1 .. n
  <2>1. f[i - 1] \in PartLists
    BY <1>1, <1>4
  <2> QED
    BY <1>4, <2>1
<1>6. f = Def(f)
  <2>1. \A i \in 0 .. n :
           f[i] = IF i = 0 THEN << <<>> >> ELSE NextParts(f[i - 1], pat[i])
    <3> TAKE i \in 0 .. n
    <3>1. CASE i = 0
      BY <1>4, <3>1
    <3>2. CASE i # 0
      <4>1. i \in 1 .. n
        BY <1>1, <3>2
      <4> QED
        BY <1>5, <3>2, <4>1
    <3> QED
      BY <3>1, <3>2
  <2> HIDE DEF n
  <2> QED
    BY <1>4, <2>1
<1>7. SplitOf(pat) = CHOOSE g : g = Def(g)
  BY DEF SplitOf, NextParts
<1>8. SplitOf(pat) = Def(SplitOf(pat))
  <2> HIDE DEF Def
  <2> QED
    BY <1>6, <1>7
<1>9. /\ SplitOf(pat)[0] = << <<>> >>
      /\ \A i \in 1 .. n :
            SplitOf(pat)[i] = NextParts(SplitOf(pat)[i - 1], pat[i])
  <2> DEFINE h == SplitOf(pat)
  <2>1. h = Def(h)
    BY <1>8
  <2>2. \A i \in 0 .. n : Def(h)[i] = IF i = 0 THEN << <<>> >>
                                      ELSE NextParts(h[i - 1], pat[i])
    OBVIOUS
  <2> HIDE DEF h, Def
  <2>3. /\ h[0] = << <<>> >>
        /\ \A i \in 1 .. n : h[i] = NextParts(h[i - 1], pat[i])
    BY <1>1, <2>1, <2>2
  <2> QED
    BY <2>3 DEF h
<1> DEFINE T == {i \in 0 .. n : SplitOf(pat)[i] \in PartLists}
<1>10. 0 .. n \subseteq T
  <2>1. 0 \in T
    <3>1. 0 \in 0 .. n /\ SplitOf(pat)[0] \in PartLists
      BY <1>1, <1>2, <1>9
    <3> QED
      BY <3>1
  <2>2. ASSUME NEW k \in 0 .. n - 1, k \in T
        PROVE  k + 1 \in T
    <3>1. k + 1 \in 1 .. n /\ (k + 1) - 1 = k
      BY <1>1
    <3>2. SplitOf(pat)[k] \in PartLists /\ pat[k + 1] \in Characters
      BY <1>1, <2>2, <3>1
    <3>3. SplitOf(pat)[k + 1] = NextParts(SplitOf(pat)[k], pat[k + 1])
      BY <1>9, <3>1
    <3> QED
      BY <1>1, <3>1, <3>2, <3>3, NextPartsFacts
  <2> HIDE DEF T
  <2> QED
    BY <1>1, <2>1, <2>2, InductionUpTo
<1> QED
  BY <1>9, <1>10

(***************************************************************************)
(* Cuts of a text, and places for the parts of a pattern in it: both can   *)
(* be followed from the left, a character or a part at a time.             *)
(***************************************************************************)

IsCut(cut, pat, n, text, e) ==
    /\ cut \in [0 .. n -> 0 .. Len(text)]
    /\ cut[0] = 0 /\ cut[n] = e
    /\ \A i \in 1 .. n :
          IF <<pat[i]>> = Star THEN cut[i] >= cut[i - 1]
          ELSE cut[i] = cut[i - 1] + 1 /\ pat[i] = text[cut[i]]

\* The first n characters of the pattern take the first e ones of the text.
Reaches(pat, n, text, e) == \E cut : IsCut(cut, pat, n, text, e)

LEMMA MatchesReaches ==
    ASSUME NEW pat, NEW text
    PROVE  Matches(pat, text) <=> Reaches(pat, Len(pat), text, Len(text))
BY DEF Matches, Reaches, IsCut

LEMMA ReachesNone ==
    ASSUME NEW pat, NEW text \in Texts, NEW e \in 0 .. Len(text)
    PROVE  Reaches(pat, 0, text, e) <=> e = 0
<1>1. Len(text) \in Nat
  BY TextFacts DEF Texts
<1>2. ASSUME e = 0
      PROVE  IsCut([i \in 0 .. 0 |-> 0], pat, 0, text, e)
  BY <1>1, <1>2 DEF IsCut
<1> QED
  BY <1>2 DEF Reaches, IsCut

LEMMA ReachesOneMore ==
    ASSUME NEW pat, NEW text \in Texts, NEW n \in Nat, NEW e \in 0 .. Len(text)
    PROVE  Reaches(pat, n + 1, text, e) <=>
             IF <<pat[n + 1]>> = Star
             THEN \E d \in 0 .. e : Reaches(pat, n, text, d)
             ELSE e >= 1 /\ pat[n + 1] = text[e] /\ Reaches(pat, n, text, e - 1)
<1>1. Len(text) \in Nat
  BY TextFacts DEF Texts
<1>2. ASSUME NEW cut, IsCut(cut, pat, n + 1, text, e)
      PROVE  /\ cut[n] \in 0 .. Len(text) /\ Reaches(pat, n, text, cut[n])
             /\ IF <<pat[n + 1]>> = Star THEN cut[n] <= e
                ELSE e = cut[n] + 1 /\ pat[n + 1] = text[e]
  <2> DEFINE c == [i \in 0 .. n |-> cut[i]]
  <2>1. IsCut(c, pat, n, text, cut[n])
    BY <1>1, <1>2 DEF IsCut
  <2>2. n + 1 \in 1 .. n + 1 /\ (n + 1) - 1 = n /\ cut[n] \in 0 .. Len(text)
    BY <1>2 DEF IsCut
  <2>3. IF <<pat[n + 1]>> = Star THEN cut[n] <= e
        ELSE e = cut[n] + 1 /\ pat[n + 1] = text[e]
    BY <1>1, <1>2, <2>2 DEF IsCut
  <2> QED
    BY <2>1, <2>2, <2>3 DEF Reaches
<1>3. ASSUME NEW d \in 0 .. Len(text), NEW cut, IsCut(cut, pat, n, text, d),
             IF <<pat[n + 1]>> = Star THEN d <= e
             ELSE e = d + 1 /\ pat[n + 1] = text[e]
      PROVE  Reaches(pat, n + 1, text, e)
  <2> DEFINE c == [i \in 0 .. n + 1 |-> IF i = n + 1 THEN e ELSE cut[i]]
  <2>1. c \in [0 .. n + 1 -> 0 .. Len(text)] /\ c[0] = 0 /\ c[n + 1] = e
    BY <1>1, <1>3 DEF IsCut
  <2>2. ASSUME NEW i \in 1 .. n + 1
        PROVE  IF <<pat[i]>> = Star THEN c[i] >= c[i - 1]
               ELSE c[i] = c[i - 1] + 1 /\ pat[i] = text[c[i]]
    <3>1. CASE i = n + 1
      BY <1>1, <1>3, <3>1 DEF IsCut
    <3>2. CASE i # n + 1
      BY <1>3, <3>2 DEF IsCut
    <3> QED
      BY <3>1, <3>2
  <2>3. IsCut(c, pat, n + 1, text, e)
    <3> HIDE DEF c
    <3> QED
      BY <2>1, <2>2 DEF IsCut
  <2> QED
    BY <2>3 DEF Reaches
<1>4. ASSUME Reaches(pat, n + 1, text, e)
      PROVE  IF <<pat[n + 1]>> = Star
             THEN \E d \in 0 .. e : Reaches(pat, n, text, d)
             ELSE e >= 1 /\ pat[n + 1] = text[e] /\ Reaches(pat, n, text, e - 1)
  <2>1. PICK cut : IsCut(cut, pat, n + 1, text, e)
    BY <1>4 DEF Reaches
  <2>2. /\ cut[n] \in 0 .. Len(text) /\ Reaches(pat, n, text, cut[n])
        /\ IF <<pat[n + 1]>> = Star THEN cut[n] <= e
           ELSE e = cut[n] + 1 /\ pat[n + 1] = text[e]
    BY <2>1, <1>2
  <2>3. CASE <<pat[n + 1]>> = Star
    <3>1. cut[n] \in 0 .. e
      BY <1>1, <2>2, <2>3
    <3> QED
      BY <2>2, <2>3, <3>1
  <2>4. CASE <<pat[n + 1]>> # Star
    <3>1. e >= 1 /\ e - 1 = cut[n]
      BY <1>1, <2>2, <2>4
    <3> QED
      BY <2>2, <2>4, <3>1
  <2> QED
    BY <2>3, <2>4
<1>5. ASSUME NEW d \in 0 .. Len(text), Reaches(pat, n, text, d),
             IF <<pat[n + 1]>> = Star THEN d <= e
             ELSE e = d + 1 /\ pat[n + 1] = text[e]
      PROVE  Reaches(pat, n + 1, text, e)
  BY <1>3, <1>5 DEF Reaches
<1>6. CASE <<pat[n + 1]>> = Star
  <2>1. \A d \in 0 .. e : d \in 0 .. Len(text) /\ d <= e
    BY <1>1
  <2> QED
    BY <1>4, <1>5, <1>6, <2>1
<1>7. CASE <<pat[n + 1]>> # Star
  <2>1. e >= 1 => e - 1 \in 0 .. Len(text) /\ e = (e - 1) + 1
    BY <1>1
  <2> QED
    BY <1>4, <1>5, <1>7, <2>1
<1> QED
  BY <1>6, <1>7

\* The first m parts, one behind the other, the first of them at the start and
\* the last of them up to e.
ArePlaces(at, parts, m, text, e) ==
    /\ at \in [1 .. m -> Nat]
    /\ at[1] = 0 /\ at[m] + Len(parts[m]) = e
    /\ \A i \in 1 .. m : Stands(parts[i], text, at[i])
    /\ \A i \in 1 .. m - 1 : at[i] + Len(parts[i]) <= at[i + 1]

Placed(parts, m, text, e) == \E at : ArePlaces(at, parts, m, text, e)

LEMMA PlacedAgain ==
    ASSUME NEW parts, NEW parts2, NEW m \in Nat, m >= 1,
           \A i \in 1 .. m : parts[i] = parts2[i], NEW text, NEW e
    PROVE  Placed(parts, m, text, e) <=> Placed(parts2, m, text, e)
<1>1. \A at : ArePlaces(at, parts, m, text, e) <=> ArePlaces(at, parts2, m, text, e)
  <2>1. m \in 1 .. m /\ \A i \in 1 .. m - 1 : i \in 1 .. m
    OBVIOUS
  <2> QED
    BY <2>1 DEF ArePlaces
<1> QED
  BY <1>1 DEF Placed

LEMMA PlacedFirst ==
    ASSUME NEW parts, NEW text \in Texts, NEW e \in Nat
    PROVE  Placed(parts, 1, text, e) <=>
             e = 0 + Len(parts[1]) /\ Stands(parts[1], text, 0)
<1>1. ASSUME e = 0 + Len(parts[1]), Stands(parts[1], text, 0)
      PROVE  ArePlaces([i \in 1 .. 1 |-> 0], parts, 1, text, e)
  BY <1>1 DEF ArePlaces
<1>2. ASSUME NEW at, ArePlaces(at, parts, 1, text, e)
      PROVE  e = 0 + Len(parts[1]) /\ Stands(parts[1], text, 0)
  BY <1>2 DEF ArePlaces
<1> QED
  BY <1>1, <1>2 DEF Placed

LEMMA PlacedOneMore ==
    ASSUME NEW parts \in Seq(Texts), NEW m \in Nat, m >= 1, m + 1 <= Len(parts),
           NEW text \in Texts, NEW e \in Nat
    PROVE  Placed(parts, m + 1, text, e) <=>
             \E d, k \in Nat :
                /\ Placed(parts, m, text, d) /\ d <= k
                /\ Stands(parts[m + 1], text, k) /\ k + Len(parts[m + 1]) = e
<1>1. \A i \in 1 .. m + 1 : Len(parts[i]) \in Nat
  <2> TAKE i \in 1 .. m + 1
  <2>1. parts[i] \in Texts
    BY TextFacts
  <2> QED
    BY <2>1, TextFacts DEF Texts
<1>2. ASSUME NEW at, ArePlaces(at, parts, m + 1, text, e)
      PROVE  \E d, k \in Nat :
                /\ Placed(parts, m, text, d) /\ d <= k
                /\ Stands(parts[m + 1], text, k) /\ k + Len(parts[m + 1]) = e
  <2> DEFINE d == at[m] + Len(parts[m])
             k == at[m + 1]
             b == [i \in 1 .. m |-> at[i]]
  <2>1. d \in Nat /\ k \in Nat
    BY <1>1, <1>2 DEF ArePlaces
  <2>2. d <= k /\ Stands(parts[m + 1], text, k) /\ k + Len(parts[m + 1]) = e
    BY <1>2 DEF ArePlaces
  <2>3. ArePlaces(b, parts, m, text, d)
    BY <1>2 DEF ArePlaces
  <2>4. Placed(parts, m, text, d)
    BY <2>3 DEF Placed
  <2> HIDE DEF d, k
  <2> QED
    BY <2>1, <2>2, <2>4
<1>3. ASSUME NEW d \in Nat, NEW k \in Nat, NEW at, ArePlaces(at, parts, m, text, d),
             d <= k, Stands(parts[m + 1], text, k), k + Len(parts[m + 1]) = e
      PROVE  Placed(parts, m + 1, text, e)
  <2> DEFINE b == [i \in 1 .. m + 1 |-> IF i = m + 1 THEN k ELSE at[i]]
  <2>1. b \in [1 .. m + 1 -> Nat] /\ b[1] = 0 /\ b[m + 1] = k
    BY <1>3 DEF ArePlaces
  <2>2. ASSUME NEW i \in 1 .. m + 1
        PROVE  Stands(parts[i], text, b[i])
    <3>1. CASE i = m + 1
      BY <1>3, <3>1
    <3>2. CASE i # m + 1
      <4>1. i \in 1 .. m /\ b[i] = at[i]
        BY <3>2
      <4> QED
        BY <1>3, <4>1 DEF ArePlaces
    <3> QED
      BY <3>1, <3>2
  <2>3. ASSUME NEW i \in 1 .. m
        PROVE  b[i] + Len(parts[i]) <= b[i + 1]
    <3>1. CASE i = m
      BY <1>3, <3>1 DEF ArePlaces
    <3>2. CASE i # m
      <4>1. i \in 1 .. m - 1 /\ b[i] = at[i] /\ b[i + 1] = at[i + 1]
        BY <3>2
      <4> QED
        BY <1>3, <4>1 DEF ArePlaces
    <3> QED
      BY <3>1, <3>2
  <2>4. ArePlaces(b, parts, m + 1, text, e)
    <3>1. \A i \in 1 .. (m + 1) - 1 : i \in 1 .. m
      OBVIOUS
    <3> HIDE DEF b
    <3> QED
      BY <1>3, <2>1, <2>2, <2>3, <3>1 DEF ArePlaces
  <2> QED
    BY <2>4 DEF Placed
<1> QED
  BY <1>2, <1>3 DEF Placed

LEMMA LongerText ==
    ASSUME NEW S, NEW t \in Seq(S), NEW c \in S
    PROVE  /\ Append(t, c) \in Seq(S) /\ Len(Append(t, c)) = Len(t) + 1
           /\ Append(t, c)[Len(t) + 1] = c
           /\ \A j \in 1 .. Len(t) : Append(t, c)[j] = t[j]
OBVIOUS

LEMMA StandsLonger ==
    ASSUME NEW part \in Texts, NEW c \in Characters, NEW longer, IsLonger(longer, part, c),
           NEW text \in Texts, NEW k \in Nat
    PROVE  Stands(longer, text, k) <=>
             /\ Stands(part, text, k) /\ k + Len(part) + 1 <= Len(text)
             /\ text[k + Len(part) + 1] = c
<1> DEFINE n == Len(part)
<1>1. n \in Nat /\ Len(text) \in Nat
  BY TextFacts DEF Texts
<1>2. /\ Len(longer) = n + 1 /\ longer[n + 1] = c
      /\ \A j \in 1 .. n : longer[j] = part[j]
  <2>1. part \in Seq(Characters)
    BY DEF Texts
  <2> QED
    BY <2>1, LongerText DEF IsLonger
<1>3. Stands(longer, text, k) <=>
        /\ k + (n + 1) <= Len(text)
        /\ \A j \in 1 .. n + 1 : text[k + j] = longer[j]
  BY <1>2 DEF Stands
<1>4. Stands(part, text, k) <=>
        k + n <= Len(text) /\ \A j \in 1 .. n : text[k + j] = part[j]
  BY DEF Stands
<1> HIDE DEF n
<1>5. ASSUME Stands(longer, text, k)
      PROVE  Stands(part, text, k) /\ k + n + 1 <= Len(text) /\ text[k + n + 1] = c
  <2>1. /\ k + (n + 1) = k + n + 1 /\ n + 1 \in 1 .. n + 1
        /\ \A j \in 1 .. n : j \in 1 .. n + 1
    BY <1>1
  <2>2. \A j \in 1 .. n : text[k + j] = part[j]
    BY <1>2, <1>3, <1>5, <2>1
  <2>3. text[k + n + 1] = c
    <3>1. text[k + (n + 1)] = longer[n + 1]
      BY <1>3, <1>5, <2>1
    <3> QED
      BY <1>2, <2>1, <3>1
  <2> QED
    BY <1>1, <1>3, <1>4, <1>5, <2>2, <2>3
<1>6. ASSUME Stands(part, text, k), k + n + 1 <= Len(text), text[k + n + 1] = c
      PROVE  Stands(longer, text, k)
  <2>1. ASSUME NEW j \in 1 .. n + 1
        PROVE  text[k + j] = longer[j]
    <3>1. CASE j \in 1 .. n
      <4>1. text[k + j] = part[j]
        BY <1>4, <1>6, <3>1
      <4>2. longer[j] = part[j]
        BY <1>2, <3>1
      <4> QED
        BY <4>1, <4>2
    <3>2. CASE j = n + 1
      <4>1. k + j = k + n + 1
        BY <1>1, <3>2
      <4> QED
        BY <1>2, <1>6, <3>2, <4>1
    <3> QED
      BY <1>1, <3>1, <3>2
  <2>2. k + (n + 1) <= Len(text)
    BY <1>1, <1>6
  <2> QED
    BY <1>3, <2>1, <2>2
<1>7. Stands(longer, text, k) <=>
        Stands(part, text, k) /\ k + n + 1 <= Len(text) /\ text[k + n + 1] = c
  BY <1>5, <1>6
<1> QED
  BY <1>7 DEF n

LEMMA PlacedStar ==
    ASSUME NEW parts \in PartLists, NEW parts2 \in PartLists,
           Len(parts2) = Len(parts) + 1, parts2[Len(parts) + 1] = <<>>,
           \A i \in 1 .. Len(parts) : parts2[i] = parts[i],
           NEW text \in Texts, NEW e \in 0 .. Len(text)
    PROVE  Placed(parts2, Len(parts2), text, e) <=>
             \E d \in 0 .. e : Placed(parts, Len(parts), text, d)
<1> DEFINE m == Len(parts)
<1>1. /\ m \in Nat /\ m >= 1 /\ Len(text) \in Nat /\ e \in Nat
      /\ parts2 \in Seq(Texts) /\ m + 1 <= Len(parts2)
  BY TextFacts, EmptySeq DEF PartLists, Texts
<1>2. Len(parts2[m + 1]) = 0 /\ \A k \in 0 .. Len(text) : Stands(parts2[m + 1], text, k)
  BY <1>1 DEF Stands
<1>3. \A d : Placed(parts2, m, text, d) <=> Placed(parts, m, text, d)
  BY <1>1, PlacedAgain
<1>4. Placed(parts2, m + 1, text, e) <=>
        \E d, k \in Nat :
           /\ Placed(parts2, m, text, d) /\ d <= k
           /\ Stands(parts2[m + 1], text, k) /\ k + Len(parts2[m + 1]) = e
  <2> HIDE DEF m
  <2> QED
    BY <1>1, PlacedOneMore
<1>5. Placed(parts2, m + 1, text, e) <=>
        \E d, k \in Nat : Placed(parts, m, text, d) /\ d <= k /\ k = e
  BY <1>1, <1>2, <1>3, <1>4
<1>6. Placed(parts2, m + 1, text, e) <=> \E d \in 0 .. e : Placed(parts, m, text, d)
  BY <1>1, <1>5
<1> QED
  BY <1>6

LEMMA PlacedCharacter ==
    ASSUME NEW parts \in PartLists, NEW parts2 \in PartLists, NEW c \in Characters,
           Len(parts2) = Len(parts),
           \A i \in 1 .. Len(parts) - 1 : parts2[i] = parts[i],
           IsLonger(parts2[Len(parts)], parts[Len(parts)], c),
           NEW text \in Texts, NEW e \in 0 .. Len(text)
    PROVE  Placed(parts2, Len(parts2), text, e) <=>
             e >= 1 /\ text[e] = c /\ Placed(parts, Len(parts), text, e - 1)
<1> DEFINE m == Len(parts)
           p == parts[m]
           q == parts2[m]
<1>1. /\ m \in Nat /\ m >= 1 /\ Len(text) \in Nat /\ e \in Nat
      /\ parts \in Seq(Texts) /\ parts2 \in Seq(Texts)
  BY TextFacts, EmptySeq DEF PartLists, Texts
<1>2. p \in Texts /\ p \in Seq(Characters) /\ Len(p) \in Nat
  <2>1. p \in Texts
    BY <1>1, TextFacts
  <2> QED
    BY <2>1, TextFacts DEF Texts
<1>3. IsLonger(q, p, c)
  OBVIOUS
<1> HIDE DEF p, q
<1>4. Len(q) = Len(p) + 1
  BY <1>2, <1>3, AppendProperties DEF IsLonger
<1>5. ASSUME NEW k \in Nat
      PROVE  Stands(q, text, k) /\ k + Len(q) = e
               <=> /\ Stands(p, text, k) /\ k + Len(p) = e - 1
                   /\ e >= 1 /\ text[e] = c
  <2>1. Stands(q, text, k) <=> /\ Stands(p, text, k) /\ k + Len(p) + 1 <= Len(text)
                               /\ text[k + Len(p) + 1] = c
    BY <1>2, <1>3, StandsLonger
  <2>2. ASSUME k + Len(q) = e
        PROVE  k + Len(p) + 1 = e /\ k + Len(p) = e - 1 /\ e >= 1
    BY <1>1, <1>2, <1>4, <2>2
  <2>3. ASSUME k + Len(p) = e - 1
        PROVE  k + Len(p) + 1 = e /\ k + Len(q) = e /\ e <= Len(text)
    BY <1>1, <1>2, <1>4, <2>3
  <2> QED
    BY <2>1, <2>2, <2>3
<1>6. CASE m = 1
  <2>1. Placed(parts2, 1, text, e) <=> e = 0 + Len(q) /\ Stands(q, text, 0)
    BY <1>1, <1>6, PlacedFirst DEF q
  <2>2. ASSUME e >= 1
        PROVE  Placed(parts, 1, text, e - 1) <=> e - 1 = 0 + Len(p) /\ Stands(p, text, 0)
    <3>1. e - 1 \in Nat
      BY <1>1, <2>2
    <3> QED
      BY <1>6, <3>1, PlacedFirst DEF p
  <2> QED
    BY <1>5, <1>6, <2>1, <2>2
<1>7. CASE m > 1
  <2> DEFINE l == m - 1
  <2>1. l \in Nat /\ l >= 1 /\ l + 1 = m /\ l + 1 <= Len(parts) /\ l + 1 <= Len(parts2)
    BY <1>1, <1>7
  <2>2. \A d : Placed(parts2, l, text, d) <=> Placed(parts, l, text, d)
    BY <2>1, PlacedAgain
  <2> HIDE DEF l
  <2>3. Placed(parts2, l + 1, text, e) <=>
          \E d, k \in Nat : /\ Placed(parts2, l, text, d) /\ d <= k
                            /\ Stands(parts2[l + 1], text, k)
                            /\ k + Len(parts2[l + 1]) = e
    BY <1>1, <2>1, PlacedOneMore
  <2>4. ASSUME e >= 1
        PROVE  Placed(parts, l + 1, text, e - 1) <=>
                 \E d, k \in Nat : /\ Placed(parts, l, text, d) /\ d <= k
                                   /\ Stands(parts[l + 1], text, k)
                                   /\ k + Len(parts[l + 1]) = e - 1
    <3>1. e - 1 \in Nat
      BY <1>1, <2>4
    <3> QED
      BY <1>1, <2>1, <3>1, PlacedOneMore
  <2>5. parts[l + 1] = p /\ parts2[l + 1] = q
    BY <2>1 DEF p, q
  <2>6. Placed(parts2, l + 1, text, e) <=>
          \E d, k \in Nat : /\ Placed(parts, l, text, d) /\ d <= k
                            /\ Stands(p, text, k) /\ k + Len(p) = e - 1
                            /\ e >= 1 /\ text[e] = c
    BY <1>5, <2>2, <2>3, <2>5
  <2>7. Placed(parts2, l + 1, text, e) <=>
             e >= 1 /\ text[e] = c /\ Placed(parts, l + 1, text, e - 1)
    BY <2>4, <2>5, <2>6
  <2> QED
    BY <2>1, <2>7
<1>8. Placed(parts2, m, text, e) <=>
        e >= 1 /\ text[e] = c /\ Placed(parts, m, text, e - 1)
  <2>1. m = 1 \/ m > 1
    BY <1>1
  <2> QED
    BY <1>6, <1>7, <2>1
<1> QED
  BY <1>8

\* A part for each piece of the pattern between two stars: the text matches the
\* first n characters of the pattern when their parts have places in it.
LEMMA SplitPlaces ==
    ASSUME NEW pat \in Texts, NEW text \in Texts
    PROVE  \A n \in 0 .. Len(pat), e \in 0 .. Len(text) :
              Reaches(pat, n, text, e)
                <=> Placed(SplitOf(pat)[n], Len(SplitOf(pat)[n]), text, e)
<1> DEFINE Same(n, e) == Reaches(pat, n, text, e)
                           <=> Placed(SplitOf(pat)[n], Len(SplitOf(pat)[n]), text, e)
           T == {n \in 0 .. Len(pat) : \A e \in 0 .. Len(text) : Same(n, e)}
<1>1. /\ Len(pat) \in Nat /\ Len(text) \in Nat
      /\ \A i \in 1 .. Len(pat) : pat[i] \in Characters
  BY TextFacts DEF Texts
<1>2. 0 \in T
  <2>1. SplitOf(pat)[0] = << <<>> >>
    BY SplitRecursion
  <2>2. Len(SplitOf(pat)[0]) = 1 /\ Len(SplitOf(pat)[0][1]) = 0
    BY <2>1
  <2>3. Stands(SplitOf(pat)[0][1], text, 0)
    BY <1>1, <2>2 DEF Stands
  <2>4. ASSUME NEW e \in 0 .. Len(text)
        PROVE  Same(0, e)
    <3>1. e \in Nat
      BY <1>1
    <3>2. Placed(SplitOf(pat)[0], 1, text, e) <=> e = 0
      BY <2>2, <2>3, <3>1, PlacedFirst
    <3> QED
      BY <2>2, <3>2, ReachesNone
  <2>5. 0 \in 0 .. Len(pat)
    BY <1>1
  <2> HIDE DEF Same
  <2> QED
    BY <2>4, <2>5
<1>3. ASSUME NEW n \in 0 .. Len(pat) - 1, n \in T
      PROVE  n + 1 \in T
  <2> DEFINE parts == SplitOf(pat)[n]
             parts2 == SplitOf(pat)[n + 1]
             c == pat[n + 1]
  <2>1. /\ n \in Nat /\ n \in 0 .. Len(pat) /\ n + 1 \in 1 .. Len(pat)
        /\ n + 1 \in 0 .. Len(pat) /\ (n + 1) - 1 = n
    BY <1>1
  <2>2. parts \in PartLists /\ parts2 \in PartLists /\ c \in Characters
    BY <1>1, <2>1, SplitRecursion
  <2>3. parts2 = NextParts(parts, c)
    BY <2>1, SplitRecursion
  <2>4. \A e \in 0 .. Len(text) : Reaches(pat, n, text, e)
                                    <=> Placed(parts, Len(parts), text, e)
    BY <1>3
  <2> HIDE DEF parts, parts2, T
  <2>5. CASE <<c>> = Star
    <3>1. /\ Len(parts2) = Len(parts) + 1 /\ parts2[Len(parts) + 1] = <<>>
          /\ \A i \in 1 .. Len(parts) : parts2[i] = parts[i]
      BY <2>2, <2>3, <2>5, NextPartsFacts
    <3>2. ASSUME NEW e \in 0 .. Len(text)
          PROVE  Reaches(pat, n + 1, text, e) <=> Placed(parts2, Len(parts2), text, e)
      <4>1. Placed(parts2, Len(parts2), text, e)
              <=> \E d \in 0 .. e : Placed(parts, Len(parts), text, d)
        BY <2>2, <3>1, PlacedStar
      <4>2. Reaches(pat, n + 1, text, e) <=> \E d \in 0 .. e : Reaches(pat, n, text, d)
        BY <2>1, <2>5, ReachesOneMore
      <4>3. \A d \in 0 .. e : d \in 0 .. Len(text)
        BY <1>1
      <4> QED
        BY <2>4, <4>1, <4>2, <4>3
    <3> QED
      BY <2>1, <3>2 DEF T, parts2
  <2>6. CASE <<c>> # Star
    <3>1. /\ Len(parts2) = Len(parts)
          /\ \A i \in 1 .. Len(parts) - 1 : parts2[i] = parts[i]
          /\ IsLonger(parts2[Len(parts)], parts[Len(parts)], c)
      BY <2>2, <2>3, <2>6, NextPartsFacts
    <3>2. ASSUME NEW e \in 0 .. Len(text)
          PROVE  Reaches(pat, n + 1, text, e) <=> Placed(parts2, Len(parts2), text, e)
      <4>1. Placed(parts2, Len(parts2), text, e)
              <=> e >= 1 /\ text[e] = c /\ Placed(parts, Len(parts), text, e - 1)
        BY <2>2, <3>1, PlacedCharacter
      <4>2. Reaches(pat, n + 1, text, e)
              <=> e >= 1 /\ c = text[e] /\ Reaches(pat, n, text, e - 1)
        BY <2>1, <2>6, ReachesOneMore
      <4>3. e >= 1 => e - 1 \in 0 .. Len(text)
        BY <1>1
      <4> QED
        BY <2>4, <4>1, <4>2, <4>3
    <3> QED
      BY <2>1, <3>2 DEF T, parts2
  <2> QED
    BY <2>5, <2>6
<1>4. 0 .. Len(pat) \subseteq T
  <2> HIDE DEF T
  <2> QED
    BY <1>1, <1>2, <1>3, InductionUpTo
<1> QED
  BY <1>4

COROLLARY MatchesPlaces ==
    ASSUME NEW pat \in Texts, NEW text \in Texts
    PROVE  Matches(pat, text) <=> Placed(Split(pat), Len(Split(pat)), text, Len(text))
<1>1. Len(pat) \in 0 .. Len(pat) /\ Len(text) \in 0 .. Len(text)
  BY TextFacts DEF Texts
<1> QED
  BY <1>1, MatchesReaches, SplitPlaces DEF Split

\* A pattern without a star is the only part.
LEMMA OnlyPart ==
    ASSUME NEW pat \in Texts, Len(Split(pat)) = 1
    PROVE  Split(pat)[1] = pat
<1> DEFINE Only(n) ==
              /\ Len(SplitOf(pat)[n][1]) = n
              /\ \A i \in 1 .. n : SplitOf(pat)[n][1][i] = pat[i]
           T == {n \in 0 .. Len(pat) : Len(SplitOf(pat)[n]) = 1 => Only(n)}
<1>1. Len(pat) \in Nat /\ \A i \in 1 .. Len(pat) : pat[i] \in Characters
  BY TextFacts DEF Texts
<1>2. 0 \in T
  <2>1. SplitOf(pat)[0] = << <<>> >>
    BY SplitRecursion
  <2>2. Only(0) /\ 0 \in 0 .. Len(pat)
    BY <1>1, <2>1
  <2> HIDE DEF Only
  <2> QED
    BY <2>2
<1>3. ASSUME NEW n \in 0 .. Len(pat) - 1, n \in T
      PROVE  n + 1 \in T
  <2> DEFINE parts == SplitOf(pat)[n]
             parts2 == SplitOf(pat)[n + 1]
             c == pat[n + 1]
  <2>1. /\ n \in Nat /\ n \in 0 .. Len(pat) /\ n + 1 \in 1 .. Len(pat)
        /\ n + 1 \in 0 .. Len(pat) /\ (n + 1) - 1 = n
    BY <1>1
  <2>2. parts \in PartLists /\ parts2 \in PartLists /\ c \in Characters
    BY <1>1, <2>1, SplitRecursion
  <2>3. parts2 = NextParts(parts, c)
    BY <2>1, SplitRecursion
  <2>4. Len(parts) = 1 =>
           Len(parts[1]) = n /\ \A i \in 1 .. n : parts[1][i] = pat[i]
    BY <1>3
  <2> HIDE DEF parts, parts2, T
  <2>5. Len(parts) \in Nat /\ Len(parts) >= 1 /\ \A i \in 1 .. Len(parts) : parts[i] \in Texts
    BY <2>2, TextFacts, EmptySeq DEF PartLists
  <2>6. SUFFICES ASSUME Len(parts2) = 1
                 PROVE  /\ Len(parts2[1]) = n + 1
                        /\ \A i \in 1 .. n + 1 : parts2[1][i] = pat[i]
    BY <2>1 DEF T, parts2
  <2>7. Len(parts) = 1 /\ IsLonger(parts2[1], parts[1], c)
    <3>1. <<c>> # Star
      BY <2>2, <2>3, <2>5, <2>6, NextPartsFacts
    <3>2. Len(parts2) = Len(parts) /\ IsLonger(parts2[Len(parts)], parts[Len(parts)], c)
      BY <2>2, <2>3, <3>1, NextPartsFacts
    <3> QED
      BY <2>6, <3>2
  <2>8. parts[1] \in Seq(Characters)
    BY <2>5, <2>7 DEF Texts
  <2> DEFINE p == parts[1]
             q == parts2[1]
  <2>9. /\ Len(q) = Len(p) + 1 /\ q[Len(p) + 1] = c
        /\ \A j \in 1 .. Len(p) : q[j] = p[j]
    <3> HIDE DEF p, q, c
    <3>1. p \in Seq(Characters) /\ IsLonger(q, p, c)
      BY <2>7, <2>8 DEF p, q
    <3> QED
      BY <2>2, <3>1, LongerText DEF IsLonger
  <2>10. Len(p) = n /\ \A i \in 1 .. n : p[i] = pat[i]
    BY <2>4, <2>7
  <2> HIDE DEF p, q
  <2>11. \A i \in 1 .. n + 1 : q[i] = pat[i]
    <3> TAKE i \in 1 .. n + 1
    <3>1. CASE i = n + 1
      BY <2>9, <2>10, <3>1
    <3>2. CASE i # n + 1
      <4>1. i \in 1 .. n
        BY <2>1, <3>2
      <4> QED
        BY <2>9, <2>10, <4>1
    <3> QED
      BY <3>1, <3>2
  <2> QED
    BY <2>9, <2>10, <2>11 DEF q
<1>4. 0 .. Len(pat) \subseteq T
  <2> HIDE DEF T
  <2> QED
    BY <1>1, <1>2, <1>3, InductionUpTo
<1> DEFINE part == Split(pat)[1]
<1>5. Len(part) = Len(pat) /\ \A i \in 1 .. Len(pat) : part[i] = pat[i]
  <2>1. Len(pat) \in T
    BY <1>1, <1>4
  <2> QED
    BY <2>1 DEF Split
<1>6. part \in Seq(Characters) /\ pat \in Seq(Characters)
  <2>1. Split(pat) \in PartLists
    BY <1>1, SplitRecursion DEF Split
  <2>2. Split(pat) \in Seq(Texts) /\ 1 \in 1 .. Len(Split(pat))
    BY <2>1 DEF PartLists
  <2>3. part \in Texts
    BY <2>2, TextFacts
  <2> QED
    BY <2>3 DEF Texts
<1> HIDE DEF part
<1>7. part = pat
  BY <1>5, <1>6, TextFacts
<1> QED
  BY <1>7 DEF part

(***************************************************************************)
(* The loop of glob_match takes the places that are furthest to the left.  *)
(***************************************************************************)

Fits(parts, i, text, pos, k) ==
    k \in Nat /\ k >= pos /\ Stands(parts[i], text, k) /\ (i = 1 => k = 0)

IsFirstFit(parts, i, text, pos, r) ==
    \E k \in Nat : /\ Fits(parts, i, text, pos, k) /\ r = k + Len(parts[i])
                   /\ \A l \in Nat : Fits(parts, i, text, pos, l) => k <= l

Ends(text) == 0 .. Len(text) + 1

LEMMA AfterPartFacts ==
    ASSUME NEW parts \in Seq(Texts), NEW text \in Texts, NEW i \in 1 .. Len(parts),
           NEW pos \in Ends(text)
    PROVE  /\ AfterPart(text, parts, pos, i) \in Ends(text)
           /\ pos = Failed(text) => AfterPart(text, parts, pos, i) = Failed(text)
           /\ pos # Failed(text) /\ (i = 1 => pos = 0) =>
                IF AfterPart(text, parts, pos, i) = Failed(text)
                THEN \A k \in Nat : ~Fits(parts, i, text, pos, k)
                ELSE IsFirstFit(parts, i, text, pos, AfterPart(text, parts, pos, i))
<1> DEFINE part == parts[i]
           found == Occurrences(part, text, pos)
           first == CHOOSE k \in found : \A l \in found : k <= l
           r == AfterPart(text, parts, pos, i)
           fail == Failed(text)
<1>1. Len(text) \in Nat /\ fail = Len(text) + 1 /\ fail \in Nat /\ pos \in Nat
  BY TextFacts DEF Texts, Failed, Ends
<1>2. part \in Texts /\ part \in Seq(Characters) /\ Len(part) \in Nat
  <2>1. part \in Texts
    BY TextFacts
  <2> QED
    BY <2>1, TextFacts DEF Texts
<1>3. found = {k \in Nat : k >= pos /\ Stands(part, text, k)}
  <2> HIDE DEF part
  <2>1. text \in Seq(Characters)
    BY DEF Texts
  <2> QED
    BY <1>1, <1>2, <2>1, OccurrencesAre
<1>4. found # {} => first \in found /\ \A l \in found : first <= l
  <2> HIDE DEF found
  <2>1. found \in SUBSET Nat
    BY <1>3
  <2>2. found # {} => \E k \in found : \A l \in found : k <= l
    BY <2>1, LeastOf
  <2> QED
    BY <2>2
<1>5. /\ pos = fail \/ part = <<>> => r = pos
      /\ ~(pos = fail \/ part = <<>>) =>
            r = IF found = {} \/ (i = 1 /\ first # 0) THEN fail ELSE first + Len(part)
  BY DEF AfterPart
<1> HIDE DEF found, first, r, fail, part
<1>6. pos = fail => r = fail
  BY <1>5
<1>7. CASE pos = fail
  BY <1>1, <1>6, <1>7 DEF Ends, r, fail
<1>8. CASE pos # fail /\ part = <<>>
  <2>1. r = pos /\ Len(part) = 0 /\ pos <= Len(text)
    BY <1>1, <1>5, <1>8 DEF Ends
  <2>2. Stands(part, text, pos)
    BY <1>1, <2>1 DEF Stands
  <2>3. ASSUME i = 1 => pos = 0
        PROVE  IsFirstFit(parts, i, text, pos, r)
    <3>1. Fits(parts, i, text, pos, pos) /\ r = pos + Len(part)
      BY <1>1, <2>1, <2>2, <2>3 DEF Fits, part
    <3>2. \A l \in Nat : Fits(parts, i, text, pos, l) => pos <= l
      BY <1>1 DEF Fits
    <3> QED
      BY <1>1, <3>1, <3>2 DEF IsFirstFit, part
  <2> QED
    BY <1>1, <1>8, <2>1, <2>3 DEF Ends, r, fail
<1>9. CASE pos # fail /\ part # <<>>
  <2>1. r = IF found = {} \/ (i = 1 /\ first # 0) THEN fail ELSE first + Len(part)
    BY <1>5, <1>9
  <2>2. \A k \in Nat : k \in found <=> k >= pos /\ Stands(part, text, k)
    BY <1>3
  <2>3. CASE found = {} \/ (i = 1 /\ first # 0)
    <3>1. r = fail
      BY <2>1, <2>3
    <3>2. ASSUME i = 1 => pos = 0, NEW k \in Nat, Fits(parts, i, text, pos, k)
          PROVE  FALSE
      <4>1. k \in found /\ (i = 1 => k = 0)
        BY <2>2, <3>2 DEF Fits, part
      <4>2. i = 1 /\ first # 0 /\ k = 0 /\ first \in found /\ first <= k
        BY <1>4, <2>3, <4>1
      <4>3. first \in Nat
        BY <1>3, <4>2
      <4> QED
        BY <4>2, <4>3
    <3> QED
      BY <1>1, <1>9, <3>1, <3>2 DEF Ends, r, fail
  <2>4. CASE ~(found = {} \/ (i = 1 /\ first # 0))
    <3>1. /\ r = first + Len(part) /\ first \in found /\ first \in Nat
          /\ \A l \in found : first <= l
      BY <1>3, <1>4, <2>1, <2>4
    <3>2. first >= pos /\ Stands(part, text, first) /\ (i = 1 => first = 0)
      BY <2>2, <2>4, <3>1
    <3>3. r \in Nat /\ r <= Len(text)
      BY <1>1, <1>2, <3>1, <3>2 DEF Stands
    <3>4. Fits(parts, i, text, pos, first)
      BY <3>1, <3>2 DEF Fits, part
    <3>5. \A l \in Nat : Fits(parts, i, text, pos, l) => first <= l
      BY <2>2, <3>1 DEF Fits, part
    <3>6. IsFirstFit(parts, i, text, pos, r)
      BY <3>1, <3>4, <3>5 DEF IsFirstFit, part
    <3>7. r # fail /\ r \in Ends(text)
      BY <1>1, <3>3 DEF Ends
    <3> QED
      BY <1>9, <3>6, <3>7 DEF r, fail
  <2> QED
    BY <2>3, <2>4
<1> QED
  BY <1>7, <1>8, <1>9

LEMMA LoopRecursion ==
    ASSUME NEW parts \in Seq(Texts), NEW text \in Texts
    PROVE  /\ \A i \in 0 .. Len(parts) : AfterParts(text, parts)[i] \in Ends(text)
           /\ AfterParts(text, parts)[0] = 0
           /\ \A i \in 1 .. Len(parts) :
                 AfterParts(text, parts)[i]
                   = AfterPart(text, parts, AfterParts(text, parts)[i - 1], i)
<1> DEFINE n == Len(parts)
           S == Ends(text)
           Def(g) == [i \in 0 .. n |-> IF i = 0 THEN 0
                                      ELSE AfterPart(text, parts, g[i - 1], i)]
           step == [x \in (1 .. n) \X S |-> AfterPart(text, parts, x[2], x[1])]
<1>1. n \in Nat /\ 0 \in S
  BY TextFacts DEF Texts, Ends
<1>2. step \in [(1 .. n) \X S -> S]
  BY AfterPartFacts
<1>3. PICK f \in [0 .. n -> S] :
         f[0] = 0 /\ \A i \in 1 .. n : f[i] = step[<<i, f[i - 1]>>]
  <2> HIDE DEF S
  <2>1. Leads(step, n, S)
    BY <1>2 DEF Leads
  <2> HIDE DEF step, n
  <2>2. PICK f : Follows(f, step, 0, n, S)
    BY <1>1, <2>1, RecursionExists
  <2> QED
    BY <2>2 DEF Follows
<1>4. \A i \in 1 .. n : f[i] = AfterPart(text, parts, f[i - 1], i)
  <2> TAKE i \in 1 .. n
  <2>1. f[i - 1] \in S
    BY <1>1, <1>3
  <2> QED
    BY <1>3, <2>1
<1>5. f = Def(f)
  <2>1. \A i \in 0 .. n :
           f[i] = IF i = 0 THEN 0 ELSE AfterPart(text, parts, f[i - 1], i)
    <3> TAKE i \in 0 .. n
    <3>1. CASE i = 0
      BY <1>3, <3>1
    <3>2. CASE i # 0
      <4>1. i \in 1 .. n
        BY <1>1, <3>2
      <4> QED
        BY <1>4, <3>2, <4>1
    <3> QED
      BY <3>1, <3>2
  <2> HIDE DEF n
  <2> QED
    BY <1>3, <2>1
<1>6. AfterParts(text, parts) = CHOOSE g : g = Def(g)
  BY DEF AfterParts
<1> DEFINE h == AfterParts(text, parts)
<1>7. h = Def(h)
  <2> HIDE DEF Def
  <2> QED
    BY <1>5, <1>6
<1>8. h[0] = 0 /\ \A i \in 1 .. n : h[i] = AfterPart(text, parts, h[i - 1], i)
  <2>1. \A i \in 0 .. n : Def(h)[i] = IF i = 0 THEN 0
                                      ELSE AfterPart(text, parts, h[i - 1], i)
    OBVIOUS
  <2> HIDE DEF h, Def
  <2> QED
    BY <1>1, <1>7, <2>1
<1> HIDE DEF h
<1> DEFINE T == {i \in 0 .. n : h[i] \in S}
<1>9. 0 .. n \subseteq T
  <2>1. 0 \in T
    BY <1>1, <1>8
  <2>2. ASSUME NEW k \in 0 .. n - 1, k \in T
        PROVE  k + 1 \in T
    <3>1. k + 1 \in 1 .. n /\ k + 1 \in 0 .. n /\ (k + 1) - 1 = k
      BY <1>1
    <3>2. h[k + 1] = AfterPart(text, parts, h[k], k + 1) /\ h[k] \in S
      BY <1>8, <2>2, <3>1
    <3>3. h[k + 1] \in S
      BY <3>1, <3>2, AfterPartFacts
    <3> QED
      BY <3>1, <3>3
  <2> HIDE DEF T
  <2> QED
    BY <1>1, <2>1, <2>2, InductionUpTo
<1> QED
  BY <1>8, <1>9 DEF h

\* After i parts the loop stands at the least end of places for them.
IsLeastEnd(parts, i, text, r) ==
    IF r = Failed(text) THEN \A e \in Nat : ~Placed(parts, i, text, e)
    ELSE /\ Placed(parts, i, text, r)
         /\ \A e \in Nat : Placed(parts, i, text, e) => r <= e

LEMMA FirstEnd ==
    ASSUME NEW parts \in Seq(Texts), NEW text \in Texts, Len(parts) >= 1
    PROVE  IsLeastEnd(parts, 1, text, AfterPart(text, parts, 0, 1))
<1> DEFINE r == AfterPart(text, parts, 0, 1)
           part == parts[1]
<1>1. /\ 1 \in 1 .. Len(parts) /\ Len(text) \in Nat /\ 0 # Failed(text) /\ 0 \in Ends(text)
  BY TextFacts DEF Texts, Failed, Ends
<1>2. part \in Texts /\ Len(part) \in Nat
  <2>1. part \in Texts
    BY <1>1, TextFacts
  <2> QED
    BY <2>1, TextFacts DEF Texts
<1>3. IF r = Failed(text) THEN \A k \in Nat : ~Fits(parts, 1, text, 0, k)
      ELSE IsFirstFit(parts, 1, text, 0, r)
  BY <1>1, AfterPartFacts
<1>4. \A e \in Nat : Placed(parts, 1, text, e) <=> e = 0 + Len(part) /\ Stands(part, text, 0)
  BY PlacedFirst
<1>5. \A k \in Nat : Fits(parts, 1, text, 0, k) <=> k = 0 /\ Stands(part, text, 0)
  BY DEF Fits
<1> HIDE DEF r, part
<1>6. CASE r = Failed(text)
  <2>1. ~Stands(part, text, 0)
    BY <1>3, <1>5, <1>6
  <2> QED
    BY <1>4, <1>6, <2>1 DEF IsLeastEnd, r
<1>7. CASE r # Failed(text)
  <2>1. PICK k \in Nat : Fits(parts, 1, text, 0, k) /\ r = k + Len(part)
    BY <1>3, <1>7 DEF IsFirstFit, part
  <2>2. k = 0 /\ Stands(part, text, 0) /\ r = 0 + Len(part) /\ r \in Nat
    BY <1>2, <1>5, <2>1
  <2> QED
    BY <1>4, <1>7, <2>2 DEF IsLeastEnd, r
<1> QED
  BY <1>6, <1>7

LEMMA NextEnd ==
    ASSUME NEW parts \in Seq(Texts), NEW text \in Texts, NEW m \in Nat, m >= 1,
           m + 1 <= Len(parts), NEW pos \in Ends(text), IsLeastEnd(parts, m, text, pos)
    PROVE  IsLeastEnd(parts, m + 1, text, AfterPart(text, parts, pos, m + 1))
<1> DEFINE r == AfterPart(text, parts, pos, m + 1)
           part == parts[m + 1]
<1>1. /\ m + 1 \in 1 .. Len(parts) /\ m + 1 # 1 /\ Len(text) \in Nat /\ pos \in Nat
      /\ Failed(text) \in Nat
  BY TextFacts DEF Texts, Failed, Ends
<1>2. part \in Texts /\ Len(part) \in Nat
  <2>1. part \in Texts
    BY <1>1, TextFacts
  <2> QED
    BY <2>1, TextFacts DEF Texts
<1>3. ASSUME NEW e \in Nat
      PROVE  Placed(parts, m + 1, text, e) <=>
               \E d, k \in Nat : /\ Placed(parts, m, text, d) /\ d <= k
                                 /\ Stands(part, text, k) /\ k + Len(part) = e
  BY PlacedOneMore
<1>4. CASE pos = Failed(text)
  <2>1. r = Failed(text)
    BY <1>1, <1>4, AfterPartFacts
  <2>2. \A d \in Nat : ~Placed(parts, m, text, d)
    BY <1>4 DEF IsLeastEnd
  <2> HIDE DEF r, part
  <2> QED
    BY <1>3, <2>1, <2>2 DEF IsLeastEnd, r
<1>5. CASE pos # Failed(text)
  <2>1. IF r = Failed(text) THEN \A k \in Nat : ~Fits(parts, m + 1, text, pos, k)
        ELSE IsFirstFit(parts, m + 1, text, pos, r)
    BY <1>1, <1>5, AfterPartFacts
  <2>2. /\ Placed(parts, m, text, pos)
        /\ \A d \in Nat : Placed(parts, m, text, d) => pos <= d
    BY <1>5 DEF IsLeastEnd
  <2>3. \A k \in Nat : Fits(parts, m + 1, text, pos, k)
                         <=> k >= pos /\ Stands(part, text, k)
    BY <1>1 DEF Fits
  <2> HIDE DEF r, part
  <2>4. \A e \in Nat : Placed(parts, m + 1, text, e) =>
           \E k \in Nat : Fits(parts, m + 1, text, pos, k) /\ k + Len(part) = e
    <3> TAKE e \in Nat
    <3>1. ASSUME NEW d \in Nat, NEW k \in Nat, Placed(parts, m, text, d), d <= k,
                 Stands(part, text, k), k + Len(part) = e
          PROVE  Fits(parts, m + 1, text, pos, k)
      <4>1. pos <= d
        BY <2>2, <3>1
      <4>2. k >= pos
        BY <1>1, <3>1, <4>1
      <4> QED
        BY <2>3, <3>1, <4>2
    <3> QED
      BY <1>3, <3>1
  <2>5. CASE r = Failed(text)
    BY <2>1, <2>4, <2>5 DEF IsLeastEnd, r
  <2>6. CASE r # Failed(text)
    <3>1. PICK k \in Nat :
             /\ Fits(parts, m + 1, text, pos, k) /\ r = k + Len(part)
             /\ \A l \in Nat : Fits(parts, m + 1, text, pos, l) => k <= l
      BY <2>1, <2>6 DEF IsFirstFit, part
    <3>2. r \in Nat /\ pos <= k /\ Stands(part, text, k)
      BY <1>2, <2>3, <3>1
    <3>3. Placed(parts, m + 1, text, r)
      BY <1>1, <1>3, <2>2, <3>1, <3>2
    <3>4. ASSUME NEW e \in Nat, Placed(parts, m + 1, text, e)
          PROVE  r <= e
      <4>1. PICK l \in Nat : Fits(parts, m + 1, text, pos, l) /\ l + Len(part) = e
        BY <2>4, <3>4
      <4>2. k <= l
        BY <3>1, <4>1
      <4> QED
        BY <1>2, <3>1, <4>1, <4>2
    <3> QED
      BY <2>6, <3>3, <3>4 DEF IsLeastEnd, r
  <2> QED
    BY <2>5, <2>6
<1> QED
  BY <1>4, <1>5

LEMMA LoopFindsLeastEnd ==
    ASSUME NEW parts \in PartLists, NEW text \in Texts
    PROVE  \A i \in 1 .. Len(parts) :
              IsLeastEnd(parts, i, text, AfterParts(text, parts)[i])
<1> DEFINE n == Len(parts)
           h == AfterParts(text, parts)
           T == {i \in 0 .. n : i = 0 \/ IsLeastEnd(parts, i, text, h[i])}
<1>1. n \in Nat /\ n >= 1 /\ parts \in Seq(Texts)
  BY TextFacts, EmptySeq DEF PartLists
<1>2. /\ h[0] = 0
      /\ \A i \in 0 .. n : h[i] \in Ends(text)
      /\ \A i \in 1 .. n : h[i] = AfterPart(text, parts, h[i - 1], i)
  BY <1>1, LoopRecursion
<1> HIDE DEF h, n
<1>3. ASSUME NEW k \in 0 .. n - 1, k \in T
      PROVE  k + 1 \in T
  <2>1. /\ k \in Nat /\ k \in 0 .. n /\ k + 1 \in 1 .. n /\ k + 1 \in 0 .. n
        /\ (k + 1) - 1 = k /\ k + 1 <= n
    BY <1>1
  <2>2. h[k + 1] = AfterPart(text, parts, h[k], k + 1) /\ h[k] \in Ends(text)
    BY <1>2, <2>1
  <2>3. CASE k = 0
    <3>1. IsLeastEnd(parts, 1, text, AfterPart(text, parts, 0, 1))
      BY <1>1, FirstEnd DEF n
    <3>2. IsLeastEnd(parts, k + 1, text, h[k + 1])
      BY <1>2, <2>2, <2>3, <3>1
    <3> QED
      BY <2>1, <3>2
  <2>4. CASE k # 0
    <3>1. IsLeastEnd(parts, k, text, h[k]) /\ k >= 1
      BY <1>3, <2>1, <2>4
    <3>2. IsLeastEnd(parts, k + 1, text, h[k + 1])
      BY <1>1, <2>1, <2>2, <3>1, NextEnd DEF n
    <3> QED
      BY <2>1, <3>2
  <2> QED
    BY <2>3, <2>4
<1>4. 0 .. n \subseteq T
  <2>1. 0 \in T
    BY <1>1
  <2> HIDE DEF T
  <2> QED
    BY <1>1, <1>3, <2>1, InductionUpTo
<1>5. \A i \in 1 .. n : i \in 0 .. n /\ i # 0
  BY <1>1
<1> QED
  BY <1>4, <1>5 DEF n, h

\* The last part has to be at the end: it can be there instead of where the
\* loop found it.
LEMMA EndIsRight ==
    ASSUME NEW parts \in PartLists, NEW text \in Texts, Len(parts) > 1
    PROVE  Placed(parts, Len(parts), text, Len(text)) <=>
             /\ AfterParts(text, parts)[Len(parts)] # Failed(text)
             /\ IsSuffix(Last(parts), text)
<1> DEFINE m == Len(parts) - 1
           part == parts[m + 1]
           r == AfterParts(text, parts)[m + 1]
<1>1. /\ m \in Nat /\ m >= 1 /\ m + 1 = Len(parts) /\ m + 1 <= Len(parts)
      /\ m + 1 \in 1 .. Len(parts) /\ m + 1 \in 0 .. Len(parts)
      /\ parts \in Seq(Texts) /\ Len(text) \in Nat
  BY TextFacts, EmptySeq DEF PartLists, Texts
<1>2. part \in Texts /\ part \in Seq(Characters) /\ text \in Seq(Characters) /\ Len(part) \in Nat
  <2>1. part \in Texts
    BY <1>1, TextFacts
  <2> QED
    BY <2>1, TextFacts DEF Texts
<1>3. IsLeastEnd(parts, m + 1, text, r) /\ r \in Ends(text)
  BY <1>1, LoopFindsLeastEnd, LoopRecursion
<1>4. Last(parts) = part
  BY <1>1 DEF Last
<1> HIDE DEF m
<1>5. \A e \in Nat : Placed(parts, m + 1, text, e) <=>
         \E d, k \in Nat : /\ Placed(parts, m, text, d) /\ d <= k
                           /\ Stands(part, text, k) /\ k + Len(part) = e
  BY <1>1, PlacedOneMore
<1> HIDE DEF part, r
<1>6. IsSuffix(part, text) <=>
         Len(part) <= Len(text) /\ Stands(part, text, Len(text) - Len(part))
  BY <1>2, SuffixStands
<1>7. ASSUME Placed(parts, m + 1, text, Len(text))
      PROVE  r # Failed(text) /\ IsSuffix(part, text)
  <2>1. r # Failed(text)
    BY <1>1, <1>3, <1>7 DEF IsLeastEnd
  <2>2. PICK k \in Nat : Stands(part, text, k) /\ k + Len(part) = Len(text)
    BY <1>1, <1>5, <1>7
  <2>3. k = Len(text) - Len(part) /\ Len(part) <= Len(text)
    BY <1>1, <1>2, <2>2
  <2> QED
    BY <1>6, <2>1, <2>2, <2>3
<1>8. ASSUME r # Failed(text), IsSuffix(part, text)
      PROVE  Placed(parts, m + 1, text, Len(text))
  <2>1. Placed(parts, m + 1, text, r) /\ r \in Nat /\ r <= Len(text)
    BY <1>1, <1>3, <1>8 DEF IsLeastEnd, Ends, Failed
  <2>2. PICK d, k \in Nat : Placed(parts, m, text, d) /\ d <= k /\ k + Len(part) = r
    BY <1>5, <2>1
  <2> DEFINE last == Len(text) - Len(part)
  <2>3. last \in Nat /\ d <= last /\ last + Len(part) = Len(text) /\ Stands(part, text, last)
    BY <1>1, <1>2, <1>6, <1>8, <2>1, <2>2
  <2> HIDE DEF last
  <2> QED
    BY <1>1, <1>5, <2>2, <2>3
<1>9. Placed(parts, m + 1, text, Len(text)) <=> r # Failed(text) /\ IsSuffix(Last(parts), text)
  BY <1>4, <1>7, <1>8
<1> QED
  BY <1>1, <1>9 DEF r

\* glob_match says of every pattern and text whether a star for any text, the
\* empty one too, makes the pattern the text.
THEOREM GlobIsRight ==
    ASSUME NEW pat \in Texts, NEW text \in Texts
    PROVE  GlobMatch(pat, text) <=> Matches(pat, text)
<1> DEFINE parts == Split(pat)
<1>1. parts \in PartLists /\ Len(parts) \in Nat /\ Len(parts) >= 1 /\ Len(text) \in Nat
  <2>1. Len(pat) \in 0 .. Len(pat) /\ Len(text) \in Nat
    BY TextFacts DEF Texts
  <2>2. parts \in PartLists
    BY <2>1, SplitRecursion DEF Split
  <2> HIDE DEF parts
  <2> QED
    BY <2>1, <2>2, TextFacts, EmptySeq DEF PartLists
<1>2. Matches(pat, text) <=> Placed(parts, Len(parts), text, Len(text))
  BY MatchesPlaces
<1>3. GlobMatch(pat, text) <=>
        IF Len(parts) = 1 THEN text = pat
        ELSE /\ AfterParts(text, parts)[Len(parts)] # Failed(text)
             /\ IsSuffix(Last(parts), text)
  BY DEF GlobMatch
<1>4. Len(parts) = 1 => parts[1] = pat
  BY OnlyPart
<1> HIDE DEF parts
<1>5. CASE Len(parts) = 1
  <2>1. Placed(parts, 1, text, Len(text)) <=> Len(text) = 0 + Len(pat) /\ Stands(pat, text, 0)
    BY <1>1, <1>4, <1>5, PlacedFirst
  <2>2. Len(pat) \in Nat /\ pat \in Seq(Characters) /\ text \in Seq(Characters)
    BY TextFacts DEF Texts
  <2>3. text = pat <=> Len(text) = Len(pat) /\ \A i \in 1 .. Len(text) : text[i] = pat[i]
    BY <2>2, TextFacts
  <2>4. Len(text) = 0 + Len(pat) => (Stands(pat, text, 0) <=> text = pat)
    BY <1>1, <2>2, <2>3 DEF Stands
  <2>5. text = pat <=> Len(text) = 0 + Len(pat) /\ Stands(pat, text, 0)
    BY <2>2, <2>3, <2>4
  <2> QED
    BY <1>2, <1>3, <1>5, <2>1, <2>5
<1>6. CASE Len(parts) # 1
  <2>1. Placed(parts, Len(parts), text, Len(text)) <=>
           /\ AfterParts(text, parts)[Len(parts)] # Failed(text)
           /\ IsSuffix(Last(parts), text)
    <3> DEFINE n == Len(parts)
    <3>1. n \in Nat /\ n >= 1 /\ n # 1
      BY <1>1, <1>6
    <3> HIDE DEF n
    <3>2. n > 1
      BY <3>1
    <3>3. Len(parts) > 1
      BY <3>2 DEF n
    <3> QED
      BY <1>1, <3>3, EndIsRight
  <2> QED
    BY <1>2, <1>3, <1>6, <2>1
<1> QED
  BY <1>5, <1>6

(***************************************************************************)
(* The text of a path: each of its names behind a slash.                   *)
(***************************************************************************)

LEMMA JoinedText ==
    ASSUME NEW S, NEW s \in Seq(S), NEW t \in Seq(S)
    PROVE  /\ s \o t \in Seq(S) /\ Len(s \o t) = Len(s) + Len(t)
           /\ \A i \in 1 .. Len(s) : (s \o t)[i] = s[i]
           /\ \A j \in 1 .. Len(t) : (s \o t)[Len(s) + j] = t[j]
<1>1. Len(s) \in Nat /\ Len(t) \in Nat
  BY TextFacts
<1>2. /\ s \o t \in Seq(S) /\ Len(s \o t) = Len(s) + Len(t)
      /\ \A i \in 1 .. Len(s) + Len(t) :
            (s \o t)[i] = IF i <= Len(s) THEN s[i] ELSE t[i - Len(s)]
  BY ConcatProperties
<1>3. \A i \in 1 .. Len(s) : i \in 1 .. Len(s) + Len(t) /\ i <= Len(s)
  BY <1>1
<1>4. \A j \in 1 .. Len(t) : /\ Len(s) + j \in 1 .. Len(s) + Len(t)
                             /\ ~(Len(s) + j <= Len(s)) /\ (Len(s) + j) - Len(s) = j
  BY <1>1
<1> QED
  BY <1>2, <1>3, <1>4

LEMMA JoinedStands ==
    ASSUME NEW s \in Texts, NEW t \in Texts, NEW text \in Texts, NEW k \in Nat
    PROVE  /\ s \o t \in Texts /\ Len(s \o t) = Len(s) + Len(t)
           /\ Stands(s \o t, text, k)
                <=> Stands(s, text, k) /\ Stands(t, text, k + Len(s))
<1> DEFINE m == Len(s)
           n == Len(t)
           u == s \o t
           Same(i, w, l) == text[k + i] = w[l]
<1>1. m \in Nat /\ n \in Nat /\ Len(text) \in Nat
  BY TextFacts DEF Texts
<1>2. /\ u \in Texts /\ Len(u) = m + n
      /\ \A i \in 1 .. m : u[i] = s[i]
      /\ \A j \in 1 .. n : u[m + j] = t[j]
  <2>1. s \in Seq(Characters) /\ t \in Seq(Characters)
    BY DEF Texts
  <2> QED
    BY <2>1, JoinedText DEF Texts
<1> HIDE DEF u
<1>3. Stands(u, text, k) <=>
        k + (m + n) <= Len(text) /\ \A i \in 1 .. m + n : text[k + i] = u[i]
  BY <1>2 DEF Stands
<1>4. Stands(s, text, k) <=>
        k + m <= Len(text) /\ \A i \in 1 .. m : text[k + i] = s[i]
  BY DEF Stands
<1>5. Stands(t, text, k + m) <=>
        (k + m) + n <= Len(text) /\ \A j \in 1 .. n : text[(k + m) + j] = t[j]
  BY DEF Stands
<1> HIDE DEF m, n
<1>6. ASSUME Stands(u, text, k)
      PROVE  Stands(s, text, k) /\ Stands(t, text, k + m)
  <2>1. \A i \in 1 .. m : text[k + i] = s[i]
    <3> TAKE i \in 1 .. m
    <3>1. i \in 1 .. m + n
      BY <1>1
    <3> QED
      BY <1>2, <1>3, <1>6, <3>1
  <2>2. \A j \in 1 .. n : text[(k + m) + j] = t[j]
    <3> TAKE j \in 1 .. n
    <3>1. m + j \in 1 .. m + n /\ k + (m + j) = (k + m) + j
      BY <1>1
    <3>2. text[k + (m + j)] = u[m + j]
      BY <1>3, <1>6, <3>1
    <3> QED
      BY <1>2, <3>1, <3>2
  <2> QED
    BY <1>1, <1>3, <1>4, <1>5, <1>6, <2>1, <2>2
<1>7. ASSUME Stands(s, text, k), Stands(t, text, k + m)
      PROVE  Stands(u, text, k)
  <2>1. \A i \in 1 .. m + n : text[k + i] = u[i]
    <3> TAKE i \in 1 .. m + n
    <3>1. CASE i \in 1 .. m
      BY <1>2, <1>4, <1>7, <3>1
    <3>2. CASE i \notin 1 .. m
      <4> DEFINE j == i - m
      <4>1. j \in 1 .. n /\ m + j = i /\ (k + m) + j = k + i
        BY <1>1, <3>2
      <4> HIDE DEF j
      <4>2. text[(k + m) + j] = t[j] /\ u[m + j] = t[j]
        BY <1>2, <1>5, <1>7, <4>1
      <4> QED
        BY <4>1, <4>2
    <3> QED
      BY <3>1, <3>2
  <2> QED
    BY <1>1, <1>3, <1>5, <1>7, <2>1
<1> QED
  BY <1>2, <1>6, <1>7 DEF u, m, n

\* off[i] is the length of the text of the first i names.
IsLayout(off, names, n, text) ==
    /\ off \in [0 .. n -> Nat] /\ off[0] = 0 /\ Len(text) = off[n]
    /\ \A i \in 1 .. n :
          /\ off[i] = off[i - 1] + 1 + Len(names[i])
          /\ text[off[i - 1] + 1] = "/"
          /\ Stands(names[i], text, off[i - 1] + 1)

LEMMA NameFacts ==
    ASSUME NEW names \in Seq(NameTexts), NEW i \in 1 .. Len(names)
    PROVE  /\ names[i] \in Texts /\ names[i] \in Seq(Characters)
           /\ Len(names[i]) \in Nat /\ Len(names[i]) >= 1
           /\ \A j \in 1 .. Len(names[i]) : names[i][j] # "/"
<1>1. names[i] \in NameTexts
  BY TextFacts
<1> DEFINE name == names[i]
<1>2. /\ name \in Texts /\ name \in Seq(Characters) /\ name # <<>>
      /\ \A j \in DOMAIN name : name[j] # "/"
  BY <1>1 DEF NameTexts, Texts
<1> HIDE DEF name
<1>3. Len(name) \in Nat /\ Len(name) # 0 /\ DOMAIN name = 1 .. Len(name)
  BY <1>2, TextFacts, EmptySeq
<1> QED
  BY <1>2, <1>3 DEF name

LEMMA LayoutGrows ==
    ASSUME NEW names \in Seq(NameTexts), NEW n \in 0 .. Len(names),
           NEW off, NEW text, IsLayout(off, names, n, text)
    PROVE  \A a, b \in 0 .. n : a < b => off[a] < off[b]
<1> DEFINE T == {b \in 0 .. n : \A a \in 0 .. n : a < b => off[a] < off[b]}
<1>1. n \in Nat /\ \A i \in 1 .. n : i \in 1 .. Len(names)
  BY TextFacts
<1>2. 0 \in T
  BY <1>1
<1>3. ASSUME NEW k \in 0 .. n - 1, k \in T
      PROVE  k + 1 \in T
  <2>1. /\ k \in 0 .. n /\ k + 1 \in 1 .. n /\ k + 1 \in 0 .. n /\ (k + 1) - 1 = k
        /\ Len(names[k + 1]) \in Nat
    BY <1>1, NameFacts
  <2>2. off[k + 1] = off[k] + 1 + Len(names[k + 1]) /\ off[k] \in Nat /\ off[k + 1] \in Nat
    BY <2>1 DEF IsLayout
  <2>3. ASSUME NEW a \in 0 .. n, a < k + 1
        PROVE  off[a] < off[k + 1]
    <3>1. off[a] \in Nat
      BY DEF IsLayout
    <3>2. CASE a = k
      BY <2>1, <2>2, <3>2
    <3>3. CASE a # k
      <4>1. a < k
        BY <1>1, <2>3, <3>3
      <4>2. off[a] < off[k]
        BY <1>3, <4>1
      <4> QED
        BY <2>1, <2>2, <3>1, <4>2
    <3> QED
      BY <3>2, <3>3
  <2> QED
    BY <2>1, <2>3
<1>4. 0 .. n \subseteq T
  <2> HIDE DEF T
  <2> QED
    BY <1>1, <1>2, <1>3, InductionUpTo
<1> QED
  BY <1>4

LEMMA LayoutCovers ==
    ASSUME NEW names, NEW n \in Nat, NEW off, NEW text, IsLayout(off, names, n, text),
           NEW p \in 1 .. Len(text)
    PROVE  \E i \in 1 .. n : off[i - 1] < p /\ p <= off[i]
<1> DEFINE S == {i \in 0 .. n : p <= off[i]}
<1>1. n \in S /\ S \in SUBSET Nat /\ p \in Nat /\ p >= 1
  BY DEF IsLayout
<1>2. PICK i \in S : \A k \in S : i <= k
  BY <1>1, LeastOf
<1>3. i \in 0 .. n /\ p <= off[i] /\ off[0] = 0
  BY <1>2 DEF IsLayout
<1>4. i # 0
  BY <1>1, <1>3
<1>5. i \in 1 .. n /\ i - 1 \in 0 .. n /\ ~(i <= i - 1)
  BY <1>3, <1>4
<1>6. i - 1 \notin S
  <2> HIDE DEF S
  <2> QED
    BY <1>2, <1>5
<1>7. ~(p <= off[i - 1]) /\ off[i - 1] \in Nat
  BY <1>5, <1>6 DEF IsLayout
<1>8. off[i - 1] < p
  BY <1>1, <1>7
<1> QED
  BY <1>3, <1>5, <1>8

\* Behind the slash of a name stand its characters, and none is a slash.
LEMMA LayoutCharacters ==
    ASSUME NEW names \in Seq(NameTexts), NEW n \in 0 .. Len(names),
           NEW off, NEW text, IsLayout(off, names, n, text),
           NEW i \in 1 .. n, NEW p \in Nat, off[i - 1] < p, p <= off[i]
    PROVE  /\ p = off[i - 1] + 1 => text[p] = "/"
           /\ p # off[i - 1] + 1 =>
                /\ p - (off[i - 1] + 1) \in 1 .. Len(names[i])
                /\ text[p] = names[i][p - (off[i - 1] + 1)]
                /\ text[p] # "/"
<1> DEFINE o == off[i - 1] + 1
           name == names[i]
           j == p - o
<1>1. i \in 1 .. Len(names) /\ n \in Nat /\ i - 1 \in 0 .. n
  BY TextFacts
<1>2. Len(name) \in Nat /\ \A l \in 1 .. Len(name) : name[l] # "/"
  BY <1>1, NameFacts
<1>3. off[i] = o + Len(name) /\ text[o] = "/" /\ Stands(name, text, o) /\ off[i - 1] \in Nat
  BY <1>1 DEF IsLayout
<1>4. o \in Nat /\ o <= p /\ p <= o + Len(name)
  BY <1>3
<1> HIDE DEF name
<1>5. ASSUME p # o
      PROVE  j \in 1 .. Len(name) /\ text[p] = name[j] /\ text[p] # "/"
  <2> HIDE DEF o
  <2>1. j \in 1 .. Len(name) /\ o + j = p
    BY <1>2, <1>4, <1>5
  <2> HIDE DEF j
  <2>2. text[o + j] = name[j]
    BY <1>3, <2>1 DEF Stands
  <2> QED
    BY <1>2, <2>1, <2>2
<1> QED
  BY <1>3, <1>5 DEF name

LEMMA SlashesAre ==
    ASSUME NEW names \in Seq(NameTexts), NEW n \in 0 .. Len(names),
           NEW off, NEW text, IsLayout(off, names, n, text), NEW p \in 1 .. Len(text)
    PROVE  text[p] = "/" <=> \E i \in 1 .. n : p = off[i - 1] + 1
<1>1. n \in Nat /\ p \in Nat
  BY TextFacts DEF IsLayout
<1>2. ASSUME text[p] = "/"
      PROVE  \E i \in 1 .. n : p = off[i - 1] + 1
  <2>1. PICK i \in 1 .. n : off[i - 1] < p /\ p <= off[i]
    BY <1>1, LayoutCovers
  <2>2. p = off[i - 1] + 1
    BY <1>1, <1>2, <2>1, LayoutCharacters
  <2> QED
    BY <2>2
<1>3. ASSUME NEW i \in 1 .. n, p = off[i - 1] + 1
      PROVE  text[p] = "/"
  BY <1>3 DEF IsLayout
<1> QED
  BY <1>2, <1>3

LEMMA SameLayout ==
    ASSUME NEW names \in Seq(NameTexts), NEW n \in 0 .. Len(names),
           NEW off, NEW text \in Texts, IsLayout(off, names, n, text),
           NEW off2, NEW text2 \in Texts, IsLayout(off2, names, n, text2)
    PROVE  text = text2
<1> DEFINE T == {i \in 0 .. n : off[i] = off2[i]}
<1>1. n \in Nat /\ n \in 0 .. n /\ text \in Seq(Characters) /\ text2 \in Seq(Characters)
  BY TextFacts DEF Texts
<1>2. 0 .. n \subseteq T
  <2>1. 0 \in T
    BY <1>1 DEF IsLayout
  <2>2. ASSUME NEW k \in 0 .. n - 1, k \in T
        PROVE  k + 1 \in T
    <3>1. k + 1 \in 1 .. n /\ k + 1 \in 0 .. n /\ (k + 1) - 1 = k /\ off[k] = off2[k]
      BY <1>1, <2>2
    <3>2. /\ off[k + 1] = off[k] + 1 + Len(names[k + 1])
          /\ off2[k + 1] = off2[k] + 1 + Len(names[k + 1])
      BY <3>1 DEF IsLayout
    <3> QED
      BY <3>1, <3>2
  <2> HIDE DEF T
  <2> QED
    BY <1>1, <2>1, <2>2, InductionUpTo
<1>3. \A i \in 0 .. n : off[i] = off2[i]
  BY <1>2
<1>4. Len(text) = Len(text2)
  BY <1>1, <1>3 DEF IsLayout
<1>5. ASSUME NEW p \in 1 .. Len(text)
      PROVE  text[p] = text2[p]
  <2>1. p \in Nat
    BY DEF IsLayout
  <2>2. PICK i \in 1 .. n : off[i - 1] < p /\ p <= off[i]
    BY <1>1, LayoutCovers
  <2>3. off2[i - 1] = off[i - 1] /\ off2[i] = off[i]
    BY <1>1, <1>3
  <2>4. CASE p = off[i - 1] + 1
    <3>1. text[p] = "/"
      BY <2>1, <2>2, <2>4, LayoutCharacters
    <3>2. text2[p] = "/"
      BY <2>1, <2>2, <2>3, <2>4, LayoutCharacters
    <3> QED
      BY <3>1, <3>2
  <2>5. CASE p # off[i - 1] + 1
    <3>1. text[p] = names[i][p - (off[i - 1] + 1)]
      BY <2>1, <2>2, <2>5, LayoutCharacters
    <3>2. text2[p] = names[i][p - (off2[i - 1] + 1)]
      BY <2>1, <2>2, <2>3, <2>5, LayoutCharacters
    <3> QED
      BY <2>3, <3>1, <3>2
  <2> QED
    BY <2>4, <2>5
<1> QED
  BY <1>1, <1>4, <1>5, TextFacts

LEMMA SlashFacts ==
    /\ Slash \in Texts /\ Slash \in Seq(Characters)
    /\ Len(Slash) = 1 /\ Slash[1] = "/"
<1>1. "/" \in Characters
  BY PatternsAssumption
<1>2. <<"/">> \in Seq(Characters)
  BY <1>1
<1>3. Len(<<"/">>) = 1 /\ <<"/">>[1] = "/"
  OBVIOUS
<1> QED
  BY <1>2, <1>3 DEF Slash, Texts

LEMMA PieceOfName ==
    ASSUME NEW name \in Seq(Characters)
    PROVE  /\ Slash \o name \in Seq(Characters)
           /\ Len(Slash \o name) = 1 + Len(name)
           /\ (Slash \o name)[1] = "/"
           /\ \A j \in 1 .. Len(name) : (Slash \o name)[1 + j] = name[j]
<1> DEFINE s == Slash
<1>1. s \in Seq(Characters) /\ Len(s) = 1 /\ s[1] = "/" /\ 1 \in 1 .. Len(s)
  BY SlashFacts
<1> HIDE DEF s
<1>2. /\ s \o name \in Seq(Characters) /\ Len(s \o name) = Len(s) + Len(name)
      /\ \A i \in 1 .. Len(s) : (s \o name)[i] = s[i]
      /\ \A j \in 1 .. Len(name) : (s \o name)[Len(s) + j] = name[j]
  BY <1>1, JoinedText
<1>3. /\ s \o name \in Seq(Characters) /\ Len(s \o name) = 1 + Len(name)
      /\ (s \o name)[1] = "/"
      /\ \A j \in 1 .. Len(name) : (s \o name)[1 + j] = name[j]
  BY <1>1, <1>2
<1> QED
  BY <1>3 DEF s

LEMMA LayoutOneMore ==
    ASSUME NEW names \in Seq(NameTexts), NEW k \in Nat, k + 1 <= Len(names),
           NEW off, NEW text \in Texts, IsLayout(off, names, k, text)
    PROVE  /\ text \o (Slash \o names[k + 1]) \in Texts
           /\ \E off2 : IsLayout(off2, names, k + 1, text \o (Slash \o names[k + 1]))
<1> DEFINE name == names[k + 1]
           piece == Slash \o name
           text2 == text \o piece
           off2 == [i \in 0 .. k + 1 |-> IF i = k + 1 THEN off[k] + 1 + Len(name) ELSE off[i]]
<1>1. k + 1 \in 1 .. Len(names) /\ Len(text) = off[k] /\ off[k] \in Nat
  BY TextFacts DEF IsLayout
<1>2. name \in Texts /\ name \in Seq(Characters) /\ Len(name) \in Nat
  BY <1>1, NameFacts
<1> HIDE DEF name
<1>4. /\ piece \in Seq(Characters) /\ Len(piece) = 1 + Len(name)
      /\ piece[1] = "/" /\ \A j \in 1 .. Len(name) : piece[1 + j] = name[j]
  BY <1>2, PieceOfName
<1> HIDE DEF piece
<1>5. /\ text2 \in Texts /\ Len(text2) = off[k] + Len(piece)
      /\ \A i \in 1 .. Len(text) : text2[i] = text[i]
      /\ \A j \in 1 .. Len(piece) : text2[off[k] + j] = piece[j]
  <2>1. text \in Seq(Characters) /\ piece \in Seq(Characters)
    BY <1>4 DEF Texts
  <2>2. /\ text2 \in Seq(Characters) /\ Len(text2) = Len(text) + Len(piece)
        /\ \A i \in 1 .. Len(text) : text2[i] = text[i]
        /\ \A j \in 1 .. Len(piece) : text2[Len(text) + j] = piece[j]
    BY <2>1, JoinedText
  <2> HIDE DEF text2
  <2> QED
    BY <1>1, <2>2 DEF Texts
<1> HIDE DEF text2
<1>6. text2[off[k] + 1] = "/" /\ Stands(name, text2, off[k] + 1)
  <2>1. text2[off[k] + 1] = "/"
    <3>1. 1 \in 1 .. Len(piece)
      BY <1>2, <1>4
    <3> QED
      BY <1>4, <1>5, <3>1
  <2>2. ASSUME NEW j \in 1 .. Len(name)
        PROVE  text2[(off[k] + 1) + j] = name[j]
    <3>1. 1 + j \in 1 .. Len(piece)
      BY <1>2, <1>4
    <3>2. (off[k] + 1) + j = off[k] + (1 + j)
      BY <1>1, <1>2
    <3>3. text2[off[k] + (1 + j)] = piece[1 + j]
      BY <1>5, <3>1
    <3> QED
      BY <1>4, <3>2, <3>3
  <2>3. (off[k] + 1) + Len(name) <= Len(text2)
    BY <1>1, <1>2, <1>4, <1>5
  <2> QED
    BY <2>1, <2>2, <2>3 DEF Stands
<1>7. ASSUME NEW i \in 1 .. k
      PROVE  /\ off[i] = off[i - 1] + 1 + Len(names[i])
             /\ text2[off[i - 1] + 1] = "/"
             /\ Stands(names[i], text2, off[i - 1] + 1)
  <2> DEFINE o == off[i - 1] + 1
             w == names[i]
  <2>1. /\ i - 1 \in 0 .. k /\ i \in 1 .. Len(names) /\ k \in 0 .. Len(names)
        /\ off[i - 1] \in Nat /\ o \in Nat
    BY <1>1, TextFacts DEF IsLayout
  <2>2. off[i] = o + Len(w) /\ text[o] = "/" /\ Stands(w, text, o)
    BY DEF IsLayout
  <2>3. Len(w) \in Nat
    BY <2>1, NameFacts
  <2>4. o + Len(w) <= Len(text) /\ \A j \in 1 .. Len(w) : text[o + j] = w[j]
    BY <2>2 DEF Stands
  <2>5. o \in 1 .. Len(text) /\ \A j \in 1 .. Len(w) : o + j \in 1 .. Len(text)
    BY <1>1, <2>1, <2>3, <2>4
  <2> HIDE DEF o, w
  <2>6. text2[o] = "/" /\ \A j \in 1 .. Len(w) : text2[o + j] = w[j]
    BY <1>5, <2>2, <2>4, <2>5
  <2>7. o + Len(w) <= Len(text2)
    BY <1>1, <1>2, <1>4, <1>5, <2>1, <2>3, <2>4
  <2>8. Stands(w, text2, o)
    BY <2>6, <2>7 DEF Stands
  <2> QED
    BY <2>2, <2>6, <2>8 DEF o, w
<1>8. IsLayout(off2, names, k + 1, text2)
  <2>1. off2 \in [0 .. k + 1 -> Nat] /\ off2[0] = 0
    BY <1>1, <1>2 DEF IsLayout
  <2>2. off2[k + 1] = off[k] + 1 + Len(name) /\ \A i \in 0 .. k : off2[i] = off[i]
    OBVIOUS
  <2> HIDE DEF off2
  <2>3. Len(text2) = off2[k + 1]
    BY <1>1, <1>2, <1>4, <1>5, <2>2
  <2>4. ASSUME NEW i \in 1 .. k + 1
        PROVE  /\ off2[i] = off2[i - 1] + 1 + Len(names[i])
               /\ text2[off2[i - 1] + 1] = "/"
               /\ Stands(names[i], text2, off2[i - 1] + 1)
    <3>1. CASE i = k + 1
      <4>1. off2[i - 1] = off[k] /\ names[i] = name
        BY <2>2, <3>1 DEF name
      <4> QED
        BY <1>6, <2>2, <3>1, <4>1
    <3>2. CASE i # k + 1
      <4>1. i \in 1 .. k /\ off2[i] = off[i] /\ off2[i - 1] = off[i - 1]
        BY <2>2, <3>2
      <4> QED
        BY <1>7, <4>1
    <3> QED
      BY <3>1, <3>2
  <2> QED
    BY <2>1, <2>3, <2>4 DEF IsLayout
<1> HIDE DEF off2
<1> QED
  BY <1>5, <1>8 DEF text2, piece, name

LEMMA AsTextRecursion ==
    ASSUME NEW names \in Seq(NameTexts)
    PROVE  \E t : /\ t \in [0 .. Len(names) -> Texts]
                  /\ t[0] = <<>> /\ t[Len(names)] = AsText(names)
                  /\ \A i \in 1 .. Len(names) : t[i] = t[i - 1] \o (Slash \o names[i])
<1> DEFINE n == Len(names)
           pieces == [i \in DOMAIN names |-> Slash \o names[i]]
           step == [x \in (1 .. n) \X Texts |-> x[2] \o pieces[x[1]]]
           Good(t) == /\ t \in [0 .. n -> Texts]
                      /\ t[0] = <<>> /\ t[n] = AsText(names)
                      /\ \A i \in 1 .. n : t[i] = t[i - 1] \o (Slash \o names[i])
<1>1. n \in Nat /\ DOMAIN names = 1 .. n
  BY TextFacts
<1>2. ASSUME NEW i \in 1 .. n
      PROVE  pieces[i] = Slash \o names[i] /\ pieces[i] \in Seq(Characters)
  <2>1. names[i] \in Seq(Characters)
    BY NameFacts
  <2> QED
    BY <1>1, <2>1, PieceOfName
<1>3. pieces \in Seq(Texts) /\ Len(pieces) = n
  <2>1. \A i \in 1 .. n : Slash \o names[i] \in Texts
    BY <1>2 DEF Texts
  <2> QED
    BY <1>1, <2>1
<1>4. <<>> \in Texts
  BY DEF Texts
<1> HIDE DEF pieces, n
<1>5. step \in [(1 .. n) \X Texts -> Texts]
  <2>1. \A i \in 1 .. n, x \in Texts : x \o pieces[i] \in Texts
    <3> TAKE i \in 1 .. n, x \in Texts
    <3>1. x \in Seq(Characters) /\ pieces[i] \in Seq(Characters)
      BY <1>2 DEF Texts
    <3> QED
      BY <3>1, JoinedText DEF Texts
  <2> QED
    BY <2>1
<1>6. PICK t : /\ t \in [0 .. n -> Texts] /\ t[0] = <<>>
               /\ \A i \in 1 .. n : t[i] = step[<<i, t[i - 1]>>]
  <2>1. Leads(step, n, Texts)
    BY <1>5 DEF Leads
  <2> HIDE DEF step
  <2>2. PICK t : Follows(t, step, <<>>, n, Texts)
    BY <1>1, <1>4, <2>1, RecursionExists
  <2> QED
    BY <2>2 DEF Follows
<1>7. \A i \in 1 .. n : t[i] = t[i - 1] \o pieces[i] /\ t[i] \in Texts /\ t[i - 1] \in Texts
  <2> TAKE i \in 1 .. n
  <2>1. t[i - 1] \in Texts /\ t[i] \in Texts
    BY <1>1, <1>6
  <2> QED
    BY <1>6, <2>1
<1>8. t[n] = AsText(names)
  <2>1. AsText(names) = FlattenSeq(pieces)
    BY DEF AsText, pieces
  <2>2. CASE n = 0
    <3>1. pieces = <<>>
      BY <1>3, <2>2, EmptySeq
    <3>2. FlattenSeq(pieces) = pieces
      BY <1>3, <2>2 DEF FlattenSeq
    <3> QED
      BY <1>6, <2>1, <2>2, <3>1, <3>2
  <2>3. CASE n # 0
    <3> DEFINE Def(g) == [i \in 1 .. n |-> IF i = 1 THEN pieces[i]
                                          ELSE g[i - 1] \o pieces[i]]
               fl == CHOOSE g : g = Def(g)
               u == [i \in 1 .. n |-> t[i]]
    <3>1. FlattenSeq(pieces) = fl[n]
      BY <1>3, <2>3 DEF FlattenSeq
    <3>2. ASSUME NEW i \in 1 .. n
          PROVE  u[i] = IF i = 1 THEN pieces[i] ELSE u[i - 1] \o pieces[i]
      <4>1. CASE i = 1
        <5> DEFINE w == pieces[i]
        <5>1. w \in Seq(Characters) /\ t[1] = t[0] \o w
          <6>1. w \in Seq(Characters) /\ t[i] = t[i - 1] \o w
            BY <1>2, <1>7
          <6>2. i - 1 = 0
            BY <4>1
          <6> HIDE DEF w
          <6> QED
            BY <4>1, <6>1, <6>2
        <5> HIDE DEF w
        <5>2. <<>> \o w = w
          BY <5>1, ConcatEmptySeq
        <5>3. t[1] = w
          BY <1>6, <5>1, <5>2
        <5> QED
          BY <4>1, <5>3 DEF w
      <4>2. CASE i # 1
        <5>1. i - 1 \in 1 .. n /\ u[i - 1] = t[i - 1]
          BY <1>1, <4>2
        <5> QED
          BY <1>7, <4>2, <5>1
      <4> QED
        BY <4>1, <4>2
    <3>3. u = Def(u)
      <4> HIDE DEF u
      <4>1. u \in [1 .. n -> Texts]
        BY <1>7 DEF u
      <4> QED
        BY <3>2, <4>1
    <3>4. fl = Def(fl)
      <4> HIDE DEF Def, u
      <4> QED
        BY <3>3
    <3> HIDE DEF fl
    <3>5. ASSUME NEW i \in 1 .. n
          PROVE  fl[i] = IF i = 1 THEN pieces[i] ELSE fl[i - 1] \o pieces[i]
      <4>1. Def(fl)[i] = IF i = 1 THEN pieces[i] ELSE fl[i - 1] \o pieces[i]
        OBVIOUS
      <4> HIDE DEF Def
      <4> QED
        BY <3>4, <4>1
    <3> DEFINE T == {i \in 0 .. n : i = 0 \/ fl[i] = u[i]}
    <3>6. 0 .. n \subseteq T
      <4>1. 0 \in T
        BY <1>1
      <4>2. ASSUME NEW k \in 0 .. n - 1, k \in T
            PROVE  k + 1 \in T
        <5>1. k + 1 \in 1 .. n /\ k + 1 \in 0 .. n /\ (k + 1) - 1 = k
          BY <1>1
        <5>2. /\ fl[k + 1] = IF k + 1 = 1 THEN pieces[k + 1] ELSE fl[k] \o pieces[k + 1]
              /\ u[k + 1] = IF k + 1 = 1 THEN pieces[k + 1] ELSE u[k] \o pieces[k + 1]
          BY <3>2, <3>5, <5>1
        <5> HIDE DEF u
        <5>3. k + 1 # 1 => fl[k] = u[k]
          BY <1>1, <4>2
        <5>4. fl[k + 1] = u[k + 1]
          BY <5>2, <5>3
        <5> QED
          BY <5>1, <5>4
      <4> HIDE DEF T
      <4> QED
        BY <1>1, <4>1, <4>2, InductionUpTo
    <3>7. n \in 1 .. n /\ n \in 0 .. n
      BY <1>1, <2>3
    <3>8. fl[n] = u[n] /\ u[n] = t[n]
      BY <2>3, <3>6, <3>7
    <3> QED
      BY <2>1, <3>1, <3>8
  <2> QED
    BY <2>2, <2>3
<1>9. Good(t)
  BY <1>2, <1>6, <1>7, <1>8
<1> HIDE DEF Good
<1>10. \E x : Good(x)
  BY <1>9
<1> QED
  BY <1>10 DEF Good, n

LEMMA AsTextLayout ==
    ASSUME NEW names \in Seq(NameTexts)
    PROVE  /\ AsText(names) \in Texts
           /\ \E off : IsLayout(off, names, Len(names), AsText(names))
<1> DEFINE n == Len(names)
<1>1. n \in Nat
  BY TextFacts
<1>2. PICK t : /\ t \in [0 .. n -> Texts] /\ t[0] = <<>> /\ t[n] = AsText(names)
               /\ \A i \in 1 .. n : t[i] = t[i - 1] \o (Slash \o names[i])
  BY AsTextRecursion
<1> DEFINE Laid(i) == \E off : IsLayout(off, names, i, t[i])
           T == {i \in 0 .. n : Laid(i)}
<1>3. 0 \in T
  <2>1. IsLayout([i \in 0 .. 0 |-> 0], names, 0, t[0])
    BY <1>2 DEF IsLayout
  <2>2. Laid(0) /\ 0 \in 0 .. n
    BY <1>1, <2>1
  <2> HIDE DEF Laid
  <2> QED
    BY <2>2
<1>4. ASSUME NEW k \in 0 .. n - 1, k \in T
      PROVE  k + 1 \in T
  <2>1. k \in Nat /\ k + 1 \in 1 .. n /\ k + 1 \in 0 .. n /\ (k + 1) - 1 = k
    BY <1>1
  <2>2. t[k] \in Texts /\ t[k + 1] = t[k] \o (Slash \o names[k + 1])
    <3> DEFINE j == k + 1
    <3>1. t[j] = t[j - 1] \o (Slash \o names[j])
      BY <1>2, <2>1
    <3>2. j - 1 = k /\ k \in 0 .. n
      BY <1>1, <2>1
    <3> HIDE DEF j
    <3>3. t[k] \in Texts /\ t[j] = t[k] \o (Slash \o names[j])
      BY <1>2, <3>1, <3>2
    <3> QED
      BY <3>3 DEF j
  <2>3. PICK off : IsLayout(off, names, k, t[k])
    BY <1>4
  <2>4. k + 1 <= Len(names)
    BY <1>1, <2>1
  <2>5. \E off2 : IsLayout(off2, names, k + 1, t[k] \o (Slash \o names[k + 1]))
    BY <2>1, <2>2, <2>3, <2>4, LayoutOneMore
  <2>6. Laid(k + 1)
    BY <2>2, <2>5
  <2> HIDE DEF Laid
  <2> QED
    BY <2>1, <2>6
<1>5. 0 .. n \subseteq T
  <2> HIDE DEF T
  <2> QED
    BY <1>1, <1>3, <1>4, InductionUpTo
<1>6. Laid(n) /\ t[n] \in Texts
  <2>1. n \in 0 .. n
    BY <1>1
  <2> HIDE DEF Laid
  <2> QED
    BY <1>2, <1>5, <2>1
<1> QED
  BY <1>2, <1>6

\* What the names behind the first k ones are as text is what their place in
\* the layout holds.
Block(names, k, l) == AsText(SubSeq(names, k + 1, k + l))

LEMMA BlockText ==
    ASSUME NEW names \in Seq(NameTexts), NEW off, NEW text \in Texts,
           IsLayout(off, names, Len(names), text),
           NEW k \in Nat, NEW l \in Nat, k + l <= Len(names), NEW w \in Texts
    PROVE  Block(names, k, l) = w
             <=> off[k + l] = off[k] + Len(w) /\ Stands(w, text, off[k])
<1> DEFINE n == Len(names)
           o == off[k]
           m == off[k + l] - off[k]
           sub == SubSeq(names, k + 1, k + l)
           piece == SubSeq(text, o + 1, o + m)
           offs == [i \in 0 .. l |-> off[k + i] - o]
<1>1. /\ n \in Nat /\ n \in 0 .. n /\ text \in Seq(Characters) /\ w \in Seq(Characters)
      /\ Len(w) \in Nat /\ Len(text) = off[n] /\ k \in 0 .. n /\ k + l \in 0 .. n
  BY TextFacts DEF Texts, IsLayout
<1>2. \A a, b \in 0 .. n : a <= b => off[a] <= off[b] /\ off[a] \in Nat /\ off[b] \in Nat
  <2> TAKE a, b \in 0 .. n
  <2>1. off[a] \in Nat /\ off[b] \in Nat
    BY <1>1 DEF IsLayout
  <2>2. a < b => off[a] < off[b]
    BY <1>1, LayoutGrows
  <2>3. ASSUME a <= b
        PROVE  a = b \/ a < b
    BY <1>1, <2>3
  <2> QED
    BY <2>1, <2>2, <2>3
<1>3. /\ o \in Nat /\ off[k + l] \in Nat /\ o <= off[k + l] /\ off[k + l] <= Len(text)
      /\ m \in Nat /\ o + m = off[k + l] /\ o + m <= Len(text)
  <2>1. /\ off[k] \in Nat /\ off[k + l] \in Nat /\ off[k] <= off[k + l]
        /\ off[k + l] <= off[n]
    <3>1. k <= k + l /\ k + l <= n
      OBVIOUS
    <3> QED
      BY <1>1, <1>2, <3>1
  <2> QED
    BY <1>1, <2>1
<1>4. /\ piece \in Seq(Characters) /\ Len(piece) = m
      /\ \A i \in 1 .. m : piece[i] = text[o + i]
  <2> HIDE DEF o, m
  <2> QED
    BY <1>1, <1>3, PieceFacts
<1>5. /\ sub \in Seq(NameTexts) /\ Len(sub) = l
      /\ \A i \in 1 .. l : sub[i] = names[k + i]
  BY PieceFacts
<1> HIDE DEF sub, piece
<1>6. IsLayout(offs, sub, l, piece)
  <2>1. \A i \in 0 .. l : /\ k + i \in 0 .. n /\ off[k + i] \in Nat
                          /\ o <= off[k + i] /\ off[k + i] <= o + m
    <3> TAKE i \in 0 .. l
    <3>1. k + i \in 0 .. n /\ k <= k + i /\ k + i <= k + l
      BY <1>1
    <3>2. off[k] <= off[k + i] /\ off[k + i] <= off[k + l] /\ off[k + i] \in Nat
      BY <1>1, <1>2, <3>1
    <3> QED
      BY <1>3, <3>1, <3>2
  <2> HIDE DEF o, m, n
  <2>2. offs \in [0 .. l -> Nat] /\ offs[0] = 0 /\ Len(piece) = offs[l]
    <3>1. \A i \in 0 .. l : off[k + i] - o \in Nat
      <4> TAKE i \in 0 .. l
      <4> DEFINE a == off[k + i]
      <4>1. a \in Nat /\ o <= a /\ o \in Nat
        BY <1>3, <2>1
      <4> HIDE DEF a
      <4>2. a - o \in Nat
        BY <4>1
      <4> QED
        BY <4>2 DEF a
    <3>2. offs[0] = 0
      BY <1>3 DEF o
    <3>3. offs[l] = m
      BY <1>3
    <3> QED
      BY <1>4, <3>1, <3>2, <3>3
  <2>3. ASSUME NEW i \in 1 .. l
        PROVE  /\ offs[i] = offs[i - 1] + 1 + Len(sub[i])
               /\ piece[offs[i - 1] + 1] = "/"
               /\ Stands(sub[i], piece, offs[i - 1] + 1)
    <3> DEFINE a == off[k + (i - 1)]
               b == off[k + i]
               p == a + 1
               q == offs[i - 1] + 1
               name == names[k + i]
    <3>1. /\ k + i \in 1 .. n /\ i \in 0 .. l /\ i - 1 \in 0 .. l
          /\ (k + i) - 1 = k + (i - 1)
      BY <1>1 DEF n
    <3>2. off[k + i] = p + Len(name) /\ text[p] = "/" /\ Stands(name, text, p)
      BY <3>1 DEF IsLayout, n
    <3>3. Len(name) \in Nat /\ sub[i] = name
      BY <1>5, <3>1, NameFacts DEF n
    <3>4. /\ offs[i] = b - o /\ offs[i - 1] = a - o
          /\ b \in Nat /\ a \in Nat /\ o <= a /\ b <= o + m
      BY <2>1, <3>1
    <3> HIDE DEF a, b, name, offs
    <3>5. /\ p \in Nat /\ q \in Nat /\ o + q = p /\ offs[i] = q + Len(name)
          /\ q >= 1 /\ q + Len(name) <= m
      <4>1. b = p + Len(name)
        BY <3>2 DEF b
      <4> QED
        BY <1>3, <3>3, <3>4, <4>1
    <3> HIDE DEF p, q, name, offs
    <3>6. piece[q] = "/"
      <4>1. q \in 1 .. m
        BY <1>3, <3>3, <3>5
      <4> QED
        BY <1>4, <3>2, <3>5, <4>1
    <3>7. \A j \in 1 .. Len(name) : piece[q + j] = name[j]
      <4> TAKE j \in 1 .. Len(name)
      <4>1. q + j \in 1 .. m /\ o + (q + j) = p + j
        BY <1>3, <3>3, <3>5
      <4>2. piece[q + j] = text[o + (q + j)]
        BY <1>4, <4>1
      <4>3. text[p + j] = name[j]
        BY <3>2 DEF Stands
      <4> QED
        BY <4>1, <4>2, <4>3
    <3>8. Stands(name, piece, q)
      BY <1>4, <3>5, <3>7 DEF Stands
    <3> QED
      BY <3>3, <3>5, <3>6, <3>8 DEF q
  <2> HIDE DEF offs
  <2> QED
    BY <2>2, <2>3 DEF IsLayout
<1>7. AsText(sub) = piece
  <2>1. PICK off2 : IsLayout(off2, sub, Len(sub), AsText(sub))
    BY <1>5, AsTextLayout
  <2>2. AsText(sub) \in Texts /\ piece \in Texts
    BY <1>4, <1>5, AsTextLayout DEF Texts
  <2>3. l \in 0 .. Len(sub) /\ IsLayout(off2, sub, l, AsText(sub))
    BY <1>5, <2>1
  <2> HIDE DEF offs
  <2> QED
    BY <1>5, <1>6, <2>2, <2>3, SameLayout
<1>8. piece = w <=> Len(w) = m /\ Stands(w, text, o)
  <2>1. piece = w => Len(w) = m
    BY <1>4
  <2>2. ASSUME Len(w) = m
        PROVE  piece = w <=> Stands(w, text, o)
    <3> HIDE DEF o, m
    <3>1. SubSeq(text, o + 1, o + Len(w)) = w <=> Stands(w, text, o)
      BY <1>1, <1>3, <2>2, PieceIs
    <3> QED
      BY <2>2, <3>1 DEF piece
  <2> QED
    BY <2>1, <2>2
<1>9. Len(w) = m <=> off[k + l] = off[k] + Len(w)
  BY <1>1, <1>3
<1> QED
  BY <1>7, <1>8, <1>9 DEF sub, Block

(***************************************************************************)
(* What should_exclude computes.                                           *)
(***************************************************************************)

LEMMA SlashStands ==
    ASSUME NEW text, NEW k \in Nat
    PROVE  Stands(Slash, text, k) <=> k + 1 <= Len(text) /\ text[k + 1] = "/"
<1> DEFINE s == Slash
<1>1. Len(s) = 1 /\ s[1] = "/"
  BY SlashFacts
<1> HIDE DEF s
<1>2. Stands(s, text, k) <=> k + 1 <= Len(text) /\ \A j \in 1 .. 1 : text[k + j] = s[j]
  BY <1>1 DEF Stands
<1>3. Stands(s, text, k) <=> k + 1 <= Len(text) /\ text[k + 1] = "/"
  BY <1>1, <1>2
<1> QED
  BY <1>3 DEF s

LEMMA OccursStands ==
    ASSUME NEW part \in Texts, NEW text \in Texts
    PROVE  Occurs(part, text) <=> \E k \in Nat : Stands(part, text, k)
<1>1. part \in Seq(Characters) /\ text \in Seq(Characters)
  BY DEF Texts
<1>2. Occurrences(part, text, 0) = {k \in Nat : k >= 0 /\ Stands(part, text, k)}
  BY <1>1, OccurrencesAre
<1>3. Occurrences(part, text, 0) # {} <=> \E k \in Nat : Stands(part, text, k)
  BY <1>2
<1> QED
  BY <1>3 DEF Occurs

\* The directory dir lies behind the first i names and ends with the j-th one.
IsBlock(dir, off, text, i, j) ==
    off[j] = off[i] + 1 + Len(dir) /\ Stands(dir, text, off[i] + 1)

\* The path begins with dir and the j-th name ends it.
IsHead(dir, off, text, j) == off[j] = Len(dir) /\ Stands(dir, text, 0)

ExcludesDir(dir, text) ==
    \/ Occurs(Slash \o dir \o Slash, text)
    \/ IsPrefix(dir \o Slash, text)
    \/ IsSuffix(Slash \o dir, text)
    \/ text = dir

LEMMA ExcludesDirIs ==
    ASSUME NEW dir \in Texts, NEW names \in Seq(NameTexts), NEW off, NEW text \in Texts,
           IsLayout(off, names, Len(names), text)
    PROVE  ExcludesDir(dir, text) <=>
             LET n == Len(names)
             IN  \/ \E i \in 0 .. n - 1, j \in 0 .. n : IsBlock(dir, off, text, i, j)
                 \/ \E j \in 0 .. n : IsHead(dir, off, text, j)
<1> DEFINE n == Len(names)
           d == Len(dir)
           IsSlash(k) == Stands(Slash, text, k)
<1>1. /\ n \in Nat /\ n \in 0 .. n /\ d \in Nat /\ Len(text) \in Nat /\ Len(text) = off[n]
      /\ \A i \in 0 .. n : off[i] \in Nat
  <2>1. n \in Nat /\ d \in Nat /\ Len(text) \in Nat
    BY TextFacts DEF Texts
  <2>2. Len(text) = off[n] /\ off \in [0 .. n -> Nat]
    BY DEF IsLayout
  <2> HIDE DEF n, d
  <2> QED
    BY <2>1, <2>2
<1>2. ASSUME NEW k \in Nat
      PROVE  IsSlash(k) <=> \E i \in 0 .. n - 1 : k = off[i]
  <2>1. IsSlash(k) <=> k + 1 <= Len(text) /\ text[k + 1] = "/"
    BY SlashStands
  <2>2. ASSUME k + 1 <= Len(text)
        PROVE  text[k + 1] = "/" <=> \E i \in 1 .. n : k + 1 = off[i - 1] + 1
    <3>1. k + 1 \in 1 .. Len(text)
      BY <1>1, <2>2
    <3>2. \A p \in 1 .. Len(text) :
             text[p] = "/" <=> \E i \in 1 .. n : p = off[i - 1] + 1
      <4>1. n \in 0 .. Len(names) /\ IsLayout(off, names, n, text)
        BY <1>1
      <4> HIDE DEF n
      <4> QED
        BY <4>1, SlashesAre
    <3> QED
      BY <3>1, <3>2
  <2>3. ASSUME NEW i \in 0 .. n - 1, k = off[i]
        PROVE  k + 1 <= Len(text)
    <3>1. i \in 0 .. n /\ i < n
      BY <1>1
    <3>2. off[i] < off[n]
      BY <1>1, <3>1, LayoutGrows
    <3> QED
      BY <1>1, <2>3, <3>1, <3>2
  <2>4. ASSUME NEW i \in 1 .. n, k + 1 = off[i - 1] + 1
        PROVE  i - 1 \in 0 .. n - 1 /\ k = off[i - 1]
    <3>1. i - 1 \in 0 .. n - 1 /\ i - 1 \in 0 .. n
      BY <1>1
    <3> QED
      BY <1>1, <2>4, <3>1
  <2>5. ASSUME NEW i \in 0 .. n - 1, k = off[i]
        PROVE  \E h \in 1 .. n : k + 1 = off[h - 1] + 1
    <3>1. i + 1 \in 1 .. n /\ (i + 1) - 1 = i
      BY <1>1
    <3> QED
      BY <2>5, <3>1
  <2> HIDE DEF IsSlash
  <2> QED
    BY <2>1, <2>2, <2>3, <2>4, <2>5
<1>3. Slash \in Texts /\ Len(Slash) = 1
  BY SlashFacts
<1>4. Occurs(Slash \o dir \o Slash, text) <=>
         \E i \in 0 .. n - 1, j \in 0 .. n - 1 : IsBlock(dir, off, text, i, j)
  <2> DEFINE part == Slash \o dir \o Slash
  <2>1. Slash \o dir \in Texts /\ Len(Slash \o dir) = 1 + d
    BY <1>3, JoinedStands
  <2>2. part \in Texts
    BY <1>3, <2>1, JoinedStands
  <2>3. ASSUME NEW k \in Nat
        PROVE  Stands(part, text, k) <=>
                 IsSlash(k) /\ Stands(dir, text, k + 1) /\ IsSlash(k + 1 + d)
    <3> DEFINE first == Slash \o dir
    <3>1. Stands(first, text, k) <=> IsSlash(k) /\ Stands(dir, text, k + 1)
      BY <1>3, JoinedStands
    <3>2. first \in Texts /\ Len(first) = 1 + d
      BY <2>1
    <3> HIDE DEF first, IsSlash
    <3>3. Stands(first \o Slash, text, k) <=>
            Stands(first, text, k) /\ Stands(Slash, text, k + (1 + d))
      BY <1>3, <3>2, JoinedStands
    <3>4. k + (1 + d) = k + 1 + d
      BY <1>1
    <3> QED
      BY <3>1, <3>3, <3>4 DEF first, IsSlash
  <2>4. Occurs(part, text) <=>
           \E k \in Nat : IsSlash(k) /\ Stands(dir, text, k + 1) /\ IsSlash(k + 1 + d)
    <3> HIDE DEF part, IsSlash
    <3> QED
      BY <2>2, <2>3, OccursStands
  <2>5. ASSUME NEW k \in Nat, IsSlash(k), Stands(dir, text, k + 1), IsSlash(k + 1 + d)
        PROVE  \E i \in 0 .. n - 1, j \in 0 .. n - 1 : IsBlock(dir, off, text, i, j)
    <3> HIDE DEF IsSlash
    <3>1. k + 1 + d \in Nat
      BY <1>1
    <3>2. PICK i \in 0 .. n - 1 : k = off[i]
      BY <1>2, <2>5
    <3>3. PICK j \in 0 .. n - 1 : k + 1 + d = off[j]
      BY <1>2, <2>5, <3>1
    <3> QED
      BY <2>5, <3>2, <3>3 DEF IsBlock
  <2>6. ASSUME NEW i \in 0 .. n - 1, NEW j \in 0 .. n - 1, IsBlock(dir, off, text, i, j)
        PROVE  \E k \in Nat : IsSlash(k) /\ Stands(dir, text, k + 1) /\ IsSlash(k + 1 + d)
    <3> DEFINE k == off[i]
    <3>1. k \in Nat /\ off[j] \in Nat
      BY <1>1
    <3>2. off[j] = k + 1 + d /\ Stands(dir, text, k + 1)
      BY <2>6 DEF IsBlock
    <3> HIDE DEF IsSlash
    <3>3. IsSlash(k) /\ IsSlash(off[j])
      BY <1>2, <3>1
    <3> HIDE DEF k
    <3> QED
      BY <3>1, <3>2, <3>3
  <2> HIDE DEF part, IsSlash
  <2> QED
    BY <2>4, <2>5, <2>6 DEF part
<1>5. IsPrefix(dir \o Slash, text) <=> \E j \in 0 .. n - 1 : IsHead(dir, off, text, j)
  <2>1. Stands(dir \o Slash, text, 0) <=> Stands(dir, text, 0) /\ IsSlash(0 + d)
    BY <1>3, JoinedStands
  <2>2. dir \o Slash \in Seq(Characters) /\ text \in Seq(Characters)
    BY <1>3, JoinedStands DEF Texts
  <2>3. IsPrefix(dir \o Slash, text) <=> Stands(dir \o Slash, text, 0)
    BY <2>2, PrefixStands
  <2>4. IsSlash(d) <=> \E j \in 0 .. n - 1 : d = off[j]
    <3> HIDE DEF IsSlash, d
    <3> QED
      BY <1>1, <1>2
  <2>5. 0 + d = d
    BY <1>1
  <2> HIDE DEF IsSlash
  <2> QED
    BY <2>1, <2>3, <2>4, <2>5 DEF IsHead
<1>6. IsSuffix(Slash \o dir, text) <=> \E i \in 0 .. n - 1 : IsBlock(dir, off, text, i, n)
  <2> DEFINE part == Slash \o dir
             k == Len(text) - (1 + d)
  <2>1. part \in Texts /\ part \in Seq(Characters) /\ Len(part) = 1 + d /\ text \in Seq(Characters)
    BY <1>3, JoinedStands DEF Texts
  <2>2. \A l \in Nat : Stands(part, text, l) <=> IsSlash(l) /\ Stands(dir, text, l + 1)
    BY <1>3, JoinedStands
  <2> HIDE DEF part, IsSlash
  <2>3. IsSuffix(part, text) <=> 1 + d <= Len(text) /\ Stands(part, text, k)
    BY <2>1, SuffixStands
  <2>4. ASSUME IsSuffix(part, text)
        PROVE  \E i \in 0 .. n - 1 : IsBlock(dir, off, text, i, n)
    <3>1. k \in Nat /\ k + 1 + d = Len(text)
      BY <1>1, <2>3, <2>4
    <3>2. IsSlash(k) /\ Stands(dir, text, k + 1)
      BY <2>2, <2>3, <2>4, <3>1
    <3>3. PICK i \in 0 .. n - 1 : k = off[i]
      BY <1>2, <3>1, <3>2
    <3> HIDE DEF k
    <3> QED
      BY <1>1, <3>1, <3>2, <3>3 DEF IsBlock
  <2>5. ASSUME NEW i \in 0 .. n - 1, IsBlock(dir, off, text, i, n)
        PROVE  IsSuffix(part, text)
    <3>1. off[i] \in Nat /\ off[n] \in Nat
      BY <1>1
    <3>2. off[n] = off[i] + 1 + d /\ Stands(dir, text, off[i] + 1)
      BY <2>5 DEF IsBlock
    <3>3. k = off[i] /\ 1 + d <= Len(text)
      BY <1>1, <3>1, <3>2
    <3>4. IsSlash(off[i])
      BY <1>2, <3>1
    <3>5. Stands(part, text, off[i])
      BY <2>2, <3>1, <3>2, <3>4
    <3> HIDE DEF k
    <3> QED
      BY <2>3, <3>3, <3>5
  <2> QED
    BY <2>4, <2>5 DEF part
<1>7. text = dir <=> IsHead(dir, off, text, n)
  <2>1. text \in Seq(Characters) /\ dir \in Seq(Characters)
    BY DEF Texts
  <2>2. text = dir <=> Len(text) = Len(dir) /\ \A i \in 1 .. Len(text) : text[i] = dir[i]
    BY <2>1, TextFacts
  <2>3. Len(text) = Len(dir) => (Stands(dir, text, 0) <=> text = dir)
    BY <1>1, <2>2 DEF Stands
  <2> QED
    BY <1>1, <2>2, <2>3 DEF IsHead
<1> HIDE DEF n
<1>8. (\E j \in 0 .. n : IsHead(dir, off, text, j)) <=>
        (\E j \in 0 .. n - 1 : IsHead(dir, off, text, j)) \/ IsHead(dir, off, text, n)
  <2>1. \A j : j \in 0 .. n <=> j \in 0 .. n - 1 \/ j = n
    BY <1>1
  <2> QED
    BY <2>1
<1>9. (\E i \in 0 .. n - 1, j \in 0 .. n : IsBlock(dir, off, text, i, j)) <=>
        \/ \E i \in 0 .. n - 1, j \in 0 .. n - 1 : IsBlock(dir, off, text, i, j)
        \/ \E i \in 0 .. n - 1 : IsBlock(dir, off, text, i, n)
  <2>1. \A j : j \in 0 .. n <=> j \in 0 .. n - 1 \/ j = n
    BY <1>1
  <2> QED
    BY <2>1
<1> QED
  BY <1>4, <1>5, <1>6, <1>7, <1>8, <1>9 DEF ExcludesDir, n

MeansDir(dir, names) ==
    \/ \E i, j \in DOMAIN names : AsText(SubSeq(names, i, j)) = Slash \o dir
    \/ \E j \in 0 .. Len(names) : AsText(SubSeq(names, 1, j)) = dir

LEMMA MeansDirIs ==
    ASSUME NEW dir \in Texts, NEW names \in Seq(NameTexts), NEW off, NEW text \in Texts,
           IsLayout(off, names, Len(names), text)
    PROVE  MeansDir(dir, names) <=>
             LET n == Len(names)
             IN  \/ \E i \in 0 .. n - 1, j \in 0 .. n : IsBlock(dir, off, text, i, j)
                 \/ \E j \in 0 .. n : IsHead(dir, off, text, j)
<1> DEFINE n == Len(names)
           d == Len(dir)
           w == Slash \o dir
<1>1. /\ n \in Nat /\ d \in Nat /\ DOMAIN names = 1 .. n
      /\ \A i \in 0 .. n : off[i] \in Nat
  <2>1. n \in Nat /\ d \in Nat /\ DOMAIN names = 1 .. n
    BY TextFacts DEF Texts
  <2>2. off \in [0 .. n -> Nat]
    BY DEF IsLayout
  <2> HIDE DEF n, d
  <2> QED
    BY <2>1, <2>2
<1>2. w \in Texts /\ Len(w) = 1 + d
  BY SlashFacts, JoinedStands
<1>3. ASSUME NEW k \in Nat
      PROVE  Stands(w, text, k) <=> Stands(Slash, text, k) /\ Stands(dir, text, k + 1)
  BY SlashFacts, JoinedStands
<1> HIDE DEF w
<1>4. ASSUME NEW k \in 0 .. n - 1, NEW j \in 1 .. n, k < j
      PROVE  AsText(SubSeq(names, k + 1, j)) = w <=> IsBlock(dir, off, text, k, j)
  <2> DEFINE l == j - k
  <2>1. k \in Nat /\ l \in Nat /\ k + l = j /\ k + l <= Len(names) /\ k \in 0 .. n /\ j \in 0 .. n
    BY <1>1, <1>4
  <2> HIDE DEF l
  <2>2. Block(names, k, l) = w
          <=> off[k + l] = off[k] + Len(w) /\ Stands(w, text, off[k])
    BY <1>2, <2>1, BlockText
  <2>3. Stands(Slash, text, off[k])
    <3>1. k + 1 \in 1 .. n /\ (k + 1) - 1 = k
      BY <1>1
    <3> DEFINE h == k + 1
    <3>2. text[off[h - 1] + 1] = "/" /\ Stands(names[h], text, off[h - 1] + 1)
      BY <3>1 DEF IsLayout
    <3>3. h - 1 = k /\ Len(names[h]) \in Nat
      BY <3>1, NameFacts
    <3> HIDE DEF h
    <3>4. text[off[k] + 1] = "/" /\ (off[k] + 1) + Len(names[h]) <= Len(text)
      BY <3>2, <3>3 DEF Stands
    <3>5. off[k] \in Nat /\ Len(text) \in Nat
      BY <1>1, <2>1, TextFacts DEF Texts
    <3>6. off[k] + 1 <= Len(text)
      BY <3>3, <3>4, <3>5
    <3> QED
      BY <3>4, <3>5, <3>6, SlashStands
  <2>4. off[k] \in Nat /\ off[j] \in Nat
    BY <1>1, <2>1
  <2>5. Stands(w, text, off[k]) <=> Stands(dir, text, off[k] + 1)
    BY <1>3, <2>3, <2>4
  <2>6. off[k] + Len(w) = off[k] + 1 + d
    <3> DEFINE o == off[k]
    <3>1. o \in Nat /\ d \in Nat /\ Len(w) = 1 + d
      BY <1>1, <1>2, <2>4
    <3> HIDE DEF o, d
    <3>2. o + Len(w) = o + 1 + d
      BY <3>1
    <3> QED
      BY <3>2 DEF o
  <2>7. Block(names, k, l) = AsText(SubSeq(names, k + 1, j))
    BY <2>1 DEF Block
  <2> QED
    BY <2>1, <2>2, <2>5, <2>6, <2>7 DEF IsBlock
<1>5. ASSUME NEW j \in 0 .. n
      PROVE  AsText(SubSeq(names, 1, j)) = dir <=> IsHead(dir, off, text, j)
  <2>1. off[0] = 0 /\ 0 + 1 = 1 /\ 0 + j = j /\ 0 + j <= Len(names) /\ j \in Nat
    BY <1>1 DEF IsLayout
  <2>2. Block(names, 0, j) = dir
          <=> off[0 + j] = off[0] + Len(dir) /\ Stands(dir, text, off[0])
    BY <2>1, BlockText
  <2>3. 0 + d = d
    BY <1>1
  <2>4. Block(names, 0, j) = AsText(SubSeq(names, 1, j))
    BY <2>1 DEF Block
  <2> QED
    BY <2>1, <2>2, <2>3, <2>4 DEF IsHead
<1>6. ASSUME NEW i \in DOMAIN names, NEW j \in DOMAIN names,
             AsText(SubSeq(names, i, j)) = w
      PROVE  \E k \in 0 .. n - 1, l \in 0 .. n : IsBlock(dir, off, text, k, l)
  <2>1. i \in 1 .. n /\ j \in 1 .. n
    BY <1>1
  <2>2. i <= j
    <3>1. SUFFICES ASSUME j < i PROVE FALSE
      BY <2>1
    <3>2. SubSeq(names, i, j) = <<>>
      BY <2>1, <3>1, SubSeqEmpty
    <3> DEFINE none == SubSeq(names, i, j)
    <3>3. none \in Seq(NameTexts) /\ Len(none) = 0
      BY <3>2
    <3> HIDE DEF none
    <3>4. AsText(none) = <<>>
      BY <3>3, AsTextRecursion
    <3>5. w = <<>>
      BY <1>6, <3>4 DEF none
    <3> DEFINE m == Len(w)
    <3>6. m = 0
      BY <3>5
    <3>7. d \in Nat /\ m = 1 + d
      BY <1>1, <1>2
    <3> HIDE DEF m, d
    <3> QED
      BY <3>6, <3>7
  <2> DEFINE k == i - 1
  <2>3. k \in 0 .. n - 1 /\ k < j /\ k + 1 = i /\ j \in 0 .. n
    BY <1>1, <2>1, <2>2
  <2> HIDE DEF k
  <2>4. IsBlock(dir, off, text, k, j)
    BY <1>4, <1>6, <2>1, <2>3
  <2> QED
    BY <2>3, <2>4
<1>7. ASSUME NEW k \in 0 .. n - 1, NEW j \in 0 .. n, IsBlock(dir, off, text, k, j)
      PROVE  \E h, l \in DOMAIN names : AsText(SubSeq(names, h, l)) = w
  <2>1. k \in 0 .. n /\ off[k] \in Nat /\ off[j] \in Nat
    BY <1>1
  <2>2. off[j] = off[k] + 1 + d
    BY <1>7 DEF IsBlock
  <2>3. k < j
    <3>1. off[k] < off[j]
      BY <1>1, <2>1, <2>2
    <3>2. j < k => off[j] < off[k]
      <4>1. n \in 0 .. Len(names) /\ IsLayout(off, names, n, text)
        BY <1>1
      <4> HIDE DEF n
      <4> QED
        BY <2>1, <4>1, LayoutGrows
    <3>3. j = k => off[j] = off[k]
      OBVIOUS
    <3>4. ~(j < k) /\ j # k
      BY <2>1, <3>1, <3>2, <3>3
    <3> QED
      BY <1>1, <3>4
  <2>4. j \in 1 .. n /\ k + 1 \in DOMAIN names /\ j \in DOMAIN names
    BY <1>1, <2>3
  <2> QED
    BY <1>4, <1>7, <2>3, <2>4
<1> QED
  BY <1>5, <1>6, <1>7 DEF MeansDir, w

\* A directory pattern, taken apart.
LEMMA DirPatternFacts ==
    ASSUME NEW pat \in Texts, IsDirPattern(pat)
    PROVE  DirPrefix(pat) \in Texts
<1> DEFINE tail == Slash \o Star \o Star
           l == Len(pat) - 3
<1>1. Star \in Texts /\ Len(Star) = 1
  <2>1. <<"*">> \in Seq(Characters)
    BY PatternsAssumption
  <2> QED
    BY <2>1 DEF Star, Texts
<1>2. Slash \o Star \in Texts /\ Len(Slash \o Star) = 1 + 1
  BY <1>1, SlashFacts, JoinedStands
<1>3. tail \in Texts /\ Len(tail) = 3
  <2> DEFINE s == Slash \o Star
  <2>1. s \in Texts /\ Len(s) = 2
    BY <1>2
  <2> HIDE DEF s
  <2>2. s \o Star \in Texts /\ Len(s \o Star) = 2 + 1
    BY <1>1, <2>1, JoinedStands
  <2> QED
    BY <2>2 DEF s
<1> HIDE DEF tail
<1>4. pat \in Seq(Characters) /\ tail \in Seq(Characters) /\ Len(pat) \in Nat
  BY <1>3, TextFacts DEF Texts
<1>5. Len(tail) <= Len(pat)
  BY <1>4, SuffixStands DEF IsDirPattern, tail
<1>6. l \in Nat /\ 0 + l <= Len(pat)
  BY <1>3, <1>4, <1>5
<1> HIDE DEF l
<1>7. SubSeq(pat, 0 + 1, 0 + l) \in Seq(Characters)
  BY <1>4, <1>6, PieceFacts
<1>8. 0 + 1 = 1 /\ 0 + l = l
  BY <1>6
<1> QED
  BY <1>7, <1>8 DEF DirPrefix, l, Texts

\* For every pattern and every path, should_exclude's test of its text says what
\* the pattern means of its names.
THEOREM ExcludesIsRight ==
    ASSUME NEW pat \in Texts, NEW names \in Seq(NameTexts)
    PROVE  Excludes(pat, AsText(names)) <=> Means(pat, names)
<1>1. AsText(names) \in Texts /\ \E off : IsLayout(off, names, Len(names), AsText(names))
  BY AsTextLayout
<1>2. CASE IsDirPattern(pat)
  <2> DEFINE dir == DirPrefix(pat)
  <2>1. dir \in Texts
    BY <1>2, DirPatternFacts
  <2>2. Excludes(pat, AsText(names)) <=> ExcludesDir(dir, AsText(names))
    BY <1>2 DEF Excludes, ExcludesDir
  <2>3. Means(pat, names) <=> MeansDir(dir, names)
    BY <1>2 DEF Means, MeansDir
  <2> HIDE DEF dir
  <2>4. PICK off : IsLayout(off, names, Len(names), AsText(names))
    BY <1>1
  <2>5. ExcludesDir(dir, AsText(names)) <=> MeansDir(dir, names)
    BY <1>1, <2>1, <2>4, ExcludesDirIs, MeansDirIs
  <2> QED
    BY <2>2, <2>3, <2>5
<1>3. CASE ~IsDirPattern(pat)
  <2>1. Excludes(pat, AsText(names)) <=> GlobMatch(pat, AsText(names))
    BY <1>3 DEF Excludes
  <2>2. Means(pat, names) <=> Matches(pat, AsText(names))
    BY <1>3 DEF Means
  <2> QED
    BY <1>1, <2>1, <2>2, GlobIsRight
<1> QED
  BY <1>2, <1>3

\* A path is left out, for a pattern of the configuration or a built-in one,
\* exactly when should_exclude holds of it or of a directory it lies in.
THEOREM ShouldExcludeIsRight ==
    ASSUME NEW patterns \in SUBSET Texts, NEW path \in Seq(NameTexts)
    PROVE  IsLeftOut(patterns, path)
             <=> \E i \in DOMAIN path : should_exclude(patterns, SubSeq(path, 1, i))
<1>1. Workspace \in Seq(NameTexts) /\ Builtin \subseteq Texts
  BY PatternsAssumption
<1>2. ASSUME NEW i \in DOMAIN path, NEW pat \in patterns \cup Builtin
      PROVE  Means(pat, FullPath(SubSeq(path, 1, i)))
               <=> Excludes(pat, AsText(FullPath(SubSeq(path, 1, i))))
  <2>1. i \in 1 .. Len(path) /\ i \in Nat /\ 0 + 1 = 1 /\ 0 + i = i /\ 0 + i <= Len(path)
    BY TextFacts
  <2>2. SubSeq(path, 0 + 1, 0 + i) \in Seq(NameTexts)
    BY <2>1, PieceFacts
  <2> DEFINE part == SubSeq(path, 1, i)
  <2>3. part \in Seq(NameTexts)
    BY <2>1, <2>2
  <2> HIDE DEF part
  <2>4. FullPath(part) \in Seq(NameTexts)
    BY <1>1, <2>3, JoinedText DEF FullPath
  <2>5. pat \in Texts
    BY <1>1
  <2>6. Means(pat, FullPath(part)) <=> Excludes(pat, AsText(FullPath(part)))
    BY <2>4, <2>5, ExcludesIsRight
  <2> QED
    BY <2>6 DEF part
<1> QED
  BY <1>2 DEF IsLeftOut, should_exclude
=============================================================================
