--------------------------- MODULE ExcludePatterns ---------------------------
(***************************************************************************)
(* Which paths are not observed: Config::should_exclude and glob_match     *)
(* (src/lib/config.rs), beside what they are to compute.                   *)
(*                                                                         *)
(* A path is the sequence of its names, from the workspace on.  The code   *)
(* works on the text of the absolute path: texts are sequences of          *)
(* characters, and so are names.                                           *)
(***************************************************************************)
EXTENDS Naturals, Sequences, SequencesExt

CONSTANTS Characters, \* of names and patterns
          Workspace,  \* names of the workspace's own path, from "/" on
          Builtin     \* BUILTIN_EXCLUDE_PATTERNS

Slash == <<"/">>
Star == <<"*">>

Texts == Seq(Characters)
NameTexts == {name \in Texts \ {<<>>} : \A i \in DOMAIN name : name[i] # "/"}

ASSUME PatternsAssumption ==
    /\ {"/", "*"} \subseteq Characters
    /\ Workspace \in Seq(NameTexts)
    /\ Builtin \subseteq Texts

AsText(names) == FlattenSeq([i \in DOMAIN names |-> Slash \o names[i]])
FullPath(path) == Workspace \o path

\* A pattern is a text.  strip_suffix("/**"):
IsDirPattern(pat) == IsSuffix(Slash \o Star \o Star, pat)
DirPrefix(pat) == SubSeq(pat, 1, Len(pat) - 3)

(***************************************************************************)
(* The code.                                                               *)
(***************************************************************************)

\* Where str::find finds part in the text, from position pos on.
Occurrences(part, text, pos) ==
    {k \in pos .. Len(text) - Len(part) :
        SubSeq(text, k + 1, k + Len(part)) = part}

Occurs(part, text) == Occurrences(part, text, 0) # {}

\* str::split: the parts of the first i characters of the pattern.
SplitOf(pat) ==
    LET parts[i \in 0 .. Len(pat)] ==
            IF i = 0 THEN << <<>> >>
            ELSE IF <<pat[i]>> = Star THEN Append(parts[i - 1], <<>>)
            ELSE Front(parts[i - 1]) \o << Append(Last(parts[i - 1]), pat[i]) >>
    IN  parts

Split(pat) == SplitOf(pat)[Len(pat)]

\* The loop of glob_match: the position after the parts found so far, one each,
\* as far to the left as they are; Failed when one was not.
Failed(text) == Len(text) + 1

AfterPart(text, parts, pos, i) ==
    LET found == Occurrences(parts[i], text, pos)
        first == CHOOSE k \in found : \A l \in found : k <= l
    IN  CASE pos = Failed(text) \/ parts[i] = <<>> -> pos
          [] OTHER -> IF found = {} \/ (i = 1 /\ first # 0) THEN Failed(text)
                      ELSE first + Len(parts[i])

AfterParts(text, parts) ==
    LET pos[i \in 0 .. Len(parts)] ==
            IF i = 0 THEN 0 ELSE AfterPart(text, parts, pos[i - 1], i)
    IN  pos

GlobMatch(pat, text) ==
    LET parts == Split(pat)
    IN  IF Len(parts) = 1 THEN text = pat
        ELSE /\ AfterParts(text, parts)[Len(parts)] # Failed(text)
             /\ IsSuffix(Last(parts), text)

Excludes(pat, text) ==
    IF IsDirPattern(pat)
    THEN LET prefix == DirPrefix(pat)
         IN  \/ Occurs(Slash \o prefix \o Slash, text)
             \/ IsPrefix(prefix \o Slash, text)
             \/ IsSuffix(Slash \o prefix, text)
             \/ text = prefix
    ELSE GlobMatch(pat, text)

\* Slip: the user's patterns replace the built-in ones.
exclude_by_config(patterns, path) ==
    \E pat \in patterns : Excludes(pat, AsText(FullPath(path)))

should_exclude(patterns, path) ==
    \E pat \in patterns \cup Builtin : Excludes(pat, AsText(FullPath(path)))

(***************************************************************************)
(* What it is to compute.                                                  *)
(***************************************************************************)

\* The text can be cut in pieces, one for each character of the pattern: any
\* piece for a star, the character itself else.
Matches(pat, text) ==
    \E cut \in [0 .. Len(pat) -> 0 .. Len(text)] :
        /\ cut[0] = 0 /\ cut[Len(pat)] = Len(text)
        /\ \A i \in 1 .. Len(pat) :
              IF <<pat[i]>> = Star THEN cut[i] >= cut[i - 1]
              ELSE cut[i] = cut[i - 1] + 1 /\ pat[i] = text[cut[i]]

\* A directory pattern means the directories with these names, one below the
\* other, wherever they are, or the one with this absolute path.
Means(pat, names) ==
    IF IsDirPattern(pat)
    THEN \/ \E i, j \in DOMAIN names :
                AsText(SubSeq(names, i, j)) = Slash \o DirPrefix(pat)
         \/ \E j \in 0 .. Len(names) :
                AsText(SubSeq(names, 1, j)) = DirPrefix(pat)
    ELSE Matches(pat, AsText(names))

\* What is in a directory is left out with it.
IsLeftOut(patterns, path) ==
    \E pat \in patterns \cup Builtin, i \in DOMAIN path :
        Means(pat, FullPath(SubSeq(path, 1, i)))
=============================================================================
