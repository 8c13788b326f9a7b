---------------------------- MODULE MCSnapshots ----------------------------
(* Values for TLC: paths of one and two names, two with the same diff, one *)
(* below a directory that is always excluded and one only called like it.  *)
EXTENDS Snapshots

CONSTANTS t1, t2, binary, big, locked

SomeFiles == {<< <<"a">>, <<"b">> >>, << <<"a", "_", "b">> >>,
              << <<"g">>, <<"a">> >>, << <<"a", "g">> >>}

InWorkspace == << <<"w">> >>
Git == { <<"g", "/", "*", "*">> }

\* Nothing, a/**, *g, and absolute ones: /w*b and /w/a/**.
SomePatterns == {{}, { <<"a", "/", "*", "*">> }, { <<"*", "g">> },
                 { <<"/", "w", "*", "b">> },
                 { <<"/", "w", "/", "a", "/", "*", "*">> }}

\* Texts, nothing, and contents of other kinds with a/ closed.
SomeStarts ==
    {[disk |-> [f \in Files |-> t1], unreadable |-> {}, unsearchable |-> {}],
     [disk |-> [f \in Files |-> Gone], unreadable |-> {}, unsearchable |-> {}],
     [disk |-> [f \in Files |-> IF Len(f) = 1 THEN binary ELSE t1],
      unreadable |-> { << <<"a">> >> }, unsearchable |-> { << <<"a">> >> }]}
=============================================================================
