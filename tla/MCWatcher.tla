----------------------------- MODULE MCWatcher -----------------------------
EXTENDS FsWatcher, TLC

CONSTANTS root, a, b, p, q, r, f

\* Two levels, the upper one with three names.
SomePaths == {<<>>, <<p>>, <<q>>, <<r>>, <<p, p>>, <<r, p>>}

\* The name r is not UTF-8, and becomes one that another directory may have.
SomeLossy == [n \in {p, q, r, f} |-> IF n = r THEN p ELSE n]

SomeTrees == {(root :> <<>>), (root :> <<>>) @@ (a :> <<p>>)}
SomeExcluded == {<<q>>}
=============================================================================
