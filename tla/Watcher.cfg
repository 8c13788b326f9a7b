SPECIFICATION Spec

CONSTANTS
    root = root
    a = a
    b = b
    p = p
    q = q
    r = r
    f = f
    Dirs = {root, a, b}
    Root = root
    Names = {p, q, r}
    FileNames = {f}
    Lossy <- SomeLossy
    Paths <- SomePaths
    Trees <- SomeTrees
    Excluded <- SomeExcluded
    Limit = 2
    MaxActs = 3

INVARIANTS
    TypeOK
    Covered
    LogIsTrue
    InOrder
    NothingSkipped

PROPERTIES
    DirsGetWatched
    WatcherStops
