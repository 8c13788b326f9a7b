SPECIFICATION Spec

CONSTANTS
    t1 = t1
    t2 = t2
    binary = binary
    big = big
    locked = locked
    Gone = Gone
    Unread = Unread
    Characters = {"/", "*", "_", "a", "b", "g", "w"}
    Workspace <- InWorkspace
    Builtin <- Git
    Files <- SomeFiles
    Contents = {t1, t2, binary, big, locked}
    Text = {t1, t2, big}
    Small = {t1, t2, binary, locked}
    Locked = {locked}
    PatternSets <- SomePatterns
    Starts <- SomeStarts
    NameMax = 10
    MaxActs = 1

INVARIANT SessionSaved
