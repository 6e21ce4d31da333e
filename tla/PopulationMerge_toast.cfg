SPECIFICATION Spec
CONSTANTS
    k1 = k1
    k2 = k2
    a = a
    b = b
    q1 = q1
    q2 = q2
    Absent = Absent
    Keys = {k1}
    Vals = {a, b}
    Queries = {q1}
    Match <- MatchA
    Sensitive = {}
    Subsumers <- NoSubsumers
    Pinned = {}
    Fifo = FALSE
    Kinds = {"Insert", "Update", "Toast", "Delete", "Truncate", "Other"}
    DeletedKeyCap = 1
    FrameRowsCapacity = 2
    BatchFramesMax = 2
    MaxOps = 2
    MaxGen = 2
INVARIANTS CachedRowsCurrent ReadyResultExact
VIEW LiveState
CHECK_DEADLOCK FALSE
