SPECIFICATION Spec
CONSTANTS
    k1 = k1
    k2 = k2
    a = a
    b = b
    q1 = q1
    q2 = q2
    Absent = Absent
    Keys = {k1}
    Vals = {a, b}
    Queries = {q1, q2}
    Match <- MatchA
    Sensitive = {}
    Subsumers <- WideSubsumers
    Pinned = {}
    Fifo = FALSE
    Kinds = {"Insert", "Update", "Delete"}
    DeletedKeyCap = 1
    FrameRowsCapacity = 1
    BatchFramesMax = 1
    MaxOps = 2
    MaxGen = 2
INVARIANTS ReadyResultExact
VIEW LiveState
CHECK_DEADLOCK FALSE
