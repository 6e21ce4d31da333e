SPECIFICATION Spec
CONSTANTS
    k1 = k1
    k2 = k2
    a = a
    b = b
    q1 = q1
    q2 = q2
    Absent = Absent
    Keys = {k1, k2}
    Vals = {a}
    Queries = {q1}
    Match <- MatchA
    Sensitive = {}
    Subsumers <- NoSubsumers
    Pinned = {q1}
    Fifo = FALSE
    Kinds = {"Update", "Move", "Toast", "Truncate"}
    DeletedKeyCap = 1
    FrameRowsCapacity = 2
    BatchFramesMax = 1
    MaxOps = 2
    MaxGen = 2
INVARIANTS SafeInv
VIEW LiveState
CHECK_DEADLOCK FALSE
