SPECIFICATION Spec
CONSTANTS
    k1 = k1
    k2 = k2
    q1 = q1
    r1 = r1
    r2 = r2
    w1 = w1
    w2 = w2
    c1 = c1
    Keys = {k1, k2}
    FpOf <- SameFp
    Queries = {q1}
    Relations = {r1, r2}
    Reads <- ReadsAll
    SizeOf <- SizeOne
    Workers = {w1, w2}
    Readers = {c1}
    Word = 8
    Budget = 2
    Configs <- MCConfigs
INVARIANTS RegistryExact SlotsEvenAtRest UndisturbedCurrent
VIEW MemoState
SYMMETRY Symmetric
