SPECIFICATION FairSpec
CONSTANTS
    c1 = c1
    c2 = c2
    q1 = q1
    q2 = q2
    AllRows = 2
    Configs <- MCConfigs
    Queries = {q1, q2}
    Clients = {c1, c2}
INVARIANTS NoOrphanWaiter LoadingHasOwner ReadyMaintained RefcountExact 
PROPERTIES RequestsEnd
CHECK_DEADLOCK FALSE
