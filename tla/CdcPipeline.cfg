SPECIFICATION Spec
CONSTANTS
  Relations = {"r", "s"}
  Queries = {"one", "other", "pair", "join"}
  Reads <- MCReads
  Sensitive = {"join"}
  Transactions = {1, 2}
  Scenarios <- MCScenarios
  Chosen = {"pair", "join", "break", "acks", "churn", "rebuild", "slot", "layout", "truncate", "locks", "refuse", "tick"}
  FRAME_ROWS_CAPACITY = 2
  BATCH_FRAMES_MAX = 2
INVARIANTS SnapshotCovered ConsistentAtWatermark  NothingStranded
CHECK_DEADLOCK FALSE
