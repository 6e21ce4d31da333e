SPECIFICATION FairSpec
CONSTANTS
  Scenarios <- MCScenarios
  Queries = {"p", "q"}
  Pinned = {"p"}
  Invalidating = {"q"}
  Unplannable = {}
  Sizes <- MCSizes
  MV_BUILD_CONNECTIONS = 1
  FRAME_ROWS_CAPACITY = 2
  MV_PAYOFF_WINDOW = 1
  MV_BACKOFF_BASE = 1
  MV_BACKOFF_CAP = 2
  MaxWasted = 3
  mv_compute_min_rows = 10
  mv_size_ratio = 4
  MaxVersion = 2
  MaxFrameRows = 1
  MaxCommands = 2
INVARIANTS TablesAccounted OneBuilder
PROPERTIES ReadsSeeResults FreshIsCurrent WriterNeverWaits BuildsEnd
CHECK_DEADLOCK FALSE
