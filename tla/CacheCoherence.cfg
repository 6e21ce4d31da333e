SPECIFICATION Spec
CONSTANTS
  Columns <- MCColumns
  Key <- MCKey
  Full = {"f"}
  Queries <- MCQueries
  Analysis <- MCAnalysis
  Scenarios <- MCScenarios
  Chosen = {"subsume", "member", "fifo", "limit", "top", "joins", "keyjoin", "left", "leftopt", "semi", "exists",
            "not_in", "scalar", "grouped", "memos", "union", "self", "casts", "full", "fulltop", "toast", "emptied", "pin", "pinsemi"}
INVARIANTS  BookkeepingExact
CHECK_DEADLOCK FALSE
