SPECIFICATION FairSpec
CONSTANTS
  MaxGenerations = 3
  Requests = {"first", "again", "block", "mv", "explain"}
  Waiters = {"w"}
  Request <- MCRequest
  PoolMin = 1
  PoolMax = 2
  PREPARED_STATEMENT_CAP = 1
  BroadcastCapacity = 4
  HEALTHY_RESET_TICKS = 1
  probe_hold_ticks = 1
  probe_hold_max_ticks = 2
  backstop_ticks = 1
  spawn_wait_ticks = 1
  down_ticks = 1
  Works = {"p", "q"}
  population_workers_min = 1
  population_workers_max = 3
  POPULATION_DEADLOCK_MAX_RETRIES = 1
  Scenarios <- MCScenarios
  Chosen = {"restart", "shutdown", "unbound", "coalesced", "stalled", "noise", "block", "statements", "mv", "teardown", "recycle", "elastic", "workers", "failing", "parking", "expiring", "closing"}
INVARIANTS  ConnectionsClean PoolsAccounted WorkAccounted ResetAlone PublishedIsCurrent
PROPERTIES Recovers
