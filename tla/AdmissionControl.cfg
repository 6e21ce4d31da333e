SPECIFICATION PacedSpec
CONSTANTS
  R_BOOTSTRAP = 1
  R_MIN = 1
  R_STEP = 1
  DRAIN_FLOOR = 0
  LOADING_FLOOR = 1
  BURST_FLOOR = 1
  RateBound = 1
  InflightBound = 2
  ElapsedBound = 1
  LedgerBound = 2
  COUNT_CAP_MIN_QUERIES = 1
  COUNT_CAP_MIN_GROWTH = 2
  EVICTION_TICK_BUDGET = 2
  total_ram = 10
  shared_buffers = 0
  pool_size = 1
  RegisterBurst = 1
 
PROPERTIES  NeverStalls
