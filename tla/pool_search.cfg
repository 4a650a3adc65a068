SPECIFICATION Spec
CONSTANTS
  Threads = {t1, t2}
  NoThread = NoThread
  Capacity = 2
  MaxPools = 2
  Handle <- MCHandle
  PoolOf <- MCPoolOf
  OffsetOf <- MCOffsetOf
  Calls = 3
INVARIANTS FindOrCreateContract
CHECK_DEADLOCK FALSE
