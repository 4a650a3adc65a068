SPECIFICATION FairSpec
CONSTANTS
  Threads = {t1}
  NoThread = NoThread
  Capacity = 2
  MaxPools = 1
  Handle <- MCHandle
  PoolOf <- MCPoolOf
  OffsetOf <- MCOffsetOf
  Calls = 4
PROPERTIES DestroyReturns
CHECK_DEADLOCK FALSE
