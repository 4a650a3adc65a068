SPECIFICATION FairSpec
CONSTANTS
  Threads = {t1, t2, t3}
  NoThread = NoThread
  Capacity = 2
  MaxPools = 1
  Handle <- MCHandle
  PoolOf <- MCPoolOf
  OffsetOf <- MCOffsetOf
  Calls = 4
INVARIANTS TypeOK BlockHeldOnce LiveHandlesDecode MemoryReturned
PROPERTIES ConstructEnds PoolsAreFreeLists
CHECK_DEADLOCK FALSE
