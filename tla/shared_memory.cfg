SPECIFICATION FairSpec
CONSTANTS
  Threads = {t1, t2, t3}
  NoThread = NoThread
  Keys = {k1, k2}
  Null = Null
  Calls = 4
INVARIANTS TypeOK SameObjectForKey PointersStayValid DestroyedOnce LeavesOnlyOrphans
PROPERTIES ImplementsStore CallsEnd
CHECK_DEADLOCK FALSE
