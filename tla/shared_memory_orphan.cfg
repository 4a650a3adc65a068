SPECIFICATION Spec
CONSTANTS
  Threads = {t1}
  NoThread = NoThread
  Keys = {k1}
  Null = Null
  Calls = 1
INVARIANTS AllObjectsDestroyed
CHECK_DEADLOCK FALSE
