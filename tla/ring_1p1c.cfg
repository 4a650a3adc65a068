SPECIFICATION FairSpec
CONSTANTS
  Size = 3
  Values = {v1, v2}
  Garbage = Garbage
  Overlap = TRUE
  ConsumerCalls = {"pull", "empty", "clear"}
  Backlog = 3
INVARIANTS TypeOK RingHoldsFifo PullReturnsOldest PushNeverOverwrites NoSlotRace EmptyNeverInvents FlagIsExact FreeSpaceOnlyBehind
PROPERTIES FifoUntilCollision PolledIsPulled
