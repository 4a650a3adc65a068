SPECIFICATION FairSpecBuffered
CONSTANTS
  Size = 2
  Values = {v1, v2}
  Garbage = Garbage
  Overlap = TRUE
  ConsumerCalls = {"pull", "empty", "clear"}
  Backlog = 2
  Depth = 3
INVARIANTS BufferedTypeOK FlagExactWhenVisible PullReturnsOldest NoPendingRace
PROPERTIES EnteredIsFifo PushedIsTaken
