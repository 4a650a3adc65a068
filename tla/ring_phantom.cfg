SPECIFICATION Spec
CONSTANTS
  Size = 2
  Values = {v1, v2}
  Garbage = Garbage
  Overlap = TRUE
  ConsumerCalls = {"pull"}
  Backlog = 2
INVARIANTS PulledInOrder
