SPECIFICATION Spec
CONSTANTS
  Capacity = 4
  Null = Null
INVARIANTS TypeOK Linked EachBlockOnce TailOrdered
