SPECIFICATION Spec
CONSTANTS
  Capacity = 2
  Null = Null
INVARIANTS OrderedByAddress
