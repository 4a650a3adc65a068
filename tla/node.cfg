SPECIFICATION Spec
CONSTANTS
  Places = {n1, n2, n3}
  Null = Null
  Graphs = {g1, g2}
  Counts = {1}
  Lists <- MCLists
  Sizes = {2, 3}
  Offsets = {0, 1}
  Allocs = 6
INVARIANTS TypeOK ReturnedAsAllocated BlocksHaveOneOwner MovedNodeIsWhole
SYMMETRY Symmetry
CHECK_DEADLOCK FALSE
