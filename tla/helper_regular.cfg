SPECIFICATION Spec
CONSTANTS
  Width = 5
  Capacities <- AllCapacities
  Limits <- AllLimits
INVARIANTS TypeOK RegularHandleDecodes RegularIsExact
CHECK_DEADLOCK FALSE
