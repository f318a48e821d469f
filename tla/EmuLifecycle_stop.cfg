SPECIFICATION Spec
CONSTANTS
  MaxThreads = 2
  MaxStops = 1
CHECK_DEADLOCK FALSE
INVARIANTS StopJoins
