SPECIFICATION FairSpec
CONSTANTS
  MaxThreads = 3
  MaxStops = 2
CHECK_DEADLOCK FALSE
INVARIANTS FirstStopJoins HasThread
PROPERTIES PowerOffStops
