SPECIFICATION Spec
CONSTANTS
  Timers = {p, q, a}
  Permanent = {p, q}
  MaxDelay = 3
  MaxStep = 2
  Exec386 = TRUE
  Period = 1
  NoTimer = NoTimer
INVARIANTS WakeNeverLate BoundedLateness SliceRuns NeverEmpty
