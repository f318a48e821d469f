SPECIFICATION FairSpec
CONSTANTS
  Timers = {p, q, a}
  Permanent = {p, q}
  MaxDelay = 2
  MaxStep = 1
  Exec386 = FALSE
  Period = 2
  NoTimer = NoTimer
  Modulus = 16
INVARIANTS Linked OneChain Ordered
PROPERTIES Implements PermanentFires
