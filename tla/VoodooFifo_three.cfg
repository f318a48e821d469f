SPECIFICATION FairSpec
CONSTANTS
  Size = 3
  Limit = 2
  Late = 1
  Modulus = 6
  Kinds = {"fb", "tri", "swapNow", "swapVsync"}
  MaxDrawing = 1
INVARIANTS NothingUndrawn SwapsComing
PROPERTIES Implements QueueReturns FlushReturns PolledRuns
