SPECIFICATION Spec
CONSTANTS
  b1 = b1
  b2 = b2
  Blocks = {b1, b2}
  MaxDirty = 1
  Chunks = 2
  LineSize = 2
  PageSize = 4
  PageCount = 2
  Maps <- MCMaps
  Entries = {3}
  Opcodes <- LongOpcodes
  Immediates <- LongImmediates
  Reach <- LongReach
  BusMastering = FALSE
  NoEntry = NoEntry
  NoBlock = NoBlock
INVARIANT NeverStale
CHECK_DEADLOCK FALSE
