SPECIFICATION Spec
CONSTANTS
  b1 = b1
  b2 = b2
  Blocks = {b1, b2}
  MaxDirty = 1
  Chunks = 2
  LineSize = 2
  PageSize = 2
  PageCount = 2
  Maps <- MCMaps
  Entries = {1, 2}
  Opcodes <- MCOpcodes
  Immediates <- MCImmediates
  Reach <- MCReach
  BusMastering = TRUE
  NoEntry = NoEntry
  NoBlock = NoBlock
INVARIANTS OnePlace StaleIsMarked ChunksAgree RunsOwnCode EvictedBeforeRun OneWayNeverStale
CHECK_DEADLOCK FALSE
