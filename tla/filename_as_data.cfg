CONSTANTS
  NumBlocks = 2
  WindowSize = 2
  MaxTries = 2
  MaxChildren = 2
  Capacity = 10
  MaxLost = 0
  MaxCorrupted = 1
  MaxDuplicated = 0
  MaxReordered = 0
  MaxKilled = 0
  Delay = FALSE
  Uint8 = 256
  OldBlocks = 0
  OpenOutcomes <- CanOpen
SPECIFICATION Spec
INVARIANT FilenamePduIsNotData
