CONSTANTS
  NumBlocks = 4
  WindowSize = 2
  MaxTries = 2
  MaxChildren = 1
  Capacity = 10
  MaxLost = 1
  MaxCorrupted = 0
  MaxDuplicated = 0
  MaxReordered = 2
  MaxKilled = 0
  Delay = TRUE
  Uint8 = 256
  OldBlocks = 0
  OpenOutcomes <- CanOpen
SPECIFICATION Spec
INVARIANT ResendFindsItsPacket
