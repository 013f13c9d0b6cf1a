CONSTANTS
  NumBlocks = 1
  WindowSize = 1
  MaxTries = 2
  MaxChildren = 2
  Capacity = 10
  MaxLost = 1
  MaxCorrupted = 0
  MaxDuplicated = 0
  MaxReordered = 0
  MaxKilled = 0
  Delay = FALSE
  Uint8 = 256
  OldBlocks = 0
  OpenOutcomes <- CanOpen
SPECIFICATION FairSpec
PROPERTY EofThenDone
