CONSTANTS
  NumBlocks = 5
  WindowSize = 3
  MaxTries = 3
  MaxChildren = 3
  Capacity = 10
  MaxLost = 2
  MaxCorrupted = 0
  MaxDuplicated = 0
  MaxReordered = 0
  MaxKilled = 0
  Delay = FALSE
  Uint8 = 256
  OldBlocks = 0
  OpenOutcomes <- CanOpen
SPECIFICATION FairSpec
PROPERTY CopyCompletes
