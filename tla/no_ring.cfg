CONSTANTS
  NumBlocks = 4
  WindowSize = 2
  MaxTries = 2
  MaxChildren = 2
  Capacity = 10
  MaxLost = 2
  MaxCorrupted = 1
  MaxDuplicated = 1
  MaxReordered = 0
  MaxKilled = 1
  Delay = FALSE
  Uint8 = 2
  OldBlocks = 0
  OpenOutcomes <- BothOutcomes
SPECIFICATION FairSpec
PROPERTY Termination
