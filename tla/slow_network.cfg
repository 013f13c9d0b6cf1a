CONSTANTS
  NumBlocks = 6
  WindowSize = 5
  MaxTries = 1
  MaxChildren = 1
  Capacity = 2
  MaxLost = 1
  MaxCorrupted = 0
  MaxDuplicated = 1
  MaxReordered = 1
  MaxKilled = 1
  Delay = TRUE
  Uint8 = 3
  OldBlocks = 1
  OpenOutcomes <- CanOpen
SPECIFICATION Spec
INVARIANTS IInv RInv AckedIsWritten EofMeansWritten EofArrivesLast FlushEnds
