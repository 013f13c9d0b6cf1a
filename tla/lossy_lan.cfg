CONSTANTS
  NumBlocks = 6
  WindowSize = 3
  MaxTries = 2
  MaxChildren = 2
  Capacity = 10
  MaxLost = 2
  MaxCorrupted = 1
  MaxDuplicated = 0
  MaxReordered = 0
  MaxKilled = 1
  Delay = FALSE
  Uint8 = 256
  OldBlocks = 1
  OpenOutcomes <- BothOutcomes
SPECIFICATION FairSpec
INVARIANTS TypeOK LInv RingHoldsTheFuture ResendFindsItsPacket WindowsAgree
PROPERTIES Termination NoRingOverwrite OnePeer WindowNeverMovesBack
