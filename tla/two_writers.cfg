CONSTANTS
  NumBlocks = 2
  WindowSize = 2
  MaxTries = 2
  MaxChildren = 2
  Capacity = 2
  MaxLost = 0
  MaxCorrupted = 1
  MaxDuplicated = 0
  MaxReordered = 0
  MaxKilled = 0
  Delay = TRUE
  Uint8 = 256
  OldBlocks = 2
  OpenOutcomes = {TRUE, FALSE}
  BufferSize = 3
  LastSize = 2
  FilenameBytes = 4
  Rooms = {4}
SPECIFICATION BytesSpec
INVARIANTS FileIntegrity BlocksAreBytes BytesInv PacketsFitTheirSlots
PROPERTIES CopiedStays Implements
