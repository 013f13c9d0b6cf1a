CONSTANTS
  NumBlocks = 4
  WindowSize = 2
  MaxTries = 2
  MaxChildren = 1
  Capacity = 10
  MaxLost = 1
  MaxCorrupted = 0
  MaxDuplicated = 0
  MaxReordered = 0
  MaxKilled = 0
  Delay = FALSE
  Uint8 = 3
  OldBlocks = 0
  OpenOutcomes = {TRUE}
  BufferSize = 4
  LastSize = 4
  FilenameBytes = 3
  Rooms = {20}
SPECIFICATION BytesSpec
INVARIANT PacketsFitTheirSlots
