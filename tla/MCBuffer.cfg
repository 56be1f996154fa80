SPECIFICATION Spec
CONSTANTS
  byte1 = byte1
  byte2 = byte2
  Zero = byte1
  Byte <- MCByte
  Chunk <- MCChunk
  kCheapPrepend = 1
  kInitialSize = 2
  ExtraSize = 2
  Reserves <- MCReserves
  MaxSize = 7
  SizeT = 16
  MaxIncoming = 4
INVARIANTS
  TypeOK
  SpaceIsMade
PROPERTIES
  LeavesOnlyByShrink
  GrowsByNeed
  ImplementsByteQueue
CHECK_DEADLOCK FALSE
