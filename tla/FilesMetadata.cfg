SPECIFICATION Spec
CONSTANTS
  v1 = v1
  v2 = v2
  Values = {v1}
  Junk = Junk
  BlockSize = 2
  NumBlocks = 6
  InodeBlocks = 1
  InodesPerBlock = 3
  BitmapBits = 8
  PointersPerBlock = 3
  MaxFiles = 3
  MaxLength = 3
  CarefulCallers = FALSE
INVARIANT MetadataIntact
CHECK_DEADLOCK FALSE
