SPECIFICATION Spec
CONSTANTS
  v1 = v1
  v2 = v2
  Values <- TwoValues
  Junk = Junk
  BlockSize = 2
  NumBlocks = 7
  InodeBlocks = 1
  InodesPerBlock = 2
  BitmapBits = 8
  PointersPerBlock = 3
  MaxFiles = 2
  MaxLength = 4
  CarefulCallers = TRUE
SYMMETRY ValueSymmetry
INVARIANT AlwaysDefined
PROPERTIES
  StoreSpec
  OnlyRecreationLeaks
