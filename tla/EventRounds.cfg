SPECIFICATION Spec
CONSTANTS
  c1 = c1
  c2 = c2
  c3 = c3
  Clients <- ThreeClients
  None = None
  BufferSize = 2
  HeaderSize = 1
  RequestSizes = {1, 2}
  FileSizes = {2}
SYMMETRY ClientSymmetry
INVARIANTS
  TypeOK
  ListWhole
  GoneByNextRound
  InStep
  CountedWhole
PROPERTY ImplementsReply
CHECK_DEADLOCK FALSE
