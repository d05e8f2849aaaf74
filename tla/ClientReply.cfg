SPECIFICATION FairSpec
CONSTANTS
  BufferSize = 3
  HeaderSize = 2
  MaxRequest = 5
  MaxFile = 7
CHECK_DEADLOCK FALSE
INVARIANTS
  TypeOK
  InOrder
  WholeReply
  Released
PROPERTIES
  ImplementsReply
  Ends
