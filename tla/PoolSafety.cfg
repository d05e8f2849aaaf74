SPECIFICATION Spec
CONSTANTS
  c1 = c1
  c2 = c2
  c3 = c3
  Consumers <- ThreeConsumers
  Main = Main
  None = None
  NumRequests = 4
  Paced = FALSE
  SpuriousWakeups = TRUE
SYMMETRY ConsumerSymmetry
INVARIANTS
  TypeOK
  Exclusion
  QueueSizeAgrees
  ListIntact
  ServedOnce
  NoneTakenAfterFinish
PROPERTIES
  OnlyUnownedWait
  ServedInOrder
CONSTRAINT MutexRespected
CHECK_DEADLOCK FALSE
