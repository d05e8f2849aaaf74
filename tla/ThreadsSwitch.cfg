SPECIFICATION Spec
CONSTANTS
  MaxThreads = 4
  MaxWaits = 3
  MaxQueue = 2
INVARIANTS
  TypeOK
  MutexExclusion
  OwnContext
  CounterExact
  BroadcastEmpties
  HolderRuns
PROPERTIES
  WaitersInOrder
CHECK_DEADLOCK FALSE
