SPECIFICATION Spec
CONSTANTS
  MaxThreads = 4
  MaxWaits = 3
  MaxQueue = 2
PROPERTY JoinWaits
CHECK_DEADLOCK FALSE
