SPECIFICATION FairSpec
CONSTANTS
  c1 = c1
  c2 = c2
  c3 = c3
  Consumers <- ThreeConsumers
  Main = Main
  None = None
  NumRequests = 4
  Paced = TRUE
  SpuriousWakeups = FALSE
INVARIANT PacedSafe
PROPERTY EveryRequestServed
CHECK_DEADLOCK FALSE
