SPECIFICATION FairSpec
CONSTANTS
  c1 = c1
  c2 = c2
  c3 = c3
  Consumers <- TwoConsumers
  Main = Main
  None = None
  NumRequests = 2
  Paced = FALSE
  SpuriousWakeups = FALSE
PROPERTY EveryRequestServed
CHECK_DEADLOCK FALSE
