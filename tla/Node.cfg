SPECIFICATION Spec
CONSTANTS
  Space = 4
  BucketSize = 2
  RefreshInterval = 1
  DetectPeriod = 2
  SelfId = 0
  Announced = {1, 2, 3}
  MaxRouteNum = 3
  MaxDepth = 2
  NumBuckets = 2
  HashOf <- MCHashOf
  MaxUsed = 3
  MaxTimeoutTid = 2
  TimeoutInterval = 2
  MaxTid = 4
  MaxNodes = 2
INVARIANTS TypeOK
PROPERTIES TableSpec ContextSpec AskedWhenDropped MaroonedForGood
CHECK_DEADLOCK FALSE
