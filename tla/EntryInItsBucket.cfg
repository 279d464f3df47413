SPECIFICATION Spec
CONSTANTS
  Space = 8
  BucketSize = 2
  RefreshInterval = 1
  DetectPeriod = 2
  SelfId = 0
  Announced = {1, 2, 5, 7}
  MaxRouteNum = 4
  MaxPending = 1
  MaxDepth = 4
INVARIANT EntryInItsBucket
CHECK_DEADLOCK FALSE
