SPECIFICATION Spec
CONSTANTS
  NumBuckets = 2
  HashOf <- MCHashOf
  MaxUsed = 4
  MaxTimeoutTid = 2
  TimeoutInterval = 2
  MaxTid = 7
PROPERTY CtxLostOnlyWhenDone
CHECK_DEADLOCK FALSE
