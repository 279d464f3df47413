SPECIFICATION FairSpec
CONSTANTS
  NumBuckets = 2
  HashOf <- MCHashOf
  MaxUsed = 4
  MaxTimeoutTid = 2
  TimeoutInterval = 2
  MaxTid = 7
INVARIANTS TypeOK InItsBucket NewestFirst StoredBounded
PROPERTIES LoopsAgree DueSurvivesOnlyFullPass CtxLeaves OutstandingSpec
CHECK_DEADLOCK FALSE
