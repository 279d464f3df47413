SPECIFICATION FairSpec
CONSTANTS
  Space = 8
  BucketSize = 2
  RefreshInterval = 2
  DetectPeriod = 2
  SelfId = 0
  Announced = {1, 2, 6}
  MaxRouteNum = 4
  MaxPending = 1
  MaxDepth = 4
INVARIANTS TypeOK FindProperNode BufferFits CountersRun PointersFilled
PROPERTIES SplitKeepsAll LivePeerKept SilenceEmptiesTable
CHECK_DEADLOCK FALSE
