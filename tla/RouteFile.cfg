SPECIFICATION FairSpec
CONSTANTS
  Peers = {p1, p2}
  Garbage = garbage
  MaxHandles = 2
  MaxRouteNum = 3
  MaxStarts = 3
INVARIANTS TypeOK
PROPERTIES RecoversLastSave FileCatchesUp
CHECK_DEADLOCK FALSE
