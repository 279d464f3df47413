SPECIFICATION Spec
CONSTANTS
  PerSec = 4
  Timers = {"save", "ping"}
  List <- MCList
  Interval <- MCInterval
  Starts = {1, 3, 5}
  MaxBusy = 2
  MaxNow = 40
INVARIANTS TypeOK KeepsItsGrid WakesInTime LatenessBounded
CHECK_DEADLOCK FALSE
