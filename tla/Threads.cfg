SPECIFICATION FairSpec
CONSTANTS
  MaxQueue = 2
  NumTimers = 2
  Interval <- MCInterval
  PingTimer = 1
  Cycle = 2
  MaxRequests = 3
INVARIANTS TypeOK MutexesHeld QueuesBounded NoCircularWait NoLostWakeup TimerMessageFirst
PROPERTIES HandledOrStarved
