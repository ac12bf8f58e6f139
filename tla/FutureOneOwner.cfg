SPECIFICATION FairSpec
CONSTANTS
  Threads = {t1, t2, t3}
  Producers = {t1}
  States = {s1, s2}
  NoThread = NoThread
  NoState = NoState
  MaxFutures = 1
  ConcurrentUse = FALSE
CHECK_DEADLOCK FALSE
INVARIANTS
  ResultTakenOnce
PROPERTIES
  EventuallyReady
  WaitersReturn
