SPECIFICATION FairSpec
CONSTANTS
  Threads = {t1, t2}
  Producers = {t1}
  States = {s1, s2}
  NoThread = NoThread
  NoState = NoState
  MaxFutures = 1
  ConcurrentUse = TRUE
CHECK_DEADLOCK FALSE
PROPERTY WaitersReturn
