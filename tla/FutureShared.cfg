SPECIFICATION Spec
CONSTANTS
  Threads = {t1, t2}
  Producers = {t1}
  States = {s1, s2, s3}
  NoThread = NoThread
  NoState = NoState
  MaxFutures = 2
  ConcurrentUse = TRUE
CHECK_DEADLOCK FALSE
SYMMETRY Symmetry
INVARIANTS
  HandlersMeetResult
  ContinuationOwnedOnce
PROPERTIES
  KeepsContract
