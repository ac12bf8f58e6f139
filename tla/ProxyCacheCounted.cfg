SPECIFICATION CountedSpec
CONSTANTS
  Threads = {t1, t2}
  Cleaner = cleaner
  Keys = {k1, k2}
  Proxies = {p1, p2, p3}
  NoThread = NoThread
  NoKey = NoKey
  NoProxy = NoProxy
  Collected = FALSE
  HandleMayOutliveAlloc = FALSE
INVARIANTS
  OneLiveProxyPerKey
  KeyReferencesValid
  NoSelfDeadlock
  QuiescentMapIsLive
PROPERTIES
  GetReturns
  DeadProxiesFreed
