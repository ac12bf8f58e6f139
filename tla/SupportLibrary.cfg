SPECIFICATION LibrarySpec
CONSTANTS
  Threads = {t1, t2}
  Cleaner = cleaner
  Keys = {k1, k2}
  Proxies = {p1, p2, p3}
  NoKey = NoKey
  Collected = TRUE
  HandleMayOutliveAlloc = TRUE
  Objects = {o1, o2}
  JsProxies = {jp1, jp2, jp3}
  NoObject = NoObject
  JsThread = js
  Workers = {w}
  JsObjects = {j1}
  JsInterfaces = {i1, i2}
  CppProxies = {q1, q2, q3}
  NoKind = NoKind
  SwiftCppObjects = {so1, so2}
  SwiftCppProxies = {sp1, sp2}
  SwiftKeys = {sk1, sk2}
  Wrappers = {w1, w2}
  Nil = Nil
  DataPlatforms = {"jni", "web", "objc", "swift"}
  Buffers = {b1, b2}
  MaxRefs = 2
  NativeThreads = {n1, n2}
  JavaThreads = {jt}
  Rounds = 2
  ErrorPlatforms = {"jni", "wasm", "valdi", "objc", "swift", "c"}
  CppErrors = {e1, e2}
  ForeignErrors = {f1}
  OtherThrown = x
  NotAnError = n
  MaxDepth = 4
  NoError = NoError
  NoThread = NoThread
  NoProxy = NoProxy
  NoJsProxy = NoProxy
  NoCppProxy = NoProxy
  NoCppThread = NoThread
CHECK_DEADLOCK FALSE
INVARIANTS
  JsProxiesConsistent
  OneCppProxyPerObject
  MapsHoldLiveProxies
  BytesOutliveRefs
  OneOwnerFrees
  DeadThreadsDetached
  SameErrorComesBack
  CallsArrive
  ValuesComeBack
  OnlyMalformedTextFails
PROPERTIES
  ImplementsRegistry
  JsImplementsRegistry
