SPECIFICATION BridgeSpec
CONSTANTS
  Cases <- CCases
  Length = 4
  Translator = translator
  Resolver = resolver
  Loop = loop
  NoThread = NoThread
CHECK_DEADLOCK FALSE
INVARIANT FutureOfLivePromise
