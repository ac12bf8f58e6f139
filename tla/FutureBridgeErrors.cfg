SPECIFICATION BridgeSpec
CONSTANTS
  Cases <- SwiftCases
  Length = 4
  Translator = translator
  Resolver = resolver
  Loop = loop
  NoThread = NoThread
CHECK_DEADLOCK FALSE
INVARIANT ErrorForwarded
