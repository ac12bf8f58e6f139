SPECIFICATION FlowSpec
CONSTANTS
  Inputs = {f1, f2, f3}
  CounterMod = 8
  Consumers = {c1, c2, c3}
  Cases <- WorkingCases
  Length = 4
  Translator = translator
  Resolver = resolver
  Loop = loop
  NoThread = NoThread
CHECK_DEADLOCK FALSE
INVARIANTS
  FiresOnce
  ResolvedNotTooEarly
  OutcomeFaithful
  FreedOnlyOnceSet
  ConsumersAgree
PROPERTIES
  ConsumersServed
  ChainSettles
