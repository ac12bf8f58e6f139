SPECIFICATION CompilerSpec
CONSTANTS
  root = root
  a = a
  IdlFiles = {root, a}
  Manifests = {}
  Root = root
  MaxRefs = 1
  CommandLine = CommandLine
  Unset = Unset
  InPlay = {"--cpp-namespace", "--cpp-out", "--cpp-header-out", "--objc-type-prefix", "--ident-objc-type"}
CHECK_DEADLOCK FALSE
INVARIANTS FlagsEquivalent
