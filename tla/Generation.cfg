SPECIFICATION GenerationSpec
CONSTANTS
  root = root
  a = a
  b = b
  yaml = yaml
  IdlFiles = {root, a, b}
  Manifests = {yaml}
  Root = root
  MaxRefs = 2
  CommandLine = CommandLine
  Unset = Unset
  InPlay = {"--cpp-out"}
  Inputs <- MCInputs
  LowerCased <- MCLowerCased
SYMMETRY SharedFiles
CHECK_DEADLOCK FALSE
INVARIANTS TraversalExact OnlyKnownCrashes OutputSelfContained DeclaredIsDefined ListPredictsOutput GeneratedIffSound
