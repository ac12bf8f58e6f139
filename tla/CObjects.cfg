SPECIFICATION Spec
CONSTANTS
  Threads = {t1, t2}
  Objects = {o1, o2}
  EmptyArray = EmptyArray
  NumSlots = 2
  NoObject = NoObject
  MaxHandles = 2
SYMMETRY Symmetry
INVARIANTS
  RefCountExact
  NothingDangles
  NoLeak
