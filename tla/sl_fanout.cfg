\* One dispatcher, and one connection thread per subscriber.
SPECIFICATION Spec
CONSTANTS
  Dispatchers = {d1}
  Objects = {o1, o2, o3, o4}
  Garbage = Garbage
SYMMETRY Symmetry
INVARIANTS
  TypeOK
  ReadsInitialised
  CallsOnceAndRecent
  MissesBoundedByRemovals
PROPERTIES
  FanOutSpec
CHECK_DEADLOCK FALSE
