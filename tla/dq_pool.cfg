\* The pool as shipped: ~Broker never runs.
SPECIFICATION Spec
CONSTANTS
  Dispatchers = {d1, d2, d3}
  Publishers = {p1, p2}
  Topics = {t1, t2}
  MaxMessages = 3
  DestructorRuns = FALSE
  NoThread = NoThread
  NoMessage = NoMessage
SYMMETRY Symmetry
INVARIANTS
  TypeOK
  WakeCoverage
  ExactlyOnce
  DeathPerDrop
  PromiseKept
CHECK_DEADLOCK FALSE
