\* The contract of ~Broker, which the shipped program never calls.
SPECIFICATION FairSpec
CONSTANTS
  Dispatchers = {d1, d2}
  Publishers = {p1}
  Topics = {t1}
  MaxMessages = 2
  DestructorRuns = TRUE
  NoThread = NoThread
  NoMessage = NoMessage
INVARIANTS
  NoPopFromEmpty
  DrainedAtJoin
PROPERTIES
  JoinReturns
CHECK_DEADLOCK FALSE
