\* Every queued message is served unless the pool is used up.
SPECIFICATION FairSpec
CONSTANTS
  Dispatchers = {d1, d2}
  Publishers = {p1, p2}
  Topics = {t1}
  MaxMessages = 3
  DestructorRuns = FALSE
  NoThread = NoThread
  NoMessage = NoMessage
INVARIANTS
  OvertakingBounded
PROPERTIES
  EventuallyTaken
  PoolSpec
CHECK_DEADLOCK FALSE
