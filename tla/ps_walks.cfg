\* A walk over up to three subscribers, one of whom may be deleted and its
\* memory used again, and a second dispatcher that could take the same message.
SPECIFICATION Spec
CONSTANTS
  Connections = {c1, c2}
  Handles = {s1}
  Topics = {t1}
  Subscribers = {o1, o2, o3}
  Dispatchers = {d1, d2}
  MaxMessages = 1
  NoConnection = NoConnection
  NoHandle = NoHandle
  NoSubscriber = NoSubscriber
  NoTopic = NoTopic
  NoMessage = NoMessage
SYMMETRY Symmetry
INVARIANTS
  SentOnce
CHECK_DEADLOCK FALSE
