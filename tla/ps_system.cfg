\* Two clients at once or one after the other on the same handles.
SPECIFICATION Spec
CONSTANTS
  Connections = {c1, c2}
  Handles = {s1, s2}
  Topics = {t1, t2}
  Subscribers = {o1, o2}
  Dispatchers = {d1, d2}
  MaxMessages = 1
  NoConnection = NoConnection
  NoHandle = NoHandle
  NoSubscriber = NoSubscriber
  NoTopic = NoTopic
  NoMessage = NoMessage
SYMMETRY Symmetry
INVARIANTS
  TypeOK
  ServedClientGetsItsOwn
  CompleteWhileNobodyLeaves
CHECK_DEADLOCK FALSE
