\* One client that publishes and subscribes, and two dispatchers to lose or to block.
SPECIFICATION FairSpec
CONSTANTS
  Connections = {c1}
  Handles = {s1}
  Topics = {t1}
  Subscribers = {o1}
  Dispatchers = {d1, d2}
  MaxMessages = 3
  NoConnection = NoConnection
  NoHandle = NoHandle
  NoSubscriber = NoSubscriber
  NoTopic = NoTopic
  NoMessage = NoMessage
PROPERTIES
  Delivered
CHECK_DEADLOCK FALSE
