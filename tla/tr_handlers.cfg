\* Three connections that race for two topics.
SPECIFICATION Spec
CONSTANTS
  Handlers = {h1, h2, h3}
  Topics = {t1, t2}
  Subscribers = {s1, s2, s3, s4}
  NoSubscriber = NoSubscriber
  NoTopic = NoTopic
SYMMETRY Symmetry
INVARIANTS
  TypeOK
  SubscribedIsListed
  LossBounded
  NothingLeftBehind
CHECK_DEADLOCK FALSE
