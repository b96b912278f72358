\* Three clients and three handles: each client on its own handle, or on one
\* that another has left.
SPECIFICATION FairSpec
CONSTANTS
  Connections = {c1, c2, c3}
  Handles = {s1, s2, s3}
  NoConnection = NoConnection
  NoHandle = NoHandle
INVARIANTS
  TypeOK
  NoHandlerWithoutWinsock
  OneBatchAfterCancel
  OwnConnectionUntilDoubleClose
  EndsOnlyIfNeverUsed
PROPERTIES
  ShutDownReturns
CHECK_DEADLOCK FALSE
