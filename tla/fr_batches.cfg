\* Three messages in up to two portions.
SPECIFICATION Spec
CONSTANTS
  Outbox <- MCOutbox
  Fills <- MCFills
  BufferSize = 36
  JsonTexts <- MCJsonTexts
  MaxSent = 3
  MaxReceives = 2
INVARIANTS
  TypeOK
  PiecesPartition
  LoneMessageUnderstood
  TypesShiftInBatch
CHECK_DEADLOCK FALSE
