\* All buffers of up to three of six chars.
SPECIFICATION Spec
CONSTANTS
  Chars <- MCChars
  MaxLength = 3
  NoResult = NoResult
INVARIANTS
  RegisterIsRemainder
CHECK_DEADLOCK FALSE
