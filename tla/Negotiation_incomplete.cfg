CONSTANTS
  Numbers <- MCNumbers
  SizeMod = 16
  FailedRequests = {0, 4, 8, 12}
  MaxErrors = 2
  Addresses = 2
  BufLines = 2
CHECK_DEADLOCK FALSE
SPECIFICATION Spec
INVARIANT
  OnlyCompleteResponses
