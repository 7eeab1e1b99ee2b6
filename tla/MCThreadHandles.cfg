CONSTANTS
  c1 = c1
  c2 = c2
  h1 = h1
  h2 = h2
  h3 = h3
  NoHandle = NoHandle
  Callers <- MCCallers
  Handles <- MCHandles
  Answer <- MCAnswer
  Uses = 2
  CreateFails = TRUE
SPECIFICATION TSpec
CHECK_DEADLOCK FALSE
INVARIANTS UndefinedOnlyByMisuse GetReturnsAnswer FreedAfterEnd
PROPERTY GetReturns
