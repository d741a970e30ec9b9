SPECIFICATION Spec
CONSTANTS
  Requested = TRUE
  MaxCalls = 1
  MayClose = TRUE
INVARIANT
  AssertionsHold
CHECK_DEADLOCK FALSE
