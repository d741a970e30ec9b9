SPECIFICATION Spec
CONSTANTS
  AsyncCalls = {a1}
  RunCalls = {r1}
INVARIANTS
  RunQuitSetsError
CHECK_DEADLOCK FALSE
