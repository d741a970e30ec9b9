SPECIFICATION DelegatingSpec
CONSTANTS
  Protocols <- PQ
  File = "good"
  Always = TRUE
  Legacy = TRUE
  Errors = FALSE
  MaxRuns = 3
INVARIANTS
  PartialDelegationIsRead
CHECK_DEADLOCK FALSE
