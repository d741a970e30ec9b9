SPECIFICATION MCSpec
CONSTANTS
  Protocols <- PQ
  File = "good"
  Always = TRUE
  Legacy = TRUE
  Errors = FALSE
  MaxRuns = 3
INVARIANTS
  TypesOK AccountsMirrored ManagersMirrored RequestsSettled ObjectsAreSound
PROPERTIES
  NeverDegrades
CHECK_DEADLOCK FALSE
