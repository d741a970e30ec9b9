SPECIFICATION MCSpec
CONSTANTS
  Connections = {c1, c2, c3, c4}
INVARIANTS
  TypesOK ExitsIdle RequestsAnswered StatusIsSound InterestsAreExact
PROPERTIES
  QuitIsFinal
CHECK_DEADLOCK FALSE
