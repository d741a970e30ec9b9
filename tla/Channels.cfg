SPECIFICATION MCSpec
CONSTANTS
  MaxMessages = 3
  MaxAcks = 2
INVARIANTS
  TypesOK MessagesMirrored GroupMirrored
PROPERTIES
  AnswersAreTrue
CHECK_DEADLOCK FALSE
