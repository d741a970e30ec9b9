SPECIFICATION Spec
CONSTANTS
  Contacts = {"x"}
  Contents = {"p"}
  HasHold = FALSE
  Early = FALSE
  MayFail = FALSE
  MaxChanges = 1
INVARIANT
  CoreIsAnswered
CHECK_DEADLOCK FALSE
