SPECIFICATION MCSpec
CONSTANTS
  Descriptions = {"d1", "d2", "d3"}
  Contacts = {"x", "y"}
  RemoteContact <- OfferedTo
  HasRemote = {"d1", "d3"}
  MaxUpdates = 1
INVARIANTS
  TypesOK MediaFlowsWhenItMay CallProgresses AnsweredInOrder CallIsMirrored
  TransfersAreRight
CHECK_DEADLOCK FALSE
