SPECIFICATION MCSpec
CONSTANTS
  MaxMessages = 0
  MaxAcks = 0
INVARIANTS
  EarlySignalsIgnored
CHECK_DEADLOCK FALSE
