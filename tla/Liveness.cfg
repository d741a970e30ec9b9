SPECIFICATION Spec
PROPERTIES
  OperationsComplete NewsArrive NothingLingers
CHECK_DEADLOCK FALSE
