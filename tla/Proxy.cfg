SPECIFICATION MCSpec
CONSTANTS
  AsyncCalls = {a1, a2}
  RunCalls = {r1}
  BusNames = {b1, b2}
SYMMETRY AnyOwner
INVARIANTS
  TypesOK NoDanglingReference NoReplyDropped CallbackDiscipline
  SignalsAreSound PreparationIsSound ConnectionIsTrue WatchersAreTold
PROPERTY
  ToldInOrder PromiseKept
CHECK_DEADLOCK FALSE
