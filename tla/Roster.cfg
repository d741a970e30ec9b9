SPECIFICATION MCSpec
INVARIANTS
  TypesOK ListMirrored ListAnswers ContactsAreRight
PROPERTIES
  RequestsDeliverAll
CHECK_DEADLOCK FALSE
