SPECIFICATION Spec
CONSTANTS
  None = None
  Programs <- Everything
INVARIANTS
  OrderDoesNotMatter CallsMeetTheirFunctions UsesAreInstances SignaturesStandAlone CoercionsHold
CHECK_DEADLOCK FALSE
