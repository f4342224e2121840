CONSTANTS
  Rule <- RuleOf
  Families <- MCFamilies
SPECIFICATION Spec
INVARIANTS RoundTrip
CHECK_DEADLOCK FALSE
