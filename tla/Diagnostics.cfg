SPECIFICATION Spec
CONSTANTS
  None = None
  Characters = {"e", "f", "|", ",", "(", ")", "F", ">", "i"}
  TypesUpTo <- ThreeLevels
INVARIANTS EmphasisShown
CHECK_DEADLOCK FALSE
