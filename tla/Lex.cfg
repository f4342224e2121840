CONSTANTS
  Bytes <- AllBytes
  Texts <- AllTexts
  IntLimit = 1000
SPECIFICATION Spec
INVARIANTS
  TokensRight LiteralsRight
CHECK_DEADLOCK FALSE
