CONSTANTS
  Symbols <- Words
  Forms <- Families
  MaxItems = 4
SPECIFICATION Spec
INVARIANTS
  RepeatsReported SameInEveryPass ImportsRight ImplsRight
