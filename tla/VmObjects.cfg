CONSTANTS
  Width = 4
  Units <- AnyUnits
  Checked = FALSE
  StackBound = 8
  FrameBound = 3
  HeapBound = 6
SPECIFICATION Spec
INVARIANTS TypeOK NoDanglingRef StringsWhole
PROPERTIES ObjectsKeepShape
CHECK_DEADLOCK FALSE
