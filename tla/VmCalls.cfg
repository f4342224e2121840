CONSTANTS
  Width = 4
  Units <- KnownUnits
  Checked = TRUE
  StackBound = 12
  FrameBound = 6
  HeapBound = 4
SPECIFICATION SpecKept
INVARIANTS CallersKept NeverMisuses
PROPERTIES ReturnsToCaller
CHECK_DEADLOCK FALSE
