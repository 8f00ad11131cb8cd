SPECIFICATION Spec
CONSTANTS
  Lines = 2
  Pieces = 2
INVARIANT
  LinesAreWhole
CHECK_DEADLOCK FALSE
