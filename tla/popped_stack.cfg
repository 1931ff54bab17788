SPECIFICATION Spec
CONSTANTS
  Windows = {w1, w2, w3}
  Recreates = FALSE
  Gap = 3
  Screen <- SmallScreen
SYMMETRY AnyWindow
PROPERTY LeavingIsAChange
CHECK_DEADLOCK FALSE
