SPECIFICATION Spec
CONSTANTS
  Windows = {w1, w2, w3, w4, w5}
  Recreates = FALSE
  Gap = 3
  Screen <- SmallScreen
SYMMETRY AnyWindow
INVARIANTS TiledAreMapped ToldTheTruth NoneOverlap
PROPERTIES ImplementsContract MainKeepsItsPlace PanicsOnlyWithoutRoom
CHECK_DEADLOCK FALSE
