SPECIFICATION Spec
CONSTANTS
  Windows = {w1, w2, w3}
  Gap = 1
  Calls <- StructuralCalls
  Start = "RightToLeft"
  Turns <- Orientations
  Size <- Tight
  Resizes <- TightResizes
  Moves <- Never
SYMMETRY AnyWindow
INVARIANTS AdditionsSorted TotalCoversNodes
PROPERTY PanicsOnlyWithoutRoom
CHECK_DEADLOCK FALSE
