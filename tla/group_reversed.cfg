SPECIFICATION Spec
CONSTANTS
  Windows = {w1, w2, w3}
  Gap = 1
  Calls <- SingleCalls
  Start = "RightToLeft"
  Turns <- TurnedRound
  Size <- Tight
  Resizes <- Never
  Moves <- OneMove
SYMMETRY AnyWindow
INVARIANT Fits
PROPERTIES ImplementsNodeList CallsDoWhatTheySay
CHECK_DEADLOCK FALSE
