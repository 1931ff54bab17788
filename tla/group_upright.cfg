SPECIFICATION Spec
CONSTANTS
  Windows = {w1, w2, w3}
  Gap = 1
  Calls <- CallsButPops
  Start = "LeftToRight"
  Turns <- Upright
  Size <- Tight
  Resizes <- TightResizes
  Moves <- Never
SYMMETRY AnyWindow
INVARIANTS TypeOK AdditionsAreFresh TotalIsSum Fits ToldTheTruth
PROPERTIES RemovalGivesRoom WastesNothing ImplementsNodeList CallsDoWhatTheySay
CHECK_DEADLOCK FALSE
