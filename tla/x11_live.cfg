SPECIFICATION Spec
CONSTANTS
  Windows = {w1, w2}
  Existing = {}
  OverrideRedirect = {}
  Clients <- AnyClient
  MaxEvents = 2
  Gap = 1
  Screen <- SmallestScreen
INVARIANT PlacedAsTiled
PROPERTIES MapRequestIsAnswered DestroyedIsForgotten
CHECK_DEADLOCK FALSE
