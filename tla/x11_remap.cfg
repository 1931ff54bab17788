SPECIFICATION Spec
CONSTANTS
  Windows = {w1, w2}
  Existing = {}
  OverrideRedirect = {}
  Clients <- RemappingClients
  MaxEvents = 2
  Gap = 1
  Screen <- SmallestScreen
INVARIANT Agrees
CHECK_DEADLOCK FALSE
