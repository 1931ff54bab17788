SPECIFICATION Spec
CONSTANTS
  Windows = {w1, w2}
  Existing = {}
  OverrideRedirect = {w1}
  Clients <- CalmClients
  MaxEvents = 2
  Gap = 1
  Screen <- SmallestScreen
PROPERTIES DestroyIsHandled
CHECK_DEADLOCK FALSE
