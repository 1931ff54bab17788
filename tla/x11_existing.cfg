SPECIFICATION Spec
CONSTANTS
  Windows = {w1, w2, w3}
  Existing = {w1, w2}
  OverrideRedirect = {w2}
  Clients <- CalmClients
  MaxEvents = 2
  Gap = 1
  Screen <- SmallestScreen
INVARIANTS TypeOK TiledAreMapped Agrees PlacedAsTiled
PROPERTY PanicsOnlyForTheGone
CHECK_DEADLOCK FALSE
