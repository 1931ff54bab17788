SPECIFICATION Spec
CONSTANTS
  w1 = w1
  w2 = w2
  Windows = {w1, w2}
  None = None
  Owners <- OneOrTwoClients
  Fine = 2
  Places <- Screen
  Sizes = {3}
  Limits <- SomeLimits
  Buttons = {"primary", "secondary"}
  Primary = "primary"
  Edges = {"left", "right"}
  MaxPresses = 3
  Regrabs = FALSE
INVARIANTS TypeOK RequestsFindTheirWindow GrabIsHeld ResizingIsGrabbed
PROPERTIES SizesAreAllowed ActivatedByAClickOrAMove MovesWithThePointer DragsAsPromised LeavesTheScreen
