SPECIFICATION SpecWithClients
CONSTANTS
  w1 = w1
  w2 = w2
  Windows = {w2}
  None = None
  Owners <- OneClient
  Fine = 2
  Places <- Screen
  Sizes = {1, 2}
  Limits <- NoLimits
  Buttons = {"primary"}
  Primary = "primary"
  Edges = {"left", "right"}
  MaxPresses = 2
  Regrabs = FALSE
PROPERTIES FinalCommitEndsResize
