SPECIFICATION PullSpec
CONSTANTS
  Handles = {h1, h2}
  Pins = {p1, p2}
  NoPin = NoPin
  SysfsPins = {p1}
  Banks <- OneBank
  Funcs = {"in", "out"}
  Edges = {"rising"}
  Exclusive = TRUE
  Pulls = {"off", "up"}
  Apart = TRUE
PROPERTIES OthersKept NoBlink OutputAsAsked PollTrue PullAsAsked
SYMMETRY Symmetry
