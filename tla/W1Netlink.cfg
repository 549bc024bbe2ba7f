SPECIFICATION FairSpec
CONSTANTS
  m1 = m1
  s1 = s1
  NoPort = NoPort
  Handles = {h1}
  Ports = {p1}
  Ids <- MCIds
  Requests <- OneRequest
  U32 = 5
  MaxCalls = 7
  MaxReplies = 1
  MaxQueue = 2
  MaxNoise = 1
  NoiseKinds = {"data", "error", "other"}
  MaxLag = 1
  Multicast = FALSE
  QuietReopen = TRUE
INVARIANTS TypeOK OwnReplies StatusUnmistaken RepliesRecent
PROPERTIES ImplementsLink CallsReturn
