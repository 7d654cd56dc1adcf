SPECIFICATION Spec
CONSTANTS
  TileW = 2
  XluCap = 2
  XluSat = 255
  AaOn = TRUE
  NumTiles = 3
  FifoDepth = 2
  MaxDropped = 3
  Show = {"terrain", "trees", "foliage"}
  Scenes <- MCScenes
INVARIANTS
  TypeOK
  ClaimedOnce
  SerialOnJoin
  Core1Parked
PROPERTIES
  ImplementsSerial
  DispatchReturns
