SPECIFICATION Spec
CONSTANTS
  TileW = 2
  XluCap = 2
  XluSat = 255
  AaOn = FALSE
  NumTiles = 2
  FifoDepth = 2
  MaxDropped = 3
  Show = {"foliage", "tiny"}
  Scenes <- MCScenes
PROPERTY
  DroppedMonotonic
