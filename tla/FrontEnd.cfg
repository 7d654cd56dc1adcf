SPECIFICATION Spec
CONSTANTS
  NumTiles = 2
  Vertex <- MCVertex
  CutPoint <- MCCutPoint
  Matrix <- MCMatrix
  Identity = "identity"
  Viewport <- MCViewport
  WholeScreen = "whole"
  Screen <- MCScreen
  Area2 <- MCArea2
  DetSign <- MCDetSign
  Texture <- MCTexture
  Tint <- MCTint
  Disabled <- MCDisabled
  Default <- MCDefault
  Cull <- MCCull
  Color <- MCColor
  Black = "black"
  StackDepth = 2
  MaxTverts = 9
  JobsCap = 2
  PoolCap = 3
  MaxMaterials = 2
  Windows <- MCWindows
  Triples <- MCTriples
  Rings <- MCRings
  NoWindow = noWindow
  Stale = stale
  MaxCommands = 6
  MaxSubmits = 1
INVARIANTS
  TypeOK
  JobsPointIntoPool
PROPERTIES
  ShownIsKept
  ImplementsImmediate
