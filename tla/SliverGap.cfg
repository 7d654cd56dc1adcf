SPECIFICATION Spec
CONSTANTS
  Sub = 4
  TileW = 2
  TileH = 2
  TilesX = 2
  TilesY = 2
  Meshes <- SliverMeshes
INVARIANTS
  SharedEdgeOnce
