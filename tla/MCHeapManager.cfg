SPECIFICATION Spec
CONSTANTS
  HdrSize = 12
  Regions <- TwoRegions
  PayloadSizes <- AskedSizes
  TypeDescs <- Tags
INVARIANTS
  ChainTiles
  ObjectsApart
