CONSTANTS
  c1 = c1
  c2 = c2
  x = x
  y = y
  z = z
  Caches <- MCCaches
  Content <- MCContent
  NumLayers = 2
  BlockSize = 2
  MaxLen = 4
  Chunks <- MCChunks
  MaxBlocks = 3
  StaleOffers = FALSE
SPECIFICATION Spec
SYMMETRY Symmetry
INVARIANTS
  RefcountsExact
  SharedOnlyAsPrefix
  UnbuiltBlocksMaterialized
  SharedBytesIntact
  LayersInStep
PROPERTY ContiguousSpec
