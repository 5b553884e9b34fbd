\* The same miners with k = 2: are blue sets k-clusters?
SPECIFICATION Spec
CONSTANTS
  K = 2
  Nodes = {0, 1, 2}
  Miners = {0, 1, 2}
  IdSpan = 8
  MaxBlocks <- FiveBlocks
INVARIANT BlueSetsAreKClusters
CHECK_DEADLOCK FALSE
