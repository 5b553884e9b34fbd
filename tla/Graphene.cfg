SPECIFICATION FairGrapheneSpec
CONSTANTS
  Txs <- Four
  Placements <- OfFour
  TableSizes <- FourAndSix
  MaxMissing = 1
  MaxRequests = 2
INVARIANTS
  DecodedIsExact
PROPERTIES
  EveryBlockDecodes
  PingPongNeedsNothingMissing
\* The block is there, or not asked for.
CHECK_DEADLOCK FALSE
