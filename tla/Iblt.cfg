SPECIFICATION IbltSpec
CONSTANTS
  Txs <- ThreeKeys
  NumHashes = 2
  Expected = 2
  Hedge <- OneAndAHalf
  ValueSize = 12
  KeyBytes = 8
PROPERTIES
  PeelsTheDifference
  ListingEnds
\* The run ends with the answer.
CHECK_DEADLOCK FALSE
