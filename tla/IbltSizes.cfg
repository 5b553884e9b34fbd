SPECIFICATION IbltSpec
CONSTANTS
  Txs <- ThreeKeys
  NumHashes = 2
  Expected = 2
  Hedge <- OneAndAHalf
  ValueSize = 12
  KeyBytes = 8
INVARIANT
  ValuesFit
CHECK_DEADLOCK FALSE
