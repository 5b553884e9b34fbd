SPECIFICATION ConfirmationSpec
CONSTANTS
  K = 1
  Nodes = {0, 1}
  Miners = {0, 1}
  IdSpan = 8
  MaxBlocks <- ThreeAndTwo
  Txs = {1, 2}
  TxsPerBlock = 1
INVARIANTS
  FutureIsConverse
  OrderingIsTopological
  OrderingsAgree
  StaleOnlyByOwnBlock
  RepeatsOnlyAfterOwnBlock
\* All blocks are mined and delivered in the end.
CHECK_DEADLOCK FALSE
