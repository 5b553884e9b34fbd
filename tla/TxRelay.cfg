SPECIFICATION FairTxSpec
CONSTANTS
  Nodes = {0, 1, 2}
  Peers <- Triangle
  TxIds <- TwoSources
  Miners = {1}
  MempoolSize = 1
  MaxMined = 1
  SlowRequests = 1
INVARIANTS
  TxTypeOK
  OneTimerServesAll
  TxAnnouncedOnce
PROPERTIES
  EveryTxArrives
\* Everything is sent and handled in the end.
CHECK_DEADLOCK FALSE
