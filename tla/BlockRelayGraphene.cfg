SPECIFICATION FairRelaySpec
CONSTANTS
  K = 1
  Nodes = {0, 1, 2, 3}
  Miners = {0}
  IdSpan = 4
  MaxBlocks <- OneBlock
  Peers <- Diamond
  GrapheneEnabled = TRUE
  SlowAnswers = TRUE
INVARIANT TimersMatchRequests
INVARIANT QuietMeansSynced
PROPERTY EveryBlockArrives
CHECK_DEADLOCK FALSE
