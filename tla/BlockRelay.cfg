SPECIFICATION FairRelaySpec
CONSTANTS
  K = 1
  Nodes = {0, 1, 2, 3}
  Miners = {0}
  IdSpan = 4
  MaxBlocks <- TwoBlocks
  Peers <- Kite
  GrapheneEnabled = FALSE
  SlowAnswers = TRUE
INVARIANT RelayTypeOK
INVARIANT RequestsAreForMissing
INVARIANT RequestsAreAnswerable
INVARIANT AnnouncedOnce
PROPERTY DagSpec
PROPERTY EveryBlockArrives
CHECK_DEADLOCK FALSE
