SPECIFICATION FairSpec
CONSTANTS
  TotalNoNodes = 4
  NoMiners = 2
  Ranges <- TwoRanges
  MinPerMiner = 2
  MaxPerMiner = 3
  TriesPerConnection = 3
INVARIANTS
  PeerGraphIsSound
  AddressesLeadToPeers
PROPERTY
  IsBuilt
\* The construction ends.
CHECK_DEADLOCK FALSE
