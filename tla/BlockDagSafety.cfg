\* Three miners, five blocks, k = 1, every order of mining and of delivery.
SPECIFICATION Spec
CONSTANTS
  K = 1
  Nodes = {0, 1, 2}
  Miners = {0, 1, 2}
  IdSpan = 8
  MaxBlocks <- FiveBlocks
INVARIANTS
  OrphansWait
  TipsAreChildless
  FlagsFollowTip
  BlueWidth
  Agreement
  OrphansMeanMissing
PROPERTIES
  ColouringIsFinal
  TipNeverRegresses
\* All blocks are mined and delivered in the end.
CHECK_DEADLOCK FALSE
