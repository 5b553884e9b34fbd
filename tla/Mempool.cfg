SPECIFICATION Spec
CONSTANTS
  Txs = {"a", "b", "c"}
  Fees = {1, 2}
  arrSize = 3
  Hash <- Collision
  MaxInserts = 3
INVARIANTS
  IndexesAgree
  EveryStartFinds
  SelectionsAreWhole
\* All insertions made, the pool may be empty for good.
CHECK_DEADLOCK FALSE
