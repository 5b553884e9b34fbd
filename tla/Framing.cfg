SPECIFICATION FairFramingSpec
CONSTANTS
  Msgs = {"INV", "GBLOCK", "EXACT"}
  WireBytes <- Modelled
  PayloadSize <- Encoded
  FRAME_PREFIX_SIZE = 2
  TxBuffer = 3
  MaxSends = 4
  MaxConnects = 2
INVARIANT
  NeverCorrupt
PROPERTIES
  ConnectionSpec
  AllHandled
\* All messages are sent in the end.
CHECK_DEADLOCK FALSE
