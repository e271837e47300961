SPECIFICATION Spec
CONSTANTS
  UseTls = TRUE
  TxDepth = 2
  BackoffMin = 2
  BackoffMax = 5
  MaxChunks = 4
INVARIANTS
  AudioAccounted
  ConnectionOwned
  WireSound
PROPERTIES
  StopEnds
  Retries
  ImplementsFeed
CHECK_DEADLOCK FALSE
