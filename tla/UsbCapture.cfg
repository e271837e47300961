SPECIFICATION Spec
CONSTANTS
  ChunkFrames = 3
  MaxRecoveries = 2
  MaxChunks = 3
INVARIANTS
  DeviceReleased
PROPERTIES
  FaultsAreReal
  CaptureEnds
CHECK_DEADLOCK FALSE
