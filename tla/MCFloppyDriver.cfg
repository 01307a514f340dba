SPECIFICATION Spec
CONSTANTS
  Tracks = 3
  Sectors = 2
  SectorSize = 2
  ByteSize = 16
  StepDelay = 3
  TransferDelay = 2
  Images <- DistinctImages
  MaxRetries = 4
  Blocks <- SomeBlocks
  Payloads <- OnePayload
  MaxCalls = 3
INVARIANTS
  HeadIsOnCurTrack
  QuietBetweenCalls
  AcceptedHasMedium
PROPERTY IsBlockDevice
CHECK_DEADLOCK FALSE
