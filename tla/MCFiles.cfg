SPECIFICATION Spec
CONSTANTS
  Names = {A, B}
  Handles = {f, g}
  Riders = {r, q}
  maxCluster = 4
  secsPerCluster = 2
  SectorSize = 1
  fatSectors = 3
  FatPerSector = 1
  Slots = 2
  Bytes <- Bits
  MaxLen = 3
  MaxCalls = 10
  MaxResets = 1
INVARIANTS
  FilesOwnTheirClusters
  OpenFilesHoldTheirText
  SavedFilesAreOnDisk
  ReadsWhatWasWritten
  WritesInsideTheBuffer
SYMMETRY Symmetry
CHECK_DEADLOCK FALSE
