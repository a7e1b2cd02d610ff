SPECIFICATION Spec
CONSTANTS
  File <- Interleaved
  VThreshold = 2
  AThreshold = 1
  MaxPacks = 9
  Speeds = {0}
  MaxSeeks = 1
INVARIANTS TypeOK QueueIsFile CountMatches SeekOwnsFile
PROPERTIES CallReturns
CHECK_DEADLOCK FALSE
