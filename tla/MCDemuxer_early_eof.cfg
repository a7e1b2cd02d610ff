SPECIFICATION Spec
CONSTANTS
  File <- Interleaved
  VThreshold = 2
  AThreshold = 1
  MaxPacks = 9
  Speeds = {0}
  MaxSeeks = 0
INVARIANTS EofMeansDrained
CHECK_DEADLOCK FALSE
