SPECIFICATION Spec
CONSTANTS
  FileSize = 6
  BufferSize = 5
  BackSize = 2
  FillLimit = 1
  FillMax = 2
  SeekLimit = 1
  Prefill = 3
  Threshold = 20
  Retries = 1
  Modes <- MCModes
  Ranges = TRUE
  Bodies = {0}
  MaxDrops = 2
  MaxSeeks = 1
INVARIANTS TypeOK WindowRight EndIsEnd StarvedOnlyLate
PROPERTIES ReadReturns
CHECK_DEADLOCK FALSE
