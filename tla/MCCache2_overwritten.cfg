SPECIFICATION Spec
CONSTANTS
  SectorSize = 1
  BufferSize = 5
  BackSize = 2
  FillLimit = 2
  FillMax = 2
  SeekLimit = 2
  FileSize = 6
  InOrder = TRUE
  Linear = FALSE
  Youtube = FALSE
  HasControl = TRUE
  SeekMayFail = FALSE
  Seeks = {"backward", "forward"}
  MaxSeeks = 2
  Requests = {}
INVARIANTS DeliveredRight
CHECK_DEADLOCK FALSE
