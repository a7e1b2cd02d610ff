SPECIFICATION Spec
CONSTANTS
  SectorSize = 1
  BufferSize = 5
  BackSize = 2
  FillLimit = 2
  FillMax = 2
  SeekLimit = 2
  FileSize = 7
  InOrder = FALSE
  Linear = FALSE
  Youtube = FALSE
  HasControl = TRUE
  SeekMayFail = FALSE
  Seeks = {"forward", "backward"}
  MaxSeeks = 2
  Requests = {}
INVARIANTS RingHoldsFile
PROPERTIES BackKept
CHECK_DEADLOCK FALSE
