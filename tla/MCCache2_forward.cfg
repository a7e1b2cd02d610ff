SPECIFICATION Spec
CONSTANTS
  SectorSize = 2
  BufferSize = 10
  BackSize = 5
  FillLimit = 4
  FillMax = 4
  SeekLimit = 4
  FileSize = 13
  InOrder = TRUE
  Linear = FALSE
  Youtube = FALSE
  HasControl = FALSE
  SeekMayFail = FALSE
  Seeks = {"forward"}
  MaxSeeks = 2
  Requests = {}
INVARIANTS WindowFits CopyInRing EofAfterSource
PROPERTIES ReadReturns KeepsPromise
CHECK_DEADLOCK FALSE
