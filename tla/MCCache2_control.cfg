SPECIFICATION Spec
CONSTANTS
  SectorSize = 1
  BufferSize = 4
  BackSize = 2
  FillLimit = 2
  FillMax = 1
  SeekLimit = 2
  FileSize = 4
  InOrder = TRUE
  Linear = TRUE
  Youtube = TRUE
  HasControl = TRUE
  SeekMayFail = TRUE
  Seeks = {"forward"}
  MaxSeeks = 1
  Requests = {"get", "seektime", "quit"}

PROPERTIES ReadingMakesRoom RequestAnswered
CHECK_DEADLOCK FALSE
