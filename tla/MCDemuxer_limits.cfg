SPECIFICATION Spec
CONSTANTS
  File <- AudioFirst
  VThreshold = 3
  AThreshold = 3
  MaxPacks = 2
  Speeds = {0, 1, 2}
  MaxSeeks = 0
PROPERTIES NothingSkipped CallReturns
CHECK_DEADLOCK FALSE
