SPECIFICATION Spec
CONSTANTS
  a = a
  b = b
  c = c
  d = d
  x = x
  y = y
  empty = empty
  pls = pls
  top = top
  g = g
  h = h
  new = new
  unset = unset
  Files <- MCFiles
  Groups <- MCGroups
  Root = top
  NoNode = NoNode
  Sources <- MCSources
  Trees <- MCTrees
  Loads <- MCLoads
  Contents <- MCContents
  Values = {0, 1, 2}
  Unset = unset
  Global = 0
  MaxCommands = 2
INVARIANTS TypeOK LevelsPaired NoLevelLeft OptionsInForce IteratorInTree FirstStepFinds LookAheadRight OrderKept BackUndoes ShuffleFair
PROPERTIES Settles
CHECK_DEADLOCK FALSE
