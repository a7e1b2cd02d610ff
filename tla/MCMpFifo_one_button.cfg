SPECIFICATION Spec
CONSTANTS
  None = None
  key_fifo_size = 7
  Buttons = {b1}
  DoubleModes = {FALSE, TRUE}
INVARIANTS NoStuckKey
PROPERTIES KeepsQueue
