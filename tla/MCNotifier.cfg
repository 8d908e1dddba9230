SPECIFICATION Spec
CONSTANTS
  NB = 3
  WORD = 4
INVARIANTS InOrder QuietUnload
PROPERTY KeepsTicking
CHECK_DEADLOCK FALSE
