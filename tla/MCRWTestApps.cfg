SPECIFICATION Spec
CONSTANTS
  BUF_SIZE = 15
  Sizes = {5}
  MaxBytes = 15
  DrainFirst = FALSE
  Faults = FALSE
INVARIANT LengthIsRemaining
CHECK_DEADLOCK FALSE
