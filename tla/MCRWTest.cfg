SPECIFICATION CatSpec
CONSTANTS
  BUF_SIZE = 5
  Sizes = {0, 1, 2, 3}
  MaxBytes = 9
  DrainFirst = TRUE
  Faults = TRUE
INVARIANTS LengthIsRemaining
PROPERTIES Stream CatEnds
CHECK_DEADLOCK FALSE
