SPECIFICATION Spec
CONSTANTS
  Readers <- MCOneReader
  Writers = {w1}
  Kind <- MCKind
  CAP = 1
  MaxFifos = 1
  Root = FALSE
PROPERTY ReadFirst
CHECK_DEADLOCK FALSE
