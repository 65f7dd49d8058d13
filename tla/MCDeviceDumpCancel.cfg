SPECIFICATION Spec
CONSTANTS
  Dump = {d1}
  Parts = 1
  None = None
  MaxCrash = 0
PROPERTY CancelledIsFinal
CHECK_DEADLOCK FALSE
