SPECIFICATION Spec
CONSTANTS
  Dump = {d1, d2}
  Parts = 2
  None = None
  MaxCrash = 1
SYMMETRY Symmetry
INVARIANTS NoPhantom OutcomeIsTrue
CHECK_DEADLOCK FALSE
