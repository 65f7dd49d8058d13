SPECIFICATION FairSpec
CONSTANTS
  Dump = {d1, d2}
  Parts = 1
  None = None
  MaxCrash = 1
PROPERTIES OutcomeIsFinal DumpEnds
CHECK_DEADLOCK FALSE
