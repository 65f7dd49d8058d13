SPECIFICATION FairSpec
CONSTANTS
  Uploads = {u1, u2}
  Content = {c1, c2}
  None = None
  DbFaults = TRUE
  MaxCrash = 2
INVARIANTS InProgressIsLive OneRowPerImage
PROPERTIES FinalStageIsFinal UploadEnds
CHECK_DEADLOCK FALSE
