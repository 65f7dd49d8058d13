SPECIFICATION FairSpec
CONSTANTS
  Firmware = {f1}
  Task = {t1, t2}
  None = None
  Ops = {"delete", "rootfs", "import"}
  MaxCrash = 1
INVARIANTS TypeOK StuckOnlyByRaceOrCrash NoStaleProgress ReadyIsBacked
PROPERTY UnpackingEnds
CHECK_DEADLOCK FALSE
