SPECIFICATION FairSpec
CONSTANTS
  Run = {r1, r2, r3}
  Jobs = {"sbom", "vuln", "cve", "dotnet"}
  MaxPosts = 3
  DbFaults = TRUE
  MaxRestart = 1
INVARIANTS NoOrphan FailedIsExplained CompletedHasResult
PROPERTIES SbomEnds ChainFires
CHECK_DEADLOCK FALSE
