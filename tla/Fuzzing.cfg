SPECIFICATION FairSpec
CONSTANTS
  Campaign = {c1}
  Task = {t1, t2}
  None = None
  MaxCampaigns = 1
  MaxRequest = 1
  MaxFault = 2
INVARIANTS TypeOK RunningIsServed
PROPERTIES OrphansReaped VanishedIsNoticed FirstStartEnds
CHECK_DEADLOCK FALSE
