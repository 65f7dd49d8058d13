SPECIFICATION FairSpec
CONSTANTS
  s1 = s1
  s2 = s2
  Session <- MCSession
  Container = {k1, k2}
  MaxRequest = 2
  None = None
  Kinds <- MCKinds
  Via <- MCVia
  MaxSessions = 1
  MaxFault = 1
INVARIANTS BootingIsWorked LimitHolds LeakHasCause
PROPERTIES BootEnds ReadyExpires OutcomeIsFinal
CHECK_DEADLOCK FALSE
