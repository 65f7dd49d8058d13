SPECIFICATION FairSpec
CONSTANTS
  a1 = a1
  a2 = a2
  a3 = a3
  mcp = mcp
  other = other
  p1 = p1
  p2 = p2
  g = g
  Caller <- MCCaller
  Process = {mcp, other}
  Plain = {p1, p2}
  Gzf = {g}
  None = None
  ProcOf <- MCProcOf
  Uses <- MCUses
  Cap = 1
  MaxRename = 1
  MaxFault = 1
INVARIANTS WaitHasHolder OneHeadless ScriptHasProject FreshUnlessRaced
PROPERTY CallEnds
CHECK_DEADLOCK FALSE
