SPECIFICATION Spec
CONSTANTS
  c1 = c1
  c2 = c2
  c3 = c3
  d1 = d1
  d2 = d2
  Conn = {c1, c2, c3}
  Disc = {d1, d2}
  None = None
  ProjectOf <- MCProjectOf
  FirmwareOf <- MCFirmwareOf
  MaxFault = 1
INVARIANTS PortHasSession SessionHasPort OneReader
CHECK_DEADLOCK FALSE
