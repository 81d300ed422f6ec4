SPECIFICATION Spec
CONSTANTS
  p1 = p1
  p2 = p2
  Packet <- MCTwo
  Dummy = Dummy
  Death = Death
  None = None
  MaxStarted = 2
  UnitCap = 12
  BackCap = 3
  CmdMod = 4
  MaxSends = 2
  MaxTimeouts = 1
  MaxResets = 0
PROPERTIES
  NoSecondCompletion
CHECK_DEADLOCK FALSE
