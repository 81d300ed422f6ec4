SPECIFICATION FairSpec
CONSTANTS
  p1 = p1
  p2 = p2
  Packet <- MCTwo
  Dummy = Dummy
  Death = Death
  None = None
  MaxStarted = 1
  UnitCap = 8
  BackCap = 3
  CmdMod = 4
  MaxSends = 2
  MaxTimeouts = 0
  MaxResets = 0
PROPERTIES
  CompletedIsReplied
