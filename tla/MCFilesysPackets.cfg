SPECIFICATION Spec
CONSTANTS
  p1 = p1
  p2 = p2
  Packet <- MCTwo
  Dummy = Dummy
  Death = Death
  None = None
  MaxStarted = 2
  UnitCap = 12
  BackCap = 1
  CmdMod = 3
  MaxSends = 3
  MaxTimeouts = 1
  MaxResets = 0
SYMMETRY MCSymmetry
INVARIANTS
  TypeOK
  OneDummy
  HostOwnsHanded
  UnitInv
PROPERTIES
  CompletionStands
CHECK_DEADLOCK FALSE
