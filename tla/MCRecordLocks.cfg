SPECIFICATION FairSpec
CONSTANTS
  Key <- MCKey
  FileOf <- MCFileOf
  Request <- MCRequest
  MaxMsgs = 4
  VblankHz = 49
  TimeoutMod = 4
INVARIANTS
  TypeOK
  HoldersDisjoint
  ReleaseFindsKey
PROPERTIES
  VsyncReturns
CHECK_DEADLOCK FALSE
