SPECIFICATION FairSpec
CONSTANTS
  Host = {"h1", "h2"}
  Command = {"Cause", "Signal_with_Func"}
  Capacity = 4
  MaxMsgs = 3
  MaxResets = 1
INVARIANTS
  TypeOK
  WholeMessages
PROPERTIES
  EmulatorReturns
  CallsArrive
CHECK_DEADLOCK FALSE
