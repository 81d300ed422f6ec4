SPECIFICATION Spec
CONSTANTS
  f = f
  g = g
  ev2_max = 3
  Func <- MCFunc
  BlitterFunc = "blitter"
  Device <- MCDevice
  Delay <- MCDelay
  Period <- MCPeriod
  Cycles <- MCCycles
  EVT_MAX = 1000000
  MaxTime = 4
  MaxRequests = 4
  MaxFrames = 5
INVARIANT
  PreviousRunsFirst
