SPECIFICATION FairSpec
CONSTANTS
  t1 = t1
  t2 = t2
  c1 = c1
  c2 = c2
  c3 = c3
  NoCtx = NoCtx
  Task <- MCTask
  Ctx <- MCCtx
  MaxDepth <- MCMaxDepth
  MaxCalls <- MCMaxCalls
INVARIANTS
  TypeOK
  ThreadsTakeTurns
  HandlersFindTheirContext
  ReturnFindsItsContext
  CallReturnsItsResult
  StackBalanced
  MutexUncontended
PROPERTIES
  EmulatorResumes
