SPECIFICATION FairSpec
CONSTANT
  Conns = {c1, c2, c3}
INVARIANTS
  WaitGroupsExact
  OnlyHandshakesOutliveShutdown
PROPERTIES
  StoppedServeReturns
CHECK_DEADLOCK FALSE
