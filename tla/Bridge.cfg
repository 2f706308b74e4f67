SPECIFICATION FairSpec
CONSTANTS
  MaxOut = 2
  MaxIn = 3
  MaxIdleTicks = 0
INVARIANTS
  ShownIsRecorded
  LastOutputLossBounded
  ReplayKept
PROPERTIES
  IdleSessionEnds
  OneReaderEnds
CHECK_DEADLOCK FALSE
