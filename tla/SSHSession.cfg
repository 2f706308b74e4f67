SPECIFICATION FairSessionSpec
CONSTANT
  MaxWindows = 4
INVARIANT WindowFollowed
PROPERTY RequestLoopEnds
CHECK_DEADLOCK FALSE
