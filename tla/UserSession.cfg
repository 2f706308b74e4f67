SPECIFICATION FairSpec
CONSTANTS
  MaxChunks = 2
  MaxSessions = 2
INVARIANT LeftoverReaderBounded
PROPERTIES
  CommandNotInterrupted
  IdlePromptEnds
  DispatchEnds
  ReadLoopEnds
CHECK_DEADLOCK FALSE
