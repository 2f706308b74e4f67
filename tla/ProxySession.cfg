SPECIFICATION FairProxySpec
CONSTANTS
  Sessions = {s1, s2}
  OneCharPassword = {s2}
  Admins = {a1, a2}
  NoAdmin = NoAdmin
INVARIANTS
  NothingLeftBehind
  BridgedUnderControl
  LogConsistent

  
CHECK_DEADLOCK FALSE
