SPECIFICATION FairVSCodeSpec
CONSTANTS
  k1 = k1
  k2 = k2
  s3 = s3
  Connections = {k1, k2}
  Sessions = {s1, s2, s3}
  Forwards = {f1}
  ConnOf <- MCConnOf
  NoSession = NoSession
INVARIANTS
  RegisteredIsLive
  
PROPERTY
  ForwardsEndAtExpiry
CHECK_DEADLOCK FALSE
