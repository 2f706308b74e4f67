SPECIFICATION FairSpec
CONSTANTS
  uOtp = uOtp
  uSecret = uSecret
  Users <- MCUsers
  OtpUsers <- MCOtpUsers
  Conns = {c1, c2}
  Admins = {a1, a2}
  Passwords = {p1, p2}
  NoPass = NoPass
  NoUser = NoUser
  MaxTryLogin = 2
INVARIANTS
  OneResetPerEntry
  OvershootBounded
  OtpTimers
  AcceptedOnlyByEarlyReaders
PROPERTY
  BlockEnds
