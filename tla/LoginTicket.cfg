SPECIFICATION FairTicketSpec
CONSTANTS
  Sessions = {s1, s2, s3}
  Tickets = {t1, t2}
  Admins = {a1, a2}
  NoTicket = NoTicket
  NoAdmin = NoAdmin
INVARIANTS
  ProceedsOnlyIfApproved
  PendingHasWaiter
PROPERTIES
  ImplementsConfirmation
  WaitEnds
