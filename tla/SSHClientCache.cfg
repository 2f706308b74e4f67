SPECIFICATION FairSpec
CONSTANTS
  Sessions = {s1, s2}
  Clients = {c1, c2}
  Keys = {k1, k2}
  NoClient = NoClient
INVARIANTS
  RefCountExact
  ResultForRequester
  InUseNotRecycled
PROPERTIES
  RequestsServed
  UnusedRecycled
