SPECIFICATION FairSpec
CONSTANTS
  Requests = {r1, r2}
  Clients = {c1}
  Limit = 2
  Window = 3
  MaxFaults = 1
  NoClient = NoClient
  Emails = {e1, e2}
  NoEmail = NoEmail
INVARIANTS
  TypeOK
  OneUserPerEmail
  FirstIsAdmin
  LateIsNoAdmin
  TwiceLimit
PROPERTIES
  CounterEnds
