\* Two threads, two peers that may fall silent, accepts that may fail.
SPECIFICATION LiveSpec
CONSTANTS
  t1 = t1
  t2 = t2
  c1 = c1
  c2 = c2
  NoClient = NoClient
  Threads = {t1, t2}
  Clients = {c1, c2}
  AcceptErrors = TRUE
INVARIANTS
  TypeOK
  ServiceIsExclusive
  AcceptorIsExclusive
  AtMostOneLateService
PROPERTIES
  AcceptingGoesOn
  EveryoneIsServed
  StopReturns
