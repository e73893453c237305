\* Two requests, one id, which may be given away while in use; two cancellations, a peer
\* that may never answer.
SPECIFICATION LiveSpec
CONSTANTS
  r1 = r1
  r2 = r2
  r3 = r3
  i1 = i1
  i2 = i2
  Requests = {r1, r2}
  Ids = {i1, i2}
  IdOf <- SharedIdOf
  ReuseInFlight = TRUE
  NoSession = NoSession
  MaxCancels = 2
INVARIANT
  ReuseIsConfined
PROPERTIES
  EveryRequestReported
  CloseReturns
  AbortIsReported
  CallsReturn
