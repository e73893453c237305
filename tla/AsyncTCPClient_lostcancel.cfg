\* One request, one cancellation, a peer that may never answer.
SPECIFICATION LiveSpec
CONSTANTS
  r1 = r1
  r2 = r2
  r3 = r3
  i1 = i1
  i2 = i2
  Requests = {r1}
  Ids = {i1}
  IdOf <- SharedIdOf
  ReuseInFlight = FALSE
  NoSession = NoSession
  MaxCancels = 1
PROPERTY
  CancelledIsReported
