\* One request, three endpoints, three cancellations, a peer that may fall silent or reset.
SPECIFICATION LiveSpec
CONSTANTS
  r1 = r1
  NoRequest = NoRequest
  Requests = {r1}
  MaxEndpoints = 3
  MaxCancels = 3
  PeerResets = TRUE
INVARIANTS
  TypeOK
  CancelIsNoticed
  CancelThrowsOnlyWhileReopening
PROPERTIES
  ImplementsLifecycle
  EveryRequestReported
  CloseReturns
  AbortIsReported
