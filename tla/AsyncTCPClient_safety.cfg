\* Three requests, two of them with one id, which is reused only when it is free.
SPECIFICATION Spec
CONSTANTS
  r1 = r1
  r2 = r2
  r3 = r3
  i1 = i1
  i2 = i2
  Requests = {r1, r2, r3}
  Ids = {i1, i2}
  IdOf <- SharedIdOf
  ReuseInFlight = FALSE
  NoSession = NoSession
  MaxCancels = 2
SYMMETRY Symmetry
INVARIANTS
  TypeOK
  ActiveSessionsExact
  CloseDrains
PROPERTY
  ImplementsLifecycle
