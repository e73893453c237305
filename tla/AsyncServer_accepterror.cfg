\* One thread, one peer, accepts that may fail.
SPECIFICATION Spec
CONSTANTS
  t1 = t1
  t2 = t2
  c1 = c1
  c2 = c2
  NoClient = NoClient
  Threads = {t1}
  Clients = {c1}
  AcceptErrors = TRUE
INVARIANT
  KeepsAccepting
