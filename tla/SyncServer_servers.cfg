\* Each of the three servers with three clients, one of which may fall silent.
\* The server may block in accept for ever, and everything may be over.
CHECK_DEADLOCK FALSE
SPECIFICATION LiveSpec
CONSTANTS
  c1 = c1
  c2 = c2
  c3 = c3
  NoClient = NoClient
  Clients = {c1, c2, c3}
  Silent = {c1}
INVARIANTS
  TypeOK
  ServicesEndFirst
  AtMostOneLateClient
PROPERTIES
  StopReturnsAfterClient
  EveryoneIsServed
