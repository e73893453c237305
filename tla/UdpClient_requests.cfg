\* Three requests, three ports.  The client may wait for a lost datagram for ever.
SPECIFICATION LiveSpec
CONSTANTS
  p1 = p1
  p2 = p2
  p3 = p3
  NoPort = NoPort
  Ports = {p1, p2, p3}
  MaxRequests = 3
INVARIANTS
  TypeOK
  AnswersMatch
PROPERTY
  ReturnsUnlessLost
CHECK_DEADLOCK FALSE
