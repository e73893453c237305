\* Every kind of resource, files of two tokens.
SPECIFICATION LiveSpec
CONSTANTS
  Resources = {"file", "empty", "big", "missing", "unreadable", "spaced"}
  BodySize = 2
INVARIANTS
  TypeOK
  ResponseIsDelivered
  ErrorsHaveACause
PROPERTY
  ExchangeEnds
