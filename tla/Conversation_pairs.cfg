\* Every program whose writes are whole, with its partner.  A program may wait for netcat for ever.
CONSTANTS
  Programs <- ProgramsByName
  Pairs <- Partners
  Tokens <- Words
SPECIFICATION LiveSpec
INVARIANTS
  TypeOK
  PartnersAgree
  NobodyIsStuck
PROPERTIES
  ImplementsTransfer
  ConversationEnds
CHECK_DEADLOCK FALSE
