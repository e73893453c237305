\* One async_write_some to netcat.
CONSTANTS
  Programs <- ProgramsByName
  Pairs <- WriteFreeWithNetcat
  Tokens <- Words
SPECIFICATION Spec
INVARIANT
  AllDataIsWritten
CHECK_DEADLOCK FALSE
