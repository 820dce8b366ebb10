SPECIFICATION Spec
CONSTANTS
  SimpleIo = FALSE
  Chars <- Letter
  MaxInput = 2
  MaxHistory = 2
  MaxLines = 2
  Rows = 1
  Page = 1
  MaxScroll = 1
  MaxPieces = 2
INVARIANTS TypeOK TerminalGivenBack ReadsRaw 
CHECK_DEADLOCK FALSE
