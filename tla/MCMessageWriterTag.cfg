SPECIFICATION Spec
CONSTANTS
  Base = 4
  Messages <- MCMessages
  Tags = {1}
  ExplicitTags = {2}
  Pieces <- MCPieces
  Limits <- MCLimits
  Starts = {0, 2}
  Fill = 254
  MaxMessages = 2
  MaxCalls = 3
INVARIANTS
  TagAsRequested
CHECK_DEADLOCK FALSE
