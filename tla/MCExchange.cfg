SPECIFICATION XSpec
CONSTANTS
  Base = 8
  Messages <- MCMessages
  Tags = {1}
  ExplicitTags = {}
  Pieces <- MCPieces
  Limits <- MCLimits
  Starts = {0}
  Fill = 254
  MaxMessages = 1
  MaxCalls = 2
  Receivers <- MCReceivers
  Listeners <- MCListeners
INVARIANTS
  RoundTrip
  
  AcceptedIsWhole
  
CHECK_DEADLOCK FALSE
