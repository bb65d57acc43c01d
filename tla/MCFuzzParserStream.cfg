SPECIFICATION Spec
CONSTANTS
  Base = 8
  Inputs <- MCInputs
  kMaxMessageSize = 200
INVARIANTS
  StreamReachesParser
CHECK_DEADLOCK FALSE
