SPECIFICATION Spec
CONSTANTS
  Base = 8
  Invocations <- MCInvocations
INVARIANTS
  EveryMessageReported
  SizesAgree
PROPERTIES
  Terminates
