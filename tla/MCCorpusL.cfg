SPECIFICATION Spec
CONSTANTS
  Base = 8
  CorpusVersions = {"9P2000.L"}
  FieldsOf <- MCFieldsOf
  kMaxMessageSize = 200
  MaxFailures = 1
INVARIANTS
  AllVersionsReadable
