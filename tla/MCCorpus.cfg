SPECIFICATION Spec
CONSTANTS
  Base = 8
  CorpusVersions <- MCVersions
  FieldsOf <- MCFieldsOf
  kMaxMessageSize = 200
  MaxFailures = 1
INVARIANTS
  OneFilePerMessage
  CorpusComplete
  CorpusReadable
