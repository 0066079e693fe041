SPECIFICATION Spec
CONSTANTS
  FileSize = 10
  PageSize = 3
  Payload <- MCPayload
  MaxPayload = 2
  MaxAttempts = 3
INVARIANTS
  TypeOK
  CleanReplay
  ReaderFollows
  ReaderCatchesUp
PROPERTIES
  ImplementsDurableLog
