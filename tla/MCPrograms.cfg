SPECIFICATION Spec
CONSTANTS
  Program <- MCProgram
  MaxArgs = 3
  Capacity = 2
  Header = 1
  Payload = 1
  MaxPayload = 2
  MaxRecords = 4
  NumberOf <- MCNumberOf
  Default <- MCDefault
  QueueCapacity <- MCQueueCapacity
  FileSize <- MCFileSize
  MaxMessages = 3
INVARIANTS
  ParsesExactly
  FailureCountedOnce
  VisitsPrefix
  ExitCode
PROPERTY
  OkIsComplete
