SPECIFICATION Spec
CONSTANTS
  Capacity = 2
  Value = {a, b}
  Record = {a, b}
  NoValue = none
  WalCapacity = 3
  MaxCalls = 5
INVARIANTS
  AppendedIsPublished
  WalBeforeQueue
  ReplayCoversConsumed
  CountersAgree
PROPERTY
  StrandedButLogged
