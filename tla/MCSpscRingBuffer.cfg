SPECIFICATION Spec
CONSTANTS
  Capacity = 4
  WordSize = 8
  Value = {a, b}
  Raw = Raw
  Moved = Moved
  MaxPushes = 10
INVARIANTS
  TypeOK
  RaceFree
  ObjectLifetime
  IndInv
PROPERTIES
  ImplementsFifo
