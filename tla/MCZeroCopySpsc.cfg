SPECIFICATION Spec
CONSTANTS
  Capacity = 4
  WordSize = 8
  Value = {a, b}
  Raw = raw
  Moved = moved
  MaxPushes = 9
  Handle = {r1, r2}
INVARIANTS
  TypeOK
  OneReservation
  RaceFree
  ObjectLifetime
PROPERTIES
  ImplementsFifo
