SPECIFICATION Spec
CONSTANTS
  Object = {o1, o2}
  Path = {p1, p2}
  Handle = {1, 2, 3}
  Size = {4, 8}
INVARIANTS
  OwnedOnce
  NoLeaks
  BytesBacked
  DirtyIsMapped
