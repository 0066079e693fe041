SPECIFICATION Spec
CONSTANTS
  Capacity = 4
  messages = 12
  Value <- MCValue
  NoValue = none
INVARIANTS
  Passed
PROPERTY
  Terminates
