SPECIFICATION Spec
CONSTANTS
  Capacity = 2
  a = a
  b = b
  Value = {a, b}
  NoValue = none
  Batch <- MCBatch
  MaxOut = 2
  MaxCalls = 2
  MaxEmpties = 1
INVARIANTS
  BatchPrefixes
  ExactWhenQuiet
  CountersClose
  ResetForgetsThePast
