SPECIFICATION QueriesSpec
CONSTANTS
  Capacity = 2
  WordSize = 4
  Value = {a}
  Raw = raw
  Moved = moved
  MaxPushes = 5
INVARIANTS
  AnswerLasts
  SizeInRange
