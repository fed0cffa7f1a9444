SPECIFICATION CallSpec
CONSTANTS
  Len = 4
  MaxWord = 7
  StartSatisfies = TRUE
INVARIANTS HoldsFailingSequence MinimalWhenMonotone
INVARIANTS TypeOK BestViolates NoDecrement SmallestWhenMonotonic
PROPERTY Returns
CHECK_DEADLOCK FALSE
