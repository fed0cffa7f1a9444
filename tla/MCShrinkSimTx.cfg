SPECIFICATION FairSpec
CONSTANTS
  Len = 3
  MaxWord = 3
INVARIANTS CurrentViolates ResultMinimal SummaryAccurate
PROPERTIES OnlyShrinks ShrinkingEnds
CHECK_DEADLOCK FALSE
