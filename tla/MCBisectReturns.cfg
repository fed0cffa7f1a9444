SPECIFICATION FairSpec
CONSTANTS
  MaxWord = 3
  StartSatisfies = FALSE
PROPERTY Returns
CHECK_DEADLOCK FALSE
