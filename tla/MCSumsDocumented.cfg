SPECIFICATION Spec
CONSTANTS
  MaxWord = 7
  Scale = 3
  Bps = {2, 3}
  Parties = {p1, p2}
  MaxHolders = 2
  None = None
INVARIANT SumsAsDocumented
CHECK_DEADLOCK FALSE
