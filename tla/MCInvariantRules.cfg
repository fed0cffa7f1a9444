SPECIFICATION Spec
CONSTANTS
  MaxWord = 7
  Scale = 3
  Bps = {0, 2, 3, 5}
  Parties = {p1, p2}
  MaxHolders = 2
  None = None
INVARIANTS TypeOK ConstantProductExact CdpExact LiquidationExact FeeExact ErrsIfMissing SumsExact
CHECK_DEADLOCK FALSE
