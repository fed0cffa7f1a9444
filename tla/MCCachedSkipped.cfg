SPECIFICATION Spec
CONSTANTS
  Addresses = {a1}
  Slots = {}
  None = None
  Local = Local
  Default = Default
  MaxSnapshots = 0
  MaxBlock = 1
  MaxArgs = 1
PROPERTIES CachedAccountsSkipped
CHECK_DEADLOCK FALSE
