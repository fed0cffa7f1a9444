SPECIFICATION Spec
CONSTANTS
  Addresses = {a1}
  Slots = {}
  None = None
  Local = Local
  Default = Default
  MaxSnapshots = 1
  MaxBlock = 1
  MaxArgs = 1
PROPERTIES LoadedOnReturn
CHECK_DEADLOCK FALSE
