SPECIFICATION Spec
CONSTANTS
  Addresses = {a1}
  Slots = {s1}
  None = None
  Local = Local
  Default = Default
  MaxSnapshots = 2
  MaxBlock = 2
  MaxArgs = 1
PROPERTIES PinnedBlockKept MarkedAddressesCached SnapshotIdsNeverReused
CHECK_DEADLOCK FALSE
