SPECIFICATION FairSpec
CONSTANTS
  Addresses = {a1, a2}
  Slots = {s1}
  None = None
  Local = Local
  Default = Default
  MaxSnapshots = 0
  MaxBlock = 1
  MaxArgs = 2
INVARIANTS TypeOK NoTornAccount AnswersOfThePin
PROPERTIES LoadsAreAtomic SlotsKept LoadsReturn
CHECK_DEADLOCK FALSE
