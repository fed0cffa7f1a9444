SPECIFICATION Spec
CONSTANTS
  pool = pool
  token = token
  s1 = s1
  WordBits = 2
  Contracts = {pool}
  Keys = {token}
  Assets = {token}
  None = None
  Err = Err
  MaxPrices = 2
  MaxBindings = 3
  Slots <- MCSlots
  Entries <- MCEntries
  PriceBindings <- MCPrices
  Bindings <- MCBindings
  Rules <- MCRules
  Replies <- MCReplies
INVARIANTS TypeOK ContextOfLastBindings PackedFieldsRecombine ErrsOnlyIfUnbound FirstFailureDecides
CHECK_DEADLOCK FALSE
