SPECIFICATION Spec
CONSTANTS
  NumTxs = 3
  Contents = {d1, d2, d3}
  MaxSteps = 3
  None = None
INVARIANTS SlicesAttributeSteps SnapshotsInStep PerTxFindsFinal ErrorsAreNotVerdicts
PROPERTY SameExecution
CHECK_DEADLOCK FALSE
