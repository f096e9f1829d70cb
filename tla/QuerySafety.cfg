CONSTANTS
  Root = "u"
  Stores <- MCStores
  Batches <- MCBatches
  Kinds <- MCKinds
  Filters <- MCFilters
  Undecodable = {}
  None = None
  Faults = TRUE
  MaxNodes = 3
  MaxLevel = 2
SPECIFICATION Spec
INVARIANTS TypeOK ResultSandwiched LeaksOnlyBelowDiscarded NeverStuck NoPartialResult
CHECK_DEADLOCK FALSE
