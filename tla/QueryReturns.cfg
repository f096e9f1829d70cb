CONSTANTS
  Root = "u"
  Stores <- OneStore
  Batches <- MCBatches
  Kinds <- MCKinds
  Filters <- MCFilters
  Undecodable = {"blob"}
  None = None
  Faults = TRUE
  MaxNodes = 3
  MaxLevel = 1
SPECIFICATION Spec
PROPERTIES RunReturns
CHECK_DEADLOCK FALSE
