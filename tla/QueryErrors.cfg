CONSTANTS
  Root = "u"
  Stores <- PlainStore
  Batches = {}
  Kinds <- MCKinds
  Filters <- MCFilters
  Undecodable = {}
  None = None
  Faults = TRUE
  MaxNodes = 1
  MaxLevel = 1
SPECIFICATION Spec
INVARIANT ErrorsReturned
CHECK_DEADLOCK FALSE
