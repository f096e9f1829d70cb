CONSTANTS
  Root = "u"
  Stores <- OneStore
  Batches = {}
  Kinds <- MCKinds
  Filters <- MCFilters
  Undecodable = {}
  None = None
  Faults = FALSE
  MaxNodes = 2
  MaxLevel = 2
SPECIFICATION Spec
PROPERTY NoGoroutineLeaks
CHECK_DEADLOCK FALSE
