CONSTANTS
  Root = "u"
  Stores <- DeletedLike
  Batches = {}
  Kinds <- MCKinds
  Filters <- MCFilters
  Undecodable = {}
  None = None
  Faults = FALSE
  MaxNodes = 3
  MaxLevel = 1
SPECIFICATION Spec
INVARIANT AllowDeletedHonoured
CHECK_DEADLOCK FALSE
