CONSTANTS
  Engines <- MemOnly
  DefaultSize = 2
  Indexes <- MCIndexes
  Offered = {}
  Kinds <- MCKinds
  Fields <- MCFields
  Conditions <- PlainConditions
  None = None
  MaxConds = 2
  MaxFrom = 3
  MaxLimit = 2
  MaxCalls = 1
SPECIFICATION Spec
INVARIANT NothingPastTheEnd
