CONSTANTS
  Engines <- MCEngines
  DefaultSize = 2
  Indexes <- MCIndexes
  Offered <- MCOffered
  Kinds <- MCKinds
  Fields <- MCFields
  Conditions <- MCConditions
  None = None
  MaxConds = 2
  MaxFrom = 3
  MaxLimit = 2
  MaxCalls = 2
SPECIFICATION Spec
INVARIANTS TypeOK RunReturnsPage CountsHits
