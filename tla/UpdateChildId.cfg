CONSTANTS
  Clients = {c1}
  Ids = {i1, i2}
  RootIds = {r1, r2}
  Preds = {p1}
  Unmarshalable = {}
  Sources = {s1}
  Times = {1}
  None = None
  Driver = "sqlstore"
  HasIndexer = FALSE
  MaxNodes = 2
  MaxRetry = 1
  MaxExecs = 2
SPECIFICATION Spec
INVARIANT ChildIdEmpty
