CONSTANTS
  Clients = {c1, c2}
  Ids = {i1, i2}
  RootIds = {r1}
  Preds = {p1}
  Unmarshalable = {p1}
  Sources = {s1}
  Times = {1}
  None = None
  Driver = "leveldb"
  HasIndexer = FALSE
  MaxNodes = 2
  MaxRetry = 1
  MaxExecs = 2
SPECIFICATION Spec
INVARIANT SequentialIdsDistinct
PROPERTIES StoreImplemented ExecuteReturns
