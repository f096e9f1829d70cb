CONSTANTS
  Clients = {c1}
  Ids = {i1, i2}
  RootIds = {r1}
  Preds = {p1}
  Unmarshalable = {}
  Sources = {s1}
  Times = {1, 2}
  None = None
  Driver = "sqlstore"
  HasIndexer = TRUE
  MaxNodes = 3
  MaxRetry = 1
  MaxExecs = 2
SYMMETRY IdSymmetry
SPECIFICATION Spec
INVARIANTS TypeOK AckedStored AnnouncedOnce
PROPERTY StoreImplemented
