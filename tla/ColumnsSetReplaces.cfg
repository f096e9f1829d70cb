CONSTANTS
  Clients = {c1, c2}
  Preds = {p1, p2}
  StrictClock = TRUE
  None = None
  MaxClock = 3
  MaxExecs = 3
SYMMETRY ColumnSymmetry
SPECIFICATION Spec
INVARIANT SetReplaces
CHECK_DEADLOCK FALSE
