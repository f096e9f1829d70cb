CONSTANTS
  Entities <- MCEntities
  Registered <- MCRegistered
  Dirty <- MCDirty
  Reads <- MCReads
  Commits <- MCCommits
  Producers = {p1, p2}
  Workers = {w1, w2}
  BufCap = 1
  Engine = "elasticsearch"
  StrictClock = TRUE
  MaxCommits = 2
  MaxRestarts = 1
SYMMETRY GoroutineSymmetry
SPECIFICATION HSpec
INVARIANTS TypeOK IndInv StaleHasRepair FreshWhenQuiescent FreshAfterWaitForDone
PROPERTIES IndexImplemented
