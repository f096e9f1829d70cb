CONSTANTS
  Entities <- TwoEntities
  Registered <- TwoEntities
  Dirty <- TwoDirty
  Reads <- TwoReads
  Commits <- LikeCommits
  Producers = {p1, p2}
  Workers = {w1, w2}
  BufCap = 1
  Engine = "elasticsearch"
  StrictClock = TRUE
  MaxCommits = 2
  MaxRestarts = 1
SPECIFICATION HSpec
PROPERTIES EventuallyFresh WaitForDoneReturns
