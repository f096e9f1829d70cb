CONSTANTS
  Entities <- TwoEntities
  Registered <- TwoEntities
  Dirty <- TwoDirty
  Reads <- TwoReads
  Commits <- LikeCommits
  Producers = {p1, p2}
  Workers = {w1, w2}
  BufCap = 1
  Engine = "elasticsearch"
  StrictClock = FALSE
  MaxCommits = 2
  MaxRestarts = 0
SPECIFICATION Spec
INVARIANT FreshWhenQuiescent
