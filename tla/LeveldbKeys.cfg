CONSTANTS
  Clients = {c1, c2}
  Ids <- PrefixIds
  Suffixes = {x, y}
  Batches <- PrefixBatches
  MaxTries = 2
  MaxCommits = 3
  MaxFailures = 1
SPECIFICATION FairSpec
INVARIANTS TypeOK AckedReadBack KeyInv
PROPERTIES CommitReturns
CHECK_DEADLOCK FALSE
