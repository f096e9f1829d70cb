CONSTANTS
  Clients = {c1, c2}
  Ids <- PrefixIds
  Suffixes = {x, y}
  Batches <- PrefixBatches
  MaxTries = 2
  MaxCommits = 3
  MaxFailures = 1
SYMMETRY LeveldbSymmetry
SPECIFICATION Spec
INVARIANTS GetEntityExact
CHECK_DEADLOCK FALSE
