CONSTANTS
  Clients = {c1}
  Ids <- ApartIds
  Suffixes = {x, y}
  Batches <- SingleRows
  MaxTries = 2
  MaxCommits = 3
  MaxFailures = 0
SPECIFICATION Spec
PROPERTIES ExhaustedReported
CHECK_DEADLOCK FALSE
