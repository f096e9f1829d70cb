CONSTANTS
  Entities <- TwoEntities
  Registered <- TwoEntities
  Stored <- TwoStored
  Workers = {w1}
  AppWorkers = {a1}
  SkewedClocks = FALSE
  BufCap = 1
  ChunkSize = 2
  Driver = "cassandra"
  Forever = TRUE
  MaxVersion = 2
  MaxFaults = 1
SPECIFICATION HSpec
PROPERTIES EventuallyConsistent LoopOnceReturns IndexImplemented
