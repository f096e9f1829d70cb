CONSTANTS
  Entities <- TwoEntities
  Registered <- TwoEntities
  Stored <- TwoStored
  Workers = {w1}
  AppWorkers = {}
  SkewedClocks = FALSE
  BufCap = 1
  ChunkSize = 2
  Driver = "leveldb"
  Forever = TRUE
  MaxVersion = 2
  MaxFaults = 0
SPECIFICATION Spec
PROPERTY LoopOnceReturns
