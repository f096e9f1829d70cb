CONSTANTS
  Entities <- TwoEntities
  Registered <- TwoEntities
  Stored <- TwoStored
  Workers = {w1}
  AppWorkers = {a1}
  SkewedClocks = TRUE
  BufCap = 1
  ChunkSize = 2
  Driver = "cassandra"
  Forever = TRUE
  MaxVersion = 2
  MaxFaults = 0
SPECIFICATION HSpec
PROPERTY IndexImplemented
