CONSTANTS
  Entities <- MCEntities
  Registered <- MCEntities
  Stored <- MCStored
  Workers = {w1, w2}
  AppWorkers = {}
  SkewedClocks = FALSE
  BufCap = 1
  ChunkSize = 2
  Driver = "cassandra"
  Forever = FALSE
  MaxVersion = 3
  MaxFaults = 1
SYMMETRY WorkerSymmetry
SPECIFICATION Spec
INVARIANTS TypeOK NothingSkipped FreshAfterFinish
