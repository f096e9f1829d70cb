CONSTANTS
  Entities <- MCEntities
  Registered <- MCRegistered
  Dirty <- MCDirty
  Reads <- MCReads
  Commits <- MCCommits
  Producers <- MCProducers
  Workers = {w1, w2}
  BufCap = 1
  Engine = "memsearch"
  StrictClock = TRUE
  MaxCommits = 3
  MaxRestarts = 0
  Main = main
  Script <- MCScript
  ChCap = 1
SPECIFICATION SSpec
PROPERTIES SearchSeesIndexed ScriptEnds
