CONSTANTS
  TREE_LEVELS = 6
  MT_AL_MAX_ELEMS = 16
  MaxPages = 2
  Data = {1, 2}
  MaxLeaves = 6
  Faults = {"cipher", "leaf", "parent", "io", "open"}
  SyncFaults = {"first", "second", "header", "file"}
  FaultSites = {"journal", "counter", "write", "sync"}
SPECIFICATION Spec
INVARIANT TypeOK CacheExact Durable
CHECK_DEADLOCK FALSE
