SPECIFICATION SysFairSpec
CONSTANTS
  NRows = 1
  NCols = 2
  NetCap = 1
  MkRecPoolSize = 2
  RecPoolSize = 2
  Payload = 5
  RecLen <- MCRecLen
  WeakLoads = FALSE
  BufPoolSize = 2
PROPERTY OuterQueryRuns
CHECK_DEADLOCK FALSE
