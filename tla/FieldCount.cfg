SPECIFICATION Spec
CONSTANTS
  NRows = 2
  NCols = 2
  NetCap = 1
  MkRecPoolSize = 2
  RecPoolSize = 2
  Payload = 4
  RecLen <- MCRecLen
  WeakLoads = FALSE
INVARIANT AllFieldsShipped
CHECK_DEADLOCK FALSE
