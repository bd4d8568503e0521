SPECIFICATION SysFairSpec
CONSTANTS
  NRows = 4
  NCols = 2
  NetCap = 1
  MkRecPoolSize = 2
  RecPoolSize = 2
  Payload = 5
  RecLen <- MCRecLen
  WeakLoads = FALSE
  BufPoolSize = 2
INVARIANTS
  SysInv
  TableFollowsScan
  OuterQuerySeesAllRows
  HostNoSlotRace
PROPERTIES
  AllRowsArrive
  ImplementsQuery
CHECK_DEADLOCK FALSE
