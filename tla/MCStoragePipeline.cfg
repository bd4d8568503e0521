SPECIFICATION FairSpec
CONSTANTS
  NRows = 6
  NCols = 2
  NetCap = 1
  MkRecPoolSize = 2
  RecPoolSize = 2
  Payload = 4
  RecLen <- MCRecLen
  WeakLoads = FALSE
INVARIANTS
  NoSlotRace
  InOrder
  EndComplete
  JoinCoversAllThreads
  OnlyFirstRowShort
  PacketFits
  IndInv
PROPERTIES
  ServerFinishes
CHECK_DEADLOCK FALSE
