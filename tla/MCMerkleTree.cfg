SPECIFICATION LibSpec
CONSTANTS
  TREE_LEVELS = 6
  MT_AL_MAX_ELEMS = 16
  Tag = {1, 2}
  MaxLeaves = 9
  SHA256_Message_Block_Size = 5
  Word = 16
  MaxInput = 7
  MaxMessage = 35
INVARIANTS
  LibTypeOK
  RootIsHash
  VerifyExact
  StoreFits
  ElemsCountsLeaves
  TooLongCorrupted
  DigestExact
PROPERTIES
  CallsSucceed
CHECK_DEADLOCK FALSE
