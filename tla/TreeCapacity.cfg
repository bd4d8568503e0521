SPECIFICATION LibSpec
CONSTANTS
  TREE_LEVELS = 5
  MT_AL_MAX_ELEMS = 8
  Tag = {1}
  MaxLeaves = 8
  SHA256_Message_Block_Size = 5
  Word = 16
  MaxInput = 1
  MaxMessage = 1
PROPERTY NoAssertionFails
CHECK_DEADLOCK FALSE
