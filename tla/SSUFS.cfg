SPECIFICATION Spec
CONSTANTS
  BLOCKSIZE = 2
  NUM_DATA_BLOCKS = 2
  NUM_INODES = 2
  MAX_FILE_SIZE = 2
  MAX_OPEN_FILES = 2
  ShortNames = {a, b}
  FullNames = {}
  LongNames = {}
  Cut = NONE
  Values = {v1, v2}
  DeleteShared = FALSE
  NONE = NONE
INVARIANTS SizesAgree BlocksOwnedOnce
PROPERTY ImplementsFiles
SYMMETRY Symm
