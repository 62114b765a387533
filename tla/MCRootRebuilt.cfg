SPECIFICATION StorageSpec
CONSTANTS
  Size = 3
  CidRange = 5
  MaxTimeouts = 1
INVARIANT RootRebuilt
CHECK_DEADLOCK FALSE
