SPECIFICATION StorageSpec
CONSTANTS
  Size = 3
  CidRange = 5
  MaxTimeouts = 1
INVARIANTS OwnCompletion TransferWhole MountsVolumes VolumeExact ReadsExact
PROPERTY AppendKeepsData
CHECK_DEADLOCK FALSE
