SPECIFICATION RestoreSpec
CONSTANTS
  BP_MAX = 3
  HIST_RING_SIZE = 3
  max_tokens = 4
  Texts = {1, 3}
  MaxSeq = 4
PROPERTY RollbackDropsNewer
