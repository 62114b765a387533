SPECIFICATION KernelSpec
CONSTANTS
  PMM_MAX_PAGES = 10
  PAGE_SIZE = 2
  LOW_PAGES = 1
  U64 = 1024
  BootInfos <- MCBootInfos
INVARIANTS FreePagesExact OwnedDisjoint StructuresExact ForeignMemoryKept
PROPERTY ImplementsFifo
