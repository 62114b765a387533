SPECIFICATION DataSpec
CONSTANTS
  MAILBOX_CAP = 3
  Agents = {a1, a2}
  MAILBOX_TO_ANY = any
  MaxSends = 5
  EVENTLOG_CAPACITY = 3
  MaxEvents = 8
  BP_MAX = 3
  HIST_RING_SIZE = 10
  max_tokens = 11
  Texts = {1, 9}
  MaxSeq = 11
INVARIANTS RecordsExact HistoryExact MemoryExact TiersCoherent VectorsExact DbExact SkillsExact
PROPERTIES ImplementsQueue RestoredAsSaved
CHECK_DEADLOCK FALSE
