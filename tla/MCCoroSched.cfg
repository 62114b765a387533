SPECIFICATION QuantumFairSpec
CONSTANTS
  MAX_COROUTINES = 3
  CORO_PRIORITY_MAX = 1
  SCHED_PREEMPT_TICKS = 2
  MaxSleep = 2
  MaxTick = 3
INVARIANTS QueuesWellFormed NoneLost StackAlive QuantumEnforced
PROPERTIES NoEarlyWake ImplementsLifecycle SleepersWake TopPriorityRuns
