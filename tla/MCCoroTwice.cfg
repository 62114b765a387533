SPECIFICATION Spec
CONSTANTS
  MAX_COROUTINES = 2
  CORO_PRIORITY_MAX = 0
  SCHED_PREEMPT_TICKS = 2
  MaxSleep = 1
  MaxTick = 2
INVARIANT RunningNotQueued
