---------------------------- MODULE MCCoroQuantum ----------------------------
(***************************************************************************)
(* CoroSched with a counter of timer ticks that the code does not have.    *)
(***************************************************************************)
EXTENDS CoroSched

VARIABLE ran       \* ticks since the current coroutine last returned from
                   \* coro_yield (or started)

QuantumInit == Init /\ ran = 0

QuantumNext ==
  /\ TimelyNext
  /\ ran' = IF pc' # "run" \/ pc # "run" THEN 0
            ELSE IF tick_count' # tick_count THEN ran + 1 ELSE ran

QuantumSpec == QuantumInit /\ [][QuantumNext]_<<vars, ran>>
QuantumFairSpec == QuantumSpec /\ Fairness

(* A coroutine that keeps the processor for a whole quantum finds a         *)
(* preemption pending, although the counter the interrupt uses is reset     *)
(* only by a switch to another coroutine and not by every coro_yield.       *)
QuantumEnforced ==
  pc = "run" /\ ran >= SCHED_PREEMPT_TICKS => preempt
=============================================================================
