----------------------------- MODULE CoroSched -----------------------------
(***************************************************************************)
(* The cooperative coroutine scheduler of kernel/sched/coroutine.c and the *)
(* timer interrupt that interrupts it.  There is one processor.  The code  *)
(* of the scheduler runs with interrupts enabled, so a context switch is   *)
(* cut into the steps between which the interrupt handler sees a different *)
(* state; pc says which step is next.                                      *)
(***************************************************************************)
EXTENDS Integers, Sequences

CONSTANTS MAX_COROUTINES,        \* slots of coro_pool
          CORO_PRIORITY_MAX,     \* priorities are 0 .. CORO_PRIORITY_MAX
          SCHED_PREEMPT_TICKS,   \* ticks of a quantum
          MaxSleep,              \* bound: longest coro_sleep, in ticks
          MaxTick                \* bound: timer ticks of a behaviour

ASSUME CoroAssumption == /\ MAX_COROUTINES \in Nat \ {0}
                         /\ CORO_PRIORITY_MAX \in Nat
                         /\ SCHED_PREEMPT_TICKS \in Nat \ {0}
                         /\ MaxSleep \in Nat
                         /\ MaxTick \in Nat

Pool       == 1 .. MAX_COROUTINES
Idle       == 0                       \* idle_coro, outside the pool
Coro       == Pool \cup {Idle}
Priorities == 0 .. CORO_PRIORITY_MAX
CoroStates == {"READY", "RUNNING", "WAITING", "DEAD"}

VARIABLES
  coro_used,      \* slot allocated
  stack_base,     \* slot owns a stack (TRUE) or NULL (FALSE)
  state,          \* coro_state_t of every coroutine, idle included
  priority,       \* priority of every slot
  wake_tick,      \* deadline of a sleeping slot, 0 = none
  run_queues,     \* FIFO of slots per priority
  current_coro,   \* whose stack the processor is on
  next,           \* local of coro_yield/scheduler_run: the coroutine picked
  now,            \* local of wake_sleeping: the tick it read
  pc,             \* next step of the scheduler code
  tick_count,     \* timer.c
  since_switch,   \* sched_ticks_since_switch
  preempt         \* sched_preempt_pending

slots == <<coro_used, stack_base, priority>>
timer == <<tick_count, since_switch, preempt>>
vars  == <<coro_used, stack_base, state, priority, wake_tick, run_queues,
           current_coro, next, now, pc, tick_count, since_switch, preempt>>

(* pc: "boot" kernel_main before scheduler_run; "run" the current coroutine *)
(* executes its own code; the rest are steps of coro_yield/scheduler_run.   *)
Steps == {"boot", "run", "clear", "demote", "read", "wake", "pick",
          "reclaim", "idlepick", "commit", "reset"}

Init == /\ coro_used = [c \in Pool |-> FALSE]
        /\ stack_base = [c \in Pool |-> FALSE]
        /\ state = [c \in Coro |-> IF c = Idle THEN "RUNNING" ELSE "READY"]
        /\ priority = [c \in Pool |-> 0]
        /\ wake_tick = [c \in Pool |-> 0]
        /\ run_queues = [p \in Priorities |-> << >>]
        /\ current_coro = Idle
        /\ next = Idle
        /\ now = 0
        /\ pc = "boot"
        /\ tick_count = 0
        /\ since_switch = 0
        /\ preempt = FALSE

-----------------------------------------------------------------------------
(* Helpers. *)

(* Mutation: every coroutine goes to the queue of priority 0.               *)
enqueue_Lowest(q, c) == [q EXCEPT ![0] = Append(@, c)]

(* A queue array with c appended at the tail of its priority's queue.       *)
enqueue(q, c) == [q EXCEPT ![priority[c]] = Append(@, c)]

NonEmpty(q) == {p \in Priorities : q[p] # << >>}

(* Mutation: the scan starts at the lowest priority.                        *)
Top_Lowest(q) == CHOOSE p \in NonEmpty(q) : \A r \in NonEmpty(q) : r >= p

(* The highest priority with a waiting coroutine.                           *)
Top(q) == CHOOSE p \in NonEmpty(q) : \A r \in NonEmpty(q) : r <= p

(* Mutation: the head is unlinked together with its successors.             *)
PickRest_All(q) == [q EXCEPT ![Top(q)] = << >>]

(* Head of the highest non-empty queue, or idle; and the queues without it. *)
pick_next_coro(q) == IF NonEmpty(q) = {} THEN Idle ELSE Head(q[Top(q)])
PickRest(q)       == IF NonEmpty(q) = {} THEN q
                     ELSE [q EXCEPT ![Top(q)] = Tail(@)]

(* The lowest free slot. *)
Free       == {c \in Pool : ~coro_used[c]}
alloc_coro == CHOOSE c \in Free : \A d \in Free : c <= d

(* Mutations: only a deadline met exactly counts; a tick too early.         *)
Due_Exact == {c \in Pool : /\ coro_used[c]
                           /\ state[c] = "WAITING"
                           /\ wake_tick[c] # 0
                           /\ now = wake_tick[c]}
Due_Early == {c \in Pool : /\ coro_used[c]
                           /\ state[c] = "WAITING"
                           /\ wake_tick[c] # 0
                           /\ now + 1 >= wake_tick[c]}

(* Slots whose deadline wake_sleeping finds passed.                         *)
Due == {c \in Pool : /\ coro_used[c]
                     /\ state[c] = "WAITING"
                     /\ wake_tick[c] # 0
                     /\ now >= wake_tick[c]}

-----------------------------------------------------------------------------
(* Calls of the code that is running: kernel_main before the scheduler      *)
(* starts, then the current coroutine.                                      *)

(* coro_create.  A failed stack allocation gives the slot back (free_coro)  *)
(* and an exhausted pool returns NULL: neither changes the state.           *)
coro_create(p) ==
  /\ pc \in {"boot", "run"}
  /\ Free # {}
  /\ LET c == alloc_coro IN
       /\ coro_used'  = [coro_used EXCEPT ![c] = TRUE]
       /\ stack_base' = [stack_base EXCEPT ![c] = TRUE]
       /\ priority'   = [priority EXCEPT ![c] = p]
       /\ state'      = [state EXCEPT ![c] = "READY"]
       /\ wake_tick'  = [wake_tick EXCEPT ![c] = 0]
       /\ run_queues' = [run_queues EXCEPT ![p] = Append(@, c)]
  /\ UNCHANGED <<current_coro, next, now, pc, timer>>

(* coro_yield called by the current coroutine.                              *)
coro_yield ==
  /\ pc = "run"
  /\ pc' = "clear"
  /\ UNCHANGED <<slots, state, wake_tick, run_queues, current_coro, next,
                 now, timer>>

(* coro_sleep: TIMER_FREQ_HZ is 1000, so a millisecond is a tick.           *)
coro_sleep(ms) ==
  /\ pc = "run"
  /\ tick_count + ms <= MaxTick
  /\ state' = [state EXCEPT ![current_coro] = "WAITING"]
  /\ wake_tick' = [wake_tick EXCEPT ![current_coro] = tick_count + ms]
  /\ pc' = "clear"
  /\ UNCHANGED <<slots, run_queues, current_coro, next, now, timer>>

(* Mutation: the exiting coroutine frees its own slot and stack.            *)
coro_exit_FreesItself ==
  /\ pc = "run"
  /\ state' = [state EXCEPT ![current_coro] = "DEAD"]
  /\ coro_used' = [coro_used EXCEPT ![current_coro] = FALSE]
  /\ stack_base' = [stack_base EXCEPT ![current_coro] = FALSE]
  /\ pc' = "clear"
  /\ UNCHANGED <<priority, wake_tick, run_queues, current_coro, next, now, timer>>

(* coro_exit, also reached when the coroutine's function returns.           *)
coro_exit ==
  /\ pc = "run"
  /\ state' = [state EXCEPT ![current_coro] = "DEAD"]
  /\ pc' = "clear"
  /\ UNCHANGED <<slots, wake_tick, run_queues, current_coro, next, now, timer>>

(* kernel_main hands the boot stack over to scheduler_run.                  *)
StartScheduler ==
  /\ pc = "boot"
  /\ pc' = "read"
  /\ UNCHANGED <<slots, state, wake_tick, run_queues, current_coro, next,
                 now, timer>>

-----------------------------------------------------------------------------
(* The steps of coro_yield. *)

scheduler_preempt_clear ==
  /\ pc = "clear"
  /\ preempt' = FALSE
  /\ pc' = "demote"
  /\ UNCHANGED <<slots, state, wake_tick, run_queues, current_coro, next,
                 now, tick_count, since_switch>>

Demote ==
  /\ pc = "demote"
  /\ state' = IF state[current_coro] = "RUNNING"
              THEN [state EXCEPT ![current_coro] = "READY"] ELSE state
  /\ pc' = "read"
  /\ UNCHANGED <<slots, wake_tick, run_queues, current_coro, next, now, timer>>

(* wake_sleeping reads the clock once ...                                   *)
ReadNow ==
  /\ pc = "read"
  /\ now' = tick_count
  /\ pc' = "wake"
  /\ UNCHANGED <<slots, state, wake_tick, run_queues, current_coro, next, timer>>

(* ... then goes through the pool in index order; one step per slot woken.  *)
WakeOne ==
  /\ pc = "wake"
  /\ Due # {}
  /\ LET c == CHOOSE d \in Due : \A e \in Due : d <= e IN
       /\ state'      = [state EXCEPT ![c] = "READY"]
       /\ wake_tick'  = [wake_tick EXCEPT ![c] = 0]
       /\ run_queues' = enqueue(run_queues, c)
  /\ UNCHANGED <<slots, current_coro, next, now, pc, timer>>

WakeDone ==
  /\ pc = "wake"
  /\ Due = {}
  /\ pc' = IF current_coro = Idle THEN "reclaim" ELSE "pick"
  /\ UNCHANGED <<slots, state, wake_tick, run_queues, current_coro, next,
                 now, timer>>

(* Enqueue prev if it is still ready, pick; picking prev returns at once.   *)
Pick ==
  /\ pc = "pick"
  /\ LET q == IF state[current_coro] = "READY"
              THEN enqueue(run_queues, current_coro) ELSE run_queues
         n == pick_next_coro(q)
     IN /\ run_queues' = PickRest(q)
        /\ next' = n
        /\ state' = [state EXCEPT ![n] = "RUNNING"]
        /\ pc' = IF n = current_coro THEN "run" ELSE "commit"
  /\ UNCHANGED <<slots, wake_tick, current_coro, now, timer>>

Commit ==
  /\ pc = "commit"
  /\ current_coro' = next
  /\ pc' = "reset"
  /\ UNCHANGED <<slots, state, wake_tick, run_queues, next, now, timer>>

(* The quantum restarts and coro_switch resumes next: idle resumes in the   *)
(* loop of scheduler_run, a coroutine in its own code.                      *)
Reset ==
  /\ pc = "reset"
  /\ since_switch' = 0
  /\ pc' = IF current_coro = Idle THEN "read" ELSE "run"
  /\ UNCHANGED <<slots, state, wake_tick, run_queues, current_coro, next,
                 now, tick_count, preempt>>

-----------------------------------------------------------------------------
(* The steps that only scheduler_run takes, on the idle stack. *)

(* Mutation: everything that is neither ready nor running is freed.         *)
Reclaim_Sleepers ==
  /\ pc = "reclaim"
  /\ LET dead == {c \in Pool : coro_used[c] /\ state[c] \in {"DEAD", "WAITING"}} IN
       /\ coro_used'  = [c \in Pool |-> coro_used[c] /\ c \notin dead]
       /\ stack_base' = [c \in Pool |-> stack_base[c] /\ c \notin dead]
  /\ pc' = "idlepick"
  /\ UNCHANGED <<state, priority, wake_tick, run_queues, current_coro, next,
                 now, timer>>

(* free_coro of every dead coroutine.                                       *)
Reclaim ==
  /\ pc = "reclaim"
  /\ LET dead == {c \in Pool : coro_used[c] /\ state[c] = "DEAD"} IN
       /\ coro_used'  = [c \in Pool |-> coro_used[c] /\ c \notin dead]
       /\ stack_base' = [c \in Pool |-> stack_base[c] /\ c \notin dead]
  /\ pc' = "idlepick"
  /\ UNCHANGED <<state, priority, wake_tick, run_queues, current_coro, next,
                 now, timer>>

(* Nothing to run: arch_idle, and round the loop again.                     *)
ArchIdle ==
  /\ pc = "idlepick"
  /\ pick_next_coro(run_queues) = Idle
  /\ pc' = "read"
  /\ UNCHANGED <<slots, state, wake_tick, run_queues, current_coro, next,
                 now, timer>>

(* The idle coroutine is never enqueued.                                    *)
IdlePick ==
  /\ pc = "idlepick"
  /\ LET n == pick_next_coro(run_queues) IN
       /\ n # Idle
       /\ next' = n
       /\ run_queues' = PickRest(run_queues)
       /\ state' = [state EXCEPT ![Idle] = "READY", ![n] = "RUNNING"]
  /\ pc' = "commit"
  /\ UNCHANGED <<slots, wake_tick, current_coro, now, timer>>

-----------------------------------------------------------------------------
(* Mutation: the quantum expires one tick late.                             *)
scheduler_kernel_timer_tick_Late ==
  LET expired == since_switch + 1 > SCHED_PREEMPT_TICKS IN
    /\ since_switch' = IF expired THEN 0 ELSE since_switch + 1
    /\ preempt' = \/ preempt
                  \/ /\ expired
                     /\ current_coro # Idle
                     /\ state[current_coro] = "RUNNING"

(* A coroutine that is running when a quantum is up is asked to yield.      *)
scheduler_kernel_timer_tick ==
  LET expired == since_switch + 1 >= SCHED_PREEMPT_TICKS IN
    /\ since_switch' = IF expired THEN 0 ELSE since_switch + 1
    /\ preempt' = \/ preempt
                  \/ /\ expired
                     /\ current_coro # Idle
                     /\ state[current_coro] = "RUNNING"

(* timer_handler, in interrupt context at any step of the rest.             *)
timer_handler ==
  /\ tick_count < MaxTick
  /\ tick_count' = tick_count + 1
  /\ scheduler_kernel_timer_tick
  /\ UNCHANGED <<slots, state, wake_tick, run_queues, current_coro, next,
                 now, pc>>

-----------------------------------------------------------------------------
(* The current coroutine gives the processor up. *)
Relinquish == coro_yield \/ (\E ms \in 0 .. MaxSleep : coro_sleep(ms)) \/ coro_exit

SchedulerStep == \/ scheduler_preempt_clear \/ Demote \/ ReadNow \/ WakeOne
                 \/ WakeDone \/ Pick \/ Commit \/ Reset
                 \/ Reclaim \/ ArchIdle \/ IdlePick

Next == \/ \E p \in Priorities : coro_create(p)
        \/ StartScheduler
        \/ coro_yield
        \/ \E ms \in 0 .. MaxSleep : coro_sleep(ms)
        \/ coro_exit
        \/ scheduler_preempt_clear
        \/ Demote
        \/ ReadNow
        \/ WakeOne
        \/ WakeDone
        \/ Pick
        \/ Commit
        \/ Reset
        \/ Reclaim
        \/ ArchIdle
        \/ IdlePick
        \/ timer_handler

Spec == Init /\ [][Next]_vars

(* The deadline of a coroutine that is going to sleep lies ahead until its  *)
(* own coro_yield has scanned the pool.  Without this, the scan makes the   *)
(* coroutine ready and enqueues it, and coro_yield enqueues it once more.   *)
(* No sleep is that short in TimelySpec; Spec has no such restriction.      *)
OwnDeadlineAhead ==
  current_coro # Idle /\ state[current_coro] = "WAITING" /\ wake_tick[current_coro] # 0
    => /\ pc \in {"clear", "demote", "read"} => tick_count < wake_tick[current_coro]
       /\ pc = "wake" => now < wake_tick[current_coro]

TimelyNext == Next /\ OwnDeadlineAhead'
TimelySpec == Init /\ [][TimelyNext]_vars

(* The processor keeps executing, the timer keeps ticking, and coroutines   *)
(* are cooperative: one that runs gives the processor up some time, as the  *)
(* shell loop does when a preemption is pending (ui/shell.c).               *)
Fairness == /\ WF_vars(StartScheduler)
            /\ WF_vars(SchedulerStep)
            /\ WF_vars(Relinquish /\ OwnDeadlineAhead')
            /\ WF_vars(timer_handler /\ OwnDeadlineAhead')

FairSpec == TimelySpec /\ Fairness

-----------------------------------------------------------------------------
(* Properties. *)

(* The variables of coroutine.c hold values of their C types.               *)
TypeOK == /\ coro_used \in [Pool -> BOOLEAN]
          /\ stack_base \in [Pool -> BOOLEAN]
          /\ state \in [Coro -> CoroStates]
          /\ priority \in [Pool -> Priorities]
          /\ wake_tick \in [Pool -> Nat]
          /\ run_queues \in [Priorities -> Seq(Pool)]
          /\ current_coro \in Coro
          /\ next \in Coro
          /\ now \in Nat
          /\ pc \in Steps
          /\ tick_count \in Nat
          /\ since_switch \in 0 .. SCHED_PREEMPT_TICKS - 1
          /\ preempt \in BOOLEAN

(* c is linked into a run queue.                                            *)
Queued(c) == \E p \in Priorities : \E i \in 1 .. Len(run_queues[p]) :
               run_queues[p][i] = c

(* Between its demotion and pick_next_coro the yielding coroutine is not    *)
(* in a queue although it may be ready.                                     *)
InYield == pc \in {"read", "wake", "pick"}

(* The singly linked run queues stay well formed: a queued coroutine is a   *)
(* ready one in the queue of its own priority, linked in exactly once       *)
(* (enqueue overwrites c->next, so a second enqueue would cut a queue).     *)
QueuesWellFormed ==
  \A p \in Priorities :
    /\ \A i \in 1 .. Len(run_queues[p]) :
         /\ coro_used[run_queues[p][i]]
         /\ state[run_queues[p][i]] = "READY"
         /\ priority[run_queues[p][i]] = p
    /\ \A i, j \in 1 .. Len(run_queues[p]) :
         i # j => run_queues[p][i] # run_queues[p][j]

(* A coroutine is in one of the four states of coroutine.h: the one that    *)
(* runs is not at the same time linked into a run queue as ready.           *)
RunningNotQueued == pc = "run" => ~Queued(current_coro)

(* No ready coroutine is lost: whatever is created, woken or demoted is in  *)
(* a run queue, except the coroutine in the middle of its own coro_yield.   *)
NoneLost ==
  \A c \in Pool : coro_used[c] /\ state[c] = "READY"
                    => Queued(c) \/ (c = current_coro /\ InYield)

(* Only the coroutine whose stack the processor is on, or is about to       *)
(* switch to, is RUNNING; and the code of a coroutine runs only while that  *)
(* coroutine is RUNNING.                                                    *)
OneRunning ==
  /\ \A c \in Coro : state[c] = "RUNNING"
       => \/ c = current_coro /\ pc \in {"boot", "run", "clear", "demote", "reset"}
          \/ c = current_coro /\ c = Idle
               /\ pc \in {"read", "wake", "reclaim", "idlepick"}
          \/ c = next /\ pc = "commit"
  /\ pc = "run" => current_coro # Idle /\ state[current_coro] = "RUNNING"

(* The processor never executes on, or switches to, a stack that            *)
(* scheduler_run has freed: coro_exit leaves the reclaiming to the idle     *)
(* coroutine, which has the boot stack.                                     *)
StackAlive ==
  /\ current_coro # Idle => coro_used[current_coro] /\ stack_base[current_coro]
  /\ pc = "commit" /\ next # Idle => coro_used[next] /\ stack_base[next]
  /\ \A c \in Pool : coro_used[c] <=> stack_base[c]

(* wake_sleeping works with the tick it read before an interrupt may have   *)
(* advanced the clock; a sleeper never becomes ready before its deadline.   *)
NoEarlyWake ==
  [][\A c \in Pool : coro_used[c] /\ state[c] = "WAITING" /\ state'[c] = "READY"
                       => tick_count >= wake_tick[c]]_vars

(* The scheduler implements the four-state life cycle of coroutine.h with   *)
(* at most one running coroutine.                                           *)
Life == INSTANCE CoroLifecycle
          WITH life <- [c \in Pool |-> IF coro_used[c] THEN state[c] ELSE "free"]
ImplementsLifecycle == Life!Spec

(* A coroutine asleep with a deadline becomes ready again, whatever the     *)
(* priorities of the coroutines that keep the processor busy.  (Deadline 0  *)
(* means none: coro_sleep(0) at tick 0 would sleep for ever.)               *)
SleepersWake ==
  \A c \in Pool : (coro_used[c] /\ state[c] = "WAITING" /\ wake_tick[c] # 0)
                     ~> (state[c] = "READY")

(* A ready coroutine of the highest priority runs: the FIFO queue rotates   *)
(* and no other coroutine overtakes it for ever.                            *)
TopPriorityRuns ==
  \A c \in Pool :
    (coro_used[c] /\ state[c] = "READY" /\ priority[c] = CORO_PRIORITY_MAX)
      ~> (state[c] = "RUNNING")
=============================================================================
