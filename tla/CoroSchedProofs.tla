-------------------------- MODULE CoroSchedProofs --------------------------
(***************************************************************************)
(* For every pool size, number of priorities, quantum and sleep length:    *)
(* the run queues stay well formed, no ready coroutine is lost, at most    *)
(* one coroutine runs, the processor is never on a freed stack, and the    *)
(* scheduler implements the life cycle of coroutine.h.                     *)
(***************************************************************************)
EXTENDS MCCoroQuantum, NatFacts

USE CoroAssumption

Fifos == [Priorities -> Seq(Pool)]

(* c occurs in some queue of q.                                             *)
Holds(q, c) == \E p \in Priorities : \E i \in 1 .. Len(q[p]) : q[p][i] = c

(* Every coroutine is in the queue of its priority, and once only.          *)
Sound(q, pr) ==
  \A p \in Priorities :
    /\ \A i \in 1 .. Len(q[p]) : pr[q[p][i]] = p
    /\ \A i, j \in 1 .. Len(q[p]) : i # j => q[p][i] # q[p][j]

(* r is q with c appended to the queue of priority p.                       *)
Enqueued(q, p, c, r) == r = [q EXCEPT ![p] = Append(@, c)]

(* The queues hold exactly the ready coroutines, the one inside its own     *)
(* coro_yield excepted.                                                     *)
QueueInv ==
  /\ Sound(run_queues, priority)
  /\ \A c \in Pool : Holds(run_queues, c)
       <=> (coro_used[c] /\ state[c] = "READY" /\ ~(c = current_coro /\ InYield))

(* What each step of the context switch may rely on.                        *)
StepInv ==
  /\ pc = "boot" => current_coro = Idle
  /\ pc \in {"run", "clear", "demote", "pick"} => current_coro # Idle
  /\ pc \in {"reclaim", "idlepick"} => current_coro = Idle
  /\ current_coro = Idle /\ pc # "commit" => state[Idle] = "RUNNING"
  /\ pc = "commit" => next # current_coro /\ state[next] = "RUNNING"
  /\ pc = "reset" => state[current_coro] = "RUNNING"
  /\ pc \in {"clear", "demote"} => state[current_coro] # "READY"

IInv == /\ TypeOK
        /\ QueueInv
        /\ StepInv
        /\ OneRunning
        /\ StackAlive
        /\ OwnDeadlineAhead

-----------------------------------------------------------------------------
(* The queue operations. *)

(* enqueue of a coroutine no queue holds keeps the queues sound and adds    *)
(* exactly that coroutine.                                                  *)
LEMMA EnqueueLemma ==
  ASSUME NEW q \in Fifos, NEW c \in Pool, NEW p \in Priorities,
         NEW pr \in [Pool -> Priorities], Sound(q, pr),
         ~Holds(q, c), pr[c] = p,
         NEW r, Enqueued(q, p, c, r)
  PROVE  /\ r \in Fifos
         /\ Sound(r, pr)
         /\ \A d \in Pool : Holds(r, d) <=> Holds(q, d) \/ d = c
<1>1. r \in Fifos /\ r[p] = Append(q[p], c)
  BY DEF Fifos, Enqueued
<1>2. /\ Len(r[p]) = Len(q[p]) + 1
      /\ \A i \in 1 .. Len(q[p]) : r[p][i] = q[p][i]
      /\ r[p][Len(r[p])] = c
      /\ q[p] \in Seq(Pool) /\ Len(q[p]) \in Nat
  BY <1>1 DEF Fifos
<1>3. \A s \in Priorities : s # p => r[s] = q[s]
  BY DEF Fifos, Enqueued
<1>4. Sound(r, pr)
  <2>. SUFFICES ASSUME NEW s \in Priorities
       PROVE /\ \A i \in 1 .. Len(r[s]) : pr[r[s][i]] = s
             /\ \A i, j \in 1 .. Len(r[s]) : i # j => r[s][i] # r[s][j]
    BY DEF Sound
  <2>1. CASE s # p
    BY <2>1, <1>3 DEF Sound
  <2>2. CASE s = p
    <3>1. \A i \in 1 .. Len(q[p]) : q[p][i] # c
      BY DEF Holds
    <3>2. \A i \in 1 .. Len(r[p]) : i \in 1 .. Len(q[p]) \/ i = Len(r[p])
      BY <1>2
    <3>3. \A i \in 1 .. Len(r[p]) : pr[r[p][i]] = p
      BY <1>2, <3>2 DEF Sound
    <3>4. \A i, j \in 1 .. Len(r[p]) : i # j => r[p][i] # r[p][j]
      BY <1>2, <3>1, <3>2 DEF Sound, Enqueued
    <3>. QED  BY <2>2, <3>3, <3>4
  <2>. QED  BY <2>1, <2>2
<1>5. \A d \in Pool : Holds(q, d) \/ d = c => Holds(r, d)
  BY <1>1, <1>2, <1>3 DEF Holds, Enqueued
<1>6. \A d \in Pool : Holds(r, d) => Holds(q, d) \/ d = c
  BY <1>1, <1>2, <1>3 DEF Holds, Enqueued
<1>. QED  BY <1>1, <1>4, <1>5, <1>6

(* pick_next_coro takes a queued coroutine out of its queue and leaves all  *)
(* the others in theirs; it returns idle only when nothing is queued.       *)
LEMMA PickLemma ==
  ASSUME NEW q \in Fifos, NEW pr \in [Pool -> Priorities], Sound(q, pr)
  PROVE  /\ PickRest(q) \in Fifos
         /\ Sound(PickRest(q), pr)
         /\ pick_next_coro(q) \in Coro
         /\ pick_next_coro(q) # Idle => Holds(q, pick_next_coro(q))
         /\ pick_next_coro(q) = Idle => \A d \in Pool : ~Holds(q, d)
         /\ \A d \in Pool : Holds(PickRest(q), d)
                              <=> Holds(q, d) /\ d # pick_next_coro(q)
<1>1. CASE NonEmpty(q) = {}
  <2>1. \A p \in Priorities : q[p] = << >>
    BY <1>1 DEF NonEmpty
  <2>2. pick_next_coro(q) = Idle /\ PickRest(q) = q
    BY <1>1 DEF pick_next_coro, PickRest
  <2>3. \A d \in Pool : ~Holds(q, d)
    BY <2>1 DEF Holds
  <2>. QED  BY <2>2, <2>3 DEF Coro
<1>2. CASE NonEmpty(q) # {}
  <2>. DEFINE t == Top(q)
              n == pick_next_coro(q)
              r == PickRest(q)
  <2>1. t \in Priorities /\ q[t] # << >>
    <3>1. \E p \in NonEmpty(q) : \A s \in NonEmpty(q) : s <= p
      BY <1>2, GreatestExists DEF NonEmpty, Priorities
    <3>2. t \in NonEmpty(q)
      BY <3>1 DEF Top
    <3>. QED  BY <3>2 DEF NonEmpty
  <2>2. /\ n = Head(q[t])
        /\ r = [q EXCEPT ![t] = Tail(@)]
    BY <1>2 DEF pick_next_coro, PickRest
  <2>3. q[t] \in Seq(Pool) /\ Len(q[t]) \in Nat /\ Len(q[t]) > 0
    BY <2>1 DEF Fifos
  <2>4. /\ n = q[t][1] /\ n \in Pool
        /\ r[t] = Tail(q[t]) /\ r[t] \in Seq(Pool)
        /\ Len(r[t]) = Len(q[t]) - 1
        /\ \A i \in 1 .. Len(r[t]) : r[t][i] = q[t][i + 1]
    BY <2>1, <2>2, <2>3 DEF Fifos
  <2>5. r \in Fifos /\ \A s \in Priorities : s # t => r[s] = q[s]
    BY <2>1, <2>2, <2>4 DEF Fifos
  <2>6. Sound(r, pr)
    <3>. SUFFICES ASSUME NEW s \in Priorities
         PROVE /\ \A i \in 1 .. Len(r[s]) : pr[r[s][i]] = s
               /\ \A i, j \in 1 .. Len(r[s]) : i # j => r[s][i] # r[s][j]
      BY DEF Sound
    <3>1. CASE s # t
      BY <3>1, <2>5 DEF Sound
    <3>2. CASE s = t
      BY <3>2, <2>1, <2>3, <2>4 DEF Sound
    <3>. QED  BY <3>1, <3>2
  <2>7. Holds(q, n)
    BY <2>1, <2>3, <2>4 DEF Holds
  <2>8. ASSUME NEW d \in Pool PROVE Holds(r, d) => Holds(q, d) /\ d # n
    <3>. SUFFICES ASSUME NEW p \in Priorities, NEW i \in 1 .. Len(r[p]),
                         r[p][i] = d
                  PROVE  Holds(q, d) /\ d # n
      BY DEF Holds
    <3>1. CASE p # t
      <4>1. d = q[p][i] /\ i \in 1 .. Len(q[p])
        BY <3>1, <2>5
      <4>2. pr[d] = p /\ pr[n] = t
        BY <4>1, <2>1, <2>3, <2>4 DEF Sound
      <4>. QED  BY <3>1, <4>1, <4>2 DEF Holds
    <3>2. CASE p = t
      <4>1. d = q[t][i + 1] /\ i + 1 \in 1 .. Len(q[t]) /\ i + 1 # 1
        BY <3>2, <2>3, <2>4
      <4>2. d # q[t][1]
        BY <4>1, <2>1, <2>3 DEF Sound
      <4>. QED  BY <4>1, <4>2, <2>1, <2>4 DEF Holds
    <3>. QED  BY <3>1, <3>2
  <2>9. ASSUME NEW d \in Pool, Holds(q, d), d # n PROVE Holds(r, d)
    <3>1. PICK p \in Priorities : \E i \in 1 .. Len(q[p]) : q[p][i] = d
      BY <2>9 DEF Holds
    <3>2. PICK i \in 1 .. Len(q[p]) : q[p][i] = d
      BY <3>1
    <3>3. CASE p # t
      BY <3>2, <3>3, <2>5 DEF Holds
    <3>4. CASE p = t
      <4>1. i - 1 \in 1 .. Len(r[t]) /\ r[t][i - 1] = d
        BY <3>2, <3>4, <2>3, <2>4, <2>9
      <4>. QED  BY <4>1, <2>1 DEF Holds
    <3>. QED  BY <3>3, <3>4
  <2>10. n # Idle
    BY <2>4 DEF Pool, Idle
  <2>. QED  BY <2>4, <2>5, <2>6, <2>7, <2>8, <2>9, <2>10 DEF Coro
<1>. QED  BY <1>1, <1>2

-----------------------------------------------------------------------------
(* The inductive invariant. *)

LEMMA InitIInv == Init => IInv
<1>. SUFFICES ASSUME Init PROVE IInv
  OBVIOUS
<1>1. TypeOK
  <2>1. /\ run_queues \in [Priorities -> Seq(Pool)]
        /\ coro_used \in [Pool -> BOOLEAN] /\ stack_base \in [Pool -> BOOLEAN]
    BY DEF Init
  <2>2. state \in [Coro -> CoroStates]
    BY DEF Init, CoroStates
  <2>3. priority \in [Pool -> Priorities] /\ since_switch \in 0 .. SCHED_PREEMPT_TICKS - 1
    BY DEF Init, Priorities
  <2>. QED  BY <2>1, <2>2, <2>3 DEF Init, TypeOK, Coro, Steps
<1>2. \A p \in Priorities : Len(run_queues[p]) = 0
  BY DEF Init
<1>3. QueueInv
  BY <1>2 DEF Init, QueueInv, Sound, Holds
<1>4. StepInv /\ OneRunning /\ StackAlive /\ OwnDeadlineAhead
  BY DEF Init, StepInv, OneRunning, StackAlive, OwnDeadlineAhead, Coro, Pool, Idle
<1>. QED  BY <1>1, <1>3, <1>4 DEF IInv

(* The slot alloc_coro returns is free.                                     *)
LEMMA AllocLemma ==
  ASSUME Free # {} PROVE alloc_coro \in Pool /\ ~coro_used[alloc_coro]
<1>0. Free \subseteq Nat
  BY DEF Free, Pool
<1>1. \E c \in Free : \A d \in Free : c <= d
  BY <1>0, LeastExists
<1>. QED  BY <1>1 DEF alloc_coro, Free

(* The slot wake_sleeping wakes is due.                                     *)
LEMMA DueLemma ==
  ASSUME Due # {}, NEW c, c = CHOOSE d \in Due : \A e \in Due : d <= e
  PROVE  c \in Due
<1>0. Due \subseteq Nat
  BY DEF Due, Pool
<1>1. \E d \in Due : \A e \in Due : d <= e
  BY <1>0, LeastExists
<1>. QED  BY <1>1

LEMMA CreateIInv ==
  ASSUME IInv, NEW p \in Priorities, coro_create(p), OwnDeadlineAhead'
  PROVE  IInv'
<1>. DEFINE c == alloc_coro
<1>. USE DEF IInv
<1>1. c \in Pool /\ ~coro_used[c] /\ c # current_coro /\ c # Idle
  BY AllocLemma DEF coro_create, StackAlive, Pool, Idle
<1>2. /\ coro_used'  = [coro_used EXCEPT ![c] = TRUE]
      /\ stack_base' = [stack_base EXCEPT ![c] = TRUE]
      /\ priority'   = [priority EXCEPT ![c] = p]
      /\ state'      = [state EXCEPT ![c] = "READY"]
      /\ wake_tick'  = [wake_tick EXCEPT ![c] = 0]
      /\ run_queues' = [run_queues EXCEPT ![p] = Append(@, c)]
      /\ pc \in {"boot", "run"}
      /\ UNCHANGED <<current_coro, next, now, pc, timer>>
  BY DEF coro_create
<1>3. TypeOK'
  BY <1>1, <1>2 DEF TypeOK, Coro, CoroStates, timer
<1>4. QueueInv'
  <2>1. ~Holds(run_queues, c)
    BY <1>1 DEF QueueInv
  <2>2. Sound(run_queues, priority')
    BY <2>1, <1>1, <1>2 DEF QueueInv, Sound, Holds, TypeOK
  <2>3. /\ Sound(run_queues', priority')
        /\ \A d \in Pool : Holds(run_queues', d) <=> Holds(run_queues, d) \/ d = c
    <3>1. run_queues \in Fifos /\ priority' \in [Pool -> Priorities] /\ priority'[c] = p
      BY <1>1, <1>2 DEF TypeOK, Fifos
    <3>2. Enqueued(run_queues, p, c, run_queues')
      BY <1>2 DEF Enqueued
    <3>. HIDE DEF c
    <3>. QED  BY <3>1, <3>2, <2>1, <2>2, <1>1, EnqueueLemma
  <2>. QED  BY <2>3, <1>1, <1>2 DEF QueueInv, TypeOK, InYield, Coro
<1>5. StepInv' /\ OneRunning' /\ StackAlive'
  BY <1>1, <1>2 DEF StepInv, OneRunning, StackAlive, TypeOK, Coro
<1>. QED  BY <1>3, <1>4, <1>5

LEMMA StartIInv == ASSUME IInv, StartScheduler, OwnDeadlineAhead' PROVE IInv'
<1>1. TypeOK'
  BY DEF IInv, TypeOK, StartScheduler, slots, timer, Steps, Coro, CoroStates, StepInv
<1>2. QueueInv'
  BY DEF IInv, TypeOK, QueueInv, StepInv, OneRunning, StartScheduler, slots, InYield, Coro, Steps
<1>3. StepInv' /\ OneRunning' /\ StackAlive'
  BY DEF IInv, TypeOK, StepInv, OneRunning, StackAlive, StartScheduler, slots, Coro, Steps
<1>. QED  BY <1>1, <1>2, <1>3 DEF IInv

LEMMA YieldIInv == ASSUME IInv, coro_yield, OwnDeadlineAhead' PROVE IInv'
<1>1. TypeOK'
  BY DEF IInv, TypeOK, coro_yield, slots, timer, Steps, Coro, CoroStates, StepInv
<1>2. QueueInv'
  BY DEF IInv, TypeOK, QueueInv, StepInv, OneRunning, coro_yield, slots, InYield, Coro, Steps
<1>3. StepInv' /\ OneRunning' /\ StackAlive'
  BY DEF IInv, TypeOK, StepInv, OneRunning, StackAlive, coro_yield, slots, Coro, Steps
<1>. QED  BY <1>1, <1>2, <1>3 DEF IInv

LEMMA ExitIInv == ASSUME IInv, coro_exit, OwnDeadlineAhead' PROVE IInv'
<1>1. TypeOK'
  BY DEF IInv, TypeOK, coro_exit, slots, timer, Steps, Coro, CoroStates, StepInv
<1>2. QueueInv'
  BY DEF IInv, TypeOK, QueueInv, StepInv, OneRunning, coro_exit, slots, InYield, Coro, Steps
<1>3. StepInv' /\ OneRunning' /\ StackAlive'
  BY DEF IInv, TypeOK, StepInv, OneRunning, StackAlive, coro_exit, slots, Coro, Steps
<1>. QED  BY <1>1, <1>2, <1>3 DEF IInv

LEMMA ClearIInv == ASSUME IInv, scheduler_preempt_clear, OwnDeadlineAhead' PROVE IInv'
<1>1. TypeOK'
  BY DEF IInv, TypeOK, scheduler_preempt_clear, slots, timer, Steps, Coro, CoroStates, StepInv
<1>2. QueueInv'
  BY DEF IInv, TypeOK, QueueInv, StepInv, OneRunning, scheduler_preempt_clear, slots, InYield, Coro, Steps
<1>3. StepInv' /\ OneRunning' /\ StackAlive'
  BY DEF IInv, TypeOK, StepInv, OneRunning, StackAlive, scheduler_preempt_clear, slots, Coro, Steps
<1>. QED  BY <1>1, <1>2, <1>3 DEF IInv

LEMMA DemoteIInv == ASSUME IInv, Demote, OwnDeadlineAhead' PROVE IInv'
<1>1. TypeOK'
  BY DEF IInv, TypeOK, Demote, slots, timer, Steps, Coro, CoroStates, StepInv
<1>2. QueueInv'
  <2>1. /\ pc = "demote" /\ pc' = "read" /\ current_coro \in Pool
        /\ UNCHANGED <<coro_used, priority, run_queues, current_coro>>
    BY DEF IInv, TypeOK, StepInv, Demote, slots, Coro
  <2>2. \A c \in Pool : c # current_coro => state'[c] = state[c]
    BY DEF IInv, TypeOK, Demote, Coro
  <2>3. state[current_coro] = "RUNNING" \/ state' = state
    BY DEF Demote
  <2>4. state[current_coro] # "READY"
    BY <2>1 DEF IInv, StepInv
  <2>5. ASSUME NEW c \in Pool
        PROVE  Holds(run_queues', c)
                 <=> coro_used'[c] /\ state'[c] = "READY" /\ ~(c = current_coro' /\ InYield')
    <3>1. CASE c = current_coro
      BY <3>1, <2>1, <2>4 DEF IInv, QueueInv, InYield
    <3>2. CASE c # current_coro
      BY <3>2, <2>1, <2>2 DEF IInv, QueueInv
    <3>. QED  BY <3>1, <3>2
  <2>. QED  BY <2>1, <2>5 DEF IInv, QueueInv
<1>3. StepInv' /\ OneRunning' /\ StackAlive'
  BY DEF IInv, TypeOK, StepInv, OneRunning, StackAlive, Demote, slots, Coro, Steps
<1>. QED  BY <1>1, <1>2, <1>3 DEF IInv

LEMMA ReadIInv == ASSUME IInv, ReadNow, OwnDeadlineAhead' PROVE IInv'
<1>1. TypeOK'
  BY DEF IInv, TypeOK, ReadNow, slots, timer, Steps, Coro, CoroStates, StepInv
<1>2. QueueInv'
  BY DEF IInv, TypeOK, QueueInv, StepInv, OneRunning, ReadNow, slots, InYield, Coro, Steps
<1>3. StepInv' /\ OneRunning' /\ StackAlive'
  BY DEF IInv, TypeOK, StepInv, OneRunning, StackAlive, ReadNow, slots, Coro, Steps
<1>. QED  BY <1>1, <1>2, <1>3 DEF IInv

LEMMA WakeDoneIInv == ASSUME IInv, WakeDone, OwnDeadlineAhead' PROVE IInv'
<1>1. TypeOK'
  BY DEF IInv, TypeOK, WakeDone, slots, timer, Steps, Coro, CoroStates, StepInv
<1>2. QueueInv'
  BY DEF IInv, TypeOK, QueueInv, StepInv, OneRunning, WakeDone, slots, InYield, Coro, Steps
<1>3. StepInv' /\ OneRunning' /\ StackAlive'
  BY DEF IInv, TypeOK, StepInv, OneRunning, StackAlive, WakeDone, slots, Coro, Steps
<1>. QED  BY <1>1, <1>2, <1>3 DEF IInv

LEMMA CommitIInv == ASSUME IInv, Commit, OwnDeadlineAhead' PROVE IInv'
<1>1. TypeOK'
  BY DEF IInv, TypeOK, Commit, slots, timer, Steps, Coro, CoroStates, StepInv
<1>2. QueueInv'
  BY DEF IInv, TypeOK, QueueInv, StepInv, OneRunning, Commit, slots, InYield, Coro, Steps
<1>3. StepInv' /\ OneRunning' /\ StackAlive'
  BY DEF IInv, TypeOK, StepInv, OneRunning, StackAlive, Commit, slots, Coro, Steps
<1>. QED  BY <1>1, <1>2, <1>3 DEF IInv

LEMMA ResetIInv == ASSUME IInv, Reset, OwnDeadlineAhead' PROVE IInv'
<1>1. TypeOK'
  BY DEF IInv, TypeOK, Reset, slots, timer, Steps, Coro, CoroStates, StepInv
<1>2. QueueInv'
  BY DEF IInv, TypeOK, QueueInv, StepInv, OneRunning, Reset, slots, InYield, Coro, Steps
<1>3. StepInv' /\ OneRunning' /\ StackAlive'
  BY DEF IInv, TypeOK, StepInv, OneRunning, StackAlive, Reset, slots, Coro, Steps
<1>. QED  BY <1>1, <1>2, <1>3 DEF IInv

LEMMA ArchIdleIInv == ASSUME IInv, ArchIdle, OwnDeadlineAhead' PROVE IInv'
<1>1. TypeOK'
  BY DEF IInv, TypeOK, ArchIdle, slots, timer, Steps, Coro, CoroStates, StepInv
<1>2. QueueInv'
  BY DEF IInv, TypeOK, QueueInv, StepInv, OneRunning, ArchIdle, slots, InYield, Coro, Steps
<1>3. StepInv' /\ OneRunning' /\ StackAlive'
  BY DEF IInv, TypeOK, StepInv, OneRunning, StackAlive, ArchIdle, slots, Coro, Steps
<1>. QED  BY <1>1, <1>2, <1>3 DEF IInv

LEMMA SleepIInv ==
  ASSUME IInv, NEW ms \in 0 .. MaxSleep, coro_sleep(ms), OwnDeadlineAhead'
  PROVE  IInv'
<1>1. TypeOK'
  BY DEF IInv, TypeOK, coro_sleep, slots, timer, Steps, Coro, CoroStates, StepInv
<1>2. QueueInv'
  BY DEF IInv, TypeOK, QueueInv, StepInv, OneRunning, coro_sleep, slots, InYield, Coro
<1>3. StepInv' /\ OneRunning' /\ StackAlive'
  BY DEF IInv, TypeOK, StepInv, OneRunning, StackAlive, coro_sleep, slots, Coro
<1>. QED  BY <1>1, <1>2, <1>3 DEF IInv

LEMMA TimerIInv == ASSUME IInv, timer_handler, OwnDeadlineAhead' PROVE IInv'
<1>1. tick_count' \in Nat /\ since_switch' \in 0 .. SCHED_PREEMPT_TICKS - 1
  BY DEF IInv, TypeOK, timer_handler, scheduler_kernel_timer_tick
<1>2. preempt' \in BOOLEAN
  BY DEF timer_handler, scheduler_kernel_timer_tick
<1>3. /\ UNCHANGED <<coro_used, stack_base, priority, state, wake_tick, run_queues>>
      /\ UNCHANGED <<current_coro, next, now, pc>>
  BY DEF timer_handler, slots
<1>4. TypeOK'
  BY <1>1, <1>2, <1>3 DEF IInv, TypeOK
<1>5. QueueInv'
  BY <1>3 DEF IInv, QueueInv, InYield
<1>6. StepInv' /\ OneRunning' /\ StackAlive'
  BY <1>3 DEF IInv, StepInv, OneRunning, StackAlive
<1>. QED  BY <1>4, <1>5, <1>6 DEF IInv

(* The woken slot was WAITING, so no queue held it; and it is not the       *)
(* coroutine inside this very coro_yield, whose deadline lies ahead.        *)
LEMMA WakeOneIInv == ASSUME IInv, WakeOne, OwnDeadlineAhead' PROVE IInv'
<1>1. PICK c : /\ c = CHOOSE d \in Due : \A e \in Due : d <= e
               /\ state'      = [state EXCEPT ![c] = "READY"]
               /\ wake_tick'  = [wake_tick EXCEPT ![c] = 0]
               /\ run_queues' = enqueue(run_queues, c)
  BY DEF WakeOne
<1>2. c \in Due
  BY <1>1, DueLemma DEF WakeOne
<1>3. /\ c \in Pool /\ coro_used[c] /\ state[c] = "WAITING"
      /\ c # Idle /\ c # current_coro
  <2>1. /\ c \in Pool /\ coro_used[c] /\ state[c] = "WAITING" /\ c # Idle
        /\ wake_tick[c] # 0 /\ ~(now < wake_tick[c])
    BY <1>2 DEF Due, Pool, Idle, IInv, TypeOK
  <2>. QED  BY <2>1 DEF IInv, OwnDeadlineAhead, WakeOne
<1>4. /\ pc = "wake"
      /\ UNCHANGED <<coro_used, stack_base, priority, current_coro, next, now, pc>>
      /\ UNCHANGED timer
  BY DEF WakeOne, slots
<1>5. /\ run_queues' \in Fifos /\ Sound(run_queues', priority)
      /\ \A d \in Pool : Holds(run_queues', d) <=> Holds(run_queues, d) \/ d = c
  <2>1. /\ run_queues \in Fifos /\ priority \in [Pool -> Priorities]
        /\ Sound(run_queues, priority) /\ priority[c] \in Priorities
        /\ ~Holds(run_queues, c)
    BY <1>3 DEF IInv, TypeOK, QueueInv, Fifos
  <2>2. Enqueued(run_queues, priority[c], c, run_queues')
    BY <1>1 DEF enqueue, Enqueued
  <2>. QED  BY <1>3, <2>1, <2>2, EnqueueLemma
<1>6. TypeOK'
  BY <1>1, <1>3, <1>4, <1>5 DEF IInv, TypeOK, Fifos, CoroStates, Coro, timer
<1>7. QueueInv'
  BY <1>1, <1>3, <1>4, <1>5 DEF IInv, TypeOK, QueueInv, InYield, Coro
<1>8. StepInv' /\ OneRunning' /\ StackAlive'
  BY <1>1, <1>3, <1>4 DEF IInv, TypeOK, StepInv, OneRunning, StackAlive, Coro
<1>. QED  BY <1>6, <1>7, <1>8 DEF IInv

(* A dead coroutine is in no queue, and the processor is on the idle stack. *)
LEMMA ReclaimIInv == ASSUME IInv, Reclaim, OwnDeadlineAhead' PROVE IInv'
<1>1. /\ \A c \in Pool : coro_used'[c] <=> coro_used[c] /\ state[c] # "DEAD"
      /\ \A c \in Pool : stack_base'[c] <=> stack_base[c] /\ ~(coro_used[c] /\ state[c] = "DEAD")
      /\ coro_used' \in [Pool -> BOOLEAN] /\ stack_base' \in [Pool -> BOOLEAN]
  BY DEF Reclaim
<1>2. /\ pc = "reclaim" /\ pc' = "idlepick" /\ current_coro = Idle
      /\ UNCHANGED <<state, priority, wake_tick, run_queues, current_coro, next, now>>
      /\ UNCHANGED timer
  BY DEF Reclaim, IInv, StepInv
<1>3. TypeOK'
  BY <1>1, <1>2 DEF IInv, TypeOK, Steps, timer
<1>4. QueueInv'
  BY <1>1, <1>2 DEF IInv, QueueInv, InYield
<1>5. StepInv' /\ OneRunning' /\ StackAlive'
  BY <1>1, <1>2 DEF IInv, TypeOK, StepInv, OneRunning, StackAlive, Idle
<1>. QED  BY <1>3, <1>4, <1>5 DEF IInv

(* The yielding coroutine joins its queue if it is still ready; so the      *)
(* queues hold every ready coroutine when the next one is picked.           *)
LEMMA PickFacts ==
  ASSUME IInv, Pick
  PROVE  /\ pc = "pick" /\ current_coro \in Pool
         /\ UNCHANGED <<coro_used, stack_base, priority, wake_tick, current_coro, now>>
         /\ UNCHANGED timer
         /\ pc' = IF next' = current_coro THEN "run" ELSE "commit"
         /\ next' \in Coro
         /\ next' # Idle => coro_used[next'] /\ state[next'] = "READY"
         /\ state' = [state EXCEPT ![next'] = "RUNNING"]
         /\ run_queues' \in Fifos /\ Sound(run_queues', priority)
         /\ \A d \in Pool : Holds(run_queues', d)
                              <=> coro_used[d] /\ state[d] = "READY" /\ d # next'
<1>. DEFINE q == IF state[current_coro] = "READY"
                 THEN enqueue(run_queues, current_coro) ELSE run_queues
<1>1. /\ q = IF state[current_coro] = "READY"
             THEN enqueue(run_queues, current_coro) ELSE run_queues
      /\ next' = pick_next_coro(q)
      /\ run_queues' = PickRest(q)
      /\ state' = [state EXCEPT ![next'] = "RUNNING"]
      /\ pc' = IF next' = current_coro THEN "run" ELSE "commit"
  BY DEF Pick
<1>. HIDE DEF q
<1>2. /\ pc = "pick" /\ current_coro \in Pool
      /\ UNCHANGED <<coro_used, stack_base, priority, wake_tick, current_coro, now>>
      /\ UNCHANGED timer
  BY DEF Pick, slots, IInv, TypeOK, StepInv, Coro
<1>3. /\ q \in Fifos /\ Sound(q, priority)
      /\ \A d \in Pool : Holds(q, d) <=> coro_used[d] /\ state[d] = "READY"
  <2>1. /\ run_queues \in Fifos /\ priority \in [Pool -> Priorities]
        /\ Sound(run_queues, priority) /\ priority[current_coro] \in Priorities
    BY <1>2 DEF IInv, TypeOK, QueueInv, Fifos
  <2>2. ~Holds(run_queues, current_coro)
    BY <1>2 DEF IInv, QueueInv, InYield
  <2>3. coro_used[current_coro]
    BY <1>2 DEF IInv, StackAlive, Pool, Idle
  <2>4. CASE state[current_coro] = "READY"
    <3>1. Enqueued(run_queues, priority[current_coro], current_coro, q)
      BY <1>1, <2>4 DEF enqueue, Enqueued
    <3>2. /\ q \in Fifos /\ Sound(q, priority)
          /\ \A d \in Pool : Holds(q, d) <=> Holds(run_queues, d) \/ d = current_coro
      BY <1>2, <2>1, <2>2, <3>1, EnqueueLemma
    <3>. QED  BY <3>2, <2>3, <2>4, <1>2 DEF IInv, QueueInv
  <2>5. CASE state[current_coro] # "READY"
    BY <1>1, <1>2, <2>1, <2>5 DEF IInv, QueueInv
  <2>. QED  BY <2>4, <2>5
<1>4. /\ run_queues' \in Fifos /\ Sound(run_queues', priority)
      /\ next' \in Coro /\ (next' # Idle => Holds(q, next'))
      /\ \A d \in Pool : Holds(run_queues', d) <=> Holds(q, d) /\ d # next'
  BY <1>1, <1>3, PickLemma DEF IInv, TypeOK
<1>5. next' # Idle => coro_used[next'] /\ state[next'] = "READY"
  BY <1>3, <1>4 DEF Coro
<1>6. \A d \in Pool : Holds(run_queues', d)
                        <=> coro_used[d] /\ state[d] = "READY" /\ d # next'
  BY <1>3, <1>4
<1>. QED  BY <1>1, <1>2, <1>4, <1>5, <1>6

LEMMA PickIInv == ASSUME IInv, Pick, OwnDeadlineAhead' PROVE IInv'
<1>1. /\ \A d \in Coro : state'[d] = IF d = next' THEN "RUNNING" ELSE state[d]
      /\ state' \in [Coro -> CoroStates]
  BY PickFacts DEF IInv, TypeOK, CoroStates
<1>2. TypeOK'
  BY <1>1, PickFacts DEF IInv, TypeOK, Fifos, Steps, timer
<1>3. QueueInv'
  BY <1>1, PickFacts DEF QueueInv, InYield, Coro
<1>4. StepInv' /\ OneRunning'
  BY <1>1, PickFacts DEF IInv, StepInv, OneRunning, Coro, Pool, Idle
<1>5. StackAlive'
  BY PickFacts DEF IInv, StackAlive, Coro
<1>. QED  BY <1>2, <1>3, <1>4, <1>5 DEF IInv

LEMMA IdlePickFacts ==
  ASSUME IInv, IdlePick
  PROVE  /\ pc = "idlepick" /\ pc' = "commit" /\ current_coro = Idle
         /\ UNCHANGED <<coro_used, stack_base, priority, wake_tick, current_coro, now>>
         /\ UNCHANGED timer
         /\ next' \in Pool /\ coro_used[next'] /\ state[next'] = "READY"
         /\ \A d \in Pool : state'[d] = IF d = next' THEN "RUNNING" ELSE state[d]
         /\ state'[Idle] = "READY"
         /\ state' \in [Coro -> CoroStates]
         /\ run_queues' \in Fifos /\ Sound(run_queues', priority)
         /\ \A d \in Pool : Holds(run_queues', d)
                              <=> coro_used[d] /\ state[d] = "READY" /\ d # next'
<1>1. /\ next' = pick_next_coro(run_queues) /\ next' # Idle
      /\ run_queues' = PickRest(run_queues)
      /\ state' = [state EXCEPT ![Idle] = "READY", ![next'] = "RUNNING"]
  BY DEF IdlePick
<1>2. /\ pc = "idlepick" /\ pc' = "commit" /\ current_coro = Idle
      /\ UNCHANGED <<coro_used, stack_base, priority, wake_tick, current_coro, now>>
      /\ UNCHANGED timer /\ Idle \notin Pool
  BY DEF IdlePick, slots, IInv, StepInv, Pool, Idle
<1>3. /\ run_queues' \in Fifos /\ Sound(run_queues', priority)
      /\ next' \in Pool /\ Holds(run_queues, next')
      /\ \A d \in Pool : Holds(run_queues', d) <=> Holds(run_queues, d) /\ d # next'
  BY <1>1, PickLemma DEF IInv, TypeOK, QueueInv, Fifos, Coro
<1>4. /\ \A d \in Pool : state'[d] = IF d = next' THEN "RUNNING" ELSE state[d]
      /\ state'[Idle] = "READY"
      /\ state' \in [Coro -> CoroStates]
  BY <1>1, <1>2, <1>3 DEF IInv, TypeOK, CoroStates, Coro
<1>5. \A d \in Pool : Holds(run_queues, d) <=> coro_used[d] /\ state[d] = "READY"
  BY <1>2 DEF IInv, QueueInv
<1>. QED  BY <1>1, <1>2, <1>3, <1>4, <1>5

LEMMA IdlePickIInv == ASSUME IInv, IdlePick, OwnDeadlineAhead' PROVE IInv'
<1>1. TypeOK'
  BY IdlePickFacts DEF IInv, TypeOK, Fifos, Steps, Coro, timer
<1>2. QueueInv'
  <2>1. ~InYield'
    BY IdlePickFacts DEF InYield
  <2>. QED  BY <2>1, IdlePickFacts DEF QueueInv
<1>3. StepInv' /\ OneRunning'
  BY IdlePickFacts DEF IInv, StepInv, OneRunning, Coro, Pool, Idle
<1>4. StackAlive'
  BY IdlePickFacts DEF IInv, StackAlive
<1>. QED  BY <1>1, <1>2, <1>3, <1>4 DEF IInv

LEMMA NextIInv == IInv /\ [TimelyNext]_vars => IInv'
<1>. SUFFICES ASSUME IInv, [TimelyNext]_vars PROVE IInv'
  OBVIOUS
<1>1. CASE UNCHANGED vars
  BY <1>1 DEF IInv, TypeOK, QueueInv, StepInv, OneRunning, StackAlive,
              OwnDeadlineAhead, Due, InYield, vars
<1>2. CASE TimelyNext
  BY <1>2, CreateIInv, StartIInv, YieldIInv, SleepIInv, ExitIInv, ClearIInv,
     DemoteIInv, ReadIInv, WakeOneIInv, WakeDoneIInv, PickIInv, CommitIInv,
     ResetIInv, ReclaimIInv, ArchIdleIInv, IdlePickIInv, TimerIInv
     DEF TimelyNext, Next
<1>. QED  BY <1>1, <1>2

LEMMA Invariance == TimelySpec => []IInv
  BY InitIInv, NextIInv, PTL DEF TimelySpec

-----------------------------------------------------------------------------
(* The results, for TimelySpec: no sleep ends before the coroutine is off   *)
(* the processor. *)

(* The scheduler's variables keep their types.                              *)
THEOREM TypeCorrect == TimelySpec => []TypeOK
<1>1. IInv => TypeOK
  BY DEF IInv
<1>. QED  BY <1>1, Invariance, PTL

(* enqueue, pick_next_coro and wake_sleeping keep every run queue well      *)
(* formed: ready coroutines of the right priority, each linked in once.     *)
THEOREM QueuesStayWellFormed == TimelySpec => []QueuesWellFormed
<1>1. IInv => QueuesWellFormed
  <2>. SUFFICES ASSUME IInv, NEW p \in Priorities
       PROVE /\ \A i \in 1 .. Len(run_queues[p]) :
                  /\ coro_used[run_queues[p][i]]
                  /\ state[run_queues[p][i]] = "READY"
                  /\ priority[run_queues[p][i]] = p
             /\ \A i, j \in 1 .. Len(run_queues[p]) :
                  i # j => run_queues[p][i] # run_queues[p][j]
    BY DEF QueuesWellFormed
  <2>1. \A i \in 1 .. Len(run_queues[p]) :
          run_queues[p][i] \in Pool /\ Holds(run_queues, run_queues[p][i])
    BY DEF IInv, TypeOK, Holds
  <2>. QED  BY <2>1 DEF IInv, QueueInv, Sound
<1>. QED  BY <1>1, Invariance, PTL

(* No ready coroutine drops out of the run queues.                          *)
THEOREM NoReadyCoroutineLost == TimelySpec => []NoneLost
<1>1. IInv => NoneLost
  BY DEF IInv, QueueInv, NoneLost, Queued, Holds
<1>. QED  BY <1>1, Invariance, PTL

(* At most one coroutine runs, and it is the one on the processor.          *)
THEOREM AtMostOneRunning == TimelySpec => []OneRunning
<1>1. IInv => OneRunning
  BY DEF IInv
<1>. QED  BY <1>1, Invariance, PTL

(* scheduler_run never frees the stack the processor is on or switches to.  *)
THEOREM StackNeverFreedInUse == TimelySpec => []StackAlive
<1>1. IInv => StackAlive
  BY DEF IInv
<1>. QED  BY <1>1, Invariance, PTL

(* wake_sleeping's clock reading is never ahead of the clock.               *)
ClockInv == now <= tick_count

LEMMA ClockInvariance == TimelySpec => []ClockInv
<1>1. Init => ClockInv
  BY DEF Init, ClockInv
<1>2. ASSUME IInv, ClockInv, [TimelyNext]_vars PROVE ClockInv'
  <2>1. CASE ReadNow \/ timer_handler
    <3>1. \/ now' = tick_count /\ tick_count' = tick_count
          \/ now' = now /\ tick_count' = tick_count + 1
      BY <2>1 DEF ReadNow, timer_handler, timer
    <3>. QED  BY <1>2, <3>1 DEF ClockInv, IInv, TypeOK
  <2>2. CASE ~(ReadNow \/ timer_handler)
    <3>. SUFFICES UNCHANGED <<now, tick_count>>
      BY <1>2 DEF ClockInv
    <3>1. CASE UNCHANGED vars
      BY <3>1 DEF vars
    <3>2. CASE \/ \E p \in Priorities : coro_create(p)
               \/ \E ms \in 0 .. MaxSleep : coro_sleep(ms)
      BY <3>2 DEF coro_create, coro_sleep, timer
    <3>3. CASE \/ StartScheduler \/ coro_yield \/ coro_exit \/ scheduler_preempt_clear
               \/ Demote \/ WakeOne \/ WakeDone \/ Pick
      BY <3>3 DEF StartScheduler, coro_yield, coro_exit, scheduler_preempt_clear,
         Demote, WakeOne, WakeDone, Pick, timer
    <3>4. CASE Commit \/ Reset \/ Reclaim \/ ArchIdle \/ IdlePick
      BY <3>4 DEF Commit, Reset, Reclaim, ArchIdle, IdlePick, timer
    <3>. QED  BY <1>2, <2>2, <3>1, <3>2, <3>3, <3>4 DEF TimelyNext, Next
  <2>. QED  BY <2>1, <2>2
<1>. QED  BY <1>1, <1>2, Invariance, PTL DEF TimelySpec

(* Only wake_sleeping makes a WAITING coroutine ready.                      *)
LEMMA OnlyWakeOneWakes ==
  ASSUME IInv, TimelyNext, NEW c \in Pool,
         coro_used[c], state[c] = "WAITING", state'[c] = "READY"
  PROVE  WakeOne /\ c \in Due
<1>. USE DEF IInv, TypeOK
<1>1. c \in Coro /\ c # Idle
  BY DEF Coro, Pool, Idle
<1>2. ASSUME NEW p \in Priorities, coro_create(p) PROVE FALSE
  <2>1. alloc_coro # c
    BY <1>2, AllocLemma DEF coro_create
  <2>. QED  BY <1>1, <1>2, <2>1 DEF coro_create
<1>3. ASSUME NEW ms \in 0 .. MaxSleep, coro_sleep(ms) PROVE FALSE
  BY <1>1, <1>3 DEF coro_sleep
<1>4. CASE coro_exit \/ Demote \/ Pick \/ IdlePick
  BY <1>1, <1>4 DEF coro_exit, Demote, Pick, IdlePick
<1>5. CASE \/ StartScheduler \/ coro_yield \/ scheduler_preempt_clear \/ ReadNow
           \/ WakeDone \/ Commit \/ Reset \/ Reclaim \/ ArchIdle \/ timer_handler
  BY <1>5 DEF StartScheduler, coro_yield, scheduler_preempt_clear, ReadNow,
     WakeDone, Commit, Reset, Reclaim, ArchIdle, timer_handler
<1>6. CASE WakeOne
  <2>. DEFINE w == CHOOSE d \in Due : \A e \in Due : d <= e
  <2>1. w \in Due /\ state' = [state EXCEPT ![w] = "READY"]
    BY <1>6, DueLemma DEF WakeOne
  <2>. HIDE DEF w
  <2>2. c = w
    BY <1>1, <2>1
  <2>. QED  BY <1>6, <2>1, <2>2
<1>. QED  BY <1>2, <1>3, <1>4, <1>5, <1>6 DEF TimelyNext, Next

(* A sleeper is never made ready before its deadline, although the clock    *)
(* may advance while wake_sleeping scans.                                   *)
THEOREM SleepersNeverWokenEarly == TimelySpec => NoEarlyWake
<1>1. ASSUME IInv, ClockInv, [TimelyNext]_vars
      PROVE  [\A c \in Pool : coro_used[c] /\ state[c] = "WAITING" /\ state'[c] = "READY"
                               => tick_count >= wake_tick[c]]_vars
  <2>. SUFFICES ASSUME TimelyNext, NEW c \in Pool, coro_used[c],
                       state[c] = "WAITING", state'[c] = "READY"
                PROVE  tick_count >= wake_tick[c]
    BY <1>1
  <2>1. c \in Due
    BY <1>1, OnlyWakeOneWakes
  <2>. QED  BY <1>1, <2>1 DEF Due, ClockInv, IInv, TypeOK
<1>. QED  BY <1>1, Invariance, ClockInvariance, PTL DEF TimelySpec, NoEarlyWake

-----------------------------------------------------------------------------
(* The refinement. *)

lf == [c \in Pool |-> IF coro_used[c] THEN state[c] ELSE "free"]

(* A step that only moves the coroutine c, from the state it is in to s.    *)
LEMMA MovesLemma ==
  ASSUME IInv, NEW c \in Pool, NEW s,
         coro_used' \in [Pool -> BOOLEAN], state' \in [Coro -> CoroStates],
         coro_used'[c], state'[c] = s,
         \A d \in Pool : d # c => /\ coro_used'[d] = coro_used[d]
                                  /\ coro_used[d] => state'[d] = state[d]
  PROVE  lf' = [lf EXCEPT ![c] = s]
  BY DEF lf, IInv, TypeOK

(* Every step of the scheduler is a step of the life cycle, or changes no   *)
(* coroutine's state.                                                       *)
LEMMA LifeStep == ASSUME IInv, IInv', TimelyNext PROVE Life!Next \/ UNCHANGED lf
<1>0. /\ coro_used' \in [Pool -> BOOLEAN] /\ state' \in [Coro -> CoroStates]
      /\ coro_used \in [Pool -> BOOLEAN] /\ state \in [Coro -> CoroStates]
      /\ Pool \subseteq Coro /\ Idle \notin Pool /\ Coro = Pool \cup {Idle}
  <2>1. Idle \notin Pool
    BY DEF Pool, Idle
  <2>. QED  BY <2>1, Zenon DEF IInv, TypeOK, Coro
<1>1. ASSUME NEW p \in Priorities, coro_create(p) PROVE Life!Next
  <2>. DEFINE c == alloc_coro
  <2>1. c \in Pool /\ ~coro_used[c]
    BY <1>1, AllocLemma DEF coro_create
  <2>2. /\ coro_used' = [coro_used EXCEPT ![c] = TRUE]
        /\ state' = [state EXCEPT ![c] = "READY"]
    BY <1>1 DEF coro_create
  <2>. HIDE DEF c
  <2>3. lf' = [lf EXCEPT ![c] = "READY"]
    <3>1. /\ coro_used'[c] /\ state'[c] = "READY"
          /\ \A d \in Pool : d # c => /\ coro_used'[d] = coro_used[d]
                                      /\ coro_used[d] => state'[d] = state[d]
      BY <1>0, <2>1, <2>2
    <3>. QED  BY <1>0, <2>1, <3>1, MovesLemma
  <2>4. lf[c] = "free"
    BY <2>1 DEF lf
  <2>5. Life!Create(c)
    BY <2>3, <2>4 DEF lf, Life!Create, Life!Moves
  <2>. QED  BY <2>1, <2>5 DEF Life!Next, Life!Create, Life!Moves
<1>2. ASSUME NEW s, pc = "run", current_coro \in Pool, state[current_coro] = "RUNNING",
             UNCHANGED coro_used, state' = [state EXCEPT ![current_coro] = s]
      PROVE  lf[current_coro] = "RUNNING" /\ lf' = [lf EXCEPT ![current_coro] = s]
  <2>1. coro_used[current_coro]
    BY <1>0, <1>2 DEF IInv, StackAlive
  <2>2. /\ coro_used'[current_coro] /\ state'[current_coro] = s
        /\ \A d \in Pool : d # current_coro => /\ coro_used'[d] = coro_used[d]
                                               /\ coro_used[d] => state'[d] = state[d]
    BY <1>0, <1>2, <2>1
  <2>3. lf' = [lf EXCEPT ![current_coro] = s]
    BY <1>0, <1>2, <2>2, MovesLemma
  <2>. QED  BY <1>2, <2>1, <2>3 DEF lf
<1>3. pc = "run" => current_coro \in Pool /\ state[current_coro] = "RUNNING"
  BY <1>0 DEF IInv, TypeOK, OneRunning
<1>4. ASSUME NEW ms \in 0 .. MaxSleep, coro_sleep(ms) PROVE Life!Next
  <2>1. Life!Sleep(current_coro)
    BY <1>2, <1>3, <1>4 DEF coro_sleep, slots, lf, Life!Sleep, Life!Moves
  <2>2. current_coro \in Pool
    BY <1>3, <1>4 DEF coro_sleep
  <2>. QED  BY <2>1, <2>2 DEF Life!Next, Life!Sleep, Life!Moves
<1>5. CASE coro_exit
  <2>1. Life!Exit(current_coro)
    BY <1>2, <1>3, <1>5 DEF coro_exit, slots, lf, Life!Exit, Life!Moves
  <2>2. current_coro \in Pool
    BY <1>3, <1>5 DEF coro_exit
  <2>. QED  BY <2>1, <2>2 DEF Life!Next, Life!Exit, Life!Moves
<1>6. CASE Demote
  <2>1. CASE state[current_coro] # "RUNNING"
    BY <1>6, <2>1 DEF Demote, slots, lf
  <2>2. CASE state[current_coro] = "RUNNING"
    <3>1. current_coro \in Pool /\ coro_used[current_coro]
      <4>1. current_coro # Idle /\ current_coro \in Coro
        BY <1>6 DEF Demote, IInv, TypeOK, StepInv
      <4>. QED  BY <4>1, <1>0 DEF IInv, StackAlive
    <3>2. UNCHANGED coro_used /\ state' = [state EXCEPT ![current_coro] = "READY"]
      BY <1>6, <2>2 DEF Demote, slots
    <3>3. \A d \in Pool : lf'[d] = IF d = current_coro THEN "READY" ELSE lf[d]
      BY <1>0, <3>1, <3>2 DEF lf
    <3>4. lf' = [lf EXCEPT ![current_coro] = "READY"]
      BY <3>1, <3>3 DEF lf
    <3>5. lf[current_coro] = "RUNNING"
      BY <2>2, <3>1 DEF lf
    <3>. QED  BY <3>1, <3>4, <3>5 DEF lf, Life!Next, Life!Yield, Life!Moves
  <2>. QED  BY <2>1, <2>2
<1>7. CASE WakeOne
  <2>. DEFINE c == CHOOSE d \in Due : \A e \in Due : d <= e
  <2>1. c \in Due /\ state' = [state EXCEPT ![c] = "READY"] /\ UNCHANGED coro_used
    BY <1>7, DueLemma DEF WakeOne, slots
  <2>. HIDE DEF c
  <2>2. c \in Pool /\ coro_used[c] /\ state[c] = "WAITING"
    BY <2>1 DEF Due
  <2>3. /\ coro_used'[c] /\ state'[c] = "READY"
        /\ \A d \in Pool : d # c => /\ coro_used'[d] = coro_used[d]
                                    /\ coro_used[d] => state'[d] = state[d]
    BY <1>0, <2>1, <2>2
  <2>4. lf' = [lf EXCEPT ![c] = "READY"]
    BY <1>0, <2>2, <2>3, MovesLemma
  <2>5. lf[c] = "WAITING"
    BY <2>2 DEF lf
  <2>. QED  BY <2>2, <2>4, <2>5 DEF lf, Life!Next, Life!Wake, Life!Moves
<1>8. ASSUME pc \in {"pick", "idlepick"}, next' \in Pool, coro_used[next'],
             state[next'] = "READY", UNCHANGED coro_used,
             \A d \in Pool : state'[d] = IF d = next' THEN "RUNNING" ELSE state[d]
      PROVE  Life!Next
  <2>1. lf' = [lf EXCEPT ![next'] = "RUNNING"]
    <3>1. \A n \in Pool : n = next' => lf' = [lf EXCEPT ![n] = "RUNNING"]
      BY <1>0, <1>8, MovesLemma
    <3>. QED  BY <1>8, <3>1
  <2>2. lf[next'] = "READY"
    BY <1>8 DEF lf
  <2>3. \A d \in Pool : lf[d] # "RUNNING"
    <3>1. \A d \in Pool : state[d] # "RUNNING"
      BY <1>0, <1>8 DEF IInv, OneRunning
    <3>. QED  BY <3>1 DEF lf
  <2>. QED  BY <1>8, <2>1, <2>2, <2>3 DEF lf, Life!Next, Life!Dispatch, Life!Moves
<1>9. CASE Pick
  <2>1. CASE next' = Idle
    BY <1>0, <1>9, <2>1, PickFacts DEF lf
  <2>2. CASE next' # Idle
    BY <1>0, <1>8, <1>9, <2>2, PickFacts
  <2>. QED  BY <2>1, <2>2
<1>10. CASE IdlePick
  BY <1>0, <1>8, <1>10, IdlePickFacts
<1>11. CASE Reclaim
  <2>1. Life!Reap
    BY <1>0, <1>11 DEF Reclaim, lf, Life!Reap
  <2>. QED  BY <2>1 DEF Life!Next
<1>12. CASE \/ StartScheduler \/ coro_yield \/ scheduler_preempt_clear \/ ReadNow
            \/ WakeDone \/ Commit \/ Reset \/ ArchIdle \/ timer_handler
  BY <1>12 DEF StartScheduler, coro_yield, scheduler_preempt_clear, ReadNow,
     WakeDone, Commit, Reset, ArchIdle, timer_handler, slots, lf
<1>. QED  BY <1>1, <1>4, <1>5, <1>6, <1>7, <1>9, <1>10, <1>11, <1>12 DEF TimelyNext, Next

(* The scheduler implements the life cycle of coroutine.h: CoroLifecycle.   *)
THEOREM SchedulerImplementsLifecycle == TimelySpec => ImplementsLifecycle
<1>1. Init => Life!Init
  BY DEF Init, Life!Init
<1>2. ASSUME IInv, IInv', [TimelyNext]_vars
      PROVE  [Life!Next]_([c \in Pool |-> IF coro_used[c] THEN state[c] ELSE "free"])
  BY <1>2, LifeStep DEF lf, vars
<1>. QED  BY <1>1, <1>2, Invariance, PTL DEF TimelySpec, ImplementsLifecycle, Life!Spec

(* Within a stretch of running, either a preemption is pending or the      *)
(* interrupt's counter has advanced at least as far as the ticks of the    *)
(* stretch: coro_yield that returns at once leaves the counter ahead.      *)
QuantumInv == pc = "run" /\ ~preempt => ran <= since_switch

(* A coroutine that keeps the processor for SCHED_PREEMPT_TICKS ticks finds *)
(* sched_preempt_pending set, for every length of the quantum.              *)
THEOREM QuantumAlwaysEnforced == QuantumSpec => []QuantumEnforced
<1>. DEFINE QInv == IInv /\ QuantumInv /\ ran \in Nat
<1>1. QuantumInit => QInv
  BY InitIInv DEF QuantumInit, Init, QuantumInv
<1>2. QInv /\ [QuantumNext]_<<vars, ran>> => QInv'
  <2>. SUFFICES ASSUME QInv, [QuantumNext]_<<vars, ran>> PROVE QInv'
    OBVIOUS
  <2>1. IInv'
    BY NextIInv DEF QuantumNext
  <2>2. CASE UNCHANGED <<vars, ran>>
    BY <2>1, <2>2 DEF vars, QuantumInv
  <2>3. CASE QuantumNext
    <3>1. ran' \in Nat
      BY <2>3 DEF QuantumNext
    <3>2. CASE pc' # "run" \/ pc # "run"
      <4>1. ran' = 0 /\ since_switch' >= 0
        BY <2>1, <2>3, <3>2 DEF QuantumNext, IInv, TypeOK
      <4>. QED  BY <2>1, <3>1, <4>1 DEF QuantumInv
    <3>3. CASE pc = "run" /\ pc' = "run"
      <4>1. timer_handler \/ UNCHANGED <<tick_count, since_switch, preempt>>
        BY <2>3, <3>3 DEF QuantumNext, TimelyNext, Next, coro_create, StartScheduler,
           coro_yield, coro_sleep, coro_exit, scheduler_preempt_clear, Demote, ReadNow,
           WakeOne, WakeDone, Pick, Commit, Reset, Reclaim, ArchIdle, IdlePick, timer
      <4>2. CASE timer_handler
        <5>1. ran' = ran + 1
          BY <2>3, <3>3, <4>2 DEF QuantumNext, timer_handler, IInv, TypeOK
        <5>2. current_coro # Idle /\ state[current_coro] = "RUNNING"
          BY <3>3 DEF IInv, OneRunning
        <5>3. ~preempt' => ~preempt /\ since_switch' = since_switch + 1
          BY <4>2, <5>2 DEF timer_handler, scheduler_kernel_timer_tick, IInv, TypeOK
        <5>. QED  BY <2>1, <3>1, <3>3, <5>1, <5>3 DEF QuantumInv, IInv, TypeOK
      <4>3. CASE UNCHANGED <<tick_count, since_switch, preempt>>
        BY <2>1, <2>3, <3>1, <3>3, <4>3 DEF QuantumNext, QuantumInv
      <4>. QED  BY <4>1, <4>2, <4>3
    <3>. QED  BY <3>2, <3>3
  <2>. QED  BY <2>2, <2>3
<1>3. QInv => QuantumEnforced
  BY DEF QuantumInv, QuantumEnforced, IInv, TypeOK
<1>. QED  BY <1>1, <1>2, <1>3, PTL DEF QuantumSpec
=============================================================================
