----------------------------- MODULE ReadyQueue -----------------------------
(***************************************************************************)
(* What the run queues of the scheduler promise: one FIFO per priority,    *)
(* and the head of the highest non-empty one is taken next.  CoroSched     *)
(* uses the queues in this form; RunQueue implements it with links.        *)
(***************************************************************************)
EXTENDS Integers, Sequences

CONSTANTS Coros, Priorities, Priority      \* Priority[c] is fixed

VARIABLES queue,      \* [Priorities -> Seq(Coros)]
          picked      \* the last coroutine picked, 0 when idle

Queued(c) == \E i \in 1 .. Len(queue[Priority[c]]) : queue[Priority[c]][i] = c

Init == queue = [p \in Priorities |-> << >>] /\ picked = 0

Enqueue(c) == /\ ~Queued(c)
              /\ queue' = [queue EXCEPT ![Priority[c]] = Append(@, c)]
              /\ UNCHANGED picked

PickIdle == /\ \A p \in Priorities : queue[p] = << >>
            /\ picked' = 0
            /\ UNCHANGED queue

Pick(p) == /\ queue[p] # << >>
           /\ \A r \in Priorities : r > p => queue[r] = << >>
           /\ picked' = Head(queue[p])
           /\ queue' = [queue EXCEPT ![p] = Tail(@)]

Next == (\E c \in Coros : Enqueue(c)) \/ PickIdle \/ (\E p \in Priorities : Pick(p))

Spec == Init /\ [][Next]_<<queue, picked>>
=============================================================================
