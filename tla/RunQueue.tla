------------------------------ MODULE RunQueue ------------------------------
(***************************************************************************)
(* The run queues of kernel/sched/coroutine.c as the code has them: a head *)
(* pointer per priority and the field coro_t.next.  enqueue clears the     *)
(* link of its argument, walks to the last node and links the argument     *)
(* there, so it is only correct for a coroutine that no queue holds.       *)
(***************************************************************************)
EXTENDS Integers, Sequences, FiniteSets

CONSTANTS Coros, Priorities, Priority

NULL == 0
Ptr  == Coros \cup {NULL}

VARIABLES run_queues,   \* head pointer of each priority
          link,         \* coro_t.next
          picked        \* result of the last pick_next_coro (NULL = idle)

vars == <<run_queues, link, picked>>

Init == /\ run_queues = [p \in Priorities |-> NULL]
        /\ link = [c \in Coros |-> NULL]
        /\ picked = NULL

(* Node(l, h)[k] is the k-th node reached from a pointer h along links l.        *)
Node(l, h) == LET f[k \in Nat] == IF k = 0 THEN h
                                  ELSE IF f[k-1] = NULL THEN NULL ELSE l[f[k-1]]
              IN f
Length(l, h) == CHOOSE k \in 0 .. Cardinality(Coros) :
                  /\ Node(l, h)[k] = NULL
                  /\ \A j \in 0 .. k - 1 : Node(l, h)[j] # NULL
(* The list that starts at h, as a sequence.                                *)
List(l, h) == [i \in 1 .. Length(l, h) |-> Node(l, h)[i - 1]]

Linked(c) == \E i \in 1 .. Length(link, run_queues[Priority[c]]) :
               List(link, run_queues[Priority[c]])[i] = c

(* Mutation: the new node is pushed at the head.                            *)
enqueue_AtHead(c) ==
  /\ ~Linked(c)
  /\ link' = [link EXCEPT ![c] = run_queues[Priority[c]]]
  /\ run_queues' = [run_queues EXCEPT ![Priority[c]] = c]
  /\ UNCHANGED picked

enqueue(c) ==
  /\ ~Linked(c)
  /\ LET p   == Priority[c]
         l   == [link EXCEPT ![c] = NULL]
         h   == run_queues[p]
         n   == Length(l, h)
     IN IF h = NULL
        THEN /\ run_queues' = [run_queues EXCEPT ![p] = c]
             /\ link' = l
        ELSE /\ link' = [l EXCEPT ![Node(l, h)[n - 1]] = c]
             /\ UNCHANGED run_queues
  /\ UNCHANGED picked

NonEmpty == {p \in Priorities : run_queues[p] # NULL}

pick_next_coro ==
  \/ /\ NonEmpty = {}
     /\ picked' = NULL
     /\ UNCHANGED <<run_queues, link>>
  \/ \E p \in NonEmpty :
       /\ \A r \in NonEmpty : r <= p
       /\ LET c == run_queues[p] IN
            /\ run_queues' = [run_queues EXCEPT ![p] = link[c]]
            /\ link' = [link EXCEPT ![c] = NULL]
            /\ picked' = c

Next == (\E c \in Coros : enqueue(c)) \/ pick_next_coro

Spec == Init /\ [][Next]_vars

-----------------------------------------------------------------------------
(* The linked lists behave as one FIFO sequence per priority.               *)
Fifo == INSTANCE ReadyQueue
          WITH queue <- [p \in Priorities |-> List(link, run_queues[p])]
ImplementsFifo == Fifo!Spec
=============================================================================
