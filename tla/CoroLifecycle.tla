--------------------------- MODULE CoroLifecycle ---------------------------
(***************************************************************************)
(* What the coroutine scheduler promises, without queues, ticks or the     *)
(* steps of a context switch: every slot of the pool goes through the four *)
(* states of coro_state_t (coroutine.h), and the processor executes at     *)
(* most one coroutine at a time.  CoroSched implements this module.        *)
(***************************************************************************)
CONSTANT Pool                \* the slots of coro_pool

VARIABLE life                \* life[c]: "free" (not coro_used) or the state

States == {"free", "READY", "RUNNING", "WAITING", "DEAD"}

Init == life = [c \in Pool |-> "free"]

(* One coroutine moves from one of the states in From to the state to.     *)
Moves(c, From, to) == /\ life[c] \in From
                      /\ life' = [life EXCEPT ![c] = to]

Create(c)  == Moves(c, {"free"}, "READY")

Dispatch(c) == /\ \A d \in Pool : life[d] # "RUNNING"
               /\ Moves(c, {"READY"}, "RUNNING")

Yield(c)   == Moves(c, {"RUNNING"}, "READY")
Sleep(c)   == Moves(c, {"RUNNING"}, "WAITING")
Wake(c)    == Moves(c, {"WAITING"}, "READY")
Exit(c)    == Moves(c, {"RUNNING"}, "DEAD")

(* All dead slots return to the pool together.                             *)
Reap == life' = [c \in Pool |-> IF life[c] = "DEAD" THEN "free" ELSE life[c]]

Next == \/ \E c \in Pool : \/ Create(c)
                           \/ Dispatch(c)
                           \/ Yield(c)
                           \/ Sleep(c)
                           \/ Wake(c)
                           \/ Exit(c)
        \/ Reap

Spec == Init /\ [][Next]_life
=============================================================================
