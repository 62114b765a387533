--------------------------- MODULE DropOldestQueue ---------------------------
(***************************************************************************)
(* What the agents' mailbox promises: a queue of at most Capacity messages *)
(* in the order they were sent, from which a reader takes the first        *)
(* message meant for it; a message sent to a full queue replaces the       *)
(* oldest one.                                                             *)
(***************************************************************************)
EXTENDS Integers, Sequences

CONSTANTS Capacity, Readers, Anyone

VARIABLES queue,   \* the messages held, oldest first
          got      \* what each reader last took

qvars == <<queue, got>>

RemoveNth(s, i) == SubSeq(s, 1, i - 1) \o SubSeq(s, i + 1, Len(s))

QInit == queue = << >> /\ got = [r \in Readers |-> << >>]

Put(m) == /\ queue' = IF Len(queue) < Capacity
                      THEN Append(queue, m) ELSE Append(Tail(queue), m)
          /\ UNCHANGED got

Meant(m, r) == m.to \in {Anyone, r}

(* Reader r takes the oldest message meant for it ...                       *)
TakeMeant(r) == \E i \in 1 .. Len(queue) :
  /\ Meant(queue[i], r) /\ \A j \in 1 .. i - 1 : ~Meant(queue[j], r)
  /\ queue' = RemoveNth(queue, i)
  /\ got' = [got EXCEPT ![r] = <<queue[i]>>]

(* ... or the oldest one whoever it is meant for.                           *)
TakeOldest(r) == /\ queue # << >>
                 /\ queue' = Tail(queue)
                 /\ got' = [got EXCEPT ![r] = <<Head(queue)>>]

QNext(Message) == \/ \E m \in Message : Put(m)
                  \/ \E r \in Readers : TakeMeant(r) \/ TakeOldest(r)
==============================================================================
