------------------------------- MODULE Mailbox -------------------------------
(***************************************************************************)
(* agent/mailbox.c: the ring through which the agents of a system send     *)
(* messages to each other.  Each operation runs under mb->lock, so it is   *)
(* one step.  A body is abstracted to the number of its send; the cut of   *)
(* an overlong body to MAILBOX_MSG_MAX - 1 bytes is not visible at that    *)
(* level, and neither are the argument checks.  The event log follows.     *)
(***************************************************************************)
EXTENDS Integers, Sequences

CONSTANTS MAILBOX_CAP, Agents, MAILBOX_TO_ANY,
          MaxSends                \* bound: sends in a behaviour

ASSUME MailboxAssumption == /\ MAILBOX_CAP \in Nat \ {0}
                            /\ MaxSends \in Nat
                            /\ MAILBOX_TO_ANY \notin Agents

VARIABLES mb_ring, mb_head, count,
          sent,                   \* ghost: number of sends so far
          out                     \* what each agent last received

vars == <<mb_ring, mb_head, count, sent, out>>

Message == [to : Agents \cup {MAILBOX_TO_ANY}, n : 0 .. MaxSends]
Slots   == 0 .. MAILBOX_CAP - 1
Blank   == [to |-> MAILBOX_TO_ANY, n |-> 0]

(* mailbox_init clears the ring: every slot is a message from 0 to 0.       *)
mailbox_init == /\ mb_ring = [s \in Slots |-> Blank]
                /\ mb_head = 0 /\ count = 0 /\ sent = 0
                /\ out = [a \in Agents |-> << >>]

Slot(i) == (mb_head + i) % MAILBOX_CAP

(* Mutation: a full ring keeps its head, so the order starts at the newest. *)
mailbox_send_KeepsHead(to) ==
  /\ sent < MaxSends
  /\ mb_ring' = [mb_ring EXCEPT ![Slot(count)] = [to |-> to, n |-> sent + 1]]
  /\ count' = IF count < MAILBOX_CAP THEN count + 1 ELSE count
  /\ sent' = sent + 1
  /\ UNCHANGED <<mb_head, out>>

mailbox_send(to) ==
  /\ sent < MaxSends
  /\ mb_ring' = [mb_ring EXCEPT ![Slot(count)] = [to |-> to, n |-> sent + 1]]
  /\ IF count < MAILBOX_CAP
     THEN count' = count + 1 /\ UNCHANGED mb_head
     ELSE mb_head' = (mb_head + 1) % MAILBOX_CAP /\ UNCHANGED count
  /\ sent' = sent + 1
  /\ UNCHANGED out

mailbox_broadcast == mailbox_send(MAILBOX_TO_ANY)

mailbox_try_recv(a) ==
  /\ count > 0
  /\ out' = [out EXCEPT ![a] = <<mb_ring[mb_head]>>]
  /\ mb_head' = (mb_head + 1) % MAILBOX_CAP
  /\ count' = count - 1
  /\ UNCHANGED <<mb_ring, sent>>

For(i, a) == mb_ring[Slot(i)].to \in {MAILBOX_TO_ANY, a}

(* The slots from `found` on each take the message of the next one.         *)
CloseGap(found) ==
  [s \in Slots |-> IF \E k \in found .. count - 2 : s = Slot(k)
                   THEN mb_ring[(s + 1) % MAILBOX_CAP] ELSE mb_ring[s]]

mailbox_try_recv_for(a) ==
  \E found \in 0 .. count - 1 :
    /\ For(found, a) /\ \A j \in 0 .. found - 1 : ~For(j, a)
    /\ out' = [out EXCEPT ![a] = <<mb_ring[Slot(found)]>>]
    /\ mb_ring' = CloseGap(found)
    /\ count' = count - 1
    /\ UNCHANGED <<mb_head, sent>>

Next == \/ \E to \in Agents : mailbox_send(to)
        \/ mailbox_broadcast
        \/ \E a \in Agents : mailbox_try_recv(a)
        \/ \E a \in Agents : mailbox_try_recv_for(a)

Spec == mailbox_init /\ [][Next]_vars

TypeOK == /\ mb_ring \in [Slots -> Message]
          /\ mb_head \in Slots
          /\ count \in 0 .. MAILBOX_CAP
          /\ sent \in 0 .. MaxSends
          /\ out \in [Agents -> {<< >>} \cup {<<m>> : m \in Message}]

(* The messages the ring holds, oldest first.                               *)
Held == [i \in 1 .. count |-> mb_ring[Slot(i - 1)]]

Q == INSTANCE DropOldestQueue WITH Capacity <- MAILBOX_CAP, Readers <- Agents,
                                   Anyone <- MAILBOX_TO_ANY, queue <- Held, got <- out

(* The ring of mailbox.c, with its wrapping head and its closing of gaps, is *)
(* a queue that loses nothing but its oldest message, and that only when it *)
(* is full: each operation is an operation of DropOldestQueue.              *)
ImplementsQueue == Q!QInit /\ [][Q!QNext(Message)]_(Q!qvars)

-----------------------------------------------------------------------------
(* agent/eventlog.c: the append-only ring of numbered records that all      *)
(* agents write and that the Corrector's checkpoints refer to by number.    *)
(* Every operation runs under g_lock.  A record is abstracted to its        *)
(* number and its writer.                                                   *)
CONSTANTS EVENTLOG_CAPACITY,
          MaxEvents               \* bound: appends in a behaviour

ASSUME EventLogAssumption == EVENTLOG_CAPACITY \in Nat \ {0} /\ MaxEvents \in Nat

VARIABLES g_ring, g_head, g_count, g_seq,
          trace                   \* ghost: who appended, in order

logvars == <<g_ring, g_head, g_count, g_seq, trace>>

Nobody  == 0                      \* agent_id of a cleared record
Record  == [seq : 0 .. MaxEvents, agent_id : Agents \cup {Nobody}]
Indices == 0 .. EVENTLOG_CAPACITY - 1

eventlog_init == /\ g_ring = [i \in Indices |-> [seq |-> 0, agent_id |-> Nobody]]
                 /\ g_head = 0 /\ g_count = 0 /\ g_seq = 0
                 /\ trace = << >>

eventlog_append(a) ==
  /\ g_seq < MaxEvents
  /\ g_ring' = [g_ring EXCEPT ![(g_head + g_count) % EVENTLOG_CAPACITY]
                                = [seq |-> g_seq + 1, agent_id |-> a]]
  /\ IF g_count < EVENTLOG_CAPACITY
     THEN g_count' = g_count + 1 /\ UNCHANGED g_head
     ELSE g_head' = (g_head + 1) % EVENTLOG_CAPACITY /\ UNCHANGED g_count
  /\ g_seq' = g_seq + 1
  /\ trace' = Append(trace, a)

(* The records eventlog_snapshot copies for a buffer of `max' records.      *)
eventlog_snapshot(max) ==
  LET n     == IF g_count < max THEN g_count ELSE max
      start == (g_head + g_count - n) % EVENTLOG_CAPACITY
  IN [i \in 1 .. n |-> g_ring[(start + i - 1) % EVENTLOG_CAPACITY]]

LogNext == \E a \in Agents : eventlog_append(a)

LogSpec == eventlog_init /\ [][LogNext]_logvars

(* Whatever the size of the buffer, eventlog_snapshot returns the newest    *)
(* records: consecutive numbers that end at eventlog_seq(), each with the   *)
(* agent that made that append, and as many as fit and are still held.      *)
SnapshotIsTail ==
  \A max \in 1 .. EVENTLOG_CAPACITY + 1 :
    LET s == eventlog_snapshot(max)
        n == Len(s)
    IN /\ \A i \in 1 .. n : s[i] = [seq |-> g_seq - n + i, agent_id |-> trace[g_seq - n + i]]
       /\ n < max => n = g_seq \/ n = EVENTLOG_CAPACITY
=============================================================================
