-------------------------------- MODULE Nvme --------------------------------
(***************************************************************************)
(* A queue pair of the NVMe driver, kernel/drivers/nvme.c, and the          *)
(* controller at its other end.  A call submits one command and polls for a *)
(* completion; a poll that times out returns while the command is still     *)
(* with the controller.  New completions are told from old ones by a phase  *)
(* bit that flips each time the ring wraps.                                 *)
(***************************************************************************)
EXTENDS Integers, Sequences, FiniteSets

CONSTANTS Size,           \* q->size
          CidRange,       \* command ids are counted modulo this (2^16)
          MaxTimeouts     \* bound on the timeouts

ASSUME NvmeAssumption == /\ Size \in Nat \ {0, 1}
                         /\ CidRange \in Nat \ {0}
                         /\ MaxTimeouts \in Nat

VARIABLES sq, sq_tail, cq, cq_head, cq_phase, cid,   \* nvme_queue_t
          mine,           \* the id of the command polled for, or NoCid
          got,            \* the last call: its id, and that of the completion it took
          timeouts,       \* polls that have timed out
          sq_head, cq_tail, phase,   \* the controller's side of the rings
          working,        \* ids fetched and not completed
          unread          \* the completions posted and not taken, oldest first

driver == <<sq, sq_tail, cq_head, cq_phase, cid, mine, got, timeouts>>
vars   == <<sq, sq_tail, cq, cq_head, cq_phase, cid, mine, got, timeouts,
            sq_head, cq_tail, phase, working, unread>>

Slot  == 0 .. Size - 1
Cid   == 0 .. CidRange - 1
NoCid == 0 - 1

After(i) == (i + 1) % Size

(* init_queue: zeroed rings, and a phase that no entry has.                 *)
Init == /\ sq = [i \in Slot |-> NoCid] /\ sq_tail = 0
        /\ cq = [i \in Slot |-> [id |-> NoCid, phase |-> 0]]
        /\ cq_head = 0 /\ cq_phase = 1 /\ cid = 0
        /\ mine = NoCid /\ got = [id |-> NoCid, of |-> NoCid] /\ timeouts = 0
        /\ sq_head = 0 /\ cq_tail = 0 /\ phase = 1
        /\ working = {} /\ unread = << >>

(* Mutation: a call submits while another one polls.                        *)
nvme_submit_cmd_Again ==
  /\ After(sq_tail) # sq_head
  /\ mine' = cid
  /\ sq' = [sq EXCEPT ![sq_tail] = cid]
  /\ cid' = (cid + 1) % CidRange
  /\ sq_tail' = After(sq_tail)
  /\ UNCHANGED <<cq, cq_head, cq_phase, got, timeouts, sq_head, cq_tail, phase, working, unread>>

(* nvme_submit_cmd, as called by nvme_io_cmd and nvme_admin_cmd.            *)
nvme_submit_cmd ==
  /\ mine = NoCid
  /\ mine' = cid
  /\ sq' = [sq EXCEPT ![sq_tail] = cid]
  /\ cid' = (cid + 1) % CidRange
  /\ sq_tail' = After(sq_tail)
  /\ UNCHANGED <<cq, cq_head, cq_phase, got, timeouts, sq_head, cq_tail, phase, working, unread>>

NextPhase == IF After(cq_head) = 0 THEN 1 - cq_phase ELSE cq_phase

(* nvme_poll_cpl: the entry at the head has the expected phase.  The        *)
(* command id of the completion is not looked at.                           *)
nvme_poll_cpl ==
  /\ mine # NoCid
  /\ cq[cq_head].phase = cq_phase
  /\ got' = [id |-> mine, of |-> cq[cq_head].id]
  /\ mine' = NoCid
  /\ cq_head' = After(cq_head)
  /\ cq_phase' = NextPhase
  /\ unread' = IF unread = << >> THEN << >> ELSE Tail(unread)
  /\ UNCHANGED <<sq, sq_tail, cq, cid, timeouts, sq_head, cq_tail, phase, working>>

(* nvme_poll_cpl gives up: the command stays with the controller.           *)
PollTimeout ==
  /\ mine # NoCid
  /\ cq[cq_head].phase # cq_phase
  /\ timeouts < MaxTimeouts
  /\ mine' = NoCid
  /\ timeouts' = timeouts + 1
  /\ UNCHANGED <<sq, sq_tail, cq, cq_head, cq_phase, cid, got, sq_head, cq_tail, phase,
                 working, unread>>

(* The controller takes the next command that the doorbell announced.       *)
Fetch ==
  /\ sq_head # sq_tail
  /\ working' = working \cup {sq[sq_head]}
  /\ sq_head' = After(sq_head)
  /\ UNCHANGED <<driver, cq, cq_tail, phase, unread>>

(* It completes commands in any order, and waits while the ring is full.    *)
Complete(c) ==
  /\ c \in working
  /\ After(cq_tail) # cq_head
  /\ cq' = [cq EXCEPT ![cq_tail] = [id |-> c, phase |-> phase]]
  /\ cq_tail' = After(cq_tail)
  /\ phase' = IF After(cq_tail) = 0 THEN 1 - phase ELSE phase
  /\ working' = working \ {c}
  /\ unread' = Append(unread, c)
  /\ UNCHANGED <<driver, sq_head>>

Next == \/ nvme_submit_cmd \/ nvme_poll_cpl \/ PollTimeout \/ Fetch
        \/ \E c \in Cid : Complete(c)

Spec == Init /\ [][Next]_vars

-----------------------------------------------------------------------------
(* The values of the rings, indices and phases of a queue pair.             *)
TypeOK ==
  /\ sq \in [Slot -> Cid \cup {NoCid}] /\ sq_tail \in Slot /\ sq_head \in Slot
  /\ cq \in [Slot -> [id : Cid \cup {NoCid}, phase : {0, 1}]]
  /\ cq_head \in Slot /\ cq_tail \in Slot /\ cq_phase \in {0, 1} /\ phase \in {0, 1}
  /\ cid \in Cid /\ mine \in Cid \cup {NoCid}
  /\ got \in [id : Cid \cup {NoCid}, of : Cid \cup {NoCid}]
  /\ timeouts \in Nat /\ working \subseteq Cid \cup {NoCid} /\ unread \in Seq(Cid)

(* The phase bit tells the driver exactly when there is a completion that   *)
(* it has not taken, and the entry at the head is the oldest of those, on   *)
(* whatever round of the ring and after whatever timeouts (nvme_poll_cpl).  *)
PhaseExact ==
  /\ cq[cq_head].phase = cq_phase <=> unread # << >>
  /\ unread # << >> => cq[cq_head].id = unread[1]

(* As long as no poll has timed out, the completion that a call takes is    *)
(* that of the command it submitted.                                        *)
OwnCompletion == timeouts = 0 => got.of = got.id
=============================================================================
