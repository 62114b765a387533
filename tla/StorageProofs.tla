--------------------------- MODULE StorageProofs ---------------------------
(***************************************************************************)
(* Proofs about the drivers of disks: the NVMe queue pair, for every ring   *)
(* size, range of command ids and number of timeouts, and the AHCI port.    *)
(***************************************************************************)
EXTENDS Nvme, TLAPS

(* The slot after i.                                                        *)
LEMMA AfterSlot ==
  ASSUME NEW i \in Slot
  PROVE  After(i) \in Slot /\ After(i) = IF i + 1 = Size THEN 0 ELSE i + 1
<1>1. Size \in Nat \ {0, 1} /\ i \in 0 .. Size - 1
  BY NvmeAssumption DEF Slot
<1>2. CASE i + 1 = Size
  <2>1. Size % Size = 0
    BY <1>1
  <2>. QED  BY <1>1, <1>2, <2>1 DEF After, Slot
<1>3. CASE i + 1 # Size
  <2>1. i + 1 \in Nat /\ i + 1 < Size
    BY <1>1, <1>3
  <2>2. (i + 1) % Size = i + 1
    BY <1>1, <2>1
  <2>. QED  BY <1>1, <1>3, <2>1, <2>2 DEF After, Slot
<1>. QED  BY <1>2, <1>3

LEMMA NextCid == ASSUME NEW c \in Cid PROVE (c + 1) % CidRange \in Cid
<1>1. CidRange \in Nat \ {0} /\ c + 1 \in Nat
  BY NvmeAssumption DEF Cid
<1>2. (c + 1) % CidRange \in 0 .. CidRange - 1
  BY <1>1
<1>. QED  BY <1>2 DEF Cid

LEMMA NoCidNotCid == NoCid \notin Cid
  BY NvmeAssumption DEF NoCid, Cid

(* The state of the rings and counters has its type throughout.             *)
THEOREM TypeCorrect == Spec => []TypeOK
<1>1. Init => TypeOK
  BY NvmeAssumption DEF Init, TypeOK, Slot, Cid
<1>2. TypeOK /\ [Next]_vars => TypeOK'
  <2>. SUFFICES ASSUME TypeOK, [Next]_vars PROVE TypeOK'
    OBVIOUS
  <2>. USE AfterSlot, NextCid
  <2>1. CASE nvme_submit_cmd
    BY <2>1 DEF TypeOK, nvme_submit_cmd
  <2>2. CASE nvme_poll_cpl
    <3>1. cq[cq_head] \in [id : Cid \cup {NoCid}, phase : {0, 1}]
      BY DEF TypeOK
    <3>2. cq_phase' \in {0, 1}
      BY <2>2 DEF TypeOK, nvme_poll_cpl, NextPhase
    <3>3. unread' \in Seq(Cid)
      BY <2>2 DEF TypeOK, nvme_poll_cpl
    <3>. QED  BY <2>2, <3>1, <3>2, <3>3 DEF TypeOK, nvme_poll_cpl
  <2>3. CASE PollTimeout
    BY <2>3 DEF TypeOK, PollTimeout
  <2>4. CASE Fetch
    <3>1. PICK c \in Cid \cup {NoCid} : c = sq[sq_head]
      BY DEF TypeOK
    <3>. QED  BY <2>4, <3>1 DEF TypeOK, Fetch, driver
  <2>5. ASSUME NEW c \in Cid, Complete(c) PROVE TypeOK'
    <3>1. phase' \in {0, 1} /\ unread' \in Seq(Cid)
      BY <2>5 DEF TypeOK, Complete
    <3>. QED  BY <2>5, <3>1 DEF TypeOK, Complete, driver
  <2>6. CASE UNCHANGED vars
    BY <2>6 DEF TypeOK, vars
  <2>. QED  BY <2>1, <2>2, <2>3, <2>4, <2>5, <2>6 DEF Next
<1>. QED  BY <1>1, <1>2, PTL DEF Spec

(* Slot number j from the head of the completion ring on.                   *)
From(h, j) == IF h + j < Size THEN h + j ELSE h + j - Size
At(j) == From(cq_head, j)

(* The unread completions lie from the head to the tail; entries before the *)
(* tail have the phase of this round and the others that of the last one.   *)
RingInv ==
  /\ Len(unread) < Size
  /\ cq_tail = At(Len(unread))
  /\ phase = IF cq_head + Len(unread) < Size THEN cq_phase ELSE 1 - cq_phase
  /\ \A i \in Slot : cq[i].phase = IF i < cq_tail THEN phase ELSE 1 - phase
  /\ \A j \in 1 .. Len(unread) : cq[At(j - 1)].id = unread[j]

LEMMA RingInit == Init => RingInv
  BY NvmeAssumption DEF Init, RingInv, At, From, Slot

(* What the head of the ring says of the unread completions.                *)
LEMMA RingHead == TypeOK /\ RingInv => PhaseExact
<1>. SUFFICES ASSUME TypeOK, RingInv PROVE PhaseExact
  OBVIOUS
<1>1. /\ Size \in Nat \ {0, 1} /\ Len(unread) \in Nat /\ cq_head \in 0 .. Size - 1
      /\ phase \in {0, 1} /\ cq_phase \in {0, 1}
  BY NvmeAssumption DEF TypeOK, Slot
<1>2. cq[cq_head].phase = IF cq_head < cq_tail THEN phase ELSE 1 - phase
  BY DEF RingInv, TypeOK
<1>3. CASE unread = << >>
  <2>1. Len(unread) = 0
    BY <1>3
  <2>2. cq_tail = cq_head /\ phase = cq_phase
    BY <1>1, <2>1 DEF RingInv, At, From
  <2>. QED  BY <1>1, <1>2, <1>3, <2>2 DEF PhaseExact
<1>4. CASE unread # << >>
  <2>1. Len(unread) > 0
    BY <1>4 DEF TypeOK
  <2>2. cq[cq_head].phase = cq_phase
    BY <1>1, <1>2, <2>1 DEF RingInv, At, From
  <2>3. At(0) = cq_head /\ 1 \in 1 .. Len(unread)
    BY <1>1, <2>1 DEF At, From
  <2>4. cq[At(1 - 1)].id = unread[1]
    BY <2>3 DEF RingInv
  <2>. QED  BY <1>4, <2>2, <2>3, <2>4 DEF PhaseExact
<1>. QED  BY <1>3, <1>4

(* Taking a completion leaves the ring as it should be.                     *)
LEMMA RingPoll ==
  ASSUME TypeOK, RingInv, nvme_poll_cpl
  PROVE  RingInv'
<1>1. /\ Size \in Nat \ {0, 1} /\ cq_head \in 0 .. Size - 1
      /\ phase \in {0, 1} /\ cq_phase \in {0, 1}
  BY NvmeAssumption DEF TypeOK, Slot
<1>2. unread # << >>
  BY RingHead DEF nvme_poll_cpl, PhaseExact
<1>3. /\ unread \in Seq(Cid) /\ Len(unread) \in Nat \ {0}
      /\ unread' = Tail(unread) /\ Len(unread') = Len(unread) - 1
      /\ \A j \in 1 .. Len(unread') : unread'[j] = unread[j + 1]
  BY <1>2 DEF TypeOK, nvme_poll_cpl
<1>4. cq_head' = (IF cq_head + 1 = Size THEN 0 ELSE cq_head + 1)
  BY AfterSlot DEF nvme_poll_cpl, TypeOK
<1>5. cq_phase' = (IF cq_head + 1 = Size THEN 1 - cq_phase ELSE cq_phase)
  <2>1. After(cq_head) = 0 <=> cq_head + 1 = Size
    BY <1>1, AfterSlot DEF TypeOK
  <2>. QED  BY <2>1 DEF nvme_poll_cpl, NextPhase
<1>6. cq' = cq /\ cq_tail' = cq_tail /\ phase' = phase
  BY DEF nvme_poll_cpl
<1>7. ASSUME NEW j \in 0 .. Len(unread) - 1 PROVE At(j)' = At(j + 1)
  <2>1. Len(unread) < Size /\ j + 1 <= Len(unread) /\ j \in Nat
    BY <1>3 DEF RingInv
  <2>2. From(cq_head', j) = From(cq_head, j + 1)
    BY <1>1, <1>3, <1>4, <2>1 DEF From
  <2>. QED  BY <2>2 DEF At
<1>8. Len(unread') < Size /\ cq_tail' = At(Len(unread))'
  <2>1. Len(unread) < Size /\ Len(unread) - 1 \in 0 .. Len(unread) - 1
        /\ (Len(unread) - 1) + 1 = Len(unread)
    BY <1>3 DEF RingInv
  <2>2. From(cq_head', Len(unread) - 1) = From(cq_head, Len(unread))
    BY <1>7, <2>1 DEF At
  <2>3. cq_tail = From(cq_head, Len(unread))
    BY DEF RingInv, At
  <2>. QED  BY <1>1, <1>3, <1>6, <2>1, <2>2, <2>3 DEF At
<1>9. phase' = IF cq_head' + Len(unread') < Size THEN cq_phase' ELSE 1 - cq_phase'
  BY <1>1, <1>3, <1>4, <1>5, <1>6 DEF RingInv
<1>10. \A i \in Slot : cq'[i].phase = IF i < cq_tail' THEN phase' ELSE 1 - phase'
  BY <1>6 DEF RingInv
<1>11. ASSUME NEW j \in 1 .. Len(unread') PROVE cq'[At(j - 1)'].id = unread'[j]
  <2>1. j - 1 \in 0 .. Len(unread) - 1 /\ j + 1 \in 1 .. Len(unread) /\ (j - 1) + 1 = j
    BY <1>3
  <2>2. At(j - 1)' = At(j)
    BY <1>7, <2>1
  <2>3. cq[At((j + 1) - 1)].id = unread[j + 1]
    BY <2>1 DEF RingInv
  <2>. QED  BY <1>3, <1>6, <2>1, <2>2, <2>3
<1>. QED  BY <1>8, <1>9, <1>10, <1>11 DEF RingInv

(* So does posting one.                                                     *)
LEMMA RingComplete ==
  ASSUME TypeOK, RingInv, NEW c \in Cid, Complete(c)
  PROVE  RingInv'
<1>1. /\ Size \in Nat \ {0, 1} /\ cq_head \in 0 .. Size - 1 /\ cq_tail \in 0 .. Size - 1
      /\ phase \in {0, 1} /\ cq_phase \in {0, 1}
  BY NvmeAssumption DEF TypeOK, Slot
<1>2. /\ Len(unread) \in Nat /\ Len(unread') = Len(unread) + 1
      /\ unread'[Len(unread) + 1] = c
      /\ \A j \in 1 .. Len(unread) : unread'[j] = unread[j]
  BY DEF TypeOK, Complete
<1>3. /\ cq_tail' = (IF cq_tail + 1 = Size THEN 0 ELSE cq_tail + 1)
      /\ cq_tail' # cq_head
      /\ phase' = (IF cq_tail + 1 = Size THEN 1 - phase ELSE phase)
      /\ cq_head' = cq_head /\ cq_phase' = cq_phase
  <2>1. After(cq_tail) = 0 <=> cq_tail + 1 = Size
    BY <1>1, AfterSlot DEF TypeOK
  <2>. QED  BY <2>1, AfterSlot DEF Complete, driver, TypeOK
<1>4. Len(unread') < Size
  <2>1. Len(unread) < Size /\ cq_tail = From(cq_head, Len(unread))
    BY DEF RingInv, At
  <2>. QED  BY <1>1, <1>2, <1>3, <2>1 DEF From
<1>5. ASSUME NEW j PROVE At(j)' = At(j)
  BY <1>3 DEF At, From
<1>6. cq_tail' = At(Len(unread))'
  BY <1>1, <1>2, <1>3, <1>4 DEF RingInv, At, From
<1>7. phase' = IF cq_head' + Len(unread') < Size THEN cq_phase' ELSE 1 - cq_phase'
  BY <1>1, <1>2, <1>3, <1>4 DEF RingInv, At, From
<1>8. ASSUME NEW i \in Slot
      PROVE  cq'[i] = IF i = cq_tail THEN [id |-> c, phase |-> phase] ELSE cq[i]
  BY DEF Complete, TypeOK
<1>9. ASSUME NEW i \in Slot PROVE cq'[i].phase = IF i < cq_tail' THEN phase' ELSE 1 - phase'
  <2>1. cq[i].phase = IF i < cq_tail THEN phase ELSE 1 - phase
    BY DEF RingInv
  <2>2. i \in 0 .. Size - 1
    BY DEF Slot
  <2>3. cq'[i].phase = IF i = cq_tail THEN phase ELSE cq[i].phase
    BY <1>8
  <2>. QED  BY <1>1, <1>3, <2>1, <2>2, <2>3
<1>10. ASSUME NEW j \in 1 .. Len(unread') PROVE cq'[At(j - 1)'].id = unread'[j]
  <2>1. At(j - 1)' = At(j - 1) /\ At(j - 1) \in Slot
    BY <1>1, <1>2, <1>4, <1>5 DEF At, From, Slot
  <2>2. CASE j = Len(unread) + 1
    <3>1. At(j - 1) = cq_tail
      BY <1>2, <2>2 DEF RingInv
    <3>. QED  BY <1>2, <1>8, <2>1, <2>2, <3>1
  <2>3. CASE j # Len(unread) + 1
    <3>1. j \in 1 .. Len(unread)
      BY <1>2, <2>3
    <3>2. At(j - 1) # cq_tail
      BY <1>1, <1>2, <1>4, <3>1 DEF RingInv, At, From
    <3>3. cq[At(j - 1)].id = unread[j]
      BY <3>1 DEF RingInv
    <3>. QED  BY <1>2, <1>8, <2>1, <3>1, <3>2, <3>3
  <2>. QED  BY <2>2, <2>3
<1>. QED  BY <1>4, <1>6, <1>7, <1>9, <1>10 DEF RingInv

(* The other steps leave the completion ring alone.                         *)
LEMMA RingOther ==
  ASSUME RingInv, UNCHANGED <<cq, cq_head, cq_phase, cq_tail, phase, unread>>
  PROVE  RingInv'
  BY DEF RingInv, At, From

LEMMA RingStep == TypeOK /\ RingInv /\ [Next]_vars => RingInv'
<1>. SUFFICES ASSUME TypeOK, RingInv, [Next]_vars PROVE RingInv'
  OBVIOUS
<1>1. CASE nvme_submit_cmd
  BY <1>1, RingOther DEF nvme_submit_cmd
<1>2. CASE nvme_poll_cpl
  BY <1>2, RingPoll
<1>3. CASE PollTimeout
  BY <1>3, RingOther DEF PollTimeout
<1>4. CASE Fetch
  BY <1>4, RingOther DEF Fetch, driver
<1>5. ASSUME NEW c \in Cid, Complete(c) PROVE RingInv'
  BY <1>5, RingComplete
<1>6. CASE UNCHANGED vars
  BY <1>6, RingOther DEF vars
<1>. QED  BY <1>1, <1>2, <1>3, <1>4, <1>5, <1>6 DEF Next

(* The phase bit tells the driver exactly when there is a completion that   *)
(* it has not taken, and which one is the oldest (nvme_poll_cpl), whatever  *)
(* the size of the ring and however many polls have timed out.              *)
THEOREM PhaseBitExact == Spec => []PhaseExact
  BY RingInit, RingStep, RingHead, TypeCorrect, PTL DEF Spec

(* Without timeouts there is at most one command, that of the call, and it  *)
(* is in one place.                                                         *)
OneCommand ==
  timeouts = 0 =>
    /\ got.of = got.id
    /\ mine = NoCid => sq_head = sq_tail /\ working = {} /\ unread = << >>
    /\ mine # NoCid =>
         \/ /\ sq_tail = After(sq_head) /\ sq[sq_head] = mine
            /\ working = {} /\ unread = << >>
         \/ sq_head = sq_tail /\ working = {mine} /\ unread = << >>
         \/ sq_head = sq_tail /\ working = {} /\ unread = << mine >>

(* Until a poll times out, a call takes the completion of its own command,  *)
(* on every round of the rings (nvme_submit_cmd, nvme_poll_cpl).            *)
THEOREM CompletionIsOwn == Spec => []OwnCompletion
<1>1. Init => OneCommand
  BY DEF Init, OneCommand
<1>2. TypeOK /\ RingInv /\ OneCommand /\ [Next]_vars => OneCommand'
  <2>. SUFFICES ASSUME TypeOK, RingInv, OneCommand, [Next]_vars, timeouts' = 0
                PROVE  OneCommand'
    BY DEF OneCommand
  <2>1. CASE nvme_submit_cmd
    <3>1. timeouts = 0 /\ mine = NoCid /\ mine' = cid /\ cid # NoCid
      BY <2>1, NoCidNotCid DEF nvme_submit_cmd, TypeOK
    <3>2. sq'[sq_tail] = cid
      BY <2>1 DEF nvme_submit_cmd, TypeOK
    <3>. QED  BY <2>1, <3>1, <3>2 DEF nvme_submit_cmd, OneCommand
  <2>2. CASE nvme_poll_cpl
    <3>1. unread # << >> /\ cq[cq_head].id = unread[1]
      BY <2>2, RingHead DEF nvme_poll_cpl, PhaseExact
    <3>2. timeouts = 0 /\ mine # NoCid
      BY <2>2 DEF nvme_poll_cpl
    <3>3. sq_head = sq_tail /\ working = {} /\ unread = << mine >>
      BY <3>1, <3>2 DEF OneCommand
    <3>4. unread[1] = mine /\ Tail(unread) = << >>
      BY <3>3
    <3>. QED  BY <2>2, <3>1, <3>2, <3>3, <3>4 DEF nvme_poll_cpl, OneCommand
  <2>3. CASE PollTimeout
    BY <2>3 DEF PollTimeout, TypeOK
  <2>4. CASE Fetch
    <3>1. timeouts = 0 /\ sq_head # sq_tail
      BY <2>4 DEF Fetch, driver
    <3>2. mine # NoCid /\ sq_tail = After(sq_head) /\ sq[sq_head] = mine
          /\ working = {} /\ unread = << >>
      BY <3>1 DEF OneCommand
    <3>. QED  BY <2>4, <3>1, <3>2 DEF Fetch, driver, OneCommand
  <2>5. ASSUME NEW c \in Cid, Complete(c) PROVE OneCommand'
    <3>1. timeouts = 0 /\ c \in working
      BY <2>5 DEF Complete, driver
    <3>2. mine # NoCid /\ sq_head = sq_tail /\ working = {mine} /\ unread = << >> /\ c = mine
      BY <3>1 DEF OneCommand
    <3>3. unread' = << mine >> /\ working' = {}
      BY <2>5, <3>2 DEF Complete
    <3>. QED  BY <2>5, <3>1, <3>2, <3>3 DEF Complete, driver, OneCommand
  <2>6. CASE UNCHANGED vars
    BY <2>6 DEF vars, OneCommand
  <2>. QED  BY <2>1, <2>2, <2>3, <2>4, <2>5, <2>6 DEF Next
<1>3. OneCommand => OwnCompletion
  BY DEF OneCommand, OwnCompletion
<1>. QED  BY <1>1, <1>2, <1>3, RingInit, RingStep, TypeCorrect, PTL DEF Spec
-----------------------------------------------------------------------------
(* The AHCI port, beside the NVMe queue pair.                               *)
CONSTANTS Chunks, MaxTransfers, MaxStalls
VARIABLES pc, transfer, chunk, header, ci, is_err, executing, halted, executed, okay, late, stalls

Sata == INSTANCE Ahci WITH timeouts <- stalls, MaxTimeouts <- MaxStalls

(* What a poll of slot 0 relies on.  A command that was given up is either  *)
(* still in the slot, and then overwritten before the controller starts it  *)
(* (or the transfer is a late one), or under way, and then ahci_do_io waits *)
(* for its end: the command under way during a poll is always the one       *)
(* polled for.                                                              *)
SlotInv ==
  /\ transfer \in Nat /\ chunk \in Nat /\ ci \in {0, 1}
  /\ pc \in {"idle", "wait", "fill", "write", "issue", "poll"}
  /\ executing # Sata!NoCmd => ci = 1
  /\ pc \in {"issue", "poll"} => header = << transfer, chunk >>
  /\ pc # "idle" => transfer > 0 /\ chunk > 0
  /\ transfer \notin late =>
       /\ pc # "idle" => \A c \in 1 .. chunk - 1 : << transfer, c >> \in executed
       /\ pc \in {"fill", "write"} => executing = Sata!NoCmd
       /\ pc \in {"issue", "poll"} => executing \in {Sata!NoCmd, header}
       /\ pc = "poll" /\ ci = 0 /\ ~is_err => header \in executed
  /\ Sata!TransferWhole

(* A transfer that ahci_read_sectors or ahci_write_sectors reports as done  *)
(* has had every chunk executed, unless a command given up was started      *)
(* while the slot was written, for every number of chunks, of transfers and *)
(* of commands given up.                                                    *)
THEOREM TransfersAreWhole == ASSUME Chunks \in Nat PROVE Sata!Spec => []Sata!TransferWhole
<1>1. Sata!Init => SlotInv
  BY DEF Sata!Init, SlotInv, Sata!TransferWhole, Sata!NoCmd
<1>2. SlotInv /\ [Sata!Next]_(Sata!vars) => SlotInv'
  <2>. SUFFICES ASSUME SlotInv, [Sata!Next]_(Sata!vars) PROVE SlotInv'
    OBVIOUS
  <2>. USE DEF SlotInv
  <2>1. CASE Sata!Transfer
    BY <2>1 DEF Sata!Transfer, Sata!TransferWhole
  <2>2. CASE Sata!PortFree \/ Sata!FillSlot \/ Sata!Issue
    BY <2>2 DEF Sata!PortFree, Sata!FillSlot, Sata!Issue, Sata!TransferWhole
  <2>3. CASE Sata!ChunkDone
    <3>1. CASE is_err
      BY <2>3, <3>1 DEF Sata!ChunkDone, Sata!TransferWhole
    <3>2. CASE ~is_err
      <4>1. transfer \notin late => \A c \in 1 .. chunk : << transfer, c >> \in executed
        BY <2>3, <3>2 DEF Sata!ChunkDone
      <4>2. CASE Sata!MoreChunks
        <5>1. chunk' = chunk + 1 /\ pc' = "wait" /\ is_err' = FALSE /\ okay' = okay
              /\ UNCHANGED <<transfer, header, ci, executing, executed, late>>
          BY <2>3, <3>2, <4>2 DEF Sata!ChunkDone
        <5>2. transfer \notin late => \A c \in 1 .. chunk' - 1 : << transfer', c >> \in executed'
          BY <4>1, <5>1
        <5>. QED  BY <2>3, <5>1, <5>2 DEF Sata!ChunkDone, Sata!TransferWhole, Sata!NoCmd
      <4>3. CASE ~Sata!MoreChunks
        <5>1. transfer \notin late => \A c \in 1 .. Chunks : << transfer, c >> \in executed
          BY <4>1, <4>3 DEF Sata!MoreChunks
        <5>. QED  BY <2>3, <3>2, <4>3, <5>1 DEF Sata!ChunkDone, Sata!TransferWhole
      <4>. QED  BY <4>2, <4>3
    <3>. QED  BY <3>1, <3>2
  <2>4. CASE Sata!TimeOut
    BY <2>4 DEF Sata!TimeOut, Sata!TransferWhole
  <2>5. CASE Sata!Start
    BY <2>5 DEF Sata!Start, Sata!TransferWhole
  <2>6. ASSUME NEW ok \in BOOLEAN, NEW stops \in BOOLEAN, Sata!Finish(ok, stops)
        PROVE  SlotInv'
    BY <2>6 DEF Sata!Finish, Sata!TransferWhole
  <2>7. CASE UNCHANGED Sata!vars
    BY <2>7 DEF Sata!vars, Sata!TransferWhole
  <2>. QED  BY <2>1, <2>2, <2>3, <2>4, <2>5, <2>6, <2>7 DEF Sata!Next
<1>3. SlotInv => Sata!TransferWhole
  BY DEF SlotInv
<1>. QED  BY <1>1, <1>2, <1>3, PTL DEF Sata!Spec
=============================================================================
