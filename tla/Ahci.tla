-------------------------------- MODULE Ahci --------------------------------
(***************************************************************************)
(* The AHCI driver, kernel/drivers/ahci.c: a transfer is cut into chunks,   *)
(* each a command in slot 0 of the one port.  A call gives up on a command  *)
(* after a time and the command stays with the controller, which may be     *)
(* about to start it, at work on it, or stopped by an error.  The driver    *)
(* looks at the port, rewrites the slot and issues it in separate steps.    *)
(***************************************************************************)
EXTENDS Integers, FiniteSets

CONSTANTS Chunks,       \* commands in a transfer
          MaxTransfers, MaxTimeouts   \* bounds

VARIABLES pc,           \* idle, wait (for the port), fill, write, issue, poll
          transfer, chunk,      \* the current transfer and chunk
          header,       \* the command in slot 0
          ci, is_err,   \* PxCI bit 0, PxIS task file error
          executing,    \* the command the controller is at work on: PxTFD busy
          halted,       \* the controller has stopped
          executed,     \* commands completed without error
          okay,         \* the transfers for which the driver returned true
          late,         \* transfers that met the start of a command given up
          timeouts

vars == <<pc, transfer, chunk, header, ci, is_err, executing, halted, executed, okay, late,
          timeouts>>

NoCmd == << 0, 0 >>
Torn  == << 0, 1 >>     \* what is in the slot while it is written

Init == /\ pc = "idle" /\ transfer = 0 /\ chunk = 0 /\ header = NoCmd
        /\ ci = 0 /\ is_err = FALSE /\ executing = NoCmd /\ halted = FALSE
        /\ executed = {} /\ okay = {} /\ late = {} /\ timeouts = 0

(* ahci_read_sectors, ahci_write_sectors: the first chunk.                  *)
Transfer == /\ pc = "idle" /\ transfer < MaxTransfers
            /\ transfer' = transfer + 1 /\ chunk' = 1 /\ pc' = "wait"
            /\ UNCHANGED <<header, ci, is_err, executing, halted, executed, okay, late, timeouts>>

(* ahci_do_io waits until the port is not busy, clears slot 0, fills it in  *)
(* and issues it.                                                           *)
PortFree == /\ pc = "wait" /\ executing = NoCmd
            /\ pc' = "fill"
            /\ UNCHANGED <<transfer, chunk, header, ci, is_err, executing, halted, executed,
                           okay, late, timeouts>>

FillSlot == /\ \/ pc = "fill"  /\ header' = Torn /\ pc' = "write"
               \/ pc = "write" /\ header' = << transfer, chunk >> /\ pc' = "issue"
            /\ UNCHANGED <<transfer, chunk, ci, is_err, executing, halted, executed, okay,
                           late, timeouts>>

Issue == /\ pc = "issue"
         /\ ci' = 1 /\ pc' = "poll"
         /\ UNCHANGED <<transfer, chunk, header, is_err, executing, halted, executed, okay,
                        late, timeouts>>

(* Mutation: the loop over chunks ends one too early.                       *)
MoreChunks_Short == chunk + 1 < Chunks

MoreChunks == chunk < Chunks

(* The command has left the slot: an error, the next chunk, or the end.     *)
ChunkDone ==
  /\ pc = "poll" /\ ci = 0
  /\ is_err' = FALSE
  /\ pc' = IF ~is_err /\ MoreChunks THEN "wait" ELSE "idle"
  /\ chunk' = IF ~is_err /\ MoreChunks THEN chunk + 1 ELSE chunk
  /\ okay' = IF ~is_err /\ ~MoreChunks THEN okay \cup {transfer} ELSE okay
  /\ UNCHANGED <<transfer, header, ci, executing, halted, executed, late, timeouts>>

TimeOut == /\ pc = "poll" /\ ci = 1 /\ timeouts < MaxTimeouts
           /\ pc' = "idle" /\ timeouts' = timeouts + 1
           /\ UNCHANGED <<transfer, chunk, header, ci, is_err, executing, halted, executed,
                          okay, late>>

(* The controller takes the command in the slot, as it is at that time.     *)
Start == /\ ci = 1 /\ executing = NoCmd /\ ~halted
         /\ executing' = header
         /\ late' = IF pc \in {"fill", "write"} THEN late \cup {transfer} ELSE late
         /\ UNCHANGED <<pc, transfer, chunk, header, ci, is_err, halted, executed, okay, timeouts>>

(* The end of a command; after an error the controller may stop with the    *)
(* command left in the slot.                                                *)
Finish(ok, stops) ==
  /\ executing # NoCmd /\ (ok => ~stops)
  /\ executing' = NoCmd
  /\ executed' = IF ok THEN executed \cup {executing} ELSE executed
  /\ is_err' = (is_err \/ ~ok)
  /\ halted' = stops
  /\ ci' = IF stops THEN ci ELSE 0
  /\ UNCHANGED <<pc, transfer, chunk, header, okay, late, timeouts>>

Next == \/ Transfer \/ PortFree \/ FillSlot \/ Issue \/ ChunkDone \/ TimeOut \/ Start
        \/ \E ok, stops \in BOOLEAN : Finish(ok, stops)

Spec == Init /\ [][Next]_vars

-----------------------------------------------------------------------------
(* A transfer that the driver reports as done has had each of its chunks    *)
(* executed without error, even after calls that gave up on a command: one  *)
(* still in the slot is overwritten, and one under way waited for.  But a   *)
(* command given up that the controller starts after ahci_do_io has seen    *)
(* the port free and before it has filled the slot again ends in place of   *)
(* the chunk, and that transfer may be reported without it.                 *)
TransferWhole == \A t \in okay \ late : \A c \in 1 .. Chunks : << t, c >> \in executed
=============================================================================
