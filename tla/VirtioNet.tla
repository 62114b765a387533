------------------------------ MODULE VirtioNet ------------------------------
(***************************************************************************)
(* kernel/drivers/virtio_net.c: the two virtqueues of the network card,    *)
(* polled by the driver while the device works on them concurrently.       *)
(*                                                                         *)
(* Ring indices run freely modulo U16 and select a slot modulo the queue   *)
(* size.  A frame is the number of its arrival or of its send.  All frames *)
(* that are sent go through one buffer and descriptor 0; vn_send_raw spins *)
(* on the used index and gives up after five million rounds, which here is *)
(* a choice.  The device is modelled from how the driver uses it: it takes *)
(* descriptors in the order they were offered and returns each once, with  *)
(* an id below the queue size.                                             *)
(* virtio_net_poll calls vn_recv_raw until it returns nothing, at most 64  *)
(* times; where a loop ends leaves no trace in the driver's state.         *)
(***************************************************************************)
EXTENDS Integers, Sequences, FiniteSets, SequencesExt

CONSTANTS Size,                   \* of either queue
          U16,                    \* 2^16 in the code
          MaxFrames               \* bound: frames that arrive, and frames sent

VARIABLES rx,                     \* receive queue: avail ring and index, used ring and
                                  \* index, last_used_idx, and how far the device is
          rx_buf,                 \* what each receive buffer holds
          arrived,                \* per frame put into a buffer: is it longer than a header
          taken,                  \* frames that vn_recv_raw has handed to the stack
          tx,                     \* send queue: indices only, every entry is descriptor 0
          tx_buf,                 \* the frame in the one send buffer
          spinning,               \* vn_send_raw waits for the device
          given, accepted, wire,  \* frames sent, reported as sent, put on the wire
          timed_out               \* a send has given up

rxvars == <<rx, rx_buf, arrived, taken>>
txvars == <<tx, tx_buf, spinning, given, accepted, wire, timed_out>>
vars   == <<rxvars, txvars>>

Inc(i)  == (i + 1) % U16
Slot(i) == i % Size
Desc    == 0 .. Size - 1

(* Mutation: all descriptors get the address of the first buffer.           *)
Buffer_First(d) == 0

(* The buffer at rx_buf_phys + d * rx_slot_size.                            *)
Buffer(d) == d

(* Every receive buffer is offered to the device.                           *)
virtio_net_init ==
  /\ rx = [avail |-> [i \in Desc |-> i], avail_idx |-> Size, used |-> [i \in Desc |-> 0],
           used_idx |-> 0, last_used |-> 0, dev |-> 0]
  /\ rx_buf = [d \in Desc |-> 0]
  /\ arrived = << >> /\ taken = << >>
  /\ tx = [avail_idx |-> 0, used_idx |-> 0, last_used |-> 0, dev |-> 0]
  /\ tx_buf = 0 /\ spinning = FALSE
  /\ given = 0 /\ accepted = << >> /\ wire = << >> /\ timed_out = FALSE

(* The device fills the next buffer it was offered; with none a frame is lost. *)
DeviceReceives(whole) ==
  /\ Len(arrived) < MaxFrames
  /\ rx.dev # rx.avail_idx
  /\ LET d == rx.avail[Slot(rx.dev)]
     IN /\ rx_buf' = [rx_buf EXCEPT ![Buffer(d)] = Len(arrived) + 1]
        /\ rx' = [rx EXCEPT !.dev = Inc(@), !.used[Slot(rx.used_idx)] = d, !.used_idx = Inc(@)]
  /\ arrived' = Append(arrived, whole)
  /\ UNCHANGED <<taken, txvars>>

(* The device has returned a descriptor that the driver has not seen.       *)
Completed(q) == q.used_idx # q.last_used

(* The buffer of descriptor d goes back to the device.                      *)
Repost(q, d) == [q EXCEPT !.avail[Slot(q.avail_idx)] = d, !.avail_idx = Inc(@)]

(* Copies the oldest completed frame out for the stack; one without an      *)
(* Ethernet part only gives its buffer back.                                *)
vn_recv_raw ==
  /\ Completed(rx)
  /\ LET d == rx.used[Slot(rx.last_used)]
         n == rx_buf[Buffer(d)]
     IN /\ taken' = IF arrived[n] THEN Append(taken, n) ELSE taken
        /\ rx' = Repost([rx EXCEPT !.last_used = Inc(@)], d)
  /\ UNCHANGED <<rx_buf, arrived, txvars>>

(* vn_send_raw up to its waiting loop.                                      *)
SendBegins ==
  /\ ~spinning /\ given < MaxFrames
  /\ given' = given + 1
  /\ tx_buf' = given + 1
  /\ tx' = [tx EXCEPT !.avail_idx = Inc(@)]
  /\ spinning' = TRUE
  /\ UNCHANGED <<rxvars, accepted, wire, timed_out>>

SendReturns ==
  /\ spinning /\ Completed(tx)
  /\ tx' = [tx EXCEPT !.last_used = tx.used_idx]
  /\ accepted' = Append(accepted, given)
  /\ spinning' = FALSE
  /\ UNCHANGED <<rxvars, tx_buf, given, wire, timed_out>>

(* The loop ends without a completion: -EIO, and the descriptor stays queued. *)
SendGivesUp ==
  /\ spinning /\ ~Completed(tx)
  /\ spinning' = FALSE
  /\ timed_out' = TRUE
  /\ UNCHANGED <<rxvars, tx, tx_buf, given, accepted, wire>>

(* The device reads the send buffer and returns the descriptor.             *)
DeviceSends ==
  /\ tx.dev # tx.avail_idx
  /\ wire' = Append(wire, tx_buf)
  /\ tx' = [tx EXCEPT !.dev = Inc(@), !.used_idx = Inc(@)]
  /\ UNCHANGED <<rxvars, tx_buf, spinning, given, accepted, timed_out>>

NextReceive == (\E whole \in BOOLEAN : DeviceReceives(whole)) \/ vn_recv_raw
NextSend    == SendBegins \/ SendReturns \/ SendGivesUp \/ DeviceSends
Next        == NextReceive \/ NextSend

(* The user interface polls the card every frame (ui/shell.c).              *)
Spec == virtio_net_init /\ [][Next]_vars /\ WF_vars(vn_recv_raw)

-----------------------------------------------------------------------------
(* The frames the stack gets are the frames that arrived, each once and in  *)
(* order, also when the indices wrap; and the descriptors offered to the    *)
(* device and not yet used, and those used and not yet taken, are together  *)
(* all descriptors, each once: vn_recv_raw loses no buffer and gives none   *)
(* to the device twice.                                                     *)
ReceivedExact ==
  LET window(ring, from, to) == [i \in 1 .. (to - from) % U16 |-> ring[Slot((from + i - 1) % U16)]]
      all == window(rx.avail, rx.dev, rx.avail_idx) \o window(rx.used, rx.last_used, rx.used_idx)
  IN /\ IsPrefix(taken, SelectSeq([i \in 1 .. Len(arrived) |-> i], LAMBDA i : arrived[i]))
     /\ Len(all) = Size /\ Range(all) = Desc

(* Until a send gives up, the frames reported as sent are those that went   *)
(* out on the wire, unaltered and in order (the one being sent may be out). *)
SentUnaltered ==
  ~timed_out => /\ IsPrefix(accepted, wire)
                /\ wire = [i \in 1 .. Len(wire) |-> i]

(* Every whole frame that arrives is eventually handed to the stack.        *)
FramesTaken == \A n \in 1 .. MaxFrames :
                 (n <= Len(arrived) /\ arrived[n]) ~> (n \in Range(taken))
==============================================================================
