---------------------------- MODULE MailboxProofs ----------------------------
(***************************************************************************)
(* For every capacity, set of agents and number of sends, the ring of      *)
(* mailbox.c keeps its types and implements DropOldestQueue.  The argument *)
(* is one fact about indices (an offset below twice the capacity wraps at  *)
(* most once) and, for each operation, equality of two sequences element   *)
(* by element.                                                             *)
(***************************************************************************)
EXTENDS Mailbox, SequenceTheorems, NatFacts

CAP == MAILBOX_CAP

(* Slot number i of a ring whose head is h.                                 *)
At(h, i) == (h + i) % CAP

LEMMA AtFacts ==
  ASSUME NEW h \in Slots, NEW i \in 0 .. CAP
  PROVE  /\ At(h, i) = IF h + i < CAP THEN h + i ELSE h + i - CAP
         /\ At(h, i) \in Slots
<1>1. CAP \in Nat \ {0} /\ h + i \in Nat /\ h + i < 2 * CAP
  BY MailboxAssumption DEF CAP, Slots
<1>2. (h + i) % CAP = IF h + i < CAP THEN h + i ELSE h + i - CAP
  BY <1>1, WrapSum DEF Slots, CAP
<1>. QED  BY <1>1, <1>2 DEF At, Slots, CAP

(* Distinct offsets below the capacity are distinct slots.                  *)
LEMMA AtInjective ==
  ASSUME NEW h \in Slots, NEW i \in 0 .. CAP - 1, NEW j \in 0 .. CAP - 1, At(h, i) = At(h, j)
  PROVE  i = j
<1>1. CAP \in Nat \ {0} /\ h \in 0 .. CAP - 1
  BY MailboxAssumption DEF CAP, Slots
<1>2. i \in 0 .. CAP /\ j \in 0 .. CAP
  BY <1>1
<1>. QED  BY <1>1, <1>2, AtFacts

(* The next slot is the slot of the next offset.                            *)
LEMMA AtNext ==
  ASSUME NEW h \in Slots, NEW i \in 0 .. CAP - 1
  PROVE  /\ (At(h, i) + 1) % CAP = At(h, i + 1)
         /\ At((h + 1) % CAP, i) = At(h, i + 1)
<1>1. CAP \in Nat \ {0} /\ h \in 0 .. CAP - 1 /\ i + 1 \in 0 .. CAP /\ i \in 0 .. CAP
  BY MailboxAssumption DEF CAP, Slots
<1>2. At(h, i) = IF h + i < CAP THEN h + i ELSE h + i - CAP
  BY <1>1, AtFacts
<1>3. At(h, i + 1) = IF h + i + 1 < CAP THEN h + i + 1 ELSE h + i + 1 - CAP
  BY <1>1, AtFacts
<1>4. At(h, i) + 1 \in Nat /\ At(h, i) + 1 <= CAP
  BY <1>1, <1>2
<1>5. (At(h, i) + 1) % CAP = IF At(h, i) + 1 < CAP THEN At(h, i) + 1 ELSE At(h, i) + 1 - CAP
  <2>1. At(h, i) \in Nat /\ At(h, i) + 1 < 2 * CAP
    BY <1>1, <1>2
  <2>. QED  BY <1>1, <2>1, WrapSum
<1>6. (h + 1) % CAP = IF h + 1 < CAP THEN h + 1 ELSE 0
  <2>1. h + 1 < 2 * CAP /\ (h + 1 < CAP \/ h + 1 - CAP = 0)
    BY <1>1
  <2>. QED  BY <1>1, <2>1, WrapSum
<1>7. (h + 1) % CAP \in Slots
  BY <1>1, <1>6 DEF Slots, CAP
<1>8. At((h + 1) % CAP, i) = IF ((h + 1) % CAP) + i < CAP THEN ((h + 1) % CAP) + i
                                                          ELSE ((h + 1) % CAP) + i - CAP
  BY <1>1, <1>7, AtFacts
<1>9. (At(h, i) + 1) % CAP = At(h, i + 1)
  BY <1>1, <1>2, <1>3, <1>5
<1>10. At((h + 1) % CAP, i) = At(h, i + 1)
  BY <1>1, <1>3, <1>6, <1>8
<1>. QED  BY <1>9, <1>10

(* The messages of a ring r with head h and n messages, oldest first.       *)
HeldOf(r, h, n) == [i \in 1 .. n |-> r[At(h, i - 1)]]

LEMMA HeldSeq ==
  ASSUME NEW r \in [Slots -> Message], NEW h \in Slots, NEW n \in 0 .. CAP
  PROVE  /\ HeldOf(r, h, n) \in Seq(Message)
         /\ Len(HeldOf(r, h, n)) = n
         /\ \A i \in 1 .. n : HeldOf(r, h, n)[i] = r[At(h, i - 1)]
<1>1. CAP \in Nat /\ n \in Nat
  BY MailboxAssumption DEF CAP
<1>2. \A i \in 1 .. n : r[At(h, i - 1)] \in Message
  <2>. TAKE i \in 1 .. n
  <2>1. i - 1 \in 0 .. CAP
    BY <1>1
  <2>. QED  BY <2>1, AtFacts
<1>3. HeldOf(r, h, n) \in [1 .. n -> Message]
  BY <1>2 DEF HeldOf
<1>4. HeldOf(r, h, n) \in Seq(Message)
  BY <1>1, <1>3, SeqDef
<1>5. Len(HeldOf(r, h, n)) = n
  BY <1>1, <1>3, <1>4, LenProperties
<1>. QED  BY <1>4, <1>5 DEF HeldOf

LEMMA HeldIs == Held = HeldOf(mb_ring, mb_head, count) /\ Held' = HeldOf(mb_ring', mb_head', count')
  BY DEF Held, HeldOf, Slot, At, CAP

-----------------------------------------------------------------------------
(* mailbox_send and mailbox_broadcast append, and drop the oldest when full. *)
LEMMA SendStep ==
  ASSUME TypeOK, NEW to \in Agents \cup {MAILBOX_TO_ANY}, mailbox_send(to)
  PROVE  TypeOK' /\ Q!Put([to |-> to, n |-> sent + 1])
<1>. DEFINE m == [to |-> to, n |-> sent + 1]
            H == HeldOf(mb_ring, mb_head, count)
            G == HeldOf(mb_ring', mb_head', count')
<1>1. CAP \in Nat \ {0} /\ mb_head \in Slots /\ count \in 0 .. CAP /\ mb_ring \in [Slots -> Message]
  BY MailboxAssumption DEF TypeOK, CAP
<1>2. m \in Message
  BY MailboxAssumption DEF Message, mailbox_send, TypeOK
<1>3. Slot(count) = At(mb_head, count) /\ At(mb_head, count) \in Slots
  BY <1>1, AtFacts DEF Slot, At, CAP
<1>4. mb_ring' = [mb_ring EXCEPT ![At(mb_head, count)] = m] /\ mb_ring' \in [Slots -> Message]
  BY <1>1, <1>2, <1>3 DEF mailbox_send
<1>5. H \in Seq(Message) /\ Len(H) = count /\ \A i \in 1 .. count : H[i] = mb_ring[At(mb_head, i - 1)]
  BY <1>1, HeldSeq
<1>6. CASE count < CAP
  <2>1. count' = count + 1 /\ mb_head' = mb_head /\ count + 1 \in 0 .. CAP
    BY <1>1, <1>6 DEF mailbox_send, CAP
  <2>2. /\ G \in Seq(Message) /\ Len(G) = count + 1
        /\ \A i \in 1 .. count + 1 : G[i] = mb_ring'[At(mb_head, i - 1)]
    <3>1. mb_ring' \in [Slots -> Message] /\ mb_head' \in Slots /\ count' \in 0 .. CAP
      BY <1>1, <1>4, <2>1
    <3>2. /\ G \in Seq(Message) /\ Len(G) = count'
          /\ \A i \in 1 .. count' : G[i] = mb_ring'[At(mb_head', i - 1)]
      BY <3>1, HeldSeq
    <3>. QED  BY <2>1, <3>2
  <2>3. /\ Append(H, m) \in Seq(Message) /\ Len(Append(H, m)) = count + 1
        /\ \A i \in 1 .. count : Append(H, m)[i] = H[i]
        /\ Append(H, m)[count + 1] = m
    BY <1>2, <1>5, AppendProperties
  <2>4. \A i \in 1 .. count + 1 : G[i] = Append(H, m)[i]
    <3>. TAKE i \in 1 .. count + 1
    <3>1. CASE i = count + 1
      <4>1. i - 1 = count
        BY <1>1, <3>1
      <4>. QED  BY <1>1, <1>3, <1>4, <2>2, <2>3, <3>1, <4>1
    <3>2. CASE i # count + 1
      <4>1. i \in 1 .. count /\ i - 1 \in 0 .. CAP - 1 /\ count \in 0 .. CAP - 1 /\ i - 1 # count
        BY <1>1, <1>6, <3>2
      <4>2. At(mb_head, i - 1) # At(mb_head, count) /\ i - 1 \in 0 .. CAP
        BY <1>1, <4>1, AtInjective
      <4>3. At(mb_head, i - 1) \in Slots
        BY <1>1, <4>2, AtFacts
      <4>4. mb_ring'[At(mb_head, i - 1)] = mb_ring[At(mb_head, i - 1)]
        BY <1>1, <1>4, <4>2, <4>3
      <4>. QED  BY <1>5, <2>2, <2>3, <4>1, <4>4
    <3>. QED  BY <3>1, <3>2
  <2>5. G = Append(H, m)
    BY <2>2, <2>3, <2>4, SeqEqual
  <2>6. TypeOK'
    BY MailboxAssumption, <1>1, <1>4, <2>1 DEF TypeOK, mailbox_send, CAP
  <2>7. Held' = Append(Held, m) /\ Len(Held) < MAILBOX_CAP
    BY <1>5, <1>6, <2>5, HeldIs DEF CAP
  <2>. QED  BY <2>6, <2>7 DEF Q!Put, mailbox_send
<1>7. CASE ~(count < CAP)
  <2>1. count = CAP /\ count' = count /\ mb_head' = (mb_head + 1) % CAP
    BY <1>1, <1>7 DEF mailbox_send, CAP
  <2>2. mb_head' \in Slots /\ At(mb_head, CAP) = mb_head /\ At(mb_head, 0) = mb_head
    <3>1. 0 \in 0 .. CAP /\ 1 \in 0 .. CAP /\ CAP \in 0 .. CAP
      BY <1>1
    <3>2. At(mb_head, 1) \in Slots /\ mb_head' = At(mb_head, 1)
      BY <1>1, <2>1, <3>1, AtFacts DEF At
    <3>3. mb_head \in 0 .. CAP - 1
      BY <1>1 DEF Slots, CAP
    <3>. QED  BY <1>1, <3>1, <3>2, <3>3, AtFacts
  <2>3. /\ G \in Seq(Message) /\ Len(G) = CAP
        /\ \A i \in 1 .. CAP : G[i] = mb_ring'[At(mb_head', i - 1)]
    <3>1. mb_ring' \in [Slots -> Message] /\ mb_head' \in Slots /\ count' \in 0 .. CAP
      BY <1>1, <1>4, <2>1, <2>2
    <3>2. /\ G \in Seq(Message) /\ Len(G) = count'
          /\ \A i \in 1 .. count' : G[i] = mb_ring'[At(mb_head', i - 1)]
      BY <3>1, HeldSeq
    <3>. QED  BY <2>1, <3>2
  <2>4. /\ H # << >> /\ Tail(H) \in Seq(Message) /\ Len(Tail(H)) = CAP - 1
        /\ \A i \in 1 .. CAP - 1 : Tail(H)[i] = H[i + 1]
    <3>1. H # << >>
      BY <1>1, <1>5, <2>1, EmptySeq
    <3>. QED  BY <1>1, <1>5, <2>1, <3>1, HeadTailProperties
  <2>5. /\ Append(Tail(H), m) \in Seq(Message) /\ Len(Append(Tail(H), m)) = CAP
        /\ \A i \in 1 .. CAP - 1 : Append(Tail(H), m)[i] = Tail(H)[i]
        /\ Append(Tail(H), m)[CAP] = m
    <3>1. /\ Append(Tail(H), m) \in Seq(Message)
          /\ Len(Append(Tail(H), m)) = CAP - 1 + 1
          /\ \A i \in 1 .. CAP - 1 : Append(Tail(H), m)[i] = Tail(H)[i]
          /\ Append(Tail(H), m)[CAP - 1 + 1] = m
      BY <1>2, <2>4, AppendProperties
    <3>2. CAP - 1 + 1 = CAP
      BY <1>1
    <3>. QED  BY <3>1, <3>2
  <2>6. \A i \in 1 .. CAP : G[i] = Append(Tail(H), m)[i]
    <3>. TAKE i \in 1 .. CAP
    <3>1. i - 1 \in 0 .. CAP - 1 /\ i - 1 + 1 = i
      BY <1>1
    <3>2. At(mb_head', i - 1) = At(mb_head, i)
      BY <1>1, <2>1, <3>1, AtNext
    <3>3. CASE i = CAP
      <4>1. At(mb_head, i) = At(mb_head, count)
        BY <2>1, <3>3
      <4>. QED  BY <1>1, <1>3, <1>4, <2>3, <2>5, <3>2, <3>3, <4>1
    <3>4. CASE i # CAP
      <4>1. i \in 1 .. CAP - 1 /\ i \in 0 .. CAP - 1 /\ 0 \in 0 .. CAP - 1 /\ i # 0 /\ i \in 0 .. CAP
        BY <1>1, <3>4
      <4>2. At(mb_head, i) # At(mb_head, 0)
        BY <1>1, <4>1, AtInjective
      <4>3. At(mb_head, i) # At(mb_head, count) /\ At(mb_head, i) \in Slots
        BY <1>1, <2>1, <2>2, <4>1, <4>2, AtFacts
      <4>4. mb_ring'[At(mb_head, i)] = mb_ring[At(mb_head, i)]
        BY <1>1, <1>4, <4>3
      <4>5. H[i + 1] = mb_ring[At(mb_head, i)]
        <5>1. i + 1 \in 1 .. count /\ i + 1 - 1 = i
          BY <1>1, <2>1, <4>1
        <5>. QED  BY <1>5, <5>1
      <4>. QED  BY <2>3, <2>4, <2>5, <3>2, <4>1, <4>4, <4>5
    <3>. QED  BY <3>3, <3>4
  <2>7. G = Append(Tail(H), m)
    BY <2>3, <2>5, <2>6, SeqEqual
  <2>8. TypeOK'
    BY MailboxAssumption, <1>1, <1>4, <2>1, <2>2 DEF TypeOK, mailbox_send, CAP
  <2>9. Held' = Append(Tail(Held), m) /\ ~(Len(Held) < MAILBOX_CAP)
    BY <1>1, <1>5, <1>7, <2>7, HeldIs DEF CAP
  <2>. QED  BY <2>8, <2>9 DEF Q!Put, mailbox_send
<1>. QED  BY <1>6, <1>7

(* mailbox_try_recv takes the head.                                         *)
LEMMA RecvStep ==
  ASSUME TypeOK, NEW a \in Agents, mailbox_try_recv(a)
  PROVE  TypeOK' /\ Q!TakeOldest(a)
<1>. DEFINE H == HeldOf(mb_ring, mb_head, count)
            G == HeldOf(mb_ring', mb_head', count')
<1>1. /\ CAP \in Nat \ {0} /\ mb_head \in Slots /\ count \in 1 .. CAP
      /\ mb_ring \in [Slots -> Message] /\ mb_ring' = mb_ring
      /\ mb_head' = (mb_head + 1) % CAP /\ count' = count - 1
  BY MailboxAssumption DEF TypeOK, CAP, mailbox_try_recv
<1>2. mb_head' \in Slots /\ At(mb_head, 0) = mb_head
  <2>1. 0 \in 0 .. CAP /\ 1 \in 0 .. CAP /\ mb_head \in 0 .. CAP - 1
    BY <1>1 DEF Slots, CAP
  <2>2. At(mb_head, 1) \in Slots /\ mb_head' = At(mb_head, 1)
    BY <1>1, <2>1, AtFacts DEF At
  <2>. QED  BY <1>1, <2>1, <2>2, AtFacts
<1>3. H \in Seq(Message) /\ Len(H) = count /\ \A i \in 1 .. count : H[i] = mb_ring[At(mb_head, i - 1)]
  <2>1. count \in 0 .. CAP
    BY <1>1
  <2>. QED  BY <1>1, <2>1, HeldSeq
<1>4. /\ G \in Seq(Message) /\ Len(G) = count - 1
      /\ \A i \in 1 .. count - 1 : G[i] = mb_ring[At(mb_head', i - 1)]
  <2>1. mb_ring' \in [Slots -> Message] /\ mb_head' \in Slots /\ count' \in 0 .. CAP
    BY <1>1, <1>2
  <2>2. /\ G \in Seq(Message) /\ Len(G) = count'
        /\ \A i \in 1 .. count' : G[i] = mb_ring'[At(mb_head', i - 1)]
    BY <2>1, HeldSeq
  <2>. QED  BY <1>1, <2>2
<1>5. /\ H # << >> /\ Tail(H) \in Seq(Message) /\ Len(Tail(H)) = count - 1
      /\ \A i \in 1 .. count - 1 : Tail(H)[i] = H[i + 1]
  <2>1. H # << >>
    BY <1>1, <1>3, EmptySeq
  <2>. QED  BY <1>1, <1>3, <2>1, HeadTailProperties
<1>6. \A i \in 1 .. count - 1 : G[i] = Tail(H)[i]
  <2>. TAKE i \in 1 .. count - 1
  <2>1. i - 1 \in 0 .. CAP - 1 /\ i - 1 + 1 = i /\ i + 1 \in 1 .. count /\ i + 1 - 1 = i
    BY <1>1
  <2>2. At(mb_head', i - 1) = At(mb_head, i)
    BY <1>1, <2>1, AtNext
  <2>3. H[i + 1] = mb_ring[At(mb_head, i)]
    BY <1>3, <2>1
  <2>. QED  BY <1>4, <1>5, <2>2, <2>3
<1>7. G = Tail(H)
  BY <1>4, <1>5, <1>6, SeqEqual
<1>8. Head(H) = mb_ring[mb_head]
  <2>1. 1 \in 1 .. count /\ 1 - 1 = 0
    BY <1>1
  <2>2. H[1] = mb_ring[mb_head]
    BY <1>2, <1>3, <2>1
  <2>. QED  BY <1>3, <2>2
<1>9. <<mb_ring[mb_head]>> \in {<<m>> : m \in Message}
  BY <1>1
<1>10. TypeOK'
  <2>1. out' \in [Agents -> {<< >>} \cup {<<m>> : m \in Message}]
    BY <1>9 DEF TypeOK, mailbox_try_recv
  <2>. QED  BY <1>1, <1>2, <2>1 DEF TypeOK, mailbox_try_recv, CAP
<1>. QED  BY <1>5, <1>7, <1>8, <1>10, HeldIs DEF Q!TakeOldest, mailbox_try_recv

(* A sequence without its element p.                                        *)
LEMMA RemoveNthFacts ==
  ASSUME NEW S, NEW s \in Seq(S), NEW p \in 1 .. Len(s)
  PROVE  /\ Q!RemoveNth(s, p) \in Seq(S) /\ Len(Q!RemoveNth(s, p)) = Len(s) - 1
         /\ \A i \in 1 .. Len(s) - 1 :
              Q!RemoveNth(s, p)[i] = IF i < p THEN s[i] ELSE s[i + 1]
<1>. DEFINE n == Len(s)  L == SubSeq(s, 1, p - 1)  R == SubSeq(s, p + 1, n)
<1>1. n \in Nat /\ p \in 1 .. n /\ \A i \in 1 .. n : s[i] \in S
  BY LenProperties, ElementOfSeq
<1>2. L \in Seq(S) /\ Len(L) = p - 1 /\ \A i \in 1 .. p - 1 : L[i] = s[i]
  <2>1. 1 \in Int /\ p - 1 \in Int /\ \A i \in 1 .. p - 1 : s[i] \in S
    BY <1>1
  <2>2. /\ L \in Seq(S) /\ Len(L) = IF 1 <= p - 1 THEN p - 1 - 1 + 1 ELSE 0
        /\ \A i \in 1 .. p - 1 - 1 + 1 : L[i] = s[1 + i - 1]
    BY <2>1, SubSeqProperties
  <2>3. p - 1 - 1 + 1 = p - 1 /\ \A i \in 1 .. p - 1 : 1 + i - 1 = i
    BY <1>1
  <2>. QED  BY <1>1, <2>2, <2>3
<1>3. R \in Seq(S) /\ Len(R) = n - p /\ \A i \in 1 .. n - p : R[i] = s[p + i]
  <2>1. p + 1 \in Int /\ n \in Int /\ \A i \in p + 1 .. n : s[i] \in S
    BY <1>1
  <2>2. /\ R \in Seq(S) /\ Len(R) = IF p + 1 <= n THEN n - (p + 1) + 1 ELSE 0
        /\ \A i \in 1 .. n - (p + 1) + 1 : R[i] = s[p + 1 + i - 1]
    BY <2>1, SubSeqProperties
  <2>. HIDE DEF R, n
  <2>3. n - (p + 1) + 1 = n - p /\ \A i \in 1 .. n - p : p + 1 + i - 1 = p + i
    BY <1>1
  <2>4. Len(R) = n - p
    BY <1>1, <2>2
  <2>5. \A i \in 1 .. n - p : R[i] = s[p + i]
    BY <2>2, <2>3
  <2>. QED  BY <2>2, <2>4, <2>5
<1>4. /\ L \o R \in Seq(S) /\ Len(L \o R) = p - 1 + (n - p)
      /\ \A i \in 1 .. p - 1 + (n - p) : (L \o R)[i] = IF i <= p - 1 THEN L[i] ELSE R[i - (p - 1)]
  <2>. HIDE DEF L, R, n
  <2>1. /\ L \o R \in Seq(S) /\ Len(L \o R) = Len(L) + Len(R)
        /\ \A i \in 1 .. Len(L) + Len(R) : (L \o R)[i] = IF i <= Len(L) THEN L[i] ELSE R[i - Len(L)]
    BY <1>2, <1>3, ConcatProperties
  <2>. QED  BY <1>2, <1>3, <2>1
<1>5. p - 1 + (n - p) = n - 1
  BY <1>1
<1>6. \A i \in 1 .. n - 1 : (L \o R)[i] = IF i < p THEN s[i] ELSE s[i + 1]
  <2>. TAKE i \in 1 .. n - 1
  <2>1. CASE i < p
    <3>1. i <= p - 1 /\ i \in 1 .. p - 1
      BY <1>1, <2>1
    <3>. QED  BY <1>2, <1>4, <1>5, <2>1, <3>1
  <2>2. CASE ~(i < p)
    <3>1. ~(i <= p - 1) /\ i - (p - 1) \in 1 .. n - p /\ p + (i - (p - 1)) = i + 1
      BY <1>1, <2>2
    <3>. QED  BY <1>3, <1>4, <1>5, <2>2, <3>1
  <2>. QED  BY <2>1, <2>2
<1>. QED  BY <1>4, <1>5, <1>6 DEF Q!RemoveNth

(* mailbox_try_recv_for takes the first message meant for the agent and     *)
(* closes the gap.                                                          *)
LEMMA RecvForStep ==
  ASSUME TypeOK, NEW a \in Agents, mailbox_try_recv_for(a)
  PROVE  TypeOK' /\ Q!TakeMeant(a)
<1>1. PICK f \in 0 .. count - 1 :
        /\ For(f, a) /\ \A j \in 0 .. f - 1 : ~For(j, a)
        /\ out' = [out EXCEPT ![a] = <<mb_ring[Slot(f)]>>]
        /\ mb_ring' = CloseGap(f)
        /\ count' = count - 1
        /\ mb_head' = mb_head /\ sent' = sent
  BY DEF mailbox_try_recv_for
<1>. DEFINE H == HeldOf(mb_ring, mb_head, count)
            G == HeldOf(mb_ring', mb_head', count')
<1>2. /\ CAP \in Nat \ {0} /\ mb_head \in Slots /\ count \in 1 .. CAP /\ count \in 0 .. CAP
      /\ f \in 0 .. CAP - 1 /\ f + 1 \in 1 .. count
      /\ mb_ring \in [Slots -> Message]
  BY <1>1, MailboxAssumption DEF TypeOK, CAP
<1>3. H \in Seq(Message) /\ Len(H) = count /\ \A i \in 1 .. count : H[i] = mb_ring[At(mb_head, i - 1)]
  BY <1>2, HeldSeq
<1>4. \A k : Slot(k) = At(mb_head, k)
  BY DEF Slot, At, CAP
<1>5. mb_ring' \in [Slots -> Message]
  <2>1. \A s \in Slots : (s + 1) % CAP \in Slots
    <3>. TAKE s \in Slots
    <3>1. 1 \in 0 .. CAP
      BY <1>2
    <3>2. At(s, 1) \in Slots
      BY <3>1, AtFacts
    <3>. QED  BY <3>2 DEF At
  <2>. QED  BY <1>1, <1>2, <2>1 DEF CloseGap, CAP
<1>6. /\ G \in Seq(Message) /\ Len(G) = count - 1
      /\ \A i \in 1 .. count - 1 : G[i] = mb_ring'[At(mb_head, i - 1)]
  <2>1. mb_ring' \in [Slots -> Message] /\ mb_head' \in Slots /\ count' \in 0 .. CAP
    BY <1>1, <1>2, <1>5
  <2>2. /\ G \in Seq(Message) /\ Len(G) = count'
        /\ \A i \in 1 .. count' : G[i] = mb_ring'[At(mb_head', i - 1)]
    BY <2>1, HeldSeq
  <2>. QED  BY <1>1, <2>2
<1>7. /\ Q!RemoveNth(H, f + 1) \in Seq(Message) /\ Len(Q!RemoveNth(H, f + 1)) = count - 1
      /\ \A i \in 1 .. count - 1 :
           Q!RemoveNth(H, f + 1)[i] = IF i < f + 1 THEN H[i] ELSE H[i + 1]
  <2>. HIDE DEF H
  <2>. QED  BY <1>2, <1>3, RemoveNthFacts
<1>8. \A i \in 1 .. count - 1 : G[i] = Q!RemoveNth(H, f + 1)[i]
  <2>. TAKE i \in 1 .. count - 1
  <2>. DEFINE s == At(mb_head, i - 1)
  <2>1. /\ i - 1 \in 0 .. CAP - 1 /\ i - 1 \in 0 .. CAP /\ i - 1 + 1 = i /\ i \in 1 .. count
        /\ i + 1 \in 1 .. count /\ i + 1 - 1 = i
    BY <1>2
  <2>2. s \in Slots
    BY <1>2, <2>1, AtFacts
  <2>3. mb_ring'[s] = IF \E k \in f .. count - 2 : s = At(mb_head, k)
                   THEN mb_ring[(s + 1) % CAP] ELSE mb_ring[s]
    BY <1>1, <1>4, <2>2 DEF CloseGap, CAP
  <2>4. CASE i < f + 1
    <3>1. ~\E k \in f .. count - 2 : s = At(mb_head, k)
      <4>. SUFFICES ASSUME NEW k \in f .. count - 2, s = At(mb_head, k) PROVE FALSE
        OBVIOUS
      <4>1. k \in 0 .. CAP - 1 /\ k # i - 1
        BY <1>1, <1>2, <2>4
      <4>. QED  BY <1>2, <2>1, <4>1, AtInjective
    <3>2. mb_ring'[s] = mb_ring[s]
      BY <2>3, <3>1
    <3>. QED  BY <1>3, <1>6, <1>7, <2>1, <2>4, <3>2
  <2>5. CASE ~(i < f + 1)
    <3>1. i - 1 \in f .. count - 2
      BY <1>1, <1>2, <2>5
    <3>2. mb_ring'[s] = mb_ring[(s + 1) % CAP]
      BY <2>3, <3>1
    <3>3. (s + 1) % CAP = At(mb_head, i)
      BY <1>2, <2>1, AtNext
    <3>4. H[i + 1] = mb_ring[At(mb_head, i)]
      BY <1>3, <2>1
    <3>. QED  BY <1>6, <1>7, <2>5, <3>2, <3>3, <3>4
  <2>. QED  BY <2>4, <2>5
<1>9. G = Q!RemoveNth(H, f + 1)
  BY <1>6, <1>7, <1>8, SeqEqual
<1>10. H[f + 1] = mb_ring[Slot(f)] /\ mb_ring[Slot(f)] \in Message
  <2>1. f + 1 - 1 = f /\ f \in 0 .. CAP
    BY <1>2
  <2>. QED  BY <1>2, <1>3, <1>4, <2>1, AtFacts
<1>11. Q!Meant(H[f + 1], a)
  BY <1>1, <1>10 DEF For, Q!Meant
<1>12. \A j \in 1 .. f + 1 - 1 : ~Q!Meant(H[j], a)
  <2>. TAKE j \in 1 .. f + 1 - 1
  <2>1. j - 1 \in 0 .. f - 1 /\ j \in 1 .. count
    BY <1>2
  <2>2. H[j] = mb_ring[Slot(j - 1)]
    BY <1>3, <1>4, <2>1
  <2>. QED  BY <1>1, <2>1, <2>2 DEF For, Q!Meant
<1>13. TypeOK'
  <2>1. out' \in [Agents -> {<< >>} \cup {<<m>> : m \in Message}]
    BY <1>1, <1>10 DEF TypeOK
  <2>. QED  BY <1>1, <1>2, <1>5, <2>1 DEF TypeOK, CAP
<1>14. /\ f + 1 \in 1 .. Len(Held) /\ Q!Meant(Held[f + 1], a)
       /\ \A j \in 1 .. f + 1 - 1 : ~Q!Meant(Held[j], a)
       /\ Held' = Q!RemoveNth(Held, f + 1)
       /\ out' = [out EXCEPT ![a] = <<Held[f + 1]>>]
  BY <1>1, <1>2, <1>3, <1>9, <1>10, <1>11, <1>12, HeldIs
<1>15. PICK i \in 1 .. Len(Held) : i = f + 1
  BY <1>14
<1>16. Q!TakeMeant(a)
  <2>1. /\ Q!Meant(Held[i], a) /\ \A j \in 1 .. i - 1 : ~Q!Meant(Held[j], a)
        /\ Held' = Q!RemoveNth(Held, i) /\ out' = [out EXCEPT ![a] = <<Held[i]>>]
    BY <1>14, <1>15
  <2>. QED  BY <2>1, Zenon DEF Q!TakeMeant
<1>. QED  BY <1>13, <1>16

-----------------------------------------------------------------------------
LEMMA InitTyped == mailbox_init => TypeOK /\ Q!QInit
<1>. SUFFICES ASSUME mailbox_init PROVE TypeOK /\ Q!QInit
  OBVIOUS
<1>1. Blank \in Message
  BY MailboxAssumption DEF Blank, Message
<1>2. TypeOK
  BY <1>1, MailboxAssumption DEF mailbox_init, TypeOK, Slots
<1>3. HeldOf(mb_ring, mb_head, count) = << >>
  <2>1. /\ HeldOf(mb_ring, mb_head, count) \in Seq(Message)
        /\ Len(HeldOf(mb_ring, mb_head, count)) = count
    BY <1>2, HeldSeq DEF TypeOK, CAP
  <2>. QED  BY <2>1, EmptySeq DEF mailbox_init
<1>. QED  BY <1>2, <1>3, HeldIs DEF Q!QInit, mailbox_init

LEMMA StepTyped == TypeOK /\ [Next]_vars => TypeOK' /\ [Q!QNext(Message)]_(Q!qvars)
<1>. SUFFICES ASSUME TypeOK, [Next]_vars PROVE TypeOK' /\ [Q!QNext(Message)]_(Q!qvars)
  OBVIOUS
<1>1. ASSUME NEW to \in Agents \cup {MAILBOX_TO_ANY}, mailbox_send(to)
      PROVE  TypeOK' /\ Q!QNext(Message)
  <2>1. [to |-> to, n |-> sent + 1] \in Message
    BY <1>1, MailboxAssumption DEF TypeOK, Message, mailbox_send
  <2>. QED  BY <1>1, <2>1, SendStep DEF Q!QNext
<1>2. ASSUME NEW a \in Agents, mailbox_try_recv(a) \/ mailbox_try_recv_for(a)
      PROVE  TypeOK' /\ Q!QNext(Message)
  BY <1>2, RecvStep, RecvForStep DEF Q!QNext
<1>3. CASE UNCHANGED vars
  BY <1>3 DEF vars, TypeOK, Q!qvars, Held, Slot
<1>. QED  BY <1>1, <1>2, <1>3 DEF Next, mailbox_broadcast

(* Head, count, slots and received messages keep their types whatever the   *)
(* agents send and receive.                                                 *)
THEOREM TypeCorrect == Spec => []TypeOK
  BY InitTyped, StepTyped, PTL DEF Spec

(* For every capacity, the wrapping ring of mailbox_send,                   *)
(* mailbox_try_recv and mailbox_try_recv_for is the queue that loses only   *)
(* its oldest message and only when full.                                   *)
THEOREM MailboxIsQueue == Spec => ImplementsQueue
  BY InitTyped, StepTyped, PTL DEF Spec, ImplementsQueue

-----------------------------------------------------------------------------
(* The event log.                                                           *)
LogCap == EVENTLOG_CAPACITY
LogAt(h, i) == (h + i) % LogCap

(* Places of the ring, counted from its head, and from the middle of it.    *)
LEMMA LogAtFacts ==
  ASSUME NEW h \in Indices, NEW i \in 0 .. LogCap
  PROVE  /\ LogAt(h, i) = IF h + i < LogCap THEN h + i ELSE h + i - LogCap
         /\ LogAt(h, i) \in Indices
<1>1. LogCap \in Nat \ {0} /\ h \in Nat /\ i \in Nat /\ h + i < 2 * LogCap
  BY EventLogAssumption DEF LogCap, Indices
<1>2. (h + i) % LogCap = IF h + i < LogCap THEN h + i ELSE h + i - LogCap
  BY <1>1, WrapSum
<1>. QED  BY <1>1, <1>2 DEF LogAt, Indices, LogCap

(* The records the ring holds are the last g_count appends, in order.       *)
LogInv ==
  /\ g_head \in Indices /\ g_seq \in Nat
  /\ g_count = IF g_seq < LogCap THEN g_seq ELSE LogCap
  /\ g_ring \in [Indices -> [seq : Nat, agent_id : Agents \cup {Nobody}]]
  /\ trace \in Seq(Agents) /\ Len(trace) = g_seq
  /\ \A i \in 0 .. g_count - 1 :
       g_ring[LogAt(g_head, i)] = [seq |-> g_seq - g_count + i + 1,
                                   agent_id |-> trace[g_seq - g_count + i + 1]]

LEMMA LogInitInv == eventlog_init => LogInv
<1>. SUFFICES ASSUME eventlog_init PROVE LogInv
  OBVIOUS
<1>1. LogCap \in Nat \ {0}
  BY EventLogAssumption DEF LogCap
<1>. QED  BY <1>1 DEF eventlog_init, LogInv, Indices, LogCap

LEMMA AppendInv == ASSUME LogInv, NEW a \in Agents, eventlog_append(a) PROVE LogInv'
<1>. DEFINE r == [seq |-> g_seq + 1, agent_id |-> a]
            q == LogAt(g_head, g_count)
<1>1. /\ LogCap \in Nat \ {0} /\ g_count \in 0 .. LogCap /\ Indices = 0 .. LogCap - 1
      /\ g_head \in 0 .. LogCap - 1 /\ g_seq \in Nat
      /\ g_count = IF g_seq < LogCap THEN g_seq ELSE LogCap
  BY EventLogAssumption DEF LogCap, Indices, LogInv
<1>2. q \in Indices /\ q = IF g_head + g_count < LogCap THEN g_head + g_count
                                                        ELSE g_head + g_count - LogCap
  BY <1>1, LogAtFacts
<1>3. g_ring' = [g_ring EXCEPT ![q] = r] /\ g_seq' = g_seq + 1 /\ trace' = Append(trace, a)
  BY DEF eventlog_append, LogAt, LogCap
<1>4. r \in [seq : Nat, agent_id : Agents \cup {Nobody}]
  BY <1>1
<1>5. /\ trace' \in Seq(Agents) /\ Len(trace') = g_seq'
      /\ trace'[g_seq'] = a /\ \A k \in 1 .. g_seq : trace'[k] = trace[k]
  BY <1>3 DEF LogInv
<1>. HIDE DEF q, r
<1>6. g_ring' \in [Indices -> [seq : Nat, agent_id : Agents \cup {Nobody}]]
  BY <1>2, <1>3, <1>4 DEF LogInv
<1>7. \A k \in Indices : g_ring'[k] = IF k = q THEN r ELSE g_ring[k]
  BY <1>2, <1>3 DEF LogInv
<1>8. \A i \in 0 .. LogCap : LogAt(g_head, i) = (IF g_head + i < LogCap THEN g_head + i
                                                                     ELSE g_head + i - LogCap)
                            /\ LogAt(g_head, i) \in Indices
  BY <1>1, LogAtFacts
<1>9. CASE g_count < LogCap
  <2>1. g_count' = g_count + 1 /\ g_head' = g_head /\ g_seq < LogCap
    BY <1>1, <1>9 DEF eventlog_append, LogCap
  <2>2. g_count' = (IF g_seq' < LogCap THEN g_seq' ELSE LogCap) /\ g_count = g_seq
    BY <1>1, <1>3, <2>1
  <2>3. ASSUME NEW i \in 0 .. g_count' - 1
        PROVE  g_ring'[LogAt(g_head', i)] = [seq |-> g_seq' - g_count' + i + 1,
                                             agent_id |-> trace'[g_seq' - g_count' + i + 1]]
    <3>1. CASE i = g_count
      <4>1. g_ring'[LogAt(g_head', i)] = r
        BY <1>2, <1>7, <2>1, <3>1 DEF q
      <4>2. g_seq' - g_count' + i + 1 = g_seq + 1
        BY <1>3, <2>1, <2>2, <3>1
      <4>. QED  BY <1>3, <1>5, <4>1, <4>2 DEF r
    <3>2. CASE i # g_count
      <4>1. i \in 0 .. g_count - 1 /\ i \in 0 .. LogCap
        BY <1>1, <2>1, <3>2
      <4>2. LogAt(g_head, i) # q /\ LogAt(g_head, i) \in Indices
        <5>1. LogAt(g_head, i) \in Indices
              /\ LogAt(g_head, i) = IF g_head + i < LogCap THEN g_head + i ELSE g_head + i - LogCap
          BY <1>8, <4>1
        <5>. QED  BY <1>1, <1>2, <1>9, <4>1, <5>1
      <4>3. g_ring'[LogAt(g_head', i)] = g_ring[LogAt(g_head, i)]
        BY <1>7, <2>1, <4>2
      <4>4. g_seq' - g_count' + i + 1 = g_seq - g_count + i + 1 /\ g_seq - g_count + i + 1 \in 1 .. g_seq
        BY <1>1, <1>3, <2>1, <2>2, <4>1
      <4>. QED  BY <1>5, <4>1, <4>3, <4>4 DEF LogInv
    <3>. QED  BY <3>1, <3>2
  <2>4. g_head' \in Indices /\ g_seq' \in Nat
    BY <1>1, <1>3, <2>1
  <2>. QED  BY <1>5, <1>6, <2>2, <2>3, <2>4 DEF LogInv
<1>10. CASE ~(g_count < LogCap)
  <2>1. g_count' = g_count /\ g_head' = LogAt(g_head, 1) /\ g_count = LogCap /\ ~(g_seq < LogCap)
    BY <1>1, <1>10 DEF eventlog_append, LogCap, LogAt
  <2>2. g_head' \in Indices /\ q = g_head
    BY <1>1, <1>2, <1>8, <2>1
  <2>4. g_head' = IF g_head + 1 < LogCap THEN g_head + 1 ELSE 0
    <3>1. LogAt(g_head, 1) = IF g_head + 1 < LogCap THEN g_head + 1 ELSE g_head + 1 - LogCap
      BY <1>1, <1>8
    <3>. QED  BY <1>1, <2>1, <3>1
  <2>3. ASSUME NEW i \in 0 .. g_count' - 1
        PROVE  g_ring'[LogAt(g_head', i)] = [seq |-> g_seq' - g_count' + i + 1,
                                             agent_id |-> trace'[g_seq' - g_count' + i + 1]]
    <3>0. LogAt(g_head', i) = (IF g_head' + i < LogCap THEN g_head' + i ELSE g_head' + i - LogCap)
          /\ LogAt(g_head', i) \in Indices
      <4>1. i \in 0 .. LogCap
        BY <1>1, <2>1
      <4>2. PICK h \in Indices : h = g_head'
        BY <2>2
      <4>3. LogAt(h, i) = (IF h + i < LogCap THEN h + i ELSE h + i - LogCap)
            /\ LogAt(h, i) \in Indices
        BY <4>1, <4>2, LogAtFacts
      <4>. QED  BY <4>2, <4>3
    <3>1. CASE i = LogCap - 1
      <4>1. LogAt(g_head', i) = q
        BY <1>1, <2>1, <2>2, <2>4, <3>0, <3>1
      <4>2. g_seq' - g_count' + i + 1 = g_seq + 1
        BY <1>1, <1>3, <2>1, <3>1
      <4>. QED  BY <1>2, <1>3, <1>5, <1>7, <4>1, <4>2 DEF r
    <3>2. CASE i # LogCap - 1
      <4>1. i + 1 \in 0 .. g_count - 1 /\ i + 1 \in 0 .. LogCap
        BY <1>1, <2>1, <3>2
      <4>2. LogAt(g_head', i) = LogAt(g_head, i + 1) /\ LogAt(g_head, i + 1) # q
        <5>1. LogAt(g_head, i + 1) = IF g_head + (i + 1) < LogCap THEN g_head + (i + 1)
                                                                  ELSE g_head + (i + 1) - LogCap
          BY <1>8, <4>1
        <5>. QED  BY <1>1, <2>1, <2>2, <2>4, <3>0, <4>1, <5>1
      <4>3. g_ring'[LogAt(g_head', i)] = g_ring[LogAt(g_head, i + 1)]
        BY <1>7, <3>0, <4>2
      <4>4. g_seq' - g_count' + i + 1 = g_seq - g_count + (i + 1) + 1
            /\ g_seq - g_count + (i + 1) + 1 \in 1 .. g_seq
        BY <1>1, <1>3, <2>1, <4>1
      <4>. QED  BY <1>5, <4>1, <4>3, <4>4 DEF LogInv
    <3>. QED  BY <3>1, <3>2
  <2>5. g_seq' \in Nat /\ g_count' = IF g_seq' < LogCap THEN g_seq' ELSE LogCap
    BY <1>1, <1>3, <2>1
  <2>. QED  BY <1>5, <1>6, <2>2, <2>3, <2>5 DEF LogInv
<1>. QED  BY <1>1, <1>9, <1>10

(* For every capacity, set of agents and buffer size, a snapshot is the     *)
(* newest records in order, each with its writer.                           *)
THEOREM SnapshotsAreTails == LogSpec => []SnapshotIsTail
<1>1. LogInv => SnapshotIsTail
  <2>. SUFFICES ASSUME LogInv, NEW max \in 1 .. EVENTLOG_CAPACITY + 1,
                       NEW s, s = eventlog_snapshot(max), NEW n, n = Len(s)
                PROVE  /\ \A i \in 1 .. n : s[i] = [seq |-> g_seq - n + i,
                                                   agent_id |-> trace[g_seq - n + i]]
                       /\ n < max => n = g_seq \/ n = EVENTLOG_CAPACITY
    BY DEF SnapshotIsTail
  <2>. USE DEF LogInv
  <2>1. LogCap \in Nat \ {0} /\ g_count \in 0 .. LogCap /\ Indices = 0 .. LogCap - 1
    BY EventLogAssumption DEF LogCap, Indices
  <2>. DEFINE k == IF g_count < max THEN g_count ELSE max
              start == LogAt(g_head, g_count - k)
  <2>2. k \in 0 .. g_count /\ g_count - k \in 0 .. LogCap
    BY <2>1 DEF LogCap
  <2>3. s = [i \in 1 .. k |-> g_ring[(start + i - 1) % LogCap]]
    <3>1. g_head + g_count - k = g_head + (g_count - k)
      BY <2>1, <2>2 DEF LogCap
    <3>. QED  BY <3>1 DEF eventlog_snapshot, LogCap, LogAt
  <2>4. start \in Indices /\ start = IF g_head + (g_count - k) < LogCap
                                      THEN g_head + (g_count - k) ELSE g_head + (g_count - k) - LogCap
    BY <2>2, LogAtFacts
  <2>5. k < max => k = g_seq \/ k = EVENTLOG_CAPACITY
    BY <2>1 DEF LogCap
  <2>. HIDE DEF k, start
  <2>6. n = k
    BY <2>2, <2>3
  <2>7. ASSUME NEW i \in 1 .. n
        PROVE  s[i] = [seq |-> g_seq - n + i, agent_id |-> trace[g_seq - n + i]]
    <3>. DEFINE j == g_count - k + (i - 1)
    <3>1. j \in 0 .. g_count - 1 /\ j \in 0 .. LogCap /\ i - 1 \in 0 .. LogCap
          /\ start + i - 1 = start + (i - 1) /\ g_seq - g_count + j + 1 = g_seq - n + i
      BY <2>1, <2>2, <2>4, <2>6
    <3>2. LogAt(start, i - 1) = LogAt(g_head, j)
      <4>1. LogAt(start, i - 1) = IF start + (i - 1) < LogCap THEN start + (i - 1)
                                                             ELSE start + (i - 1) - LogCap
        BY <2>4, <3>1, LogAtFacts
      <4>2. LogAt(g_head, j) = IF g_head + j < LogCap THEN g_head + j ELSE g_head + j - LogCap
        <5>. HIDE DEF j
        <5>. QED  BY <3>1, LogAtFacts
      <4>. QED  BY <2>1, <2>2, <2>4, <2>6, <4>1, <4>2
    <3>3. s[i] = g_ring[LogAt(start, i - 1)]
      BY <2>3, <2>6, <3>1 DEF LogAt
    <3>. HIDE DEF j
    <3>. QED  BY <3>1, <3>2, <3>3
  <2>. QED  BY <2>5, <2>6, <2>7
<1>2. LogInv /\ [LogNext]_logvars => LogInv'
  <2>1. ASSUME LogInv, UNCHANGED logvars PROVE LogInv'
    BY <2>1 DEF LogInv, logvars
  <2>. QED  BY <2>1, AppendInv DEF LogNext
<1>. QED  BY <1>1, <1>2, LogInitInv, PTL DEF LogSpec
=============================================================================
