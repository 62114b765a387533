--------------------------------- MODULE Tcp ---------------------------------
(***************************************************************************)
(* The TCP of kernel/net/lwip_port.c on several hosts that talk to each    *)
(* other: the socket table, the calls tcp_socket_create to tcp_close and   *)
(* the handler tcp_process of an incoming segment.                         *)
(*                                                                         *)
(* Segments between two hosts may be lost, and one may be repeated or      *)
(* overtaken by the next; ip_send also drops a segment when the next hop's *)
(* address is not resolved, and the socket's numbers advance all the same. *)
(* The handler looks at no sequence number.  A data segment carries one    *)
(* unit; data is a pair of the connection attempt it was sent on and its   *)
(* number in that attempt.  Sequence numbers start at ISS and stay far     *)
(* below 2^32.  TCP_RX_BUF_SIZE counts units.                              *)
(***************************************************************************)
EXTENDS Integers, Sequences, FiniteSets

CONSTANTS Host, TCP_MAX_SOCKETS, TCP_RX_BUF_SIZE, ISS,
          MaxConn,                \* bound: connection attempts
          MaxData,                \* bound: units a host sends on an attempt
          Disturbances            \* bound: what the network does beyond losing

VARIABLES socks,                  \* socks[h][i]: the socket table of host h
          wire,                   \* wire[<<g, h>>]: segments from g to h, oldest first
          disturbed,              \* what else the network did: "no", "repeated" or "reordered"
          conn,                   \* connection attempts so far
          sent,                   \* sent[h][i]: units sent on the socket's connection
          got                     \* got[h][i]: units its application has taken

vars == <<socks, wire, disturbed, conn, sent, got>>

Sock == 0 .. TCP_MAX_SOCKETS - 1
Unused == [in_use |-> FALSE, state |-> "CLOSED", lport |-> 0, rip |-> 0, rport |-> 0,
           seq |-> 0, ack |-> 0, rx |-> << >>, id |-> 0]
ListenPort == 80
Ephemeral(i) == 49152 + i * 7 + 1

Init == /\ socks = [h \in Host |-> [i \in Sock |-> Unused]]
        /\ wire = [p \in Host \X Host |-> << >>]
        /\ disturbed = "no" /\ conn = 0
        /\ sent = [h \in Host |-> [i \in Sock |-> 0]]
        /\ got = [h \in Host |-> [i \in Sock |-> << >>]]

(* The segment of socket s, and the socket after sending it.                *)
Segment(s, flags, data) == [src |-> s.lport, dst |-> s.rport, seq |-> s.seq, ack |-> s.ack,
                            flags |-> flags, data |-> data, id |-> s.id]
Advance(s, flags, data) ==
  [s EXCEPT !.seq = @ + (IF "SYN" \in flags THEN 1 ELSE 0)
                      + (IF "FIN" \in flags THEN 1 ELSE 0) + Len(data)]

(* tcp_send_segment: host h puts the segments onto its wire or ip_send drops *)
(* them all.                                                                *)
tcp_send_segment(h, to, segs, delivered) ==
  wire' = IF delivered THEN [wire EXCEPT ![<<h, to>>] = @ \o segs] ELSE wire

tcp_socket_create(h) ==
  /\ \E i \in Sock : /\ ~socks[h][i].in_use
                     /\ \A j \in 0 .. i - 1 : socks[h][j].in_use
                     /\ socks' = [socks EXCEPT ![h][i] = [Unused EXCEPT !.in_use = TRUE, !.seq = ISS]]
                     /\ sent' = [sent EXCEPT ![h][i] = 0]
                     /\ got' = [got EXCEPT ![h][i] = << >>]
  /\ UNCHANGED <<wire, disturbed, conn>>

tcp_connect(h, i, to, ok) ==
  LET s == [socks[h][i] EXCEPT !.rip = to, !.rport = ListenPort, !.lport = Ephemeral(i),
                               !.state = "SYN_SENT", !.id = conn + 1]
  IN /\ socks[h][i].in_use /\ socks[h][i].state = "CLOSED"
     /\ conn < MaxConn
     /\ conn' = conn + 1
     /\ tcp_send_segment(h, to, <<Segment(s, {"SYN"}, << >>)>>, ok)
     /\ socks' = [socks EXCEPT ![h][i] = Advance(s, {"SYN"}, << >>)]
     /\ UNCHANGED <<disturbed, sent, got>>

tcp_listen(h, i) ==
  /\ socks[h][i].in_use /\ socks[h][i].state = "CLOSED"
  /\ socks' = [socks EXCEPT ![h][i] = [@ EXCEPT !.lport = ListenPort, !.state = "LISTEN"]]
  /\ UNCHANGED <<wire, disturbed, conn, sent, got>>

(* One unit; a longer message is this in a loop.                            *)
tcp_send(h, i, ok) ==
  LET s == socks[h][i]
      d == <<[id |-> s.id, n |-> sent[h][i] + 1]>>
  IN /\ s.in_use /\ s.state = "ESTABLISHED"
     /\ sent[h][i] < MaxData[h]
     /\ tcp_send_segment(h, s.rip, <<Segment(s, {"ACK", "PSH"}, d)>>, ok)
     /\ socks' = [socks EXCEPT ![h][i] = Advance(s, {"ACK", "PSH"}, d)]
     /\ sent' = [sent EXCEPT ![h][i] = @ + 1]
     /\ UNCHANGED <<disturbed, conn, got>>

(* Mutation: what was copied out stays in the buffer.                       *)
tcp_recv_NoShift(h, i, n) ==
  LET s == socks[h][i]
  IN /\ s.in_use /\ s.state = "ESTABLISHED"
     /\ n \in 1 .. Len(s.rx)
     /\ got' = [got EXCEPT ![h][i] = @ \o SubSeq(s.rx, 1, n)]
     /\ UNCHANGED <<socks, wire, disturbed, conn, sent>>

tcp_recv(h, i, n) ==
  LET s == socks[h][i]
  IN /\ s.in_use /\ s.state = "ESTABLISHED"
     /\ n \in 1 .. Len(s.rx)
     /\ got' = [got EXCEPT ![h][i] = @ \o SubSeq(s.rx, 1, n)]
     /\ socks' = [socks EXCEPT ![h][i].rx = SubSeq(@, n + 1, Len(@))]
     /\ UNCHANGED <<wire, disturbed, conn, sent>>

(* A socket whose slot is free again.                                       *)
Closed(s) == [s EXCEPT !.in_use = FALSE, !.state = "CLOSED"]

tcp_close(h, i, ok) ==
  LET s == socks[h][i]
  IN /\ s.in_use
     /\ IF s.state = "ESTABLISHED"
        THEN tcp_send_segment(h, s.rip, <<Segment(s, {"FIN", "ACK"}, << >>)>>, ok)
        ELSE UNCHANGED wire
     /\ socks' = [socks EXCEPT ![h][i] =
                    Closed(IF s.state = "ESTABLISHED" THEN Advance(s, {"FIN", "ACK"}, << >>) ELSE s)]
     /\ UNCHANGED <<disturbed, conn, sent, got>>

(* Sockets that a segment g from host `from' matches; the first one gets it. *)
Find(h, from, g) ==
  {i \in Sock : LET s == socks[h][i]
                IN /\ s.in_use
                   /\ \/ s.state = "LISTEN" /\ s.lport = g.dst
                      \/ s.lport = g.dst /\ s.rport = g.src /\ s.rip = from}

(* The acknowledgement of a data segment, whether its data fitted or not.   *)
Acknowledges(g) == g.seq + Len(g.data)

(* A socket after the segment g that opens, confirms or ends its connection *)
(* or has data for it.                                                      *)
Joined(s, from, g) == [s EXCEPT !.rip = from, !.rport = g.src, !.ack = g.seq + 1,
                                !.state = "SYN_RECEIVED", !.id = g.id]
Confirmed(s, g) == [s EXCEPT !.ack = g.seq + 1, !.state = "ESTABLISHED"]
Ended(s, g) == [s EXCEPT !.ack = g.seq + 1, !.state = "LAST_ACK"]
Stored(s, g) == [s EXCEPT !.rx = IF TCP_RX_BUF_SIZE > Len(s.rx) THEN @ \o g.data ELSE @,
                          !.ack = Acknowledges(g)]

(* The socket with the segments it answers with: none, one, or the two of   *)
(* an end.                                                                  *)
Quiet(s) == [sock |-> s, out |-> << >>]
Reply(s, flags) == [sock |-> Advance(s, flags, << >>), out |-> <<Segment(s, flags, << >>)>>]
EndReply(s) == [sock |-> Advance(s, {"FIN"}, << >>),
                out  |-> <<Segment(s, {"ACK"}, << >>), Segment(s, {"FIN", "ACK"}, << >>)>>]

(* What tcp_process makes of socket s, and the segments it answers with.    *)
(* FIN_WAIT_1 and CLOSE_WAIT last only within a call, so that its cases for *)
(* FIN_WAIT_1, FIN_WAIT_2 and TIME_WAIT are never reached.                  *)
Handle(s, from, g) ==
  CASE s.state = "LISTEN" /\ "SYN" \in g.flags                 -> Reply(Joined(s, from, g), {"SYN", "ACK"})
    [] s.state = "SYN_SENT" /\ {"SYN", "ACK"} \subseteq g.flags -> Reply(Confirmed(s, g), {"ACK"})
    [] s.state = "SYN_RECEIVED" /\ "ACK" \in g.flags           -> Quiet([s EXCEPT !.state = "ESTABLISHED"])
    [] s.state = "ESTABLISHED" /\ "FIN" \in g.flags            -> EndReply(Ended(s, g))
    [] s.state = "ESTABLISHED" /\ "FIN" \notin g.flags /\ g.data # << >> -> Reply(Stored(s, g), {"ACK"})
    [] s.state = "LAST_ACK" /\ "ACK" \in g.flags               -> Quiet(Closed(s))
    [] OTHER -> Quiet(s)

tcp_process(from, h, ok) ==
  /\ wire[<<from, h>>] # << >>
  /\ LET g    == Head(wire[<<from, h>>])
         rest == [wire EXCEPT ![<<from, h>>] = Tail(@)]
         hit  == Find(h, from, g)
     IN \/ hit = {} /\ wire' = rest /\ UNCHANGED socks
        \/ \E i \in hit :
             LET r == Handle(socks[h][i], from, g)
             IN /\ \A j \in hit : i <= j
                /\ socks' = [socks EXCEPT ![h][i] = r.sock]
                /\ wire' = IF ok /\ r.out # << >> THEN [rest EXCEPT ![<<h, r.sock.rip>>] = @ \o r.out] ELSE rest
  /\ UNCHANGED <<disturbed, conn, sent, got>>

(* The network loses the oldest segment, delivers it again later, or lets   *)
(* the next one overtake it.  Bound: one of the last two, once.             *)
Lose(from, h) ==
  /\ wire[<<from, h>>] # << >>
  /\ wire' = [wire EXCEPT ![<<from, h>>] = Tail(@)]
  /\ UNCHANGED <<socks, disturbed, conn, sent, got>>

Disturb(from, h) ==
  LET w == wire[<<from, h>>]
      Becomes(new) == wire' = [wire EXCEPT ![<<from, h>>] = new]
  IN /\ disturbed = "no" /\ disturbed' \in Disturbances
     /\ \/ disturbed' = "repeated" /\ Len(w) >= 1 /\ Becomes(Append(w, w[1]))
        \/ disturbed' = "reordered" /\ Len(w) >= 2
           /\ Becomes(<<w[2], w[1]>> \o SubSeq(w, 3, Len(w)))
     /\ UNCHANGED <<socks, conn, sent, got>>

Next == \/ \E h \in Host : tcp_socket_create(h)
        \/ \E h \in Host, i \in Sock : \/ \E to \in Host \ {h}, ok \in BOOLEAN : tcp_connect(h, i, to, ok)
                                       \/ tcp_listen(h, i)
                                       \/ \E ok \in BOOLEAN : tcp_send(h, i, ok)
                                       \/ \E n \in 1 .. TCP_RX_BUF_SIZE : tcp_recv(h, i, n)
                                       \/ \E ok \in BOOLEAN : tcp_close(h, i, ok)
        \/ \E h, from \in Host : (\E ok \in BOOLEAN : tcp_process(from, h, ok))
                                  \/ Lose(from, h) \/ Disturb(from, h)

Spec == Init /\ [][Next]_vars

-----------------------------------------------------------------------------
(* While the network keeps the order, what a socket receives is in the      *)
(* order it was sent, nothing twice, and all of one connection attempt of   *)
(* its peer, although slots and ports are used again while old segments are *)
(* still on the way.  tcp_process looks at no sequence number, so that      *)
(* segments out of order are received out of order, and a repeated one      *)
(* again; but only that one, once more, and otherwise nothing twice.        *)
Times(in, u) == Cardinality({j \in 1 .. Len(in) : in[j] = u})

ReceivedInOrder ==
  \A h \in Host, i \in Sock :
    LET in == got[h][i] \o socks[h][i].rx
        twice == {u \in {in[j] : j \in 1 .. Len(in)} : Times(in, u) > 1}
    IN /\ disturbed = "no" => \A j, k \in 1 .. Len(in) : j < k => in[j].id = in[k].id /\ in[j].n < in[k].n
       /\ disturbed # "repeated" => twice = {}
       /\ \A u \in twice : Times(in, u) = 2 /\ twice = {u}
==============================================================================
