------------------------------ MODULE MCNetwork ------------------------------
(***************************************************************************)
(* Parts of the network stack, explored side by side: the DNS client, the  *)
(* two queues of the card's driver, TCP between two hosts, the neighbour   *)
(* caches, the echo requests of one host, hosts on a link and the texts of *)
(* addresses.  They share no state.  The resolver and the driver have the  *)
(* fairness of their specifications.                                       *)
(***************************************************************************)
EXTENDS Resolver

CONSTANTS Host,                   \* hosts of a TCP connection and of a link
          Words                   \* of an address

VARIABLES part,                   \* what is explored
          card_rx, rx_buf, arrived, taken,
          tx, tx_buf, spinning, given, accepted, wire, timed_out,
          socks, segments, disturbed, conn, sent, got,
          tab, told,
          ping_pc, kind, dst, ping_wait, seq_global, resolved, ping_net, asked, requests, answered,
          knows4, knows6, waits, inbox, waiter, seq, pings, lost,
          typed, target

cardvars  == <<card_rx, rx_buf, arrived, taken, tx, tx_buf, spinning, given, accepted,
               wire, timed_out>>
tcpvars   == <<socks, segments, disturbed, conn, sent, got>>
cachevars == <<tab, told>>
pingvars  == <<ping_pc, kind, dst, ping_wait, seq_global, resolved, ping_net, asked, requests,
               answered>>
linkvars  == <<knows4, knows6, waits, inbox, waiter, seq, pings, lost>>
textvars  == <<typed, target>>
upper     == <<tcpvars, cachevars, pingvars, linkvars, textvars>>
allvars   == <<part, vars, cardvars, upper>>

(* Ids of three bits.  The ticks share a port; 9 is of the next round, and  *)
(* its id would be 0.                                                       *)
MCTicks == {1, 3, 9}
xor[a \in 0 .. 7, b \in 0 .. 7] ==
  IF a = 0 /\ b = 0 THEN 0 ELSE 2 * xor[a \div 2, b \div 2] + ((a + b) % 2)
MCXor(a, b) == xor[a, b]

Card  == INSTANCE VirtioNet WITH Size <- 2, U16 <- 4, MaxFrames <- 5, rx <- card_rx
Tcp   == INSTANCE Tcp WITH TCP_MAX_SOCKETS <- 1, TCP_RX_BUF_SIZE <- 1, ISS <- 10, MaxConn <- 2,
                           MaxData <- [h \in Host |-> 2 * (h - 1)], wire <- segments,
                           Disturbances <- {}
Wild  == INSTANCE Tcp WITH TCP_MAX_SOCKETS <- 1, TCP_RX_BUF_SIZE <- 2, ISS <- 10, MaxConn <- 1,
                           MaxData <- [h \in Host |-> 2 * (h - 1)], wire <- segments,
                           Disturbances <- {"repeated", "reordered"}
Addr  == INSTANCE NetAddress WITH TableSize <- 3, Ip <- 1 .. 4, Mac <- 1 .. 2, NoIp <- 0,
                                  NoMac <- 0
Wire  == INSTANCE Link WITH MaxPings <- 2, MaxLost <- 1, Target <- 1 .. 2, U16 <- 4,
                            MaxRequests <- 3, pc <- ping_pc, net <- ping_net

NetworkInit ==
  /\ part \in {"receive", "send", "resolver", "tcp", "wild", "cache", "ping", "link", "text"}
  /\ Init /\ Card!virtio_net_init /\ Tcp!Init /\ Addr!CacheInit /\ Addr!TextInit
  /\ Wire!Init /\ Wire!PingInit
  /\ part # "resolver" => \A n \in Name : zone[n] = NotFound
  /\ part # "ping" => dst = 1

InResolver(A) == part = "resolver" /\ A /\ UNCHANGED <<part, cardvars, upper>>
InCard(p, A)  == part = p /\ A /\ UNCHANGED <<part, vars, upper>>
Upper(p, A)   == part = p /\ A /\ UNCHANGED <<part, vars, cardvars>>

NetworkNext ==
  \/ InResolver(Next)
  \/ InCard("receive", Card!NextReceive)
  \/ InCard("send", Card!NextSend)
  \/ Upper("tcp", Tcp!Next)        /\ UNCHANGED <<cachevars, pingvars, linkvars, textvars>>
  \/ Upper("wild", Wild!Next)      /\ UNCHANGED <<cachevars, pingvars, linkvars, textvars>>
  \/ Upper("cache", Addr!CacheNext) /\ UNCHANGED <<tcpvars, pingvars, linkvars, textvars>>
  \/ Upper("ping", Wire!PingNext)  /\ UNCHANGED <<tcpvars, cachevars, linkvars, textvars>>
  \/ Upper("link", Wire!Next)      /\ UNCHANGED <<tcpvars, cachevars, pingvars, textvars>>
  \/ Upper("text", Addr!TextNext)  /\ UNCHANGED <<tcpvars, cachevars, pingvars, linkvars>>

NetworkSpec ==
  /\ NetworkInit /\ [][NetworkNext]_allvars
  /\ WF_allvars(InCard("receive", Card!vn_recv_raw))
  /\ WF_allvars(InResolver(Follow)) /\ WF_allvars(InResolver(TimeOut))
  /\ WF_allvars(InResolver(NoMac \/ \E o \in Outcome, t, u \in Ticks : Ask(o, t, u)))

-----------------------------------------------------------------------------
(* The properties of the parts, in whose modules they are explained:        *)
(* what VirtioNet promises of either queue,                                 *)
FramesExact == /\ part = "receive" => Card!ReceivedExact
               /\ part = "send"    => Card!SentUnaltered

(* what TCP's receivers take,                                               *)
ReceivedInOrder == part \in {"tcp", "wild"} => Tcp!ReceivedInOrder

(* which address a neighbour cache answers and a text stands for,           *)
AddressesExact == /\ part = "cache" => Addr!LookupCurrent
                  /\ part = "text"  => Addr!LiteralsReadBack

(* that a request ends with its own answer, on one host and between hosts   *)
(* that ask each other, and that a frame that has arrived is taken and a    *)
(* resolution ends.                                                         *)
RequestsEnd == /\ part = "ping" => Wire!PingsIsolated
               /\ part = "link" => Wire!WaitsEnd
AllServed   == Card!FramesTaken /\ Returns

==============================================================================
