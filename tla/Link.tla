--------------------------------- MODULE Link ---------------------------------
(***************************************************************************)
(* Hosts that run kernel/net/lwip_port.c on one link: ARP, IPv6 neighbour  *)
(* discovery, echo requests and their answers.                             *)
(*                                                                         *)
(* A host runs one thread.  A request, and an answer to a neighbour whose  *)
(* address is not known, poll the card in a loop; a frame processed in it  *)
(* may open another such loop, and only the innermost one runs: waits[h]   *)
(* is the stack of loops.  A deadline that passes while frames are under   *)
(* way counts as a lost frame.  The caches never fill up (see NetAddress). *)
(***************************************************************************)
EXTENDS Integers, Sequences, FiniteSets, SequencesExt

CONSTANTS Host, MaxPings, MaxLost \* bounds: requests per host, losses

VARIABLES knows4, knows6,         \* h -> hosts in arp_table and nd_tbl
          waits,                  \* h -> open loops, the innermost last
          inbox,                  \* h -> frames under way to h
          waiter,                 \* h -> family -> [active, seq, target, replied]
          seq, pings, lost

vars == <<knows4, knows6, waits, inbox, waiter, seq, pings, lost>>

Family == {"v4", "v6"}
Reply  == [v4 |-> "reply", v6 |-> "reply6"]   \* the loops for an answer
Idle   == [active |-> FALSE, seq |-> 0, target |-> 0, replied |-> FALSE]
Wait(k, p)  == [kind |-> k, peer |-> p]
Frame(t, h, d, n) == [type |-> t, from |-> h, target |-> d, seq |-> n]

(* eth_send to one host, or to all others (broadcast, multicast).           *)
To(d, f)     == inbox' = [inbox EXCEPT ![d] = Append(@, f)]
ToAll(b, f)  == [h \in Host |-> IF h = f.from THEN b[h] ELSE Append(b[h], f)]
Push(h, w)   == waits' = [waits EXCEPT ![h] = Append(@, w)]
Pop(h)       == waits' = [waits EXCEPT ![h] = Front(@)]
Top(h)       == Last(waits[h])

-----------------------------------------------------------------------------
(* icmp_ping: arp_request, then the loop of icmp_wait_arp.                  *)
icmp_ping(h, d) ==
  /\ waits[h] = << >> /\ pings[h] < MaxPings /\ d # h
  /\ pings' = [pings EXCEPT ![h] = @ + 1]
  /\ inbox' = ToAll(inbox, Frame("arp request", h, d, 0))
  /\ Push(h, Wait("arp", d))
  /\ UNCHANGED <<knows4, knows6, waiter, seq, lost>>

(* icmp6_ping: ndp_resolve, which asks only for an unknown neighbour.       *)
icmp6_ping(h, d) ==
  /\ waits[h] = << >> /\ pings[h] < MaxPings /\ d # h
  /\ pings' = [pings EXCEPT ![h] = @ + 1]
  /\ inbox' = IF d \in knows6[h] THEN inbox ELSE ToAll(inbox, Frame("ns", h, d, 0))
  /\ Push(h, Wait("resolve", d))
  /\ UNCHANGED <<knows4, knows6, waiter, seq, lost>>

(* The address is known: the echo request is sent and the loop for its      *)
(* answer begins.  No other request of the host is active (PingsIsolated).  *)
StartWaiting(h, fam, known, echo) ==
  LET w == Top(h) IN
  /\ w.peer \in known[h]
  /\ seq' = [seq EXCEPT ![h][fam] = @ + 1]
  /\ waiter' = [waiter EXCEPT ![h][fam] = [active |-> TRUE, seq |-> seq'[h][fam],
                                           target |-> w.peer, replied |-> FALSE]]
  /\ To(w.peer, Frame(echo, h, w.peer, seq'[h][fam]))
  /\ waits' = [waits EXCEPT ![h][Len(waits[h])] = Wait(Reply[fam], w.peer)]
  /\ UNCHANGED <<knows4, knows6, pings, lost>>

SendEcho(h) == \/ Top(h).kind = "arp" /\ StartWaiting(h, "v4", knows4, "echo")
               \/ Top(h).kind = "resolve" /\ StartWaiting(h, "v6", knows6, "echo6")

(* The loop for an answer ends with the answer.                             *)
Answered(h, fam) ==
  /\ Top(h).kind = Reply[fam] /\ waiter[h][fam].replied
  /\ Pop(h) /\ waiter' = [waiter EXCEPT ![h][fam] = Idle]
  /\ UNCHANGED <<knows4, knows6, inbox, seq, pings, lost>>

(* The neighbour of an echo request is known now: the answer is sent.       *)
ResumeReply(h) ==
  /\ Top(h).kind = "answer" /\ Top(h).peer \in knows6[h]
  /\ To(Top(h).peer, Frame("echo6 reply", h, Top(h).peer, Top(h).seq)) /\ Pop(h)
  /\ UNCHANGED <<knows4, knows6, waiter, seq, pings, lost>>

-----------------------------------------------------------------------------
(* net_process_frame: the handlers.  ip_receive and ipv6_receive drop what  *)
(* is for another host.                                                     *)
Rest(h) == [inbox EXCEPT ![h] = Tail(@)]
SendAfter(h, d, f) == inbox' = [Rest(h) EXCEPT ![d] = Append(@, f)]
Dropped(h) == inbox' = Rest(h) /\ UNCHANGED <<knows4, knows6, waits, waiter>>

arp_process(h, f) ==
  /\ knows4' = [knows4 EXCEPT ![h] = @ \cup {f.from}]
  /\ IF f.type = "arp request" /\ f.target = h
     THEN SendAfter(h, f.from, Frame("arp reply", h, f.from, 0))
     ELSE inbox' = Rest(h)
  /\ UNCHANGED <<knows6, waits, waiter>>

(* An answer to an unknown host is replaced by an ARP request: ip_send.     *)
icmp_process_echo(h, f) ==
  /\ inbox' = IF f.from \in knows4[h]
              THEN [Rest(h) EXCEPT ![f.from] = Append(@, Frame("echo reply", h, f.from, f.seq))]
              ELSE ToAll(Rest(h), Frame("arp request", h, f.from, 0))
  /\ UNCHANGED <<knows4, knows6, waits, waiter>>

icmp_process_reply(h, f, fam) ==
  /\ inbox' = Rest(h)
  /\ waiter' = [waiter EXCEPT ![h][fam].replied =
                  @ \/ (waiter[h][fam].active /\ waiter[h][fam].target = f.from
                                              /\ waiter[h][fam].seq = f.seq)]
  /\ UNCHANGED <<knows4, knows6, waits>>

(* An unknown neighbour is resolved first, in a loop of its own.            *)
icmp6_process_echo(h, f) ==
  /\ IF f.from \in knows6[h]
     THEN SendAfter(h, f.from, Frame("echo6 reply", h, f.from, f.seq)) /\ UNCHANGED waits
     ELSE /\ Push(h, [kind |-> "answer", peer |-> f.from, seq |-> f.seq])
          /\ inbox' = ToAll(Rest(h), Frame("ns", h, f.from, 0))
  /\ UNCHANGED <<knows4, knows6, waiter>>

(* Mutation: a solicitation is not answered while a loop is open.           *)
icmp6_process_ns_Idle(h, f) ==
  \/ waits[h] # << >> /\ Dropped(h)
  \/ /\ waits[h] = << >> /\ SendAfter(h, f.from, Frame("na", h, f.from, 0))
     /\ UNCHANGED <<knows4, knows6, waits, waiter>>

(* The asker's address is taken from the frame and not remembered.          *)
icmp6_process_ns(h, f) ==
  /\ SendAfter(h, f.from, Frame("na", h, f.from, 0))
  /\ UNCHANGED <<knows4, knows6, waits, waiter>>

icmp6_process_na(h, f) ==
  /\ inbox' = Rest(h) /\ knows6' = [knows6 EXCEPT ![h] = @ \cup {f.from}]
  /\ UNCHANGED <<knows4, waits, waiter>>

(* net_poll, from a loop or from the user interface.                        *)
Poll(h) ==
  /\ inbox[h] # << >>
  /\ LET f == Head(inbox[h]) IN
     \/ f.type \in {"arp request", "arp reply"} /\ arp_process(h, f)
     \/ f.type \notin {"arp request", "arp reply"} /\ f.target # h /\ Dropped(h)
     \/ /\ f.target = h
        /\ \/ f.type = "echo" /\ icmp_process_echo(h, f)
           \/ f.type = "echo reply" /\ icmp_process_reply(h, f, "v4")
           \/ f.type = "echo6" /\ icmp6_process_echo(h, f)
           \/ f.type = "echo6 reply" /\ icmp_process_reply(h, f, "v6")
           \/ f.type = "ns" /\ icmp6_process_ns(h, f)
           \/ f.type = "na" /\ icmp6_process_na(h, f)
  /\ UNCHANGED <<seq, pings, lost>>

Lose(h) ==
  /\ inbox[h] # << >> /\ lost < MaxLost
  /\ inbox' = Rest(h) /\ lost' = lost + 1
  /\ UNCHANGED <<knows4, knows6, waits, waiter, seq, pings>>

-----------------------------------------------------------------------------
Quiet == \A h \in Host : inbox[h] = << >>

(* What the innermost loop waits for is there.                              *)
Satisfied(h) ==
  LET w == Top(h) IN
  CASE w.kind = "arp" -> w.peer \in knows4[h]
    [] w.kind \in {"resolve", "answer"} -> w.peer \in knows6[h]
    [] w.kind = Reply["v4"] -> waiter[h]["v4"].replied
    [] w.kind = Reply["v6"] -> waiter[h]["v6"].replied

Stuck == Quiet /\ \A h \in Host : waits[h] # << >> => ~Satisfied(h)

(* A deadline passes: the loop ends, and the request with it.  An answer    *)
(* that came while a loop inside it was open may then be too late.          *)
TimeOut(h) ==
  /\ waits[h] # << >> /\ Pop(h)
  /\ \/ Stuck /\ UNCHANGED lost
     \/ ~Stuck /\ lost < MaxLost /\ lost' = lost + 1
  /\ waiter' = [waiter EXCEPT ![h] = [f \in Family |-> IF Top(h).kind = Reply[f] THEN Idle ELSE @[f]]]
  /\ UNCHANGED <<knows4, knows6, inbox, seq, pings>>

Init == /\ knows4 = [h \in Host |-> {}] /\ knows6 = [h \in Host |-> {}]
        /\ waits = [h \in Host |-> << >>] /\ inbox = [h \in Host |-> << >>]
        /\ waiter = [h \in Host |-> [f \in Family |-> Idle]]
        /\ seq = [h \in Host |-> [f \in Family |-> 0]]
        /\ pings = [h \in Host |-> 0] /\ lost = 0

Next == \E h \in Host :
          \/ Poll(h) \/ Lose(h) \/ TimeOut(h)
          \/ \E d \in Host : icmp_ping(h, d) \/ icmp6_ping(h, d)
          \/ /\ waits[h] # << >>
             /\ SendEcho(h) \/ Answered(h, "v4") \/ Answered(h, "v6") \/ ResumeReply(h)

Spec == Init /\ [][Next]_vars

-----------------------------------------------------------------------------
(* With no loss and no early deadline every loop gets what it waits for:    *)
(* hosts that ask each other at the same time, or are asked while they      *)
(* wait, do not all wait in the end, because each loop answers through its  *)
(* polls (icmp_wait_arp, ndp_resolve, icmp_ping, icmp6_ping).  A request is *)
(* active only while its own loop is open, however loops are nested.        *)
WaitsEnd ==
  /\ lost = 0 /\ Stuck => \A h \in Host : waits[h] = << >>
  /\ \A h \in Host, f \in Family :
       waiter[h][f].active <=> \E i \in DOMAIN waits[h] : waits[h][i].kind = Reply[f]

-----------------------------------------------------------------------------
(***************************************************************************)
(* icmp_ping and icmp6_ping of one host over a network that may lose an    *)
(* echo request or its answer, delay it for as long as it likes and        *)
(* deliver it again: a request that resolves the next hop, sends an echo   *)
(* request and polls for the answer, both steps up to a deadline.          *)
(*                                                                         *)
(* One thread calls them (the terminal) and polls the card, so frames are  *)
(* processed only while a request waits or the user interface is idle.  A  *)
(* deadline may pass at any time.  Resolving covers icmp_wait_arp and      *)
(* ndp_resolve.                                                            *)
(***************************************************************************)
CONSTANTS Target,
          U16,                    \* 2^16 in the code
          MaxRequests             \* bound: requests made

VARIABLES pc,                     \* idle, or what the caller waits for
          kind, dst,              \* of the request under way
          ping_wait,              \* ping_wait and ping6_wait
          seq_global,             \* ping_seq_global and ping6_seq_g
          resolved,               \* targets whose next hop has an address
          net,                    \* answers that may still be delivered
          asked,                  \* echo requests that reached their target
          requests,               \* requests made so far
          answered                \* the requests that returned success

pingvars == <<pc, kind, dst, ping_wait, seq_global, resolved, net, asked, requests, answered>>

NoWait == [active |-> FALSE, seq |-> 0, target |-> CHOOSE t \in Target : TRUE,
           replied |-> FALSE, n |-> 0]

PingInit == /\ pc = "idle" /\ kind = "v4" /\ dst \in Target
            /\ ping_wait = [k \in Family |-> NoWait]
            /\ seq_global = [k \in Family |-> 0]
            /\ resolved = {} /\ net = {} /\ asked = {} /\ requests = 0 /\ answered = {}

Busy == \E k \in Family : ping_wait[k].active

(* The call up to its first wait; icmp6_ping looks for another request here. *)
Call(k, t) ==
  /\ pc = "idle" /\ requests < MaxRequests
  /\ requests' = requests + 1
  /\ kind' = k /\ dst' = t
  /\ pc' = IF k = "v6" /\ Busy THEN "idle" ELSE "resolve"
  /\ UNCHANGED <<ping_wait, seq_global, resolved, net, asked, answered>>

(* The answer of the next hop is processed during a poll.                   *)
HopAnswers(t) ==
  /\ resolved' = resolved \cup {t}
  /\ UNCHANGED <<pc, kind, dst, ping_wait, seq_global, net, asked, requests, answered>>

(* The deadline is looked at before the table.                              *)
ResolveTimesOut ==
  /\ pc = "resolve"
  /\ pc' = "idle"
  /\ UNCHANGED <<kind, dst, ping_wait, seq_global, resolved, net, asked, requests, answered>>

NextSeq(k) == (seq_global[k] + 1) % U16

(* The next hop is known: the waiter is set up and the request is sent, by  *)
(* icmp_ping at most twice.  `reaches' says whether it gets to its target.  *)
Send(sent, reaches) ==
  /\ pc = "resolve" /\ dst \in resolved
  /\ IF kind = "v4" /\ Busy
     THEN pc' = "idle" /\ UNCHANGED <<ping_wait, seq_global, asked>>
     ELSE /\ seq_global' = [seq_global EXCEPT ![kind] = NextSeq(kind)]
          /\ ping_wait' = [ping_wait EXCEPT ![kind] = [active |-> sent, seq |-> NextSeq(kind),
                                                       target |-> dst, replied |-> FALSE,
                                                       n |-> requests]]
          /\ asked' = IF sent /\ reaches
                      THEN asked \cup {[kind |-> kind, from |-> dst, seq |-> NextSeq(kind),
                                        n |-> requests]}
                      ELSE asked
          /\ pc' = IF sent THEN "wait" ELSE "idle"
  /\ UNCHANGED <<kind, dst, resolved, net, requests, answered>>

(* The target answers a request that reached it; now or much later, or never. *)
TargetAnswers(r) ==
  /\ r \in asked
  /\ net' = net \cup {r}
  /\ UNCHANGED <<pc, kind, dst, ping_wait, seq_global, resolved, asked, requests, answered>>

(* icmp_process and icmp6_process of an echo reply.                         *)
EchoReply(r) ==
  /\ r \in net
  /\ LET w == ping_wait[r.kind]
     IN ping_wait' = IF w.active /\ r.from = w.target /\ r.seq = w.seq
                     THEN [ping_wait EXCEPT ![r.kind].replied = TRUE] ELSE ping_wait
  /\ UNCHANGED <<pc, kind, dst, seq_global, resolved, net, asked, requests, answered>>

Succeed ==
  /\ pc = "wait" /\ ping_wait[kind].replied
  /\ ping_wait' = [ping_wait EXCEPT ![kind].active = FALSE]
  /\ answered' = answered \cup {requests}
  /\ pc' = "idle"
  /\ UNCHANGED <<kind, dst, seq_global, resolved, net, asked, requests>>

(* The deadline passes; an answer processed by the last poll comes too late. *)
PingTimesOut ==
  /\ pc = "wait"
  /\ ping_wait' = [ping_wait EXCEPT ![kind].active = FALSE]
  /\ pc' = "idle"
  /\ UNCHANGED <<kind, dst, seq_global, resolved, net, asked, requests, answered>>

PingNext == \/ \E k \in Family, t \in Target : Call(k, t)
            \/ \E t \in Target : HopAnswers(t)
            \/ ResolveTimesOut
            \/ \E sent, reaches \in BOOLEAN : Send(sent, reaches)
            \/ \E r \in asked : TargetAnswers(r)
            \/ \E r \in net : EchoReply(r)
            \/ Succeed
            \/ PingTimesOut

PingSpec == PingInit /\ [][PingNext]_pingvars

-----------------------------------------------------------------------------
(* Pings do not disturb each other.  One succeeds only when its own target  *)
(* has received this very request: a late or repeated answer to an earlier  *)
(* ping is not taken for it.  And no request is left active when the call   *)
(* returns, on any of its ways out, so that no later one is refused as busy.*)
PingsIsolated == /\ \A n \in answered : \E r \in asked : r.n = n
                 /\ pc = "idle" => ~Busy
==============================================================================
