------------------------------ MODULE Resolver ------------------------------
(***************************************************************************)
(* The DNS client kernel/net/dns.c over the UDP socket table of            *)
(* kernel/net/lwip_port.c: dns_resolve_a asks for a name, waits for an     *)
(* answer by polling, and follows aliases.  dns_resolve_aaaa differs in    *)
(* the record type only.                                                   *)
(*                                                                         *)
(* The source port of a query comes from the timer tick, its transaction   *)
(* id from two later reads of it, so that two exchanges in one tick have   *)
(* both in common.  A name's record is its address, an alias, an alias     *)
(* whose compressed name never ends, or nothing; the names, and what the   *)
(* server says of them, are fixed but any.  Answers may be lost, delayed   *)
(* or repeated.                                                            *)
(***************************************************************************)
EXTENDS Integers, FiniteSets, FiniteSetsExt

CONSTANTS Name, Address, NotFound,
          Endless,                \* an alias with a pointer that leads back to itself
          UDP_MAX_SOCKETS, MaxHops,   \* 8 hops in the code
          PortMod, IdMod,         \* 2^13 and 2^16 in the code
          Xor(_, _), ZeroId,      \* of two ids; what stands for the id 0
          Ticks, EndTick,         \* bound: the ticks at which something happens
          MaxSent                 \* bound: queries that reach the server

ASSUME ResolverAssumption ==
  /\ Name # {} /\ UDP_MAX_SOCKETS \in Nat /\ EndTick \in Nat /\ Ticks \subseteq 0 .. EndTick - 1
  /\ PortMod \in Nat \ {0} /\ IdMod \in Nat \ {0} /\ ZeroId \in Nat

ASSUME XorAssumption == /\ \A a, b \in 0 .. IdMod - 1 : Xor(a, b) \in Nat
                        /\ \A a \in 0 .. IdMod - 1 : Xor(a, 0) = a

Free == -1                        \* a socket that is not in use
Outcome == {"malformed", "unsent", "lost", "arrives"}
Slots == 0 .. UDP_MAX_SOCKETS - 1

VARIABLES zone,                   \* what the server answers for a name
          sockets,                \* the port bound in each slot
          tick,
          pc,                     \* idle, resolve (the server's MAC), wait or unpack
          name, hop,              \* of dns_resolve_a
          rx,                     \* dns_rx, with the query its buffer answers
          query,                  \* the query under way
          net,                    \* queries that reached the server
          result                  \* what dns_resolve_a returned last

vars == <<zone, sockets, tick, pc, name, hop, rx, query, net, result>>

NoQuery == [tid |-> 0, port |-> 0, name |-> CHOOSE n \in Name : TRUE, tick |-> 0, round |-> 0]

Init == /\ zone \in [Name -> Name \cup Address \cup {NotFound, Endless}]
        /\ sockets = [i \in Slots |-> Free]
        /\ tick \in Ticks /\ (\A t \in Ticks : tick <= t) /\ pc = "idle" /\ name = NoQuery.name /\ hop = 0
        /\ rx = [waiting |-> FALSE, tid |-> 0, got |-> FALSE, answer |-> NoQuery]
        /\ query = NoQuery /\ net = {} /\ result = NotFound

Bound(s, port) == {i \in Slots : s[i] = port}

udp_bind(s, port) == [s EXCEPT ![Min(Bound(s, Free))] = port]

udp_unbind(s, port) == IF Bound(s, port) = {} THEN s ELSE [s EXCEPT ![Min(Bound(s, port))] = Free]

Later(t) == {u \in Ticks : u >= t}

Tick == /\ tick' \in Later(tick + 1)
        /\ UNCHANGED <<zone, sockets, pc, name, hop, rx, query, net, result>>

dns_resolve_a(n) ==
  /\ pc = "idle" /\ tick # EndTick
  /\ name' = n /\ hop' = 0 /\ pc' = "resolve" /\ result' = NotFound
  /\ UNCHANGED <<zone, sockets, tick, rx, query, net>>

Return(r) == pc' = "idle" /\ result' = r

(* dns_exchange has waited for the server's MAC in vain.                    *)
NoMac == /\ pc = "resolve"
         /\ Return(NotFound)
         /\ UNCHANGED <<zone, sockets, tick, name, hop, rx, query, net>>

(* The transaction id, from the ticks of its two reads.                     *)
TransactionId(t, u) == LET x == Xor(t % IdMod, (u \div IdMod) % IdMod)
                       IN IF x = 0 THEN ZeroId ELSE x

(* dns_exchange up to its wait.  Without a free socket it returns, and it   *)
(* unbinds the socket when the name cannot be encoded or the query not be   *)
(* sent; then dns_rx is left waiting.  Ticks t and u are those at which the *)
(* id is read.                                                              *)
Ask(outcome, t, u) ==
  LET port  == tick % PortMod
      q     == [tid |-> TransactionId(t, u), port |-> port, name |-> name, tick |-> t,
                round |-> u \div IdMod]
      bound == udp_bind(sockets, port)
  IN /\ pc = "resolve" /\ t >= tick /\ u >= t
     /\ IF Bound(sockets, Free) = {}
        THEN Return(NotFound) /\ UNCHANGED <<sockets, tick, rx, query, net>>
        ELSE /\ tick' = u
             /\ rx' = IF outcome = "malformed" THEN [rx EXCEPT !.tid = q.tid]
                      ELSE [rx EXCEPT !.waiting = TRUE, !.tid = q.tid, !.got = FALSE]
             /\ query' = q
             /\ outcome = "arrives" => Cardinality(net \cup {q}) <= MaxSent
             /\ net' = IF outcome = "arrives" THEN net \cup {q} ELSE net
             /\ IF outcome \in {"arrives", "lost"}
                THEN sockets' = bound /\ pc' = "wait" /\ UNCHANGED result
                ELSE sockets' = udp_unbind(bound, port) /\ Return(NotFound)
     /\ UNCHANGED <<zone, name, hop>>

(* Mutation: the answer's transaction id is not looked at.                  *)
Accepts_AnyId(q) == rx.waiting

Accepts(q) == rx.waiting /\ q.tid = rx.tid

(* udp_process and dns_udp_handler of an answer to query q.                 *)
Answer(q) ==
  /\ q \in net
  /\ rx' = IF Bound(sockets, q.port) # {} /\ Accepts(q)
           THEN [rx EXCEPT !.got = TRUE, !.answer = q] ELSE rx
  /\ UNCHANGED <<zone, sockets, tick, pc, name, hop, query, net, result>>

(* The deadline passes, some ticks after the query was sent.                *)
TimeOut ==
  /\ pc = "wait" /\ ~rx.got
  /\ tick' \in Later(tick + 1) \cup {EndTick}
  /\ sockets' = udp_unbind(sockets, query.port)
  /\ rx' = [rx EXCEPT !.waiting = FALSE]
  /\ Return(NotFound)
  /\ UNCHANGED <<zone, name, hop, query, net>>

(* Mutation: following an alias is not counted.                             *)
NextHop_Same == hop

NextHop == hop + 1

(* The wait ends with an answer: an address is the result, an alias is asked *)
(* for next unless it is the last hop.  dns_name_unpack never counts the    *)
(* pointers it follows, and has no end when they lead round in a circle.    *)
Follow ==
  /\ pc = "wait" /\ rx.got
  /\ sockets' = udp_unbind(sockets, query.port)
  /\ rx' = [rx EXCEPT !.waiting = FALSE]
  /\ LET a == zone[rx.answer.name] IN
     \/ a = Endless /\ pc' = "unpack" /\ UNCHANGED <<name, hop, result>>
     \/ /\ a \in Name /\ NextHop < MaxHops
        /\ name' = a /\ hop' = NextHop /\ pc' = "resolve" /\ UNCHANGED result
     \/ /\ a # Endless /\ ~(a \in Name /\ NextHop < MaxHops)
        /\ Return(IF a \in Address THEN a ELSE NotFound) /\ UNCHANGED <<name, hop>>
  /\ UNCHANGED <<zone, tick, query, net>>

Next == \/ Tick
        \/ \E n \in Name : dns_resolve_a(n)
        \/ NoMac
        \/ \E o \in Outcome, t, u \in Ticks : Ask(o, t, u)
        \/ \E q \in net : Answer(q)
        \/ TimeOut
        \/ Follow

(* The caller goes on by itself, and its waits end at the latest with their *)
(* deadline.                                                                *)
Spec == /\ Init /\ [][Next]_vars
        /\ WF_vars(Follow) /\ WF_vars(TimeOut)
        /\ WF_vars(NoMac \/ \E o \in Outcome, t, u \in Ticks : Ask(o, t, u))

-----------------------------------------------------------------------------
(* Exchanges do not disturb each other: an answer that is taken was sent to *)
(* the port and carries the id of the query that waits.  It is never the    *)
(* delayed or repeated answer to a query of another tick while the ticks    *)
(* have not come round once, but for tick 0, whose id is replaced.  It may  *)
(* be the repeated answer to an earlier alias of the same tick.  Outside an *)
(* exchange no socket of the table is left bound, on every way out of       *)
(* dns_exchange.                                                            *)
FirstRound(q) == q.round = 0 /\ q.tick # 0

ExchangesIsolated ==
  /\ (pc = "wait" /\ rx.got) =>
       /\ rx.answer.port = query.port /\ rx.answer.tid = query.tid
       /\ FirstRound(query) /\ FirstRound(rx.answer) => rx.answer.tick = query.tick
  /\ pc # "wait" => Bound(sockets, Free) = Slots

(* dns_resolve_a returns, also when aliases point to each other, unless it  *)
(* unpacks a name whose pointers lead round in a circle (dns_name_unpack).  *)
Returns == pc # "idle" ~> pc = "idle" \/ (pc = "unpack" /\ zone[rx.answer.name] = Endless)
==============================================================================
