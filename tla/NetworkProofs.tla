----------------------------- MODULE NetworkProofs -----------------------------
(***************************************************************************)
(* Proofs about the network stack: the DNS client (Resolver), and the echo *)
(* requests of one host and the hosts of a link (Link).                    *)
(***************************************************************************)
EXTENDS Resolver, NatFacts

(* The slot that a scan of the socket table finds.                          *)
LEMMA FirstBound ==
  ASSUME NEW s, NEW port, Bound(s, port) # {}
  PROVE  Min(Bound(s, port)) \in Bound(s, port)
<1>1. Bound(s, port) \subseteq Nat
  BY ResolverAssumption DEF Bound, Slots
<1>2. \E x \in Bound(s, port) : \A y \in Bound(s, port) : x <= y
  BY <1>1, LeastExists
<1>. QED  BY <1>2 DEF Min

Query == [tid : Nat, port : Nat, name : Name, tick : Nat, round : Nat]

(* No socket is bound, or just one.                                         *)
AllFree(s) == s = [i \in Slots |-> Free]
OnlyBound(s, port) == \E i \in Slots : s = [j \in Slots |-> IF j = i THEN port ELSE Free]

LEMMA BindOne ==
  ASSUME NEW s, AllFree(s), Bound(s, Free) # {}, NEW port
  PROVE  OnlyBound(udp_bind(s, port), port)
<1>. DEFINE i == Min(Bound(s, Free))
<1>1. i \in Slots
  BY FirstBound DEF Bound
<1>2. udp_bind(s, port) = [j \in Slots |-> IF j = i THEN port ELSE Free]
  BY <1>1 DEF udp_bind, AllFree
<1>. QED  BY <1>1, <1>2 DEF OnlyBound

LEMMA UnbindOne ==
  ASSUME NEW s, NEW port \in Nat, OnlyBound(s, port)
  PROVE  AllFree(udp_unbind(s, port))
<1>1. PICK i \in Slots : s = [j \in Slots |-> IF j = i THEN port ELSE Free]
  BY DEF OnlyBound
<1>2. Bound(s, port) = {i}
  BY <1>1 DEF Bound, Free
<1>3. Min(Bound(s, port)) = i
  BY <1>2, FirstBound
<1>. QED  BY <1>1, <1>2, <1>3 DEF udp_unbind, AllFree

(* The id of a query of the first round is its tick.                        *)
IdIsTick(q) == FirstRound(q) => q.tid = q.tick

LEMMA IdOfTick ==
  ASSUME NEW t \in Nat, NEW u \in Nat, t <= u
  PROVE  /\ TransactionId(t, u) \in Nat /\ u \div IdMod \in Nat
         /\ u \div IdMod = 0 /\ t # 0 => TransactionId(t, u) = t
<1>. USE ResolverAssumption
<1>1. t % IdMod \in 0 .. IdMod - 1 /\ u \div IdMod \in Nat
  OBVIOUS
<1>2. (u \div IdMod) % IdMod \in 0 .. IdMod - 1
  BY <1>1
<1>3. TransactionId(t, u) \in Nat
  BY <1>1, <1>2, XorAssumption DEF TransactionId
<1>4. ASSUME u \div IdMod = 0, t # 0 PROVE TransactionId(t, u) = t
  <2>1. u < IdMod
    BY <1>4
  <2>2. t % IdMod = t /\ 0 % IdMod = 0
    BY <2>1
  <2>3. Xor(t, 0) = t
    BY <1>1, <2>2, XorAssumption
  <2>. QED  BY <1>4, <2>2, <2>3 DEF TransactionId
<1>. QED  BY <1>1, <1>3, <1>4

(* The answer taken came to the port and with the id waited for; and the    *)
(* socket table holds the port of the wait and nothing else.                *)
ResolverInv ==
  /\ tick \in Nat
  /\ rx \in [waiting : BOOLEAN, tid : Nat, got : BOOLEAN, answer : Query]
  /\ query \in Query /\ net \subseteq Query
  /\ name \in Name /\ pc \in {"idle", "resolve", "wait", "unpack"}
  /\ \A q \in net : IdIsTick(q)
  /\ pc = "wait" => /\ IdIsTick(query) /\ rx.tid = query.tid
                    /\ rx.got => /\ rx.answer \in net /\ rx.answer.tid = rx.tid
                                 /\ rx.answer.port = query.port
                    /\ OnlyBound(sockets, query.port)
  /\ pc # "wait" => AllFree(sockets)

LEMMA ResolverInit == Init => ResolverInv
<1>. SUFFICES ASSUME Init PROVE ResolverInv
  OBVIOUS
<1>1. NoQuery \in Query /\ NoQuery.name \in Name
  BY ResolverAssumption DEF NoQuery, Query
<1>. QED  BY <1>1, ResolverAssumption DEF Init, ResolverInv, AllFree

LEMMA ResolverStep == ResolverInv /\ [Next]_vars => ResolverInv'
<1>. SUFFICES ASSUME ResolverInv, [Next]_vars PROVE ResolverInv'
  OBVIOUS
<1>. USE ResolverAssumption DEF ResolverInv
<1>1. CASE Tick
  BY <1>1 DEF Tick, Later
<1>2. ASSUME NEW n \in Name, dns_resolve_a(n) PROVE ResolverInv'
  BY <1>2 DEF dns_resolve_a
<1>3. CASE NoMac
  BY <1>3 DEF NoMac, Return
<1>4. ASSUME NEW o \in Outcome, NEW t \in Ticks, NEW u \in Ticks, Ask(o, t, u)
      PROVE  ResolverInv'
  <2>. DEFINE port  == tick % PortMod
              tid   == TransactionId(t, u)
              q     == [tid |-> tid, port |-> port, name |-> name, tick |-> t,
                        round |-> u \div IdMod]
              bound == udp_bind(sockets, port)
  <2>1. CASE Bound(sockets, Free) = {}
    BY <1>4, <2>1 DEF Ask, Return
  <2>2. CASE Bound(sockets, Free) # {}
    <3>1. pc = "resolve" /\ port \in Nat /\ t \in Nat /\ u \in Nat /\ t <= u
      BY <1>4 DEF Ask
    <3>2. OnlyBound(bound, port) /\ AllFree(udp_unbind(bound, port))
      BY <2>2, <3>1, BindOne, UnbindOne
    <3>3. /\ rx' = IF o = "malformed" THEN [rx EXCEPT !.tid = q.tid]
                   ELSE [rx EXCEPT !.waiting = TRUE, !.tid = q.tid, !.got = FALSE]
          /\ query' = q
          /\ net' = IF o = "arrives" THEN net \cup {q} ELSE net
          /\ IF o \in {"arrives", "lost"}
             THEN sockets' = bound /\ pc' = "wait"
             ELSE sockets' = udp_unbind(bound, port) /\ pc' = "idle"
          /\ tick' = u /\ UNCHANGED name
      BY <1>4, <2>2 DEF Ask, Return
    <3>4. q \in Query /\ IdIsTick(q) /\ tid \in Nat
      BY <3>1, IdOfTick DEF Query, IdIsTick, FirstRound
    <3>5. query'.port = port /\ query'.tid = tid /\ IdIsTick(query')
      BY <3>3, <3>4
    <3>. HIDE DEF bound, tid
    <3>6. /\ rx' \in [waiting : BOOLEAN, tid : Nat, got : BOOLEAN, answer : Query]
          /\ rx'.tid = tid /\ (o # "malformed" => rx'.got = FALSE)
      BY <3>3, <3>4
    <3>7. net' \subseteq Query /\ \A p \in net' : IdIsTick(p)
      BY <3>3, <3>4
    <3>8. pc' = "wait" => o # "malformed" /\ OnlyBound(sockets', query'.port)
      BY <3>2, <3>3, <3>5
    <3>9. pc' # "wait" => AllFree(sockets')
      BY <3>2, <3>3
    <3>. QED  BY <3>1, <3>3, <3>4, <3>5, <3>6, <3>7, <3>8, <3>9
  <2>. QED  BY <2>1, <2>2
<1>5. ASSUME NEW q \in net, Answer(q) PROVE ResolverInv'
  <2>1. \/ rx' = rx
        \/ /\ Bound(sockets, q.port) # {} /\ q.tid = rx.tid
           /\ rx' = [rx EXCEPT !.got = TRUE, !.answer = q]
    BY <1>5 DEF Answer, Accepts
  <2>2. ASSUME pc = "wait", Bound(sockets, q.port) # {} PROVE q.port = query.port
    BY <2>2 DEF OnlyBound, Bound, Free, Query
  <2>3. /\ rx' \in [waiting : BOOLEAN, tid : Nat, got : BOOLEAN, answer : Query]
        /\ rx'.tid = rx.tid
        /\ rx' = rx \/ (rx'.answer = q /\ q.tid = rx.tid /\ Bound(sockets, q.port) # {})
    BY <2>1
  <2>. QED  BY <1>5, <2>2, <2>3 DEF Answer
<1>6. CASE TimeOut
  <2>1. query.port \in Nat
    BY DEF Query
  <2>2. AllFree(sockets')
    BY <1>6, <2>1, UnbindOne DEF TimeOut
  <2>3. tick' \in Nat
    BY <1>6 DEF TimeOut, Later
  <2>4. rx' \in [waiting : BOOLEAN, tid : Nat, got : BOOLEAN, answer : Query]
    BY <1>6 DEF TimeOut
  <2>. QED  BY <1>6, <2>2, <2>3, <2>4 DEF TimeOut, Return
<1>7. CASE Follow
  <2>1. query.port \in Nat
    BY DEF Query
  <2>2. AllFree(sockets')
    BY <1>7, <2>1, UnbindOne DEF Follow
  <2>3. name' \in Name /\ pc' \in {"idle", "resolve", "unpack"}
    BY <1>7 DEF Follow, Return
  <2>. QED  BY <1>7, <2>2, <2>3 DEF Follow
<1>8. CASE UNCHANGED vars
  BY <1>8 DEF vars
<1>. QED  BY <1>1, <1>2, <1>3, <1>4, <1>5, <1>6, <1>7, <1>8 DEF Next

(* The answer that dns_exchange takes came to its port with its id, and is  *)
(* to a query of its tick while the ticks have not come round the ids       *)
(* (2^16 ticks), whatever was lost, delayed or repeated; and no way out of  *)
(* it leaves a socket bound, for every table of sockets, every range of     *)
(* ports and ids and every timer.                                           *)
THEOREM ExchangesStayIsolated == Spec => []ExchangesIsolated
<1>1. ResolverInv => ExchangesIsolated
  <2>. SUFFICES ASSUME ResolverInv PROVE ExchangesIsolated
    OBVIOUS
  <2>1. ASSUME pc = "wait", rx.got
        PROVE  /\ rx.answer.port = query.port /\ rx.answer.tid = query.tid
               /\ FirstRound(query) /\ FirstRound(rx.answer) => rx.answer.tick = query.tick
    BY <2>1 DEF ResolverInv, IdIsTick
  <2>2. ASSUME pc # "wait" PROVE Bound(sockets, Free) = Slots
    BY <2>2 DEF ResolverInv, AllFree, Bound
  <2>. QED  BY <2>1, <2>2 DEF ExchangesIsolated
<1>. QED  BY <1>1, ResolverInit, ResolverStep, PTL DEF Spec

-----------------------------------------------------------------------------
(* Link: echo requests.                                                     *)
CONSTANTS Host, MaxPings, MaxLost, Target, U16, MaxRequests

VARIABLES knows4, knows6, waits, inbox, waiter, seq, pings, lost,
          ping_pc, kind, dst, ping_wait, seq_global, resolved, ping_net, asked, requests, answered

Wire == INSTANCE Link WITH pc <- ping_pc, net <- ping_net

Request == [kind : Wire!Family, from : Target, seq : Nat, n : Nat]
Waiter  == [active : BOOLEAN, seq : Nat, target : Target, replied : BOOLEAN, n : Nat]

EchoType ==
  /\ ping_pc \in {"idle", "resolve", "wait"} /\ kind \in Wire!Family /\ dst \in Target
  /\ ping_wait \in [Wire!Family -> Waiter] /\ seq_global \in [Wire!Family -> Nat]
  /\ requests \in 0 .. MaxRequests /\ asked \subseteq Request /\ ping_net \subseteq asked

(* A request is active only while its call waits; sequence numbers, which   *)
(* have not come round, tell the requests of a kind apart; and an answer    *)
(* that is noted is to a request that was asked.                            *)
EchoInv ==
  /\ EchoType
  /\ \A k \in Wire!Family : ping_wait[k].active <=> (ping_pc = "wait" /\ k = kind)
  /\ \A k \in Wire!Family : seq_global[k] <= requests /\ ping_wait[k].seq = seq_global[k]
  /\ ping_pc = "resolve" => \A k \in Wire!Family : seq_global[k] < requests
  /\ \A r \in asked : r.seq <= seq_global[r.kind]
  /\ \A r \in asked : r.seq = seq_global[r.kind] => r.n = ping_wait[r.kind].n
  /\ ping_pc = "wait" => /\ ping_wait[kind].n = requests
                         /\ ping_wait[kind].replied => \E r \in asked : r.n = requests
  /\ \A n \in answered : \E r \in asked : r.n = n

LEMMA EchoInit == ASSUME MaxRequests \in Nat PROVE Wire!PingInit => EchoInv
<1>. SUFFICES ASSUME Wire!PingInit PROVE EchoInv
  OBVIOUS
<1>1. Wire!NoWait \in Waiter /\ Wire!NoWait.seq = 0 /\ Wire!NoWait.active = FALSE
  BY DEF Wire!PingInit, Wire!NoWait, Waiter
<1>2. EchoType
  BY <1>1 DEF Wire!PingInit, EchoType, Wire!Family
<1>. QED  BY <1>1, <1>2 DEF Wire!PingInit, EchoInv, Wire!Family

LEMMA EchoStep ==
  ASSUME MaxRequests \in Nat, U16 \in Nat, MaxRequests < U16, EchoInv, [Wire!PingNext]_(Wire!pingvars)
  PROVE  EchoInv'
<1>. USE DEF EchoInv, EchoType
<1>1. ASSUME NEW k \in Wire!Family, NEW t \in Target, Wire!Call(k, t) PROVE EchoInv'
  <2>1. ping_pc = "idle" /\ ping_pc' \in {"idle", "resolve"} /\ requests' = requests + 1
        /\ requests' \in 0 .. MaxRequests /\ kind' = k /\ dst' = t
        /\ UNCHANGED <<ping_wait, seq_global, ping_net, asked, answered>>
    BY <1>1 DEF Wire!Call
  <2>. QED  BY <2>1
<1>2. ASSUME NEW t \in Target, Wire!HopAnswers(t) PROVE EchoInv'
  BY <1>2 DEF Wire!HopAnswers
<1>3. CASE Wire!ResolveTimesOut
  BY <1>3 DEF Wire!ResolveTimesOut
<1>4. ASSUME NEW sent \in BOOLEAN, NEW reaches \in BOOLEAN, Wire!Send(sent, reaches)
      PROVE  EchoInv'
  <2>1. ping_pc = "resolve" /\ ~Wire!Busy
    BY <1>4 DEF Wire!Send, Wire!Busy
  <2>. DEFINE s == seq_global[kind] + 1
              w == [active |-> sent, seq |-> s, target |-> dst, replied |-> FALSE, n |-> requests]
              r == [kind |-> kind, from |-> dst, seq |-> s, n |-> requests]
  <2>2. s \in Nat /\ s <= requests /\ s < U16 /\ Wire!NextSeq(kind) = s
    BY <2>1 DEF Wire!NextSeq
  <2>3. /\ seq_global' = [seq_global EXCEPT ![kind] = s]
        /\ ping_wait' = [ping_wait EXCEPT ![kind] = w]
        /\ asked' = IF sent /\ reaches THEN asked \cup {r} ELSE asked
        /\ ping_pc' = IF sent THEN "wait" ELSE "idle"
        /\ UNCHANGED <<kind, dst, ping_net, requests, answered>>
    BY <1>4, <2>1, <2>2 DEF Wire!Send
  <2>4. w \in Waiter /\ r \in Request
    BY <2>2 DEF Waiter, Request
  <2>5. w.active = sent /\ w.seq = s /\ w.n = requests /\ w.replied = FALSE
        /\ r.kind = kind /\ r.seq = s /\ r.n = requests
    OBVIOUS
  <2>. HIDE DEF w, r, s
  <2>6. EchoType'
    BY <2>2, <2>3, <2>4
  <2>7. \A k \in Wire!Family : ping_wait'[k] = (IF k = kind THEN w ELSE ping_wait[k])
                             /\ seq_global'[k] = (IF k = kind THEN s ELSE seq_global[k])
    BY <2>3
  <2>8. \A k \in Wire!Family : ping_wait'[k].active <=> (ping_pc' = "wait" /\ k = kind')
    BY <2>1, <2>3, <2>5, <2>7
  <2>9. \A q \in asked' : q \in asked \/ q = r
    BY <2>3
  <2>10. \A q \in asked : q.kind \in Wire!Family /\ q.seq \in Nat
    BY DEF Request
  <2>11. \A q \in asked' : /\ q.seq <= seq_global'[q.kind]
                           /\ q.seq = seq_global'[q.kind] => q.n = ping_wait'[q.kind].n
    <3>. SUFFICES ASSUME NEW q \in asked'
                  PROVE  /\ q.seq <= seq_global'[q.kind]
                         /\ q.seq = seq_global'[q.kind] => q.n = ping_wait'[q.kind].n
      OBVIOUS
    <3>1. CASE q = r
      BY <2>2, <2>5, <2>7, <3>1
    <3>2. CASE q \in asked
      <4>1. q.kind \in Wire!Family /\ q.seq \in Nat /\ q.seq <= seq_global[q.kind]
        BY <2>10, <3>2
      <4>2. q.kind = kind => q.seq < s
        BY <4>1 DEF s
      <4>. QED  BY <2>2, <2>7, <3>2, <4>1, <4>2
    <3>. QED  BY <2>9, <3>1, <3>2
  <2>12. \A k \in Wire!Family : seq_global'[k] <= requests' /\ ping_wait'[k].seq = seq_global'[k]
    BY <2>1, <2>2, <2>3, <2>5, <2>7
  <2>13. asked \subseteq asked'
    BY <2>3
  <2>14. ping_pc' = "wait" => ping_wait'[kind'].n = requests' /\ ping_wait'[kind'].replied = FALSE
    BY <2>3, <2>5, <2>7
  <2>. QED  BY <2>3, <2>6, <2>8, <2>11, <2>12, <2>13, <2>14
<1>5. ASSUME NEW r \in asked, Wire!TargetAnswers(r) PROVE EchoInv'
  BY <1>5 DEF Wire!TargetAnswers
<1>6. ASSUME NEW r \in ping_net, Wire!EchoReply(r) PROVE EchoInv'
  <2>1. r \in asked /\ r.kind \in Wire!Family
    BY DEF Request
  <2>2. CASE ping_wait' = ping_wait
    BY <1>6, <2>2 DEF Wire!EchoReply
  <2>3. CASE ping_wait' # ping_wait
    <3>1. /\ ping_wait[r.kind].active /\ r.seq = ping_wait[r.kind].seq
          /\ ping_wait' = [ping_wait EXCEPT ![r.kind].replied = TRUE]
          /\ UNCHANGED <<ping_pc, kind, dst, seq_global, ping_net, asked, requests, answered>>
      BY <1>6, <2>3 DEF Wire!EchoReply
    <3>2. r.n = requests /\ r.kind = kind /\ ping_pc = "wait"
      BY <2>1, <3>1
    <3>3. /\ ping_wait' \in [Wire!Family -> Waiter]
          /\ \A k \in Wire!Family : /\ ping_wait'[k].active <=> ping_wait[k].active
                                  /\ ping_wait'[k].seq = ping_wait[k].seq
                                  /\ ping_wait'[k].n = ping_wait[k].n
      <4>. DEFINE v == [ping_wait[r.kind] EXCEPT !.replied = TRUE]
      <4>1. v \in Waiter /\ (v.active <=> ping_wait[r.kind].active)
            /\ v.seq = ping_wait[r.kind].seq /\ v.n = ping_wait[r.kind].n
        <5>1. ping_wait[r.kind] \in Waiter
          BY <2>1
        <5>. QED  BY <5>1 DEF Waiter
      <4>2. ping_wait' = [ping_wait EXCEPT ![r.kind] = v]
        BY <3>1
      <4>. HIDE DEF v
      <4>3. \A k \in Wire!Family : ping_wait'[k] = IF k = r.kind THEN v ELSE ping_wait[k]
        BY <4>2
      <4>. QED  BY <4>1, <4>2, <4>3
    <3>4. \A q \in asked : q.kind \in Wire!Family
      BY DEF Request
    <3>. QED  BY <2>1, <3>1, <3>2, <3>3, <3>4
  <2>. QED  BY <2>2, <2>3
<1>7. CASE Wire!Succeed \/ Wire!PingTimesOut
  <2>1. /\ ping_pc = "wait" /\ ping_pc' = "idle"
        /\ ping_wait' = [ping_wait EXCEPT ![kind].active = FALSE]
        /\ answered' = answered \/ (ping_wait[kind].replied /\ answered' = answered \cup {requests})
        /\ UNCHANGED <<kind, dst, seq_global, ping_net, asked, requests>>
    BY <1>7 DEF Wire!Succeed, Wire!PingTimesOut
  <2>2. /\ ping_wait' \in [Wire!Family -> Waiter]
        /\ \A k \in Wire!Family : /\ (ping_wait'[k].active <=> (ping_wait[k].active /\ k # kind))
                                /\ ping_wait'[k].seq = ping_wait[k].seq
                                /\ ping_wait'[k].n = ping_wait[k].n
    <3>. DEFINE v == [ping_wait[kind] EXCEPT !.active = FALSE]
    <3>1. v \in Waiter /\ v.active = FALSE /\ v.seq = ping_wait[kind].seq /\ v.n = ping_wait[kind].n
      BY DEF Waiter
    <3>2. ping_wait' = [ping_wait EXCEPT ![kind] = v]
      BY <2>1
    <3>. HIDE DEF v
    <3>3. \A k \in Wire!Family : ping_wait'[k] = IF k = kind THEN v ELSE ping_wait[k]
      BY <3>2
    <3>4. ping_wait' \in [Wire!Family -> Waiter]
      BY <3>1, <3>2
    <3>5. \A k \in Wire!Family : ping_wait'[k].active <=> (ping_wait[k].active /\ k # kind)
      BY <3>1, <3>3
    <3>. QED  BY <3>1, <3>3, <3>4, <3>5
  <2>3. \A q \in asked : q.kind \in Wire!Family
    BY DEF Request
  <2>4. \A n \in answered' : \E r \in asked : r.n = n
    BY <2>1
  <2>. QED  BY <2>1, <2>2, <2>3, <2>4
<1>8. CASE UNCHANGED Wire!pingvars
  BY <1>8 DEF Wire!pingvars
<1>. QED  BY <1>1, <1>2, <1>3, <1>4, <1>5, <1>6, <1>7, <1>8 DEF Wire!PingNext

(* A ping succeeds only when its own request reached its target, and the    *)
(* waiter is free when a call returns, for every set of targets and as long *)
(* as the sequence numbers have not come round (2^16 requests).             *)
THEOREM PingsStayIsolated ==
  ASSUME MaxRequests \in Nat, U16 \in Nat, MaxRequests < U16
  PROVE  Wire!PingSpec => []Wire!PingsIsolated
<1>1. EchoInv => Wire!PingsIsolated
  BY DEF EchoInv, Wire!PingsIsolated, Wire!Busy
<1>. QED  BY <1>1, EchoInit, EchoStep, PTL DEF Wire!PingSpec
================================================================================
