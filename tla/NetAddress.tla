----------------------------- MODULE NetAddress -----------------------------
(***************************************************************************)
(* Addresses in kernel/net/lwip_port.c: the neighbour caches, and the      *)
(* addresses that users and configuration write as texts.                  *)
(***************************************************************************)
EXTENDS Integers, Sequences, FiniteSets, FiniteSetsExt

(* The two neighbour caches of kernel/net/lwip_port.c, arp_table and        *)
(* nd_tbl, which are filled by the same rule: arp_table_add and             *)
(* nd_cache_add, read by arp_lookup and nd_lookup.                          *)
CONSTANTS TableSize, Ip, Mac, NoIp, NoMac

VARIABLES tab,                    \* per slot the address and the MAC, NoIp when not valid
          told                    \* the MAC that was last learned for an address

addrvars == <<tab, told>>
Slots == 0 .. TableSize - 1

CacheInit == /\ tab = [i \in Slots |-> [ip |-> NoIp, mac |-> NoMac]]
        /\ told = [ip \in Ip |-> NoMac]

At(ip) == {i \in Slots : tab[i].ip = ip}

(* Mutation: an address that is known is added a second time.               *)
SlotFor_NewFirst(ip) == IF At(NoIp) # {} THEN Min(At(NoIp)) ELSE 0

(* The slot that is written: of the same address, else the first that is    *)
(* not valid, else slot 0.                                                  *)
SlotFor(ip) == IF At(ip) # {} THEN Min(At(ip))
               ELSE IF At(NoIp) # {} THEN Min(At(NoIp)) ELSE 0

arp_table_add(ip, mac) ==
  LET i == SlotFor(ip)
  IN /\ tab' = [tab EXCEPT ![i] = [ip |-> ip, mac |-> mac]]
     /\ told' = [told EXCEPT ![ip] = mac]

(* The MAC of an address, from the first slot that has it.                  *)
arp_lookup(ip) == IF At(ip) = {} THEN NoMac ELSE tab[Min(At(ip))].mac

CacheNext == \E ip \in Ip, mac \in Mac : arp_table_add(ip, mac)
CacheSpec == CacheInit /\ [][CacheNext]_addrvars

-----------------------------------------------------------------------------
(* A lookup returns what was last learned for the address or nothing, never *)
(* an outdated MAC that another slot still holds.                           *)
LookupCurrent == \A ip \in Ip : arp_lookup(ip) \in {NoMac, told[ip]}

-----------------------------------------------------------------------------
(* The textual addresses of kernel/net/lwip_port.c: net_parse_ipv4,         *)
(* net_parse_ipv6 and net_format_ipv6.                                      *)
(*                                                                          *)
(* A text is a sequence of numerals and separators; a numeral is a number   *)
(* of one digit, the same in decimal and hexadecimal, or TooBig for any     *)
(* the parsers refuse.                                                      *)
CONSTANTS Words                   \* values of a group: some of 0 .. 9, 0 one of them

TooBig  == 10
Colon   == -1
Dot     == -2
Nul     == -3
Numeral(c) == c >= 0
Invalid == << >>                  \* -EINVAL
Char(t, p) == IF p <= Len(t) THEN t[p] ELSE Nul
Zeros(n)   == [i \in 1 .. n |-> 0]

(* Four octets with dots between them.                                      *)
net_parse_ipv4(t) ==
  IF /\ Len(t) = 7
     /\ \A i \in 1 .. 7 : IF i % 2 = 1 THEN t[i] \in 0 .. TooBig - 1 ELSE t[i] = Dot
  THEN [i \in 1 .. 4 |-> t[2 * i - 1]] ELSE Invalid

-----------------------------------------------------------------------------
(* Behind a group one colon is skipped.                                     *)
AfterGroup(t, p) == IF Char(t, p + 1) = Colon THEN p + 2 ELSE p + 1

(* The loop over groups from place p; dbl is the place of ::, or -1.        *)
RECURSIVE Groups(_, _, _, _)
Groups(t, p, words, dbl) ==
  CASE Char(t, p) = Nul -> [ok |-> TRUE, words |-> words, dbl |-> dbl]
    [] Char(t, p) = Colon /\ Char(t, p + 1) = Colon /\ dbl < 0 ->
         Groups(t, p + 2, words, Len(words))
    [] Numeral(Char(t, p)) /\ t[p] < TooBig /\ Len(words) < 8 ->
         Groups(t, AfterGroup(t, p), Append(words, t[p]), dbl)
    [] OTHER -> [ok |-> FALSE]

(* The missing groups are zeros at the place of ::.                         *)
Generic(t) ==
  LET s == IF Char(t, 1) = Colon /\ Char(t, 2) = Colon THEN Groups(t, 3, << >>, 0)
           ELSE Groups(t, 1, << >>, -1)
  IN IF ~s.ok \/ (s.dbl < 0 /\ Len(s.words) # 8) THEN Invalid
     ELSE IF s.dbl < 0 THEN s.words
     ELSE SubSeq(s.words, 1, s.dbl) \o Zeros(8 - Len(s.words))
            \o SubSeq(s.words, s.dbl + 1, Len(s.words))

(* The groups before an embedded IPv4 address fill the words from the       *)
(* first on, wherever :: is; what follows an eighth group is not looked at. *)
Embedded(t, colon) ==
  LET v4   == net_parse_ipv4(SubSeq(t, colon + 1, Len(t)))
      left == SelectSeq(SubSeq(t, 1, colon - 1), LAMBDA c : c # Colon)
      w    == left \o Zeros(8)
  IN IF v4 = Invalid \/ \E i \in DOMAIN left \cap 1 .. 8 : ~Numeral(left[i]) \/ left[i] = TooBig
     THEN Invalid
     ELSE SubSeq(w, 1, 6) \o <<(256 * v4[1]) + v4[2], (256 * v4[3]) + v4[4]>>

net_parse_ipv6(t) ==
  LET colons == {i \in DOMAIN t : t[i] = Colon}
      last   == CHOOSE i \in colons : \A j \in colons : j <= i
      dots   == {i \in DOMAIN t : t[i] = Dot /\ i > last}
  IN IF t = << >> THEN Invalid
     ELSE IF colons # {} /\ Cardinality(dots) = 3 THEN Embedded(t, last)
     ELSE Generic(t)

(* Groups with a colon between them.                                        *)
Joined(ws) == [k \in 1 .. (2 * Len(ws)) - 1 |-> IF k % 2 = 1 THEN ws[(k + 1) \div 2] ELSE Colon]

(* All eight groups, in full.                                               *)
net_format_ipv6(a) == Joined(a)

(* cmd_ping: an IPv4 address, an IPv6 address, or a name for the resolver.  *)
Target(t) == IF net_parse_ipv4(t) # Invalid THEN <<"IPv4", net_parse_ipv4(t)>>
             ELSE IF net_parse_ipv6(t) # Invalid THEN <<"IPv6", net_parse_ipv6(t)>>
             ELSE <<"DNS", t>>

-----------------------------------------------------------------------------
(* What the user types: an address in some form, and what cmd_ping takes it *)
(* for.                                                                     *)
VARIABLES typed, target

textvars == <<typed, target>>

Nothing == << >>

(* An address of eight words, in full; with :: for the words i to j; with   *)
(* its last words as an IPv4 address, or only those; a word too many and a  *)
(* word missing.                                                            *)
Octets(a) == <<0, Dot, a[7], Dot, 0, Dot, a[8]>>
Text(a, form, i, j) ==
  CASE form = "full"     -> net_format_ipv6(a)
    [] form = "short"    -> Joined(SubSeq(a, 1, i - 1)) \o <<Colon, Colon>> \o
                            Joined(SubSeq(a, j + 1, 8))
    [] form = "embedded" -> Joined(SubSeq(a, 1, 6)) \o <<Colon>> \o Octets(a)
    [] form = "IPv4"     -> Octets(a)
    [] form = "nine"     -> net_format_ipv6(a) \o <<Colon, 0>>
    [] form = "seven"    -> Joined(SubSeq(a, 1, 7))

cmd_ping(a, form, i, j) ==
  /\ typed'  = [address |-> a, form |-> form, from |-> i, to |-> j]
  /\ target' = Target(Text(a, form, i, j))

TextInit == typed = Nothing /\ target = Nothing

TextNext ==
  /\ target = Nothing
  /\ \E a \in [1 .. 8 -> Words] :
       \/ \E form \in {"full", "embedded", "IPv4", "nine", "seven"} : cmd_ping(a, form, 0, 0)
       \/ \E i \in 1 .. 8 : \E j \in i .. 8 :
            (\A k \in i .. j : a[k] = 0) /\ cmd_ping(a, "short", i, j)

(* An address is taken for itself when it is written as net_format_ipv6     *)
(* writes it, with :: for leading zeros, or with its last words as an IPv4  *)
(* address; an IPv4 address is one; a text of nine or of seven groups is no *)
(* address.                                                                 *)
LiteralsReadBack ==
  target # Nothing =>
    CASE typed.form \in {"full", "embedded"} -> target = <<"IPv6", typed.address>>
      [] typed.form = "short" -> typed.from = 1 => target = <<"IPv6", typed.address>>
      [] typed.form = "IPv4"  -> target = <<"IPv4", <<0, typed.address[7], 0, typed.address[8]>> >>
      [] OTHER -> target[1] = "DNS"
==============================================================================
