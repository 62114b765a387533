-------------------------------- MODULE Lz4 ---------------------------------
(***************************************************************************)
(* The text of a history entry on its way through lib/lz4.c: history_push  *)
(* compresses it, history_get and history_search decompress it.  Bytes are *)
(* 0 .. BYTE and a token holds two numbers of 0 .. NIBBLE, with            *)
(* BYTE + 1 = (NIBBLE + 1)^2 as in the code, where they are 255 and 15.    *)
(* Positions count from 0, as the pointers do.                             *)
(***************************************************************************)
EXTENDS Integers, Sequences, SequencesExt

CONSTANTS
  LZ4_MIN_MATCH,     \* the shortest match, 4
  NIBBLE, BYTE,      \* the largest half of a token and the largest byte
  LZ4_HASH_SIZE,     \* slots of the hash table
  Texts,             \* the texts that are pushed
  BufSizes           \* the buf_size that callers of history_get pass

VARIABLES entry,     \* << >>, or the entry with its text (a ghost) and its data
          got        \* << >>, or what the last reader was given, and why

zvars == <<entry, got>>

At(s, i)     == s[i + 1]
read32(s, i) == SubSeq(s, i + 1, i + LZ4_MIN_MATCH)
lz4_hash(v)  == FoldLeft(LAMBDA h, b : 3 * h + b, 0, v) % LZ4_HASH_SIZE
MaxOffset    == (BYTE + 1) * (BYTE + 1) - 1

(* How far the texts at a and at b <= a agree, up to the end.               *)
lz4_count(s, a, b) ==
  Min({k \in 0 .. Len(s) - a : a + k = Len(s) \/ At(s, a + k) # At(s, b + k)})

Nibble(n)   == IF n >= NIBBLE THEN NIBBLE ELSE n
Token(l, m) == Nibble(l) * (NIBBLE + 1) + Nibble(m)

(* Mutation: nothing is written for a rest of zero.                         *)
LengthBytes_NoZero(n) ==
  LET rem == n - NIBBLE IN
  IF n < NIBBLE THEN << >>
  ELSE [k \in 1 .. rem \div BYTE |-> BYTE] \o IF rem % BYTE = 0 THEN << >> ELSE <<rem % BYTE>>

(* The bytes that continue a length that does not fit into its half token.  *)
LengthBytes(n) ==
  LET rem == n - NIBBLE IN
  IF n < NIBBLE THEN << >> ELSE [k \in 1 .. rem \div BYTE |-> BYTE] \o <<rem % BYTE>>

(* Literals from position a to b, and a match of length m at distance d.    *)
Sequence(s, a, b, d, m) ==
  <<Token(b - a, m - LZ4_MIN_MATCH)>> \o LengthBytes(b - a) \o SubSeq(s, a + 1, b)
    \o <<d % (BYTE + 1), d \div (BYTE + 1)>> \o LengthBytes(m - LZ4_MIN_MATCH)

LastLiterals(s, a) == <<Token(Len(s) - a, 0)>> \o LengthBytes(Len(s) - a) \o SubSeq(s, a + 1, Len(s))

(* What the code takes for the largest size of a sequence.                  *)
Worst(l, m)  == 1 + l \div BYTE + l + 2 + m \div BYTE + 1
WorstLast(l) == 1 + l \div BYTE + l

(* One turn of the loop: the table gets the position of ip, and after a     *)
(* match also that of the byte behind it, from which the next turn starts.  *)
Turn(s, capacity, c) ==
  LET v     == read32(s, c.ip)
      ref   == c.htable[lz4_hash(v)]
      table == [c.htable EXCEPT ![lz4_hash(v)] = c.ip % (MaxOffset + 1)]
      m     == LZ4_MIN_MATCH + lz4_count(s, c.ip + LZ4_MIN_MATCH, ref + LZ4_MIN_MATCH)
      next  == c.ip + m
  IN IF c.ip - ref > MaxOffset \/ read32(s, ref) # v
     THEN [c EXCEPT !.ip = @ + 1, !.htable = table]
     ELSE IF Len(c.out) + Worst(c.ip - c.anchor, m) > capacity
     THEN [c EXCEPT !.fits = FALSE]
     ELSE [c EXCEPT !.ip = next, !.anchor = next,
                    !.out = @ \o Sequence(s, c.anchor, c.ip, c.ip - ref, m),
                    !.htable = IF next < Len(s) - LZ4_MIN_MATCH
                               THEN [table EXCEPT ![lz4_hash(read32(s, next))] = next % (MaxOffset + 1)]
                               ELSE table]

Bytes       == 0 .. BYTE
Compressing == [ip : Nat, anchor : Nat, out : Seq(Bytes), fits : BOOLEAN,
                htable : [0 .. LZ4_HASH_SIZE - 1 -> 0 .. MaxOffset]]

Turns[s \in Seq(Bytes), capacity \in Nat, c \in Compressing] ==
  IF c.fits /\ c.ip < Len(s) - LZ4_MIN_MATCH THEN Turns[s, capacity, Turn(s, capacity, c)] ELSE c

(* The block, or << >> for the result -1.                                   *)
lz4_compress(s, capacity) ==
  LET c == Turns[s, capacity, [ip |-> 1, anchor |-> 0, out |-> << >>, fits |-> TRUE,
                               htable |-> [h \in 0 .. LZ4_HASH_SIZE - 1 |-> 0]]]
  IN IF s = << >> \/ ~ c.fits \/ Len(c.out) + WorstLast(Len(s) - c.anchor) > capacity
     THEN << >>
     ELSE c.out \o LastLiterals(s, c.anchor)

-----------------------------------------------------------------------------
(* A length of which n stands in the token, continued from position i on,   *)
(* by bytes of which all but the last are BYTE; also the position behind.   *)
Length(data, i, n) ==
  LET ends == {k \in i .. Len(data) - 1 : At(data, k) < BYTE}
      last == IF ends = {} THEN Len(data) - 1 ELSE Min(ends)
  IN IF n # NIBBLE \/ i >= Len(data) THEN [len |-> n, ip |-> i]
     ELSE [len |-> n + (last - i) * BYTE + At(data, last), ip |-> last + 1]

(* m bytes from distance d on: the copy may read what it has just written.  *)
Copied(out, d, m) == [k \in 1 .. m |-> out[Len(out) - d + ((k - 1) % d) + 1]]

(* The sequence at d.ip: d.end is "" while there is more, "done" at the end *)
(* of the data, "zero" at a distance of 0, "bad" where anything else does   *)
(* not fit.                                                                 *)
Unpack(data, capacity, d) ==
  LET tok     == At(data, d.ip)
      lit     == Length(data, d.ip + 1, tok \div (NIBBLE + 1))
      behind  == lit.ip + lit.len
      out     == d.out \o SubSeq(data, lit.ip + 1, behind)
      dist    == At(data, behind) + (BYTE + 1) * At(data, behind + 1)
      match   == Length(data, behind + 2, tok % (NIBBLE + 1))
      m       == match.len + LZ4_MIN_MATCH
  IN IF behind > Len(data) \/ Len(d.out) + lit.len > capacity THEN [d EXCEPT !.end = "bad"]
     ELSE IF behind >= Len(data) THEN [d EXCEPT !.out = out, !.end = "done"]
     ELSE IF behind + 2 > Len(data) THEN [d EXCEPT !.end = "bad"]
     ELSE IF dist = 0 THEN [d EXCEPT !.end = "zero"]
     ELSE IF dist > Len(out) \/ Len(out) + m > capacity THEN [d EXCEPT !.end = "bad"]
     ELSE [ip |-> match.ip, out |-> out \o Copied(out, dist, m),
           end |-> IF match.ip < Len(data) THEN "" ELSE "done"]

Unpacking == [ip : Nat, out : Seq(Bytes), end : {"", "done", "zero", "bad"}]

Unpacks[data \in Seq(Bytes), capacity \in Nat, d \in Unpacking] ==
  IF d.end = "" THEN Unpacks[data, capacity, Unpack(data, capacity, d)] ELSE d

lz4_decompress(data, capacity) ==
  Unpacks[data, capacity, [ip |-> 0, out |-> << >>, end |-> IF data = << >> THEN "done" ELSE ""]]

-----------------------------------------------------------------------------
comp_max(n) == n + n \div BYTE + 16

(* The text of history_push: what lz4_compress refuses is stored as it is.  *)
Stored(s) ==
  LET comp == lz4_compress(s, comp_max(Len(s))) IN IF comp = << >> THEN s ELSE comp

Init == entry = << >> /\ got = << >>

history_push ==
  /\ entry = << >>
  /\ \E s \in Texts : entry' = [text |-> s, data |-> Stored(s)]
  /\ UNCHANGED got

(* What a reader with room for that many bytes gets: where decompressing    *)
(* fails, or makes nothing, the data are taken for an uncompressed text.    *)
Given(room) ==
  LET d == lz4_decompress(entry.data, Min({room, Len(entry.text)}))
  IN [room |-> room, end |-> d.end,
      text |-> IF d.end = "done" /\ d.out # << >> THEN d.out
               ELSE SubSeq(entry.data, 1, Min({Len(entry.data), room}))]

history_get(buf_size) ==
  /\ entry # << >> /\ got = << >> /\ entry.data # << >>
  /\ got' = Given(buf_size - 1)
  /\ UNCHANGED entry

(* history_search makes its buffer large enough for the entry.              *)
history_search ==
  /\ entry # << >> /\ got = << >> /\ entry.data # << >>
  /\ \E size \in BufSizes : got' = Given(Max({size - 1, Len(entry.text)}))
  /\ UNCHANGED entry

(* The entry is evicted, its slot is free again.                            *)
entry_free ==
  /\ got # << >> \/ (entry # << >> /\ entry.data = << >>)
  /\ entry' = << >> /\ got' = << >>

TextNext == \/ history_push
            \/ \E n \in BufSizes : history_get(n)
            \/ history_search
            \/ entry_free

-----------------------------------------------------------------------------
(* A reader with room for the text gets the text, unless the block holds a  *)
(* match of distance 0, on which lz4_decompress gives up; no block makes it *)
(* fail in another way or produce another text, lengths that fill a half    *)
(* token or a byte exactly and matches that overlap themselves included.    *)
(* The buffer of history_push has room for every block.                     *)
TextExact ==
  /\ got # << >> /\ got.room >= Len(entry.text) =>
       \/ got.end = "zero"
       \/ got.end = "done" /\ got.text = entry.text
  /\ entry # << >> => Len(entry.data) <= comp_max(Len(entry.text))

(* history.c: "history_get - decompress entry at logical index".  A reader  *)
(* with room for the text gets the text that was pushed.                    *)
TextReadBack ==
  got # << >> /\ got.room >= Len(entry.text) => got.text = entry.text
=============================================================================
