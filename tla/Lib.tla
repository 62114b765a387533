--------------------------------- MODULE Lib ---------------------------------
(***************************************************************************)
(* lib/hashmap.c, lib/json.c and lib/string.c: the library of the kernel.  *)
(* The three share no state.                                               *)
(***************************************************************************)
EXTENDS Integers, FiniteSets, FiniteSetsExt, SequencesExt

(* lib/hashmap.c: chained buckets, a power of two of them, doubled when     *)
(* three quarters are used.  Any allocation may fail.                       *)
CONSTANTS Keys, Values,
          Hash,                   \* fnv1a_hash of every key
          DEFAULT_CAPACITY,
          MaxCapacity             \* bound: capacity up to which the table grows

VARIABLES buckets, capacity, count,
          content                 \* what the calls have stored: [keys -> values]

mapvars == <<buckets, capacity, count, content>>

load_threshold(cap) == (cap * 75) \div 100
Empty(cap)     == [i \in 0 .. cap - 1 |-> << >>]
Bucket(k, cap) == Hash[k] % cap
Place(b, key)  == {i \in DOMAIN b : b[i].hash = Hash[key] /\ b[i].key = key}

(* The entries are taken bucket by bucket from the head, and each one is    *)
(* put at the head of its new bucket.                                       *)
hashmap_resize(new_cap) ==
  LET entries == FlattenSeq([i \in 1 .. capacity |-> buckets[i - 1]])
  IN FoldLeft(LAMBDA nb, e : [nb EXCEPT ![e.hash % new_cap] = <<e>> \o @],
              Empty(new_cap), entries)

AddEntry(b, cap, key, value) ==
  [b EXCEPT ![Bucket(key, cap)] = <<[key |-> key, hash |-> Hash[key], value |-> value]>> \o @]

(* A table that was doubled stays so when the entry cannot be allocated.    *)
hashmap_put(key, value) ==
  LET idx == Bucket(key, capacity)
      at  == Place(buckets[idx], key)
      doubles == count >= load_threshold(capacity)
      cap == IF doubles THEN 2 * capacity ELSE capacity
      b   == IF doubles THEN hashmap_resize(cap) ELSE buckets
  IN \/ /\ at # {}
        /\ buckets' = [buckets EXCEPT ![idx][Min(at)].value = value]
        /\ content' = [content EXCEPT ![key] = value] /\ UNCHANGED <<capacity, count>>
     \/ at = {} /\ doubles /\ UNCHANGED mapvars                  \* -ENOMEM from hashmap_resize
     \/ /\ at = {} /\ cap <= MaxCapacity /\ capacity' = cap
        /\ \/ /\ buckets' = AddEntry(b, cap, key, value) /\ count' = count + 1
              /\ content' = [k \in DOMAIN content \cup {key} |-> IF k = key THEN value ELSE content[k]]
           \/ buckets' = b /\ UNCHANGED <<count, content>>    \* -ENOMEM for the entry or its key

hashmap_get(key) ==
  LET b == buckets[Bucket(key, capacity)]
  IN {b[i].value : i \in {j \in Place(b, key) : j = Min(Place(b, key))}}

hashmap_contains(key) == Place(buckets[Bucket(key, capacity)], key) # {}

hashmap_remove(key) ==
  LET idx == Bucket(key, capacity) IN
  /\ hashmap_contains(key)
  /\ buckets' = [buckets EXCEPT ![idx] = RemoveAt(@, Min(Place(@, key)))]
  /\ count' = count - 1 /\ UNCHANGED capacity
  /\ content' = [k \in DOMAIN content \ {key} |-> content[k]]

hashmap_clear ==
  /\ buckets' = Empty(capacity) /\ count' = 0 /\ content' = << >> /\ UNCHANGED capacity

(* The keys hashmap_foreach passes to the callback, in order.               *)
hashmap_foreach ==
  FlattenSeq([i \in 1 .. capacity |-> [j \in DOMAIN buckets[i - 1] |-> buckets[i - 1][j].key]])

(* hashmap_create.                                                          *)
MapInit == capacity = DEFAULT_CAPACITY /\ buckets = Empty(capacity) /\ count = 0 /\ content = << >>

MapNext == \/ \E k \in Keys : hashmap_remove(k) \/ \E v \in Values : hashmap_put(k, v)
        \/ hashmap_clear

MapSpec == MapInit /\ [][MapNext]_mapvars

-----------------------------------------------------------------------------
(* The table is the map the calls have built: every key finds the last      *)
(* value put for it, a key that was removed or never stored finds nothing,  *)
(* hashmap_foreach visits every key once and count is their number, however *)
(* keys collide, the table grows or allocation fails.                       *)
MapExact ==
  /\ \A k \in Keys : hashmap_get(k) = IF k \in DOMAIN content THEN {content[k]} ELSE {}
  /\ count = Cardinality(DOMAIN content) /\ Len(hashmap_foreach) = count
  /\ Range(hashmap_foreach) = DOMAIN content

-----------------------------------------------------------------------------
(* The JSON parser (lib/json.c): the recursive functions as a stack of the  *)
(* arrays and objects under construction, the text as the tokens that they  *)
(* read, and every block they allocate.  Each allocation may fail; the      *)
(* parser then gives back what it has built so far and returns NULL.  What  *)
(* a string or a number says is left out.                                   *)
CONSTANTS Capacity,   \* members a new array or object has room for, 8
          MaxTokens   \* bound: tokens of the text

VARIABLES read,       \* the tokens read so far
          stack,      \* what parse_array and parse_object are building, the innermost last
          blocks,     \* the allocated blocks
          next,       \* the next block
          root,       \* the result, << >> as long as there is none
          end,        \* "" while parsing, then "value", "null" or "freed"
          short,      \* an allocation has failed
          torn,       \* ghost: only one of the two arrays of an object could grow
          stray       \* ghost: a block was given back that was not allocated

jsonvars == <<read, stack, blocks, next, root, end, short, torn, stray>>

Scalars == {"string", "scalar"}     \* scalar: a number, true, false or null
Tokens  == Scalars \cup {"[", "]", "{", "}", ",", ":", "end"}

json_init ==
  /\ read = << >> /\ stack = << >> /\ blocks = {} /\ next = 1 /\ root = << >> /\ end = ""
  /\ short = FALSE /\ torn = FALSE /\ stray = FALSE

-----------------------------------------------------------------------------
(* A value is the set of all blocks below it, which is what json_free gives *)
(* back.  A frame is an array or object with its node, its arrays keys and  *)
(* values (an array has only values), its members, the key that waits for   *)
(* its value (0: none), and what is expected next.                          *)
Frame(kind, node, keys, values) ==
  [kind |-> kind, node |-> node, keys |-> keys, values |-> values, members |-> {},
   count |-> 0, capacity |-> Capacity, key |-> 0, want |-> "first"]

Tree(f)  == ({f.node, f.keys, f.values} \cup f.members) \ {0}
Below(s) == UNION {Tree(s[i]) \cup ({s[i].key} \ {0}) : i \in DOMAIN s}

(* All functions on the stack return NULL one after the other, and each     *)
(* gives back what it has built.                                            *)
GiveUp(frames, held, now) ==
  /\ stray' = (stray \/ ~ (Below(frames) \cup held \subseteq now))
  /\ blocks' = now \ (Below(frames) \cup held)
  /\ stack' = << >> /\ end' = "null"
  /\ UNCHANGED root

(* The value becomes the last member, with its key.                         *)
Grown(f, value) ==
  [f EXCEPT !.members = @ \cup value \cup ({f.key} \ {0}), !.count = @ + 1, !.key = 0,
            !.want = "separator"]

(* The innermost function got a value.  Without room in the frame, krealloc *)
(* replaces its arrays by larger ones.                                      *)
Attach(frames, value, now, fresh) ==
  IF frames = << >>
  THEN /\ root' = value /\ end' = "value" /\ stack' = << >> /\ blocks' = now /\ next' = fresh
       /\ UNCHANGED <<short, torn, stray>>
  ELSE
  LET f     == Last(frames)
      below == Front(frames)
      Moved(g) == [g EXCEPT !.capacity = 2 * @]
  IN \/ /\ f.count < f.capacity
        /\ stack' = Append(below, Grown(f, value))
        /\ blocks' = now /\ next' = fresh /\ UNCHANGED <<root, end, short, torn, stray>>
     \/ /\ f.count >= f.capacity
        /\ next' = fresh + 2
        /\ \E keysOk, valuesOk \in BOOLEAN :
             LET k    == IF f.kind = "object" /\ keysOk THEN {fresh} ELSE {}
                 v    == IF valuesOk THEN {fresh + 1} ELSE {}
                 gone == (IF k # {} THEN {f.keys} ELSE {}) \cup (IF v # {} THEN {f.values} ELSE {})
                 left == (now \ gone) \cup k \cup v
             IN /\ f.kind = "array" => keysOk
                /\ IF keysOk /\ valuesOk
                   THEN /\ stack' = Append(below, Grown(Moved([f EXCEPT !.keys = IF k = {} THEN 0 ELSE fresh,
                                                                        !.values = fresh + 1]), value))
                        /\ blocks' = left /\ UNCHANGED <<root, end, short, torn, stray>>
                   ELSE /\ short' = TRUE /\ torn' = (torn \/ k # {} \/ v # {})
                        /\ GiveUp(frames, value, left)

-----------------------------------------------------------------------------
WantsValue == stack # << >> => \/ Last(stack).want = "value"
                               \/ Last(stack).kind = "array" /\ Last(stack).want = "first"
WantsKey   == stack # << >> /\ Last(stack).kind = "object" /\ Last(stack).want \in {"first", "key"}

Reads(t) == /\ end = "" /\ (Len(read) < MaxTokens \/ t = "end")
            /\ read' = Append(read, t)

(* Of the n blocks that a function asks for one after the other, the one    *)
(* that it does not get makes it give back those it got.                    *)
RunsOut == /\ short' = TRUE /\ GiveUp(stack, {}, blocks) /\ UNCHANGED <<next, torn>>

(* A string consists of its text and its node, other scalars of a node.     *)
parse_scalar(t) ==
  /\ Reads(t) /\ WantsValue
  /\ LET new == IF t = "string" THEN {next, next + 1} ELSE {next} IN
     \/ Attach(stack, new, blocks \cup new, next + 2)
     \/ RunsOut

parse_key ==
  /\ Reads("string") /\ WantsKey
  /\ \/ /\ stack' = [stack EXCEPT ![Len(stack)].key = next, ![Len(stack)].want = "colon"]
        /\ blocks' = blocks \cup {next} /\ next' = next + 1
        /\ UNCHANGED <<root, end, short, torn, stray>>
     \/ RunsOut

parse_colon ==
  /\ Reads(":") /\ stack # << >> /\ Last(stack).want = "colon"
  /\ stack' = [stack EXCEPT ![Len(stack)].want = "value"]
  /\ UNCHANGED <<blocks, next, root, end, short, torn, stray>>

(* parse_array and parse_object up to their first member.                   *)
parse_open(t) ==
  LET frame == IF t = "[" THEN Frame("array", next, 0, next + 1)
                          ELSE Frame("object", next, next + 1, next + 2)
  IN /\ Reads(t) /\ WantsValue
     /\ \/ /\ stack' = Append(stack, frame)
           /\ blocks' = blocks \cup Tree(frame) /\ next' = next + 3
           /\ UNCHANGED <<root, end, short, torn, stray>>
        \/ RunsOut

parse_comma ==
  /\ Reads(",") /\ stack # << >> /\ Last(stack).want = "separator"
  /\ stack' = [stack EXCEPT ![Len(stack)].want = IF Last(stack).kind = "array" THEN "value" ELSE "key"]
  /\ UNCHANGED <<blocks, next, root, end, short, torn, stray>>

Closes(t) == /\ stack # << >> /\ Last(stack).want \in {"first", "separator"}
             /\ t = IF Last(stack).kind = "array" THEN "]" ELSE "}"

parse_close(t) ==
  /\ Reads(t) /\ Closes(t)
  /\ Attach(Front(stack), Tree(Last(stack)), blocks, next)

Expected(t) == \/ t \in Scalars \cup {"[", "{"} /\ WantsValue
               \/ t = "string" /\ WantsKey
               \/ t = ":" /\ stack # << >> /\ Last(stack).want = "colon"
               \/ t = "," /\ stack # << >> /\ Last(stack).want = "separator"
               \/ Closes(t)

parse_other(t) ==
  /\ Reads(t) /\ ~ Expected(t)
  /\ GiveUp(stack, {}, blocks) /\ UNCHANGED <<next, short, torn>>

json_free ==
  /\ end = "value"
  /\ stray' = (stray \/ ~ (root \subseteq blocks))
  /\ blocks' = blocks \ root /\ root' = << >> /\ end' = "freed"
  /\ UNCHANGED <<read, stack, next, short, torn>>

(* The next call, seen by itself: what a torn object left behind is not     *)
(* followed any further.                                                    *)
json_parse ==
  /\ end \in {"null", "freed"}
  /\ read' = << >> /\ stack' = << >> /\ blocks' = {} /\ next' = 1 /\ root' = << >> /\ end' = ""
  /\ short' = FALSE /\ torn' = FALSE /\ stray' = FALSE

JsonNext == \/ \E t \in Scalars : parse_scalar(t)
            \/ parse_key \/ parse_colon \/ parse_comma
            \/ \E t \in {"[", "{"} : parse_open(t)
            \/ \E t \in {"]", "}"} : parse_close(t)
            \/ \E t \in Tokens : parse_other(t)
            \/ json_free \/ json_parse

-----------------------------------------------------------------------------
(* The grammar.                                                             *)
RECURSIVE IsValue(_), IsList(_, _)
IsValue(s) ==
  \/ Len(s) = 1 /\ s[1] \in Scalars
  \/ /\ Len(s) >= 2
     /\ LET inner == SubSeq(s, 2, Len(s) - 1) IN
        \/ s[1] = "[" /\ Last(s) = "]" /\ (inner = << >> \/ IsList(inner, FALSE))
        \/ s[1] = "{" /\ Last(s) = "}" /\ (inner = << >> \/ IsList(inner, TRUE))

(* Values, or pairs of a string and a value, with commas between them.      *)
IsList(s, pairs) ==
  LET IsMember(m) == IF pairs THEN Len(m) > 2 /\ m[1] = "string" /\ m[2] = ":"
                                   /\ IsValue(SubSeq(m, 3, Len(m)))
                              ELSE IsValue(m)
  IN \/ IsMember(s)
     \/ \E k \in DOMAIN s : /\ s[k] = ","
                            /\ IsMember(SubSeq(s, 1, k - 1)) /\ IsList(SubSeq(s, k + 1, Len(s)), pairs)

(* json_parse returns a value for exactly the texts that begin with one, as *)
(* long as there is memory.  When it returns, the allocated blocks are      *)
(* those of the value, or none, and none is given back twice, also when any *)
(* allocation fails and after json_free; except when only one of the two    *)
(* arrays of an object could be made larger.                                *)
JsonExact ==
  /\ end \in {"value", "freed"} => IsValue(read)
  /\ IsValue(read) => end \in {"value", "freed"} \/ short
  /\ ~ torn => ~ stray /\ (end # "" => blocks = IF end = "value" THEN root ELSE {})

-----------------------------------------------------------------------------
(* Memory and strings in C (lib/string.c).  A memory of a few cells, and    *)
(* calls with pointers into it that keep what C asks of the caller: the     *)
(* strings end inside the memory, there is room for the result, and only    *)
(* memmove is given overlapping regions.                                    *)
CONSTANTS
  Size,        \* cells of the memory
  MaxCount,    \* bound: the n of memcpy, strncpy, ...
  Bytes,       \* what the cells hold before a call; 0 ends a string
  W,           \* bits of an int
  Numbers,      \* the numbers that are converted
  Bases,
  Formats      \* format strings with their arguments, as sequences of pieces

VARIABLES
  mem,
  was,         \* ghost: the memory before the call
  call,        \* the call that has just returned, or NoCall
  ret          \* its result

cstrvars == <<mem, was, call, ret>>

Cells  == 0 .. Size - 1
NULL   == -1
NoCall == [fn |-> "none"]

Ended(m, s) == \E a \in s .. Size - 1 : m[a] = 0

-----------------------------------------------------------------------------
Memories == [Cells -> Nat]

(* The loops that copy n bytes, upwards and downwards.                      *)
Up[m \in Memories, d \in Nat, s \in Nat, n \in Nat] ==
  IF n = 0 THEN m ELSE Up[[m EXCEPT ![d] = m[s]], d + 1, s + 1, n - 1]

Down[m \in Memories, d \in Nat, s \in Nat, n \in Nat] ==
  IF n = 0 THEN m ELSE Down[[m EXCEPT ![d + n - 1] = m[s + n - 1]], d, s, n - 1]

memset(m, d, c, n) == [a \in Cells |-> IF a \in d .. d + n - 1 THEN c ELSE m[a]]
memcpy(m, d, s, n) == Up[m, d, s, n]
memmove(m, d, s, n) == IF d < s THEN Up[m, d, s, n]
                       ELSE IF d > s THEN Down[m, d, s, n] ELSE m

(* The first of n places that is in S, n when there is none.                *)
FirstOf(n, S) == Min({n} \cup S)

memcmp(m, a, b, n) == LET i == FirstOf(n, {j \in 0 .. n - 1 : m[a + j] # m[b + j]})
                      IN IF i = n THEN 0 ELSE m[a + i] - m[b + i]

strlen(m, s)     == FirstOf(Size - s, {i \in 0 .. Size - s - 1 : m[s + i] = 0})
strnlen(m, s, n) == Min({n, strlen(m, s)})

strcpy(m, d, s)     == Up[m, d, s, strlen(m, s) + 1]

(* The first loop has stored the 0 without counting it.                     *)
strncpy(m, d, s, n) == LET k == strnlen(m, s, n)
                       IN IF k = n THEN Up[m, d, s, n]
                          ELSE memset(Up[m, d, s, k + 1], d + k + 1, 0, n - k)

strcat(m, d, s)     == strcpy(m, d + strlen(m, d), s)
strncat(m, d, s, n) == LET e == d + strlen(m, d)
                           k == strnlen(m, s, n)
                       IN [Up[m, e, s, k] EXCEPT ![e + k] = 0]

(* Where two strings part: at a different character or at the end of both.  *)
Parting(m, a, b)    == LET n == Size - Max({a, b})
                       IN FirstOf(n, {j \in 0 .. n - 1 : m[a + j] = 0 \/ m[a + j] # m[b + j]})
strncmp(m, a, b, n) == LET i == Parting(m, a, b) IN IF i >= n THEN 0 ELSE m[a + i] - m[b + i]
strcmp(m, a, b)     == LET i == Parting(m, a, b) IN m[a + i] - m[b + i]

Occurrences(m, s, c) == {a \in s .. s + strlen(m, s) - 1 : m[a] = c}
strchr(m, s, c)  == IF Occurrences(m, s, c) # {} THEN Min(Occurrences(m, s, c))
                    ELSE IF c = 0 THEN s + strlen(m, s) ELSE NULL
strrchr(m, s, c) == IF c = 0 THEN s + strlen(m, s)
                    ELSE IF Occurrences(m, s, c) # {} THEN Max(Occurrences(m, s, c)) ELSE NULL

strstr(m, hay, needle) ==
  LET found == {a \in hay .. hay + strlen(m, hay) - 1 :
                  m[a] = m[needle] /\ strncmp(m, a, needle, strlen(m, needle)) = 0}
  IN IF m[needle] = 0 THEN hay ELSE IF found = {} THEN NULL ELSE Min(found)

-----------------------------------------------------------------------------
(* Numbers.  Characters have their ASCII codes.                             *)
MINUS == 45
PLUS  == 43
SPACE == 32
Char(digit, uppercase) ==
  IF digit < 10 THEN 48 + digit ELSE digit - 10 + (IF uppercase THEN 65 ELSE 97)

(* The digits, the last one first.                                          *)
Digits[u \in Nat, base \in Nat] ==
  IF u < base THEN <<u>> ELSE <<u % base>> \o Digits[u \div base, base]
Chars(u, base, uppercase) ==
  [i \in DOMAIN Digits[u, base] |-> Char(Digits[u, base][i], uppercase)]

itoa(value, base) ==
  LET neg == value < 0 /\ base = 10
      u   == IF neg THEN - (value + 1) + 1 ELSE value % 2 ^ W
  IN IF base \in 2 .. 36 THEN Reverse(Chars(u, base, FALSE) \o IF neg THEN <<MINUS>> ELSE << >>)
     ELSE << >>

IsDigit(c) == c \in 48 .. 57

Number(digits) == FoldLeft(LAMBDA r, c : r * 10 + c - 48, 0, digits)

(* Spaces, one sign, and digits up to the first other character.            *)
atoi(text) ==
  LET t    == text \o <<0>>
      sign == SelectInSeq(t, LAMBDA c : c # SPACE)
      from == IF t[sign] \in {MINUS, PLUS} THEN sign + 1 ELSE sign
      to   == SelectInSubSeq(t, from, Len(t), LAMBDA c : ~ IsDigit(c))
  IN (IF t[sign] = MINUS THEN -1 ELSE 1) * Number(SubSeq(t, from, to - 1))

_emit_uint(u, base, uppercase, min_width, pad) ==
  LET tmp == Chars(u, base, uppercase)
  IN Reverse(tmp \o [i \in 1 .. Max({0, min_width - Len(tmp)}) |-> pad])

_emit_int(v, min_width, pad) ==
  IF v < 0 THEN <<MINUS>> \o _emit_uint(- v, 10, FALSE, min_width - 1, pad)
           ELSE _emit_uint(v, 10, FALSE, min_width, pad)

(* What a piece of a format, with its argument, stands for.                 *)
TextOf(p) == CASE p.k = "int"  -> _emit_int(p.v, p.width, p.pad)
               [] p.k = "uint" -> _emit_uint(p.v, p.base, p.upper, p.width, p.pad)
               [] p.k = "ptr"  -> <<48, 120>> \o _emit_uint(p.v, 16, FALSE, 0, 48)
               [] p.k = "str"  -> p.s

_emit_char(out, buf, size, c) ==
  [mem |-> IF out.pos < size - 1 THEN [out.mem EXCEPT ![buf + out.pos] = c] ELSE out.mem,
   pos |-> out.pos + 1]

snprintf(m, buf, size, pieces) ==
  LET out == FoldLeft(LAMBDA o, p : FoldLeft(LAMBDA q, c : _emit_char(q, buf, size, c), o, TextOf(p)),
                      [mem |-> m, pos |-> 0], pieces)
  IN IF size = 0 THEN [mem |-> m, pos |-> 0]
     ELSE [out EXCEPT !.mem[buf + Min({out.pos, size - 1})] = 0]

-----------------------------------------------------------------------------
StringsInit == /\ mem \in [Cells -> Bytes] /\ was = mem
        /\ call = NoCall /\ ret = 0

Fits(a, n)       == a + n <= Size
Apart(a, k, b, n) == a + k <= b \/ b + n <= a

Calls(fn, d, s, n) == call = NoCall /\ call' = [fn |-> fn, d |-> d, s |-> s, n |-> n]
Gives(r)           == ret' = r /\ UNCHANGED <<mem, was>>
Leaves(m)          == mem' = m /\ ret' = 0 /\ UNCHANGED was

(* The calls that write memory.                                             *)
Writes(d, s, n) ==
  \/ /\ Fits(d, n) /\ Fits(s, n)
     /\ \/ Apart(d, n, s, n) /\ Calls("memcpy", d, s, n) /\ Leaves(memcpy(mem, d, s, n))
        \/ Calls("memmove", d, s, n) /\ Leaves(memmove(mem, d, s, n))
  \/ Fits(d, n) /\ s \in Bytes /\ Calls("memset", d, s, n) /\ Leaves(memset(mem, d, s, n))
  \/ LET k == strnlen(mem, s, n)
         e == strlen(mem, d)
     IN \/ /\ (k = n \/ Ended(mem, s)) /\ Fits(d, n + 1) /\ Fits(s, k) /\ Apart(d, n + 1, s, k + 1)
           /\ Calls("strncpy", d, s, n) /\ Leaves(strncpy(mem, d, s, n))
        \/ /\ Ended(mem, d) /\ (k = n \/ Ended(mem, s)) /\ Fits(s, k)
           /\ Fits(d, e + k + 1) /\ Apart(d, e + k + 1, s, k + 1)
           /\ Calls("strncat", d, s, n) /\ Leaves(strncat(mem, d, s, n))
  \/ LET k == strlen(mem, s) + 1
         e == strlen(mem, d)
     IN /\ n = 0 /\ Ended(mem, s)
        /\ \/ Fits(d, k) /\ Apart(d, k, s, k) /\ Calls("strcpy", d, s, n) /\ Leaves(strcpy(mem, d, s))
           \/ /\ Ended(mem, d) /\ Fits(d, e + k) /\ Apart(d, e + k, s, k)
              /\ Calls("strcat", d, s, n) /\ Leaves(strcat(mem, d, s))

(* The calls that only look at it.                                          *)
ReadsOnly(d, s, n) ==
  \/ Fits(d, n) /\ Fits(s, n) /\ Calls("memcmp", d, s, n) /\ Gives(memcmp(mem, d, s, n))
  \/ Ended(mem, d) /\ Ended(mem, s) /\ Calls("strncmp", d, s, n) /\ Gives(strncmp(mem, d, s, n))
  \/ /\ n = 0 /\ Ended(mem, d)
     /\ \/ Ended(mem, s) /\ Calls("strcmp", d, s, n) /\ Gives(strcmp(mem, d, s))
        \/ Ended(mem, s) /\ Calls("strstr", d, s, n) /\ Gives(strstr(mem, d, s))
        \/ s \in Bytes /\ Calls("strchr", d, s, n) /\ Gives(strchr(mem, d, s))
        \/ s \in Bytes /\ Calls("strrchr", d, s, n) /\ Gives(strrchr(mem, d, s))

Formatted(d, n, format) ==
  /\ Fits(d, n) /\ call = NoCall
  /\ call' = [fn |-> "snprintf", d |-> d, n |-> n, format |-> format]
  /\ LET out == snprintf(mem, d, n, format)
     IN mem' = out.mem /\ ret' = out.pos /\ UNCHANGED was

Converted(value, base) ==
  /\ call = NoCall
  /\ call' = [fn |-> "itoa", value |-> value, base |-> base, text |-> itoa(value, base)]
  /\ Gives(atoi(<<SPACE>> \o itoa(value, base)))

(* Every call is seen by itself.                                            *)
Return == call # NoCall /\ call' = NoCall /\ mem' = was /\ ret' = 0 /\ UNCHANGED was

(* Formatting and conversion do not look at memory: one is enough for them. *)
CStringNext ==
  \/ /\ call = NoCall
     /\ \/ \E d, s \in Cells, n \in 0 .. MaxCount : Writes(d, s, n) \/ ReadsOnly(d, s, n)
        \/ /\ mem = [a \in Cells |-> 1]
           /\ \/ \E d \in Cells, n \in 0 .. Size, f \in Formats : Formatted(d, n, f)
              \/ \E v \in Numbers, b \in Bases : Converted(v, b)
  \/ Return

-----------------------------------------------------------------------------
(* The string that begins at s, or its first n characters.                  *)
Text(m, s)     == [i \in 1 .. strlen(m, s) |-> m[s + i - 1]]
Start(m, s, n) == SubSeq(Text(m, s), 1, Min({n, strlen(m, s)}))

Less(a, b) == \E k \in 0 .. Len(b) - 1 :
                /\ k <= Len(a) /\ SubSeq(a, 1, k) = SubSeq(b, 1, k)
                /\ k < Len(a) => a[k + 1] < b[k + 1]
Ordered(r, a, b) == (r < 0 <=> Less(a, b)) /\ (r = 0 <=> a = b)

(* After a call that writes, the cells from d on hold that sequence, and    *)
(* all others what they held.                                               *)
Holds(d, seq) == \A a \in Cells : mem[a] = IF a \in d .. d + Len(seq) - 1 THEN seq[a - d + 1] ELSE was[a]

Zeros(n)     == [i \in 1 .. n |-> 0]
Cut(s, n)    == SubSeq(s, 1, Min({n, Len(s)}))
Region(a, n) == [i \in 1 .. n |-> was[a + i - 1]]

(* The digits spell the number, the shortest way, behind its sign and the   *)
(* padding, and with the width that is asked for.                           *)
Spells(text, v, width, pad) ==
  \E k \in 0 .. Len(text) :
    LET sign   == IF v < 0 THEN <<MINUS>> ELSE << >>
        digits == SubSeq(text, Len(sign) + k + 1, Len(text))
    IN /\ text = sign \o [i \in 1 .. k |-> pad] \o digits
       /\ digits # << >> /\ Number(digits) = (IF v < 0 THEN - v ELSE v)
       /\ Head(digits) = 48 => Len(digits) = 1
       /\ Len(text) >= width /\ (Len(text) > width => k = 0)

(* The loops of string.c do on memory what the functions of C do on         *)
(* regions and strings: memmove also where the regions overlap, comparisons *)
(* and searches as for sequences of characters, and no cell beside the      *)
(* result changes; strncpy alone stores one 0 more when its source is       *)
(* shorter than n.  snprintf cuts the text at the end of the buffer, ends   *)
(* it, and returns the length of the whole text.  Numbers are spelled and   *)
(* read back.                                                               *)
StringsExact ==
  CASE call.fn \in {"memcpy", "memmove"} -> Holds(call.d, Region(call.s, call.n))
    [] call.fn = "memset"  -> Holds(call.d, [i \in 1 .. call.n |-> call.s])
    [] call.fn = "strcpy"  -> Holds(call.d, Text(was, call.s) \o <<0>>)
    [] call.fn = "strcat"  -> Holds(call.d, Text(was, call.d) \o Text(was, call.s) \o <<0>>)
    [] call.fn = "strncat" -> Holds(call.d, Text(was, call.d) \o Start(was, call.s, call.n) \o <<0>>)
    [] call.fn = "strncpy" ->
         LET text == Start(was, call.s, call.n)
         IN Holds(call.d, text \o IF Len(text) = call.n THEN << >> ELSE Zeros(call.n - Len(text) + 1))
    [] call.fn = "memcmp"  -> Ordered(ret, Region(call.d, call.n), Region(call.s, call.n))
    [] call.fn = "strcmp"  -> Ordered(ret, Text(mem, call.d), Text(mem, call.s))
    [] call.fn = "strncmp" -> Ordered(ret, Start(mem, call.d, call.n), Start(mem, call.s, call.n))
    [] call.fn \in {"strchr", "strrchr"} ->
         LET at == {a \in call.d .. call.d + strlen(mem, call.d) : mem[a] = call.s}
         IN ret = IF at = {} THEN NULL ELSE IF call.fn = "strchr" THEN Min(at) ELSE Max(at)
    [] call.fn = "strstr"  ->
         LET at == {a \in call.d .. call.d + strlen(mem, call.d) :
                      IsPrefix(Text(mem, call.s), Text(mem, a))}
         IN ret = IF at = {} THEN NULL ELSE Min(at)
    [] call.fn = "snprintf" ->
         LET text == FlattenSeq([i \in DOMAIN call.format |-> TextOf(call.format[i])])
         IN IF call.n = 0 THEN mem = was
            ELSE /\ Holds(call.d, Cut(text, call.n - 1) \o <<0>>) /\ ret = Len(text)
                 /\ \A i \in DOMAIN call.format : LET p == call.format[i] IN
                      p.k = "int" => Spells(TextOf(p), p.v, p.width, p.pad)
    [] call.fn = "itoa" ->
         call.base = 10 => Spells(call.text, call.value, 0, SPACE) /\ ret = call.value
    [] OTHER -> TRUE
==============================================================================
