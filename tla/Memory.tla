------------------------------- MODULE Memory -------------------------------
(***************************************************************************)
(* agent/memory.c: the memory engine of an agent.  The entries lie in an   *)
(* array without gaps; an HNSW graph over the array's slots finds the      *)
(* entries nearest to a query.                                             *)
(*                                                                         *)
(* An embedding is a direction of the plane, a number of eighths of a turn *)
(* between 0 and 2; the cosine distance of two of them grows with the      *)
(* angle, and the zero vector of a cleared slot is as far from every       *)
(* vector as one at a right angle.  Which importances have dropped below   *)
(* the threshold is chosen when memory_forget asks, access_count stops at  *)
(* 2.  Time stamps and the working set (a hash map, see Lib) are left out. *)
(* The tiers in front of the engine are in the second half.                *)
(***************************************************************************)
EXTENDS BinHeap, Integers, FiniteSets, SequencesExt

CONSTANTS HNSW_M, HNSW_M0, HNSW_EF_CONSTRUCT, HNSW_EF_SEARCH, HNSW_MAX_LEVEL,
          MEM_INITIAL_CAP, MEM_MAX_ENTRIES,
          TopK,                   \* top_k of every retrieval
          MaxId, MaxFailures      \* bounds: entries stored, allocations that fail

VARIABLES entries,                \* [0 .. capacity - 1 -> entries], count of them live
          count, next_id,
          index,                  \* the graph
          failures,               \* allocations that have failed
          forgotten               \* memory_forget has removed an entry since the
                                  \* graph was built

memvars == <<entries, count, next_id, index, failures, forgotten>>

Embeddings == 0 .. 2
Zero       == 3
Levels     == 0 .. HNSW_MAX_LEVEL - 1
Cleared    == [id |-> 0, embedding |-> Zero, access_count |-> 0, content |-> 0]
capacity   == Cardinality(DOMAIN entries)

hnsw_distance(a, b) ==
  IF Zero \in {a, b} THEN 2 ELSE IF a > b THEN a - b ELSE b - a

MaxConn(l) == IF l = 0 THEN HNSW_M0 ELSE HNSW_M

hnsw_init(cap) == [nodes |-> [n \in 0 .. cap - 1 |-> [l \in Levels |-> << >>]],
                   count |-> 0, max_level |-> 0, entry_point |-> 0]

Item(es, q, n) == [id |-> n, dist |-> hnsw_distance(q, es[n].embedding)]

(* One pass over the neighbours of cur, then again from the best of them.   *)
RECURSIVE Descend(_, _, _, _, _)
Descend(g, es, q, cur, l) ==
  LET Closer(best, n) == IF n < g.count /\ Item(es, q, n).dist < Item(es, q, best).dist
                         THEN n ELSE best
      best == FoldLeft(Closer, cur, g.nodes[cur][l])
  IN IF best = cur THEN cur ELSE Descend(g, es, q, best, l)

(* From level top to level bottom + 1.                                      *)
RECURSIVE DescendTo(_, _, _, _, _, _)
DescendTo(g, es, q, cur, top, bottom) ==
  IF top <= bottom THEN cur
  ELSE DescendTo(g, es, q, Descend(g, es, q, cur, top), top - 1, bottom)

(* The loop over the candidates; s holds the candidates, the place of the   *)
(* next one, the results and the nodes seen.                                *)
RECURSIVE Expand(_, _, _, _, _, _)
Expand(g, es, q, l, ef, s) ==
  IF s.at > Len(s.cands) THEN s.result
  ELSE
    LET cands == Swap(s.cands, s.at, Least(s.cands, s.at))
        cur   == cands[s.at]
        nbrs  == g.nodes[cur.id][l]
        Visit(t, n) ==
          LET item == Item(es, q, n) IN
          IF n >= g.count \/ n \in t.seen THEN t
          ELSE IF Len(t.result) < ef \/ item.dist < t.result[1].dist
          THEN [t EXCEPT !.seen = @ \cup {n}, !.result = heap_push_max(@, ef, item),
                         !.cands = IF Len(@) < 4 * ef THEN Append(@, item) ELSE @]
          ELSE [t EXCEPT !.seen = @ \cup {n}]
    IN IF Len(s.result) >= ef /\ cur.dist > s.result[1].dist THEN s.result
       ELSE Expand(g, es, q, l, ef,
                   FoldLeft(Visit, [s EXCEPT !.cands = cands, !.at = @ + 1], nbrs))

hnsw_search_level(g, es, q, entry, l, ef) ==
  Expand(g, es, q, l, ef, [cands  |-> <<Item(es, q, entry)>>, at |-> 1,
                           result |-> <<Item(es, q, entry)>>, seen |-> {entry}])

(* The first of the most distant neighbours.                                *)
Replaced(ds) == CHOOSE i \in DOMAIN ds : /\ \A j \in DOMAIN ds : ds[i] >= ds[j]
                                         /\ \A j \in 1 .. i - 1 : ds[i] > ds[j]

hnsw_add_neighbor(g, es, n, m, l) ==
  LET nbrs == g.nodes[n][l]
      ds   == [i \in DOMAIN nbrs |-> Item(es, es[n].embedding, nbrs[i]).dist]
  IN IF m \in Range(nbrs) THEN g
     ELSE IF Len(nbrs) < MaxConn(l) THEN [g EXCEPT !.nodes[n][l] = Append(@, m)]
     ELSE IF Item(es, es[n].embedding, m).dist < ds[Replaced(ds)]
          THEN [g EXCEPT !.nodes[n][l][Replaced(ds)] = m]
     ELSE g

(* The levels from l down to 0: link n with the nearest ones found.         *)
RECURSIVE Connect(_, _, _, _, _)
Connect(g, es, n, cur, l) ==
  IF l < 0 THEN g
  ELSE LET found == hnsw_search_level(g, es, es[n].embedding, cur, l, HNSW_EF_CONSTRUCT)
           k     == IF Len(found) < MaxConn(l) THEN Len(found) ELSE MaxConn(l)
           near  == SortFrom(found, 1, k)
           Link(h, i) == hnsw_add_neighbor(hnsw_add_neighbor(h, es, n, near[i].id, l),
                                           es, near[i].id, n, l)
       IN Connect(FoldLeft(Link, g, [i \in 1 .. k |-> i]), es, n, near[1].id, l - 1)

(* ok: the array of results could be allocated.                             *)
hnsw_insert(g, es, n, level, ok) ==
  LET h   == [g EXCEPT !.nodes[n] = [l \in Levels |-> << >>]]
      cur == DescendTo(h, es, es[n].embedding, h.entry_point, h.max_level, level)
      top == IF level < h.max_level THEN level ELSE h.max_level
      c   == Connect(h, es, n, cur, top)
  IN IF g.count = 0 THEN [h EXCEPT !.entry_point = n, !.max_level = level, !.count = 1]
     ELSE IF ~ok THEN h
     ELSE [c EXCEPT !.max_level   = IF level > @ THEN level ELSE @,
                    !.entry_point = IF level > c.max_level THEN n ELSE @,
                    !.count       = IF n >= @ THEN n + 1 ELSE @]

(* The slots of the k entries nearest to q, the nearest first.              *)
hnsw_search(g, es, q, k) ==
  LET cur   == DescendTo(g, es, q, g.entry_point, g.max_level, 0)
      found == hnsw_search_level(g, es, q, cur, 0, IF k > HNSW_EF_SEARCH THEN k ELSE HNSW_EF_SEARCH)
      best  == SortFrom(found, 1, Len(found))
  IN IF g.count = 0 THEN << >> ELSE SubSeq(best, 1, IF Len(best) < k THEN Len(best) ELSE k)

-----------------------------------------------------------------------------
memory_init ==
  /\ entries = [n \in 0 .. MEM_INITIAL_CAP - 1 |-> Cleared]
  /\ count = 0 /\ next_id = 1 /\ index = hnsw_init(MEM_INITIAL_CAP)
  /\ failures = 0 /\ forgotten = FALSE

(* A graph over the first n entries, inserted in the order of the array.    *)
Build(es, n, cap, level) ==
  FoldLeft(LAMBDA g, i : hnsw_insert(g, es, i - 1, level[i - 1], TRUE),
           hnsw_init(cap), [i \in 1 .. n |-> i])

NewCapacity == IF 2 * capacity > MEM_MAX_ENTRIES THEN MEM_MAX_ENTRIES ELSE 2 * capacity

(* The arrays and graphs that a store into a full array may continue with:  *)
(* none, or twice the capacity and a graph built anew.                      *)
memory_grow ==
  LET es == [n \in 0 .. NewCapacity - 1 |-> IF n < capacity THEN entries[n] ELSE Cleared]
  IN IF NewCapacity <= capacity THEN {}
     ELSE {[es |-> es, g |-> Build(es, count, NewCapacity, level), rebuilt |-> TRUE] :
             level \in [0 .. count - 1 -> Levels]}

(* lost: which of the allocations fails.  Out of memory while growing, the  *)
(* call changes nothing.                                                    *)
memory_store(embedding, level, lost) ==
  /\ next_id <= MaxId
  /\ lost = "none" \/ failures < MaxFailures
  /\ failures' = IF lost = "none" THEN failures ELSE failures + 1
  /\ \E b \in IF count < capacity THEN {[es |-> entries, g |-> index, rebuilt |-> FALSE]}
              ELSE memory_grow :
       LET e  == [id |-> next_id, embedding |-> embedding, access_count |-> 1,
                  content |-> IF lost = "content" THEN 0 ELSE next_id]
           es == [b.es EXCEPT ![count] = e]
       IN /\ entries' = es
          /\ index' = hnsw_insert(b.g, es, count, level, lost # "insert")
          /\ forgotten' = (forgotten /\ ~b.rebuilt)
  /\ count' = count + 1 /\ next_id' = next_id + 1

Retrieved(q) == IF count = 0 THEN << >> ELSE hnsw_search(index, entries, q, TopK)

memory_retrieve(q) ==
  /\ LET found == {r.id : r \in Range(Retrieved(q))}
     IN entries' = [n \in DOMAIN entries |->
          IF n \in found /\ entries[n].access_count < 2
          THEN [entries[n] EXCEPT !.access_count = @ + 1] ELSE entries[n]]
  /\ UNCHANGED <<count, next_id, index, failures, forgotten>>

(* The slot that memory_fetch_by_id copies from.                            *)
memory_fetch_by_id(id) == {n \in 0 .. count - 1 : entries[n].id = id}

(* From slot i on: an entry to be dropped makes room for the last one,      *)
(* which is looked at next.                                                 *)
RECURSIVE Compact(_, _, _, _)
Compact(drop, i, es, n) ==
  IF i >= n THEN [es |-> es, n |-> n]
  ELSE IF es[i].id \in drop
  THEN Compact(drop, i, IF i < n - 1 THEN [es EXCEPT ![i] = es[n - 1], ![n - 1] = Cleared]
                        ELSE [es EXCEPT ![i].content = 0], n - 1)
  ELSE Compact(drop, i + 1, es, n)

(* low: the entries whose importance, set by the caller and decaying with   *)
(* time, has dropped below the threshold.                                   *)
memory_forget(low) ==
  LET drop == {entries[n].id : n \in {m \in low : entries[m].access_count <= 1}}
      c    == Compact(drop, 0, entries, count)
  IN /\ drop # {}
     /\ entries' = c.es /\ count' = c.n
     /\ forgotten' = TRUE
     /\ UNCHANGED <<next_id, index, failures>>

(* memory_serialize, and memory_deserialize of the image into a new engine. *)
(* An entry without its content (which is not written, although its length  *)
(* is) would shift the rest of the image: such an engine is not saved.      *)
RECURSIVE CapacityFor(_, _)
CapacityFor(cap, n) ==
  IF cap >= n THEN cap
  ELSE CapacityFor(IF 2 * cap > MEM_MAX_ENTRIES THEN MEM_MAX_ENTRIES ELSE 2 * cap, n)

Reload ==
  /\ \A n \in 0 .. count - 1 : entries[n].content # 0
  /\ LET cap == CapacityFor(MEM_INITIAL_CAP, count)
         es  == [n \in 0 .. cap - 1 |-> IF n < count THEN entries[n] ELSE Cleared]
     IN /\ entries' = es
        /\ \E level \in [0 .. count - 1 -> Levels] : index' = Build(es, count, cap, level)
  /\ forgotten' = FALSE
  /\ UNCHANGED <<count, next_id, failures>>

MemoryNext ==
  \/ \E e \in Embeddings, level \in Levels, lost \in {"none", "content", "insert"} :
       memory_store(e, level, lost)
  \/ \E q \in Embeddings : memory_retrieve(q)
  \/ \E low \in SUBSET (0 .. count - 1) : memory_forget(low)
  \/ Reload

-----------------------------------------------------------------------------
(* The array holds each remembered entry once, so that memory_fetch_by_id   *)
(* finds it in one slot only, with its own content unless that could not be *)
(* allocated, and nothing of value behind count.                            *)
EntriesExact ==
  /\ \A n \in 0 .. count - 1 : /\ memory_fetch_by_id(entries[n].id) = {n}
                               /\ entries[n].id \in 1 .. next_id - 1
                               /\ entries[n].content # entries[n].id => failures > 0
  /\ \A n \in DOMAIN entries : n >= count => entries[n].content = 0

(* A retrieval returns different slots, the nearest first.  Unless entries  *)
(* were forgotten since the graph was built it finds live entries only,     *)
(* and, of up to HNSW_M0 + 1 entries, the TopK nearest ones.                *)
RetrievalExact ==
  \A q \in Embeddings :
    LET r == Retrieved(q)
        Dist(n) == hnsw_distance(q, entries[n].embedding)
    IN /\ \A i, j \in DOMAIN r : i < j => r[i].id # r[j].id /\ r[i].dist <= r[j].dist
       /\ ~forgotten =>
            /\ \A i \in DOMAIN r : r[i].id < count
            /\ failures = 0 /\ count <= HNSW_M0 + 1 =>
                 /\ Len(r) = IF count < TopK THEN count ELSE TopK
                 /\ \A n \in (0 .. count - 1) \ {r[i].id : i \in DOMAIN r} :
                      \A i \in DOMAIN r : r[i].dist <= Dist(n)

(* Both, of memory_store, memory_retrieve, memory_forget and a reload.      *)
MemoryExact == EntriesExact /\ RetrievalExact

-----------------------------------------------------------------------------
(* agent/hms_cache.c and hms_memory_retrieve_tiered of agent/hms_core.c:    *)
(* three tiers of packed answers in front of the memory engine, L1 with     *)
(* the CLOCK algorithm, L2 and L3 with time stamps.                         *)
(*                                                                          *)
(* A query stands for its key (two queries with one hash are one query).    *)
(* What the engine answers is chosen at each call: NoPack when it finds     *)
(* nothing, else a pack.  The hit counters are left out.                    *)
CONSTANTS Queries, Packs,
          l1_slots, l2_slots, l3_slots,
          MaxClock, MaxLost       \* bounds: puts and hits per tier, failed allocations

VARIABLES tab,                    \* [1 .. 3 -> the table of each tier]
          hand,                   \* of L1
          clock,                  \* [2 .. 3 -> the clock of each tier]
          lost,                   \* allocations that have failed
          touched,                \* [2 .. 3 -> the keys used, the last one last]
          given                   \* <<query, pack>>: what the engine has answered

cachevars == <<tab, hand, clock, lost, touched, given>>

NoPack == 0
Tiers  == 1 .. 3
cap(t) == <<l1_slots, l2_slots, l3_slots>>[t]

Unused == [in_use |-> FALSE, key |-> 0, blob |-> NoPack, ref |-> 0, lru_tag |-> 0]

(* A tier whose table cannot be allocated stays without slots.              *)
hms_cache_init ==
  /\ \E made \in SUBSET Tiers :
       tab = [t \in Tiers |-> [i \in {n \in 0 .. cap(t) - 1 : t \in made} |-> Unused]]
  /\ hand = 0 /\ clock = [t \in 2 .. 3 |-> 0] /\ lost = 0
  /\ touched = [t \in 2 .. 3 |-> << >>] /\ given = {}

(* The slots that hold key.                                                 *)
kv_find(K, key) == {i \in DOMAIN K : K[i].in_use /\ K[i].key = key}

(* The slot that L1 gives up, its table with the marks taken away on the    *)
(* way there, and where the hand stops: after two rounds without a slot to  *)
(* take, slot 0.                                                            *)
RECURSIVE Sweep(_, _, _)
Sweep(L, h, n) ==
  LET next == (h + 1) % l1_slots IN
  IF n = 2 * l1_slots THEN [L |-> L, slot |-> 0, hand |-> h]
  ELSE IF L[h].in_use /\ L[h].ref = 0 THEN [L |-> L, slot |-> h, hand |-> next]
  ELSE Sweep(IF L[h].in_use THEN [L EXCEPT ![h].ref = 0] ELSE L, next, n + 1)

l1_evict(L, h) == Sweep(L, h, 0)

(* The first slot that is not used, else the one with the smallest tag.     *)
lru_evict(K) ==
  LET free == {i \in DOMAIN K : ~K[i].in_use} IN
  IF free # {} THEN CHOOSE i \in free : \A j \in free : i <= j
  ELSE CHOOSE i \in DOMAIN K : \A j \in DOMAIN K : K[i].lru_tag <= K[j].lru_tag

Filled(key, pack, tag) ==
  [in_use |-> TRUE, key |-> key, blob |-> pack, ref |-> 1, lru_tag |-> tag]

-----------------------------------------------------------------------------
(* The operations below map the state s of the cache to the next one; ok:   *)
(* the blob could be allocated.                                             *)
hms_cache_l1_get(s, key) ==
  [s EXCEPT !.tab[1] = [i \in DOMAIN @ |->
     IF i \in kv_find(s.tab[1], key) THEN [@[i] EXCEPT !.ref = 1] ELSE @[i]]]

hms_cache_l1_put(s, key, pack, ok) ==
  LET at == kv_find(s.tab[1], key)
      ev == IF at # {} THEN [L |-> s.tab[1], slot |-> CHOOSE i \in at : TRUE, hand |-> s.hand]
            ELSE l1_evict(s.tab[1], s.hand)
  IN [s EXCEPT !.tab[1] = [ev.L EXCEPT ![ev.slot] = IF ok THEN Filled(key, pack, 0) ELSE Unused],
               !.hand = ev.hand]

(* The keys of a tier in the order of their last use, after a use of key.   *)
Touch(seq, key, n) ==
  LET all == Append(SelectSeq(seq, LAMBDA k : k # key), key)
  IN IF Len(all) > n THEN Tail(all) ELSE all

(* Mutation: a hit leaves the tag as it is.                                 *)
Stamp_Kept(K, i, tag) == K

Stamp(K, i, tag) == [K EXCEPT ![i].lru_tag = tag]

tier_get(s, t, key) ==
  LET at == kv_find(s.tab[t], key) IN
  IF at = {} THEN s
  ELSE [s EXCEPT !.clock[t] = @ + 1,
                 !.tab[t] = Stamp(@, CHOOSE i \in at : TRUE, s.clock[t] + 1),
                 !.touched[t] = Touch(@, key, cap(t))]

tier_put(s, t, key, pack, ok) ==
  LET at   == kv_find(s.tab[t], key)
      slot == IF at # {} THEN CHOOSE i \in at : TRUE ELSE lru_evict(s.tab[t])
      now  == Touch(s.touched[t], key, cap(t))
  IN IF ok THEN [s EXCEPT !.tab[t][slot] = Filled(key, pack, s.clock[t] + 1),
                          !.clock[t] = @ + 1, !.touched[t] = now]
     ELSE [s EXCEPT !.tab[t][slot] = Unused, !.touched[t] = Front(now)]

pack_get(s, t, q) == IF t = 1 THEN hms_cache_l1_get(s, q) ELSE tier_get(s, t, q)

pack_put(s, t, q, pack, ok) ==
  IF DOMAIN s.tab[t] = {} THEN s
  ELSE IF t = 1 THEN hms_cache_l1_put(s, q, pack, ok) ELSE tier_put(s, t, q, pack, ok)

Holds(s, t, q) == kv_find(s.tab[t], q) # {}
Pack(s, t, q)  == s.tab[t][CHOOSE i \in kv_find(s.tab[t], q) : TRUE].blob

(* The tiers are asked in turn; the first answer goes to the tiers before   *)
(* it, the engine's to all three, from the last to the first.  bad: the     *)
(* tier whose blob cannot be allocated, 0 for none.                         *)
hms_memory_retrieve_tiered(q, answer, bad) ==
  LET s0    == [tab |-> tab, hand |-> hand, clock |-> clock, touched |-> touched]
      hit   == {t \in Tiers : Holds(s0, t, q)}
      first == IF hit = {} THEN 4 ELSE CHOOSE t \in hit : \A u \in hit : t <= u
      pack  == IF first = 4 THEN answer ELSE Pack(s0, first, q)
      s1    == IF first = 4 THEN s0 ELSE pack_get(s0, first, q)
      Put(s, t) == IF t < first /\ pack # NoPack THEN pack_put(s, t, q, pack, t # bad) ELSE s
      s2    == Put(Put(Put(s1, 3), 2), 1)
  IN /\ \A t \in 2 .. 3 : clock[t] < MaxClock
     /\ first # 4 => answer = NoPack
     /\ bad # 0 => bad < first /\ DOMAIN tab[bad] # {} /\ pack # NoPack /\ lost < MaxLost
     /\ tab' = s2.tab /\ hand' = s2.hand /\ clock' = s2.clock /\ touched' = s2.touched
     /\ lost' = IF bad = 0 THEN lost ELSE lost + 1
     /\ given' = IF first = 4 /\ answer # NoPack THEN given \cup {<<q, answer>>} ELSE given

CacheNext ==
  \E q \in Queries, answer \in Packs \cup {NoPack}, bad \in 0 .. 3 :
    hms_memory_retrieve_tiered(q, answer, bad)

-----------------------------------------------------------------------------
(* The tiers never contradict each other, however answers are promoted,     *)
(* evicted or lost to a failed allocation: a key is in a tier at most once, *)
(* all tiers that hold it hold the same answer, one the engine gave for it, *)
(* and L2 and L3 hold the keys used last.                                   *)
TiersCoherent ==
  /\ \A t \in Tiers, q \in Queries : Cardinality(kv_find(tab[t], q)) <= 1
  /\ \A t \in Tiers : \A i \in DOMAIN tab[t] :
       LET e == tab[t][i] IN
       e.in_use => /\ <<e.key, e.blob>> \in given
                   /\ \A u \in Tiers : \A j \in kv_find(tab[u], e.key) : tab[u][j].blob = e.blob
  /\ \A t \in 2 .. 3 :
       /\ Range(touched[t]) = {tab[t][i].key : i \in {j \in DOMAIN tab[t] : tab[t][j].in_use}}
       /\ \A m, n \in DOMAIN touched[t] : m < n =>
            \A i \in kv_find(tab[t], touched[t][m]), j \in kv_find(tab[t], touched[t][n]) :
              tab[t][i].lru_tag < tab[t][j].lru_tag
=============================================================================
