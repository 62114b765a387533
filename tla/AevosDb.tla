------------------------------- MODULE AevosDb -------------------------------
(***************************************************************************)
(* db/aevos_db.c: conversation sessions whose messages form trees, and the *)
(* tables of memory entries and of skills.  The tables share only the      *)
(* lock, so every call is one step, and the actions on the trees           *)
(* (TreeNext) and on the two tables (RowsNext) can be explored apart.      *)
(*                                                                         *)
(* Titles, roles and texts are left out; a message is told by its id.      *)
(* A caller names as parent a message it has pushed to the same session,   *)
(* still there or cleared since.  Entries have contents: one of length 0   *)
(* would keep the caller's pointer.  The vector index is in the second     *)
(* half.                                                                   *)
(***************************************************************************)
EXTENDS BinHeap, Integers, FiniteSets, SequencesExt

CONSTANTS DB_MAX_SESSIONS, DB_MAX_MESSAGES, DB_MAX_MEM_ENTRIES, DB_MAX_SKILLS,
          Stack,                  \* the ids that get_branch collects: 512
          Names, Contents,        \* of skills; of entries and skills
          MaxMsg, MaxSession, MaxLost   \* bounds: ids given, failed allocations

VARIABLES sessions, next_session_id,    \* Seq of [id, messages, leaf, updated]
          messages, next_msg_id,        \* Seq of [id, session, parent, children, depth]
          mem_entries, skills,          \* Seq of [id, content]; of [id, name, blob]
          lost,                         \* allocations that have failed
          pushed,                       \* [session -> ids of its messages ever pushed]
          kept,                         \* [names of skills -> the row saved last]
          queued                        \* [id -> contents stored and not deleted]

treevars == <<sessions, next_session_id, messages, next_msg_id, pushed>>
rowvars  == <<mem_entries, skills, kept, queued>>
dbvars   == <<treevars, rowvars, lost>>

aevos_db_open ==
  /\ sessions = << >> /\ messages = << >> /\ next_session_id = 1 /\ next_msg_id = 1
  /\ mem_entries = << >> /\ skills = << >> /\ kept = << >>
  /\ queued = [id \in 1 .. 2 |-> << >>]
  /\ lost = 0 /\ pushed = [s \in 1 .. MaxSession |-> {}]

(* The places in a table of the rows with this id.                          *)
At(rows, id) == {i \in DOMAIN rows : rows[i].id = id}

find_msg_by_id(id) == At(messages, id)

Failing(ok) == /\ ok \/ lost < MaxLost
               /\ lost' = IF ok THEN lost ELSE lost + 1

-----------------------------------------------------------------------------
aevos_db_session_create ==
  /\ Len(sessions) < DB_MAX_SESSIONS /\ next_session_id <= MaxSession
  /\ sessions' = Append(sessions, [id |-> next_session_id, messages |-> 0, leaf |-> 0])
  /\ next_session_id' = next_session_id + 1
  /\ UNCHANGED <<messages, next_msg_id, pushed, rowvars, lost>>

OfOthers(s) == SelectSeq(messages, LAMBDA m : m.session # s)

aevos_db_session_delete(s) ==
  /\ messages' = OfOthers(s)
  /\ sessions' = SelectSeq(sessions, LAMBDA r : r.id # s)
  /\ UNCHANGED <<next_session_id, next_msg_id, pushed, rowvars, lost>>

aevos_db_session_set_active_leaf(s, id) ==
  /\ sessions' = [i \in DOMAIN sessions |->
       IF sessions[i].id = s THEN [sessions[i] EXCEPT !.leaf = id] ELSE sessions[i]]
  /\ UNCHANGED <<next_session_id, messages, next_msg_id, pushed, rowvars, lost>>

(* Mutation: the active leaf stays.                                         *)
Cleared_LeafKept(r) == [r EXCEPT !.messages = 0]

Cleared(r) == [r EXCEPT !.messages = 0, !.leaf = 0]

aevos_db_history_clear(s) ==
  /\ messages' = OfOthers(s)
  /\ sessions' = [i \in DOMAIN sessions |-> IF sessions[i].id = s THEN Cleared(sessions[i])
                                            ELSE sessions[i]]
  /\ UNCHANGED <<next_session_id, next_msg_id, pushed, rowvars, lost>>

(* The parent counts its child before the text of the message is copied,    *)
(* and the message may go to a session that was deleted.                    *)
aevos_db_history_push(s, parent, ok) ==
  LET at    == IF parent = 0 THEN {} ELSE find_msg_by_id(parent)
      depth == IF at = {} THEN 0 ELSE messages[CHOOSE i \in at : TRUE].depth + 1
      told  == [i \in DOMAIN messages |-> IF i \in at THEN [messages[i] EXCEPT !.children = @ + 1]
                                          ELSE messages[i]]
      m     == [id |-> next_msg_id, session |-> s, parent |-> parent, children |-> 0, depth |-> depth]
  IN /\ Len(messages) < DB_MAX_MESSAGES /\ next_msg_id <= MaxMsg
     /\ Failing(ok)
     /\ IF ~ok THEN /\ messages' = told /\ UNCHANGED <<sessions, next_msg_id, pushed>>
        ELSE /\ messages' = Append(told, m)
             /\ next_msg_id' = next_msg_id + 1
             /\ sessions' = [i \in DOMAIN sessions |->
                  IF sessions[i].id # s THEN sessions[i]
                  ELSE [sessions[i] EXCEPT !.messages = @ + 1, !.leaf = next_msg_id]]
             /\ pushed' = [pushed EXCEPT ![s] = @ \cup {next_msg_id}]
     /\ UNCHANGED <<next_session_id, rowvars>>

(* What the queries return: ids in the order of the table.                  *)
aevos_db_history_get(s, max) ==
  LET all == SelectSeq(messages, LAMBDA m : m.session = s)
  IN SubSeq(all, 1, IF Len(all) < max THEN Len(all) ELSE max)

aevos_db_history_get_children(parent, max) ==
  LET all == SelectSeq(messages, LAMBDA m : m.parent = parent)
  IN SubSeq(all, 1, IF Len(all) < max THEN Len(all) ELSE max)

(* The ids from leaf up to a root, or to a message that is gone.            *)
RECURSIVE Climb(_, _)
Climb(cur, stack) ==
  IF cur = 0 \/ Len(stack) >= Stack THEN stack
  ELSE LET at == find_msg_by_id(cur) IN
       IF at = {} THEN Append(stack, cur)
       ELSE Climb(messages[CHOOSE i \in at : TRUE].parent, Append(stack, cur))

aevos_db_history_get_branch(leaf, max) ==
  LET stack == Climb(leaf, << >>)
  IN SubSeq(Reverse(stack), 1, IF Len(stack) < max THEN Len(stack) ELSE max)

TreeNext ==
  \/ aevos_db_session_create
  \/ \E s \in 1 .. next_session_id - 1 :
       \/ aevos_db_session_delete(s)
       \/ aevos_db_history_clear(s)
       \/ \E m \in Range(messages) : m.session = s /\ aevos_db_session_set_active_leaf(s, m.id)
       \/ \E parent \in {0} \cup pushed[s], ok \in BOOLEAN : aevos_db_history_push(s, parent, ok)

-----------------------------------------------------------------------------
aevos_db_memory_store(id, content, ok) ==
  /\ Len(mem_entries) < DB_MAX_MEM_ENTRIES
  /\ Failing(ok)
  /\ mem_entries' = Append(mem_entries, [id |-> id, content |-> IF ok THEN content ELSE 0])
  /\ queued' = [queued EXCEPT ![id] = Append(@, IF ok THEN content ELSE 0)]
  /\ UNCHANGED <<treevars, skills, kept>>

(* The row that a call with this id reads or removes.                       *)
First(rows, id) == CHOOSE i \in At(rows, id) : \A j \in At(rows, id) : i <= j

aevos_db_memory_get(id) == IF At(mem_entries, id) = {} THEN << >>
                           ELSE mem_entries[First(mem_entries, id)]

aevos_db_memory_delete(id) ==
  /\ At(mem_entries, id) # {}
  /\ mem_entries' = RemoveAt(mem_entries, First(mem_entries, id))
  /\ queued' = [queued EXCEPT ![id] = Tail(@)]
  /\ UNCHANGED <<treevars, skills, kept, lost>>

Named(name) == {i \in DOMAIN skills : skills[i].name = name}

aevos_db_skill_save(id, name, blob, ok) ==
  LET row == [id |-> id, name |-> name, blob |-> IF ok THEN blob ELSE 0]
      at  == Named(name)
  IN /\ at # {} \/ Len(skills) < DB_MAX_SKILLS
     /\ Failing(ok)
     /\ skills' = IF at = {} THEN Append(skills, row)
                  ELSE [skills EXCEPT ![CHOOSE i \in at : \A j \in at : i <= j] = row]
     /\ kept' = [n \in DOMAIN kept \cup {name} |-> IF n = name THEN row ELSE kept[n]]
     /\ UNCHANGED <<treevars, mem_entries, queued>>

aevos_db_skill_delete(id) ==
  /\ At(skills, id) # {}
  /\ LET i == First(skills, id)
     IN /\ skills' = RemoveAt(skills, i)
        /\ kept' = [n \in DOMAIN kept \ {skills[i].name} |-> kept[n]]
  /\ UNCHANGED <<treevars, mem_entries, queued, lost>>

RowsNext ==
  \/ \E id \in 1 .. 2, c \in Contents, ok \in BOOLEAN :
       \/ aevos_db_memory_store(id, c, ok)
       \/ \E name \in Names : aevos_db_skill_save(id, name, c, ok)
  \/ \E id \in 1 .. 2 : aevos_db_memory_delete(id) \/ aevos_db_skill_delete(id)

-----------------------------------------------------------------------------
(* The messages of a session stay trees that can be walked, whatever is     *)
(* cleared, deleted or cut short by a failed allocation: ids grow along the *)
(* table, a parent is older and one level above its children and counts     *)
(* each of them, a session counts its messages and its active leaf is one   *)
(* of them, and the branch to a leaf leads from parent to child, from a     *)
(* root unless the path is longer than the stack or a message of it was     *)
(* cleared, to the leaf unless it is longer than what was asked for.        *)
TreeExact ==
  /\ \A i, j \in DOMAIN messages : i < j => messages[i].id < messages[j].id
  /\ \A i \in DOMAIN messages :
       LET m == messages[i]
           n == Len(aevos_db_history_get_children(m.id, MaxMsg))
       IN /\ m.parent < m.id
          /\ n <= m.children /\ m.children <= n + lost
          /\ \A j \in find_msg_by_id(m.parent) : m.depth = messages[j].depth + 1
          /\ find_msg_by_id(m.parent) = {} => m.depth = 0
          /\ \A max \in 1 .. MaxMsg + 1 :
               LET b == aevos_db_history_get_branch(m.id, max)
               IN /\ \A k \in 2 .. Len(b) : \A c \in find_msg_by_id(b[k]) : messages[c].parent = b[k - 1]
                  /\ Len(b) < max => Last(b) = m.id
                  /\ Len(b) < max /\ Len(b) < Stack =>
                       \A c \in find_msg_by_id(b[1]) : messages[c].parent = 0
  /\ \A i \in DOMAIN sessions :
       LET own == aevos_db_history_get(sessions[i].id, MaxMsg)
       IN /\ sessions[i].messages = Len(own)
          /\ sessions[i].leaf # 0 => \E k \in DOMAIN own : own[k].id = sessions[i].leaf

(* There is one row for the name of a skill, the one saved last, and a get  *)
(* reads the oldest of the entries stored under an id.                      *)
RowsExact ==
  /\ Len(skills) = Cardinality(DOMAIN kept) /\ Range(skills) = Range(kept)
  /\ \A id \in DOMAIN queued :
       aevos_db_memory_get(id) = IF queued[id] = << >> THEN << >>
                                 ELSE [id |-> id, content |-> Head(queued[id])]

DbExact == TreeExact /\ RowsExact

-----------------------------------------------------------------------------
(* db/vecindex.c: a flat or inverted-file (IVF) index of int8 vectors.      *)
(* The vectors have one dimension; the distances of longer ones are sums    *)
(* of these.  An identifier names at most one stored vector.                *)
(*                                                                          *)
(* Training sets have nlist vectors at least: with fewer, the code reads    *)
(* centroids behind the end of their buffer.  For the same reason an IVF    *)
(* index is not saved before it is trained.                                 *)
CONSTANTS Ids, Vectors, nlist, IVF_DEFAULT_NPROBE, KMEANS_MAX_ITERS,
          MaxTraining, MaxMoved   \* bounds: vectors in a training set, and stored
                                  \* when the index is trained

VARIABLES type, dist,             \* "flat" or "ivf"; "L2" or "IP"
          lists,                  \* [0 .. nlist - 1 -> Seq of entries]; a flat
                                  \* index has one, its array
          centroids,              \* << >> until the index is trained
          stored,                 \* [Ids stored -> Vectors]
          moved                   \* trained again since a vector was added

vecvars == <<type, dist, lists, centroids, stored, moved>>

is_l2   == dist = "L2"
trained == centroids # << >>
Lists   == IF type = "flat" THEN {0} ELSE 0 .. nlist - 1

dist_l2_sq(a, b) == (a - b) * (a - b)
dist_ip(a, b)    == a * b
Distance(q, v)   == IF is_l2 THEN dist_l2_sq(q, v) ELSE dist_ip(q, v)

Better(a, b) == IF is_l2 THEN a < b ELSE a > b

vecindex_create ==
  /\ type \in {"flat", "ivf"} /\ dist \in {"L2", "IP"}
  /\ lists = [c \in Lists |-> << >>] /\ centroids = << >>
  /\ stored = << >> /\ moved = FALSE

(* The first centroid of cs that is nearest to v; the places of cs start    *)
(* with 1, the lists with 0.                                                *)
find_nearest_centroid(cs, v) ==
  CHOOSE c \in 0 .. Len(cs) - 1 :
    /\ \A d \in 0 .. Len(cs) - 1 : dist_l2_sq(v, cs[c + 1]) <= dist_l2_sq(v, cs[d + 1])
    /\ \A d \in 0 .. c - 1       : dist_l2_sq(v, cs[c + 1]) <  dist_l2_sq(v, cs[d + 1])

flat_add(ls, id, v) == [ls EXCEPT ![0] = Append(@, [id |-> id, vec |-> v])]

ivf_add(ls, cs, id, v) ==
  [ls EXCEPT ![find_nearest_centroid(cs, v)] = Append(@, [id |-> id, vec |-> v])]

Added(ls, cs, e) == IF type = "flat" THEN flat_add(ls, e.id, e.vec) ELSE ivf_add(ls, cs, e.id, e.vec)

-----------------------------------------------------------------------------
(* The heap that flat_search and ivf_search collect k results in.  It is    *)
(* made a heap when it is full; fewer than k results are taken out of it    *)
(* as they came.                                                            *)
RECURSIVE Heapify(_, _)
Heapify(h, i) == IF i = 0 THEN h ELSE Heapify(heap_sift_down(h, Len(h), i, is_l2), i - 1)

Offer(h, k, item) ==
  IF Len(h) < k
  THEN LET g == Append(h, item) IN IF Len(g) = k THEN Heapify(g, k \div 2) ELSE g
  ELSE IF Better(item.dist, h[1].dist)
  THEN heap_sift_down([h EXCEPT ![1] = item], k, 1, is_l2)
  ELSE h

(* The root goes to the end of the results, the last item to the root.      *)
RECURSIVE Extract(_, _)
Extract(h, out) ==
  IF h = << >> THEN out
  ELSE LET rest == IF Len(h) = 1 THEN << >> ELSE [Front(h) EXCEPT ![1] = Last(h)]
       IN Extract(IF rest = << >> THEN rest ELSE heap_sift_down(rest, Len(rest), 1, is_l2),
                  <<Head(h)>> \o out)

(* Mutation: fewer entries than asked for are taken as asked for.           *)
FlatK_Asked(k) == k

(* The results a search of a flat index looks for.                          *)
FlatK(k) == IF k > Len(lists[0]) THEN Len(lists[0]) ELSE k

Collect(es, q, k) ==
  Extract(FoldLeft(LAMBDA h, e : Offer(h, k, [id |-> e.id, dist |-> Distance(q, e.vec)]),
                   << >>, es), << >>)

flat_search(q, k) == Collect(lists[0], q, FlatK(k))

(* The nprobe lists with the nearest centroids, the nearest first.          *)
RECURSIVE Probe(_, _, _)
Probe(q, n, left) ==
  IF n = 0 \/ left = {} THEN << >>
  ELSE LET Dist(c) == dist_l2_sq(q, centroids[c + 1])
           best == CHOOSE c \in left : \A d \in left : Dist(c) < Dist(d) \/ (Dist(c) = Dist(d) /\ c <= d)
       IN <<best>> \o Probe(q, n - 1, left \ {best})

ivf_search(q, k) ==
  IF ~trained THEN << >>
  ELSE LET probe == Probe(q, IVF_DEFAULT_NPROBE, Lists)
       IN Collect(FlattenSeq([p \in DOMAIN probe |-> lists[probe[p]]]), q, k)

vecindex_search(q, k) == IF type = "flat" THEN flat_search(q, k) ELSE ivf_search(q, k)

-----------------------------------------------------------------------------
(* Division towards zero.                                                   *)
Quotient(a, b) == IF a >= 0 THEN a \div b ELSE -((-a) \div b)

(* One round of Lloyd's algorithm; a centroid without vectors stays.        *)
Lloyd(cs, vecs) ==
  [c \in DOMAIN cs |->
     LET mine == SelectSeq(vecs, LAMBDA v : find_nearest_centroid(cs, v) = c - 1)
     IN IF mine = << >> THEN cs[c]
        ELSE Quotient(FoldLeft(LAMBDA a, b : a + b, 0, mine), Len(mine))]

RECURSIVE KMeans(_, _, _)
KMeans(cs, vecs, n) == IF n = 0 THEN cs ELSE KMeans(Lloyd(cs, vecs), vecs, n - 1)

(* The centroids change; the vectors stay in their lists.                   *)
vecindex_train(vecs) ==
  /\ type = "ivf" /\ Len(vecs) >= nlist
  /\ centroids' = KMeans(SubSeq(vecs, 1, nlist), vecs, KMEANS_MAX_ITERS)
  /\ moved' = (stored # << >>)
  /\ UNCHANGED <<type, dist, lists, stored>>

(* Only whether two identifiers are equal matters: the least ones are used. *)
Unstored == Ids \ DOMAIN stored

Pairs(ids, vs) == [i \in DOMAIN vs |-> [id |-> ids[i], vec |-> vs[i]]]

(* The first n vectors of the batch are added; an allocation for the next   *)
(* one fails.  vecindex_add is a batch of one.                              *)
vecindex_add_batch(batch, n) ==
  /\ type = "flat" \/ trained
  /\ lists' = FoldLeft(LAMBDA ls, e : Added(ls, centroids, e), lists, SubSeq(batch, 1, n))
  /\ stored' = [id \in DOMAIN stored \cup {batch[i].id : i \in 1 .. n} |->
                  IF id \in DOMAIN stored THEN stored[id]
                  ELSE (CHOOSE e \in Range(batch) : e.id = id).vec]
  /\ UNCHANGED <<type, dist, centroids, moved>>

vecindex_remove(id) ==
  /\ \E c \in Lists : \E i \in DOMAIN lists[c] :
       lists[c][i].id = id /\ lists' = [lists EXCEPT ![c] = RemoveAt(@, i)]
  /\ stored' = [n \in DOMAIN stored \ {id} |-> stored[n]]
  /\ UNCHANGED <<type, dist, centroids, moved>>

vecindex_serialize == FlattenSeq([c \in 1 .. Cardinality(Lists) |-> lists[c - 1]])

(* vecindex_deserialize of that image: every vector is added anew.          *)
vecindex_deserialize ==
  /\ type = "flat" \/ trained
  /\ lists' = FoldLeft(LAMBDA ls, e : Added(ls, centroids, e), [c \in Lists |-> << >>],
                       vecindex_serialize)
  /\ moved' = FALSE
  /\ UNCHANGED <<type, dist, centroids, stored>>

VecNext ==
  \/ /\ Cardinality(DOMAIN stored) <= MaxMoved
     /\ \E n \in nlist .. MaxTraining : \E vecs \in [1 .. n -> Vectors] : vecindex_train(vecs)
  \/ \E n \in 1 .. Cardinality(Unstored) : \E vs \in [1 .. n -> Vectors], done \in 1 .. n :
       vecindex_add_batch(Pairs(SetToSortSeq(Unstored, <), vs), done)
  \/ \E id \in DOMAIN stored : vecindex_remove(id)
  \/ vecindex_deserialize

-----------------------------------------------------------------------------
(* Every stored vector is in the index once, through training again,        *)
(* removal and saving.  A search returns each of them at most once; a flat  *)
(* one, and one that probes every list, returns the k best, the best first, *)
(* and an IVF index that was not trained again finds the vector asked for.  *)
VectorsExact ==
  LET all == vecindex_serialize IN
  /\ Len(all) = Cardinality(DOMAIN stored)
  /\ {<<e.id, e.vec>> : e \in Range(all)} = {<<id, stored[id]>> : id \in DOMAIN stored}
  /\ \A q \in Vectors, k \in 1 .. Cardinality(Ids) :
       LET r    == vecindex_search(q, k)
           out  == DOMAIN stored \ {r[i].id : i \in DOMAIN r}
           whole == type = "flat" \/ (trained /\ IVF_DEFAULT_NPROBE >= nlist)
       IN /\ \A i, j \in DOMAIN r : i # j => r[i].id # r[j].id
          /\ \A i \in DOMAIN r : r[i].dist = Distance(q, stored[r[i].id])
          /\ whole =>
               /\ Len(r) = IF k < Len(all) THEN k ELSE Len(all)
               /\ \A i \in DOMAIN r, id \in out : ~Better(Distance(q, stored[id]), r[i].dist)
          /\ Len(r) = k \/ type = "flat" =>
               \A i, j \in DOMAIN r : i < j => ~Better(r[j].dist, r[i].dist)
          /\ is_l2 /\ ~moved /\ (\E id \in DOMAIN stored : stored[id] = q) =>
               \E i \in DOMAIN r : r[i].dist = 0
=============================================================================
