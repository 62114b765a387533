------------------------------- MODULE History -------------------------------
(***************************************************************************)
(* agent/history.c and agent/hist_bptree.c: an agent's conversation as a   *)
(* ring of numbered, compressed entries within a window of tokens, with    *)
(* its index; what saves the history (history_serialize), and the          *)
(* Corrector of agent/sep_plane.c, which rolls it back.  Every operation   *)
(* holds h->lock from its first read of the history to its last write.     *)
(*                                                                         *)
(* A text is abstracted to its number of tokens; 0 is the empty text.  The *)
(* compressed copy of a text is a block of the heap, which hands out its   *)
(* lowest free block.  An entry that was freed is Empty: what entry_free   *)
(* leaves in it (seq, role) is never read again.  head and tail stay below *)
(* 2^32 within a behaviour of MaxSeq pushes, so their width does not show. *)
(***************************************************************************)
EXTENDS Integers, Sequences, FiniteSets, SequencesExt

(* agent/hist_bptree.c: the B+-tree that maps the sequence number of a      *)
(* history entry to its slot in the ring.                                   *)
(*                                                                          *)
(* A tree is a record of its nodes (numbered in the order they were         *)
(* allocated), its root (0 for NULL) and its height.  history.c inserts     *)
(* numbers in increasing order only, on a push and on a rebuild, so a new   *)
(* key is above every key of the tree and goes to the end of its leaf.      *)
(*                                                                          *)
(* The arrays keys and vals of a node have BP_MAX places, and a full leaf   *)
(* is split only after the new key has been written behind them.  In        *)
(* struct hist_bp_node (keys: three 8-byte words at offset 8; vals: three   *)
(* 4-byte words at 32, then 4 bytes of padding) the place keys[3] is        *)
(* vals[0] and vals[1], and vals[3] is the padding.  In an internal node    *)
(* the places keys[3] and children[4] are vals and next, which it does not  *)
(* use.  A node allocation that fails is not modelled.                      *)
CONSTANT BP_MAX

ASSUME BpMaxAssumption == BP_MAX = 3

NoTree == [nodes |-> << >>, root |-> 0, height |-> 0]

Leaf(ks, vs, p, n) == [leaf |-> TRUE, keys |-> ks, vals |-> vs,
                       children |-> << >>, parent |-> p, next |-> n]
Internal(ks, cs, p) == [leaf |-> FALSE, keys |-> ks, vals |-> << >>,
                        children |-> cs, parent |-> p, next |-> 0]

(* The child that a search for key descends to.                             *)
Child(x, key) == x.children[1 + Cardinality({i \in 1 .. Len(x.keys) : key >= x.keys[i]})]

leaf_search(t, key) ==
  LET d[n \in Nat] == IF n = 0 THEN t.root ELSE Child(t.nodes[d[n - 1]], key)
  IN d[t.height - 1]

(* The low half of the word keys[3] is vals[0], its high half vals[1].      *)
leaf_insert_sorted(x, key, val) ==
  [x EXCEPT !.keys = Append(x.keys, key),
            !.vals = Append(IF Len(x.keys) < BP_MAX THEN x.vals
                            ELSE [x.vals EXCEPT ![1] = key, ![2] = 0], val)]

(* The upper half of leaf l moves to a new node behind it.                  *)
split_leaf_node(t, l) ==
  LET x   == t.nodes[l]
      mid == Len(x.keys) \div 2
      n   == Len(x.keys)
      new == Len(t.nodes) + 1
      R   == Leaf(SubSeq(x.keys, mid + 1, n), SubSeq(x.vals, mid + 1, n), x.parent, x.next)
      L   == [x EXCEPT !.keys = SubSeq(@, 1, mid), !.vals = SubSeq(@, 1, mid), !.next = new]
  IN [t EXCEPT !.nodes = Append([t.nodes EXCEPT ![l] = L], R)]

internal_insert(t, p, key, child) ==
  LET x   == t.nodes[p]
      pos == Cardinality({i \in 1 .. Len(x.keys) : x.keys[i] <= key})
  IN [t EXCEPT !.nodes[p].keys = InsertAt(x.keys, pos + 1, key),
               !.nodes[p].children = InsertAt(x.children, pos + 2, child),
               !.nodes[child].parent = p]

(* Mutation: the key after the middle one moves up.                         *)
split_internal_node_NextKey(t, p) ==
  LET x   == t.nodes[p]
      nk  == Len(x.keys)
      mid == nk \div 2
      new == Len(t.nodes) + 1
      R   == Internal(SubSeq(x.keys, mid + 2, nk), SubSeq(x.children, mid + 2, nk + 1), x.parent)
      L   == [x EXCEPT !.keys = SubSeq(@, 1, mid), !.children = SubSeq(@, 1, mid + 1)]
      moved == Range(R.children)
  IN [tree  |-> [t EXCEPT !.nodes = Append([k \in 1 .. Len(t.nodes) |->
                             IF k = p THEN L
                             ELSE IF k \in moved THEN [t.nodes[k] EXCEPT !.parent = new]
                             ELSE t.nodes[k]], R)],
      promo |-> x.keys[mid + 2]]

(* Keys and children behind the middle key move to a new node; the middle   *)
(* key is left to the level above.                                          *)
split_internal_node(t, p) ==
  LET x   == t.nodes[p]
      nk  == Len(x.keys)
      mid == nk \div 2
      new == Len(t.nodes) + 1
      R   == Internal(SubSeq(x.keys, mid + 2, nk), SubSeq(x.children, mid + 2, nk + 1), x.parent)
      L   == [x EXCEPT !.keys = SubSeq(@, 1, mid), !.children = SubSeq(@, 1, mid + 1)]
      moved == Range(R.children)
  IN [tree  |-> [t EXCEPT !.nodes = Append([k \in 1 .. Len(t.nodes) |->
                             IF k = p THEN L
                             ELSE IF k \in moved THEN [t.nodes[k] EXCEPT !.parent = new]
                             ELSE t.nodes[k]], R)],
      promo |-> x.keys[mid + 1]]

(* One round of the loop that carries a separator up: s.right is still to   *)
(* be hung into the parent of s.left.                                       *)
Climb(s) ==
  LET p == s.tree.nodes[s.left].parent
  IN IF s.done \/ p = 0 THEN s
     ELSE LET t == internal_insert(s.tree, p, s.sep, s.right)
          IN IF Len(s.tree.nodes[p].keys) < BP_MAX
             THEN [s EXCEPT !.tree = t, !.done = TRUE]
             ELSE LET split == split_internal_node(t, p)
                  IN [tree |-> split.tree, left |-> p, sep |-> split.promo,
                      right |-> Len(split.tree.nodes), done |-> FALSE]

(* After the root has been split the two halves get a new root.             *)
GrowRoot(s) ==
  LET new == Len(s.tree.nodes) + 1
      N   == Append(s.tree.nodes, Internal(<<s.sep>>, <<s.left, s.right>>, 0))
  IN [nodes  |-> [N EXCEPT ![s.left].parent = new, ![s.right].parent = new],
      root   |-> new,
      height |-> s.tree.height + 1]

hist_bpt_insert(t, seq, idx) ==
  IF t.root = 0
  THEN [nodes |-> <<Leaf(<<seq>>, <<idx>>, 0, 0)>>, root |-> 1, height |-> 1]
  ELSE LET l == leaf_search(t, seq)
           u == [t EXCEPT !.nodes[l] = leaf_insert_sorted(@, seq, idx)]
       IN IF Len(t.nodes[l].keys) < BP_MAX THEN u
          ELSE LET v     == split_leaf_node(u, l)
                   r     == Len(v.nodes)
                   start == [tree |-> v, left |-> l, sep |-> v.nodes[r].keys[1],
                             right |-> r, done |-> FALSE]
                   c[n \in Nat] == IF n = 0 THEN start ELSE Climb(c[n - 1])
                   end   == c[t.height]
               IN IF end.done THEN end.tree ELSE GrowRoot(end)

(* A tree of the given <<seq, slot>> pairs, inserted in order.              *)
hist_bpt_rebuild(pairs) ==
  FoldLeft(LAMBDA t, e : hist_bpt_insert(t, e[1], e[2]), NoTree, pairs)

leftmost_leaf(t) ==
  LET d[n \in Nat] == IF n = 0 THEN t.root ELSE t.nodes[d[n - 1]].children[1]
  IN d[t.height - 1]

(* The <<seq, slot>> pairs along the chain of leaves.                       *)
Chain(t) ==
  LET ps(x) == [i \in 1 .. Len(x.keys) |-> <<x.keys[i], x.vals[i]>>]
      step(w) == IF w.at = 0 THEN w
                 ELSE [at  |-> t.nodes[w.at].next,
                       out |-> w.out \o ps(t.nodes[w.at])]
      c[n \in Nat] == IF n = 0 THEN [at |-> leftmost_leaf(t), out |-> << >>]
                      ELSE step(c[n - 1])
  IN IF t.root = 0 THEN << >> ELSE c[Len(t.nodes)].out

(* The slots of the entries numbered min_seq and above.                     *)
hist_bpt_range_from_seq(t, min_seq) ==
  LET hit == SelectSeq(Chain(t), LAMBDA e : e[1] >= min_seq)
  IN [i \in 1 .. Len(hit) |-> hit[i][2]]

-----------------------------------------------------------------------------
CONSTANTS HIST_RING_SIZE, max_tokens, Texts,
          MaxSeq                  \* bound: entries numbered so far

VARIABLES ring, head, tail, window_tokens, next_seq, bpt,
          heap                    \* allocated blocks

hist == <<ring, head, tail, window_tokens, next_seq, bpt, heap>>

NULL    == 0
Empty   == [seq |-> 0, tok |-> 0, data |-> NULL]
Ring(i) == i % HIST_RING_SIZE
Blocks  == 1 .. HIST_RING_SIZE + 1

history_init ==
  /\ ring = [i \in 0 .. HIST_RING_SIZE - 1 |-> Empty]
  /\ head = 0 /\ tail = 0 /\ window_tokens = 0 /\ next_seq = 0
  /\ bpt = NoTree /\ heap = {}

kmalloc(h) == CHOOSE b \in Blocks \ h : \A c \in Blocks \ h : b <= c

(* Ring slots of the entries from position a up to, not including, b.       *)
Positions(a, b) == {Ring(i) : i \in a .. b - 1}

Tokens(a, b) == FoldLeft(LAMBDA s, i : s + ring[Ring(a + i - 1)].tok, 0,
                         [i \in 1 .. b - a |-> i])

(* entry_free of the entries in the slots of S gives their blocks back to   *)
(* the heap h.                                                              *)
entry_free(h, S) == h \ {ring[i].data : i \in S}

Emptied(S) == [i \in DOMAIN ring |-> IF i \in S THEN Empty ELSE ring[i]]

(* The index rebuilt from the entries at positions a to b - 1.              *)
Reindex(a, b) ==
  hist_bpt_rebuild(SelectSeq([i \in 1 .. b - a |-> <<ring[Ring(a + i - 1)].seq, Ring(a + i - 1)>>],
                             LAMBDA p : ring[p[2]].data # NULL))

(* How many entries the two loops of history_push evict for a text: until   *)
(* the ring has a free slot, and until the text fits the window or the ring *)
(* is empty.                                                                *)
Evictions(tok) ==
  LET enough(k) == /\ head - (tail + k) < HIST_RING_SIZE
                   /\ Tokens(tail + k, head) + tok <= max_tokens \/ tail + k = head
  IN CHOOSE k \in 0 .. head - tail : enough(k) /\ \A j \in 0 .. k - 1 : ~enough(j)

IndexAfterEviction(k) == IF k = 0 THEN bpt ELSE Reindex(tail + k, head)

(* history_push of a text of tok tokens.  An empty text compresses to       *)
(* nothing: krealloc to size 0 frees the block and returns NULL, and the    *)
(* entry keeps the old pointer.                                             *)
history_push(tok) ==
  /\ next_seq < MaxSeq
  /\ LET comp == kmalloc(heap)
         k    == Evictions(tok)
         out  == Positions(tail, tail + k)
         idx  == Ring(head)
     IN /\ ring' = [Emptied(out) EXCEPT ![idx] = [seq |-> next_seq, tok |-> tok, data |-> comp]]
        /\ heap' = entry_free(IF tok = 0 THEN heap ELSE heap \cup {comp}, out \cup {idx})
        /\ tail' = tail + k
        /\ head' = head + 1
        /\ window_tokens' = window_tokens - Tokens(tail, tail + k) + tok
        /\ bpt' = hist_bpt_insert(IndexAfterEviction(k), next_seq, idx)
        /\ next_seq' = next_seq + 1

(* Keeps the oldest `keep' entries; with no more than these it does nothing. *)
history_truncate_keep(keep) ==
  /\ keep < head - tail
  /\ LET cut  == tail + keep
         gone == Positions(cut, head)
     IN /\ ring' = Emptied(gone)
        /\ heap' = entry_free(heap, gone)
        /\ head' = cut
        /\ window_tokens' = window_tokens - Tokens(cut, head)
        /\ bpt' = Reindex(tail, cut)
  /\ UNCHANGED <<tail, next_seq>>

history_clear ==
  /\ ring' = Emptied(Positions(tail, head))
  /\ heap' = entry_free(heap, Positions(tail, head))
  /\ head' = 0 /\ tail' = 0 /\ window_tokens' = 0 /\ next_seq' = 0
  /\ bpt' = NoTree

HistoryNext == \/ \E tok \in Texts : history_push(tok)
               \/ \E keep \in 0 .. HIST_RING_SIZE - 1 : history_truncate_keep(keep)
               \/ history_clear

HistorySpec == history_init /\ [][HistoryNext]_hist

-----------------------------------------------------------------------------
(* The numbers of the live entries, oldest first.                           *)
LiveSeqs == [i \in 1 .. head - tail |-> ring[Ring(tail + i - 1)].seq]

(* window_tokens, which the code adjusts by one entry at a time on eviction, *)
(* truncation and push, is the number of tokens of the live entries, and it *)
(* stays within max_tokens unless one text alone exceeds it; each live      *)
(* entry has a block of the heap to itself and no other block is allocated: *)
(* nothing leaks, and entry_free never frees another's text.                *)
WindowExact ==
  LET pos == Positions(tail, head) IN
  /\ window_tokens = Tokens(tail, head)
  /\ window_tokens <= max_tokens \/ head - tail = 1
  /\ \A i, j \in pos : i # j => ring[i].data # ring[j].data
  /\ heap = {ring[i].data : i \in pos}

(* Entries keep the order in which they were numbered, and the next number  *)
(* is above all of them, across eviction, truncation, clearing and restoring. *)
NumbersIncrease ==
  /\ \A i \in 1 .. Len(LiveSeqs) - 1 : LiveSeqs[i] < LiveSeqs[i + 1]
  /\ LiveSeqs # << >> => Last(LiveSeqs) < next_seq

(* The index holds the numbers of the live entries and no others: in order  *)
(* along the chain of leaves, and each in the leaf that a search arrives at. *)
IndexKeysExact ==
  /\ LiveSeqs = [i \in 1 .. Len(Chain(bpt)) |-> Chain(bpt)[i][1]]
  /\ \A s \in Range(LiveSeqs) : s \in Range(bpt.nodes[leaf_search(bpt, s)].keys)

(* Both, across history_push, history_truncate_keep and history_clear.      *)
HistoryExact == WindowExact /\ IndexKeysExact

(* A range query of the index returns the ring slots of the entries with    *)
(* these numbers.                                                           *)
IndexMapsSeqToSlot ==
  \A i \in 1 .. Len(LiveSeqs) :
    hist_bpt_range_from_seq(bpt, LiveSeqs[i])
      = [j \in 1 .. Len(LiveSeqs) - i + 1 |-> Ring(tail + i + j - 2)]

-----------------------------------------------------------------------------
(* Saving and restoring the history (history_serialize and                  *)
(* history_deserialize), and the Corrector, which takes a checkpoint and    *)
(* rolls back to it.                                                        *)
VARIABLES image,                  \* the last serialized history: << >> or one record
          ckpt                    \* agent->sep.ckpt, with the numbers it stands for

histvars == <<ring, head, tail, window_tokens, next_seq, bpt, heap, image, ckpt>>

RestoreInit == /\ history_init
        /\ image = << >>
        /\ ckpt = [valid |-> FALSE, hist_entries |-> 0, seqs |-> {}]

Live == [i \in 1 .. head - tail |-> [seq |-> ring[Ring(tail + i - 1)].seq,
                                     tok |-> ring[Ring(tail + i - 1)].tok]]

(* Into a buffer of the size that it asks for.                              *)
history_serialize ==
  /\ image' = <<[entries |-> Live, next_seq |-> next_seq]>>
  /\ UNCHANGED <<hist, ckpt>>

RestoredSeq(saved) == saved.next_seq

(* Mutation: the token count is not read back.                              *)
RestoreOne_NoTokens(h, e) ==
  LET b == IF e.tok = 0 THEN NULL ELSE kmalloc(h.heap)
  IN [ring |-> [h.ring EXCEPT ![Ring(h.head)] = [seq |-> e.seq, tok |-> 0, data |-> b]],
      heap |-> h.heap \cup ({b} \ {NULL}),
      head |-> h.head + 1,
      bpt  |-> hist_bpt_insert(h.bpt, e.seq, Ring(h.head))]

(* The saved entry e goes behind the entries restored so far, with a block  *)
(* of its own; kmalloc(0) gives the empty text none.                        *)
RestoreOne(h, e) ==
  LET b == IF e.tok = 0 THEN NULL ELSE kmalloc(h.heap)
  IN [ring |-> [h.ring EXCEPT ![Ring(h.head)] = [seq |-> e.seq, tok |-> e.tok, data |-> b]],
      heap |-> h.heap \cup ({b} \ {NULL}),
      head |-> h.head + 1,
      bpt  |-> hist_bpt_insert(h.bpt, e.seq, Ring(h.head))]

(* history_deserialize clears the history and restores entry by entry.      *)
history_deserialize ==
  /\ image # << >>
  /\ LET es    == image[1].entries
         clean == [ring |-> Emptied(Positions(tail, head)),
                   heap |-> entry_free(heap, Positions(tail, head)),
                   head |-> 0, bpt |-> NoTree]
         done  == FoldLeft(RestoreOne, clean, es)
     IN /\ ring' = done.ring /\ heap' = done.heap
        /\ head' = done.head /\ bpt' = done.bpt
        /\ tail' = 0
        /\ window_tokens' = FoldLeft(LAMBDA s, e : s + e.tok, 0, es)
        /\ next_seq' = RestoredSeq(image[1])
  /\ UNCHANGED <<image, ckpt>>

sep_corrector_checkpoint ==
  /\ ckpt' = [valid |-> TRUE, hist_entries |-> head - tail, seqs |-> Range(LiveSeqs)]
  /\ UNCHANGED <<hist, image>>

sep_corrector_rollback ==
  /\ ckpt.valid
  /\ \/ history_truncate_keep(ckpt.hist_entries)
     \/ ckpt.hist_entries >= head - tail /\ UNCHANGED hist
  /\ ckpt' = [ckpt EXCEPT !.valid = FALSE]
  /\ UNCHANGED image

RestoreNext == \/ HistoryNext /\ UNCHANGED <<image, ckpt>>
        \/ history_serialize
        \/ history_deserialize
        \/ sep_corrector_checkpoint
        \/ sep_corrector_rollback

RestoreSpec == RestoreInit /\ [][RestoreNext]_histvars

-----------------------------------------------------------------------------
(* A restored history is the one that was saved: the same entries in the    *)
(* same order, whatever slots they had and whatever is in the ring by then, *)
(* and the next number is above theirs.                                     *)
RestoresSaved ==
  [][history_deserialize => Live' = image[1].entries /\ NumbersIncrease']_histvars

(* A rollback (sep_corrector_rollback) leaves no entry in the history that  *)
(* was pushed after the checkpoint it rolls back to.                        *)
RollbackDropsNewer ==
  [][sep_corrector_rollback => Range(LiveSeqs)' \subseteq ckpt.seqs]_histvars
==============================================================================
