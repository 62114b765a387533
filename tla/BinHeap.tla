------------------------------- MODULE BinHeap -------------------------------
(***************************************************************************)
(* The binary heaps that the nearest-neighbour searches keep their best    *)
(* results in, and the selection sort that orders them.  A heap is a       *)
(* sequence of records with a field dist; the place i of the C array is    *)
(* i + 1 here.                                                             *)
(***************************************************************************)
EXTENDS Naturals, Sequences

Swap(h, i, j) == [h EXCEPT ![i] = h[j], ![j] = h[i]]

(* heap_sift_down of db/vecindex.c on the first n items; heap_push_max of   *)
(* agent/memory.c has the same loop, for a maximum only.                    *)
RECURSIVE heap_sift_down(_, _, _, _)
heap_sift_down(h, n, i, max_heap) ==
  LET Above(a, b) == IF max_heap THEN h[a].dist > h[b].dist ELSE h[a].dist < h[b].dist
      l      == IF 2 * i <= n /\ Above(2 * i, i) THEN 2 * i ELSE i
      target == IF 2 * i + 1 <= n /\ Above(2 * i + 1, l) THEN 2 * i + 1 ELSE l
  IN IF target = i THEN h ELSE heap_sift_down(Swap(h, i, target), n, target, max_heap)

(* Mutation: a new item stays at the end of the heap.                       *)
SiftUp_None(h, i) == h

RECURSIVE SiftUp(_, _)
SiftUp(h, i) ==
  IF i > 1 /\ h[i \div 2].dist < h[i].dist THEN SiftUp(Swap(h, i \div 2, i), i \div 2) ELSE h

heap_push_max(h, cap, item) ==
  IF Len(h) < cap THEN SiftUp(Append(h, item), Len(h) + 1)
  ELSE IF item.dist < h[1].dist THEN heap_sift_down([h EXCEPT ![1] = item], Len(h), 1, TRUE)
  ELSE h

(* The first place from i on with the least distance.                       *)
Least(h, i) == CHOOSE m \in i .. Len(h) : /\ \A j \in i .. Len(h) : h[m].dist <= h[j].dist
                                          /\ \A j \in i .. m - 1  : h[m].dist <  h[j].dist

(* The first n places of h, sorted by selection.                            *)
RECURSIVE SortFrom(_, _, _)
SortFrom(h, i, n) == IF i > n THEN h ELSE SortFrom(Swap(h, i, Least(h, i)), i + 1, n)
==============================================================================
