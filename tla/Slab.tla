-------------------------------- MODULE Slab --------------------------------
(***************************************************************************)
(* The kernel heap of kernel/mm/slab.c on top of the page allocator (PMM): *)
(* one cache per object size, each with a list of slabs that have a free   *)
(* object and a list of full ones.  Slab descriptors come from a pool that *)
(* only grows.  The kernel is cooperative and no interrupt handler         *)
(* allocates, so a call is one step.                                       *)
(***************************************************************************)
EXTENDS Integers, Sequences, FiniteSets

CONSTANTS cache_sizes,        \* object sizes, increasing
          SLAB_POOL_SIZE,
          SLAB_MAX_OBJECTS,
          Sizes,              \* sizes callers ask for
          PMM_MAX_PAGES, PAGE_SIZE, LOW_PAGES, U64, BootInfos

VARIABLES bitmap, total_pages, free_pages, owned,    \* of PMM
          slab_pool,          \* descriptors in use, by index
          slab_pool_next,
          partial, full,      \* lists of slabs per cache
          live                \* what callers hold: pointer -> size asked for

Pmm == INSTANCE PMM

pmm  == <<bitmap, total_pages, free_pages, owned>>
vars == <<bitmap, total_pages, free_pages, owned,
          slab_pool, slab_pool_next, partial, full, live>>

Caches == 1 .. Len(cache_sizes)

pages_per_slab(c) == IF cache_sizes[c] <= PAGE_SIZE THEN 1
                     ELSE (cache_sizes[c] + PAGE_SIZE - 1) \div PAGE_SIZE
obj_per_slab(c) == LET n == (pages_per_slab(c) * PAGE_SIZE) \div cache_sizes[c]
                   IN IF n > SLAB_MAX_OBJECTS THEN SLAB_MAX_OBJECTS ELSE n

slab_init == /\ slab_pool = << >>
             /\ slab_pool_next = 0
             /\ partial = [c \in Caches |-> << >>]
             /\ full = [c \in Caches |-> << >>]

Init == Pmm!Init /\ slab_init /\ live = << >>

-----------------------------------------------------------------------------
(* The heap as a value, so that krealloc can allocate and then free.        *)
heap == [pool |-> slab_pool, partial |-> partial, full |-> full]

Without(list, s) == SelectSeq(list, LAMBDA t : t # s)

(* The smallest cache that fits; 0 when the request is too large.           *)
find_cache(size) ==
  IF \E c \in Caches : size <= cache_sizes[c]
  THEN CHOOSE c \in Caches : size <= cache_sizes[c] /\ \A d \in 1 .. c - 1 : cache_sizes[d] < size
  ELSE 0

(* A slab of cache c on fresh pages, first in the list of partial slabs.    *)
slab_create(h, c, s, page) ==
  [h EXCEPT !.pool = [i \in DOMAIN h.pool \cup {s} |->
                        IF i = s THEN [base |-> page * PAGE_SIZE, cache |-> c,
                                       used |-> {}, free_count |-> obj_per_slab(c)]
                        ELSE h.pool[i]],
            !.partial[c] = <<s>> \o @]

slab_bm_find_free(slab) ==
  CHOOSE i \in 0 .. obj_per_slab(slab.cache) - 1 :
    i \notin slab.used /\ \A j \in 0 .. i - 1 : j \in slab.used

(* Takes the first free object of the first partial slab; a slab that is    *)
(* now full changes lists.                                                  *)
TakeObject(h, c) ==
  LET s == Head(h.partial[c])
      i == slab_bm_find_free(h.pool[s])
      n == h.pool[s].free_count - 1
  IN [ptr  |-> h.pool[s].base + i * cache_sizes[c],
      heap |-> [pool    |-> [h.pool EXCEPT ![s].used = @ \cup {i}, ![s].free_count = n],
                partial |-> IF n = 0 THEN [h.partial EXCEPT ![c] = Without(@, s)] ELSE h.partial,
                full    |-> IF n = 0 THEN [h.full EXCEPT ![c] = <<s>> \o @] ELSE h.full]]

InSlab(ptr, slab) == /\ ptr >= slab.base
                     /\ ptr < slab.base + pages_per_slab(slab.cache) * PAGE_SIZE

(* The slabs the scan over all caches can find for a pointer.               *)
Owners(h, ptr) == {s \in DOMAIN h.pool : InSlab(ptr, h.pool[s])}

(* kfree: clears the object's bit; a slab that was full has room again.     *)
ReturnObject(h, ptr) ==
  LET s     == CHOOSE t \in Owners(h, ptr) : TRUE
      slab  == h.pool[s]
      c     == slab.cache
      i     == (ptr - slab.base) \div cache_sizes[c]
      freed == [pool    |-> [h.pool EXCEPT ![s].used = @ \ {i}, ![s].free_count = @ + 1],
                partial |-> IF slab.free_count = 0
                            THEN [h.partial EXCEPT ![c] = <<s>> \o @] ELSE h.partial,
                full    |-> IF slab.free_count = 0
                            THEN [h.full EXCEPT ![c] = Without(@, s)] ELSE h.full]
  IN IF Owners(h, ptr) = {} \/ i \notin slab.used THEN h ELSE freed

SetHeap(h) == slab_pool' = h.pool /\ partial' = h.partial /\ full' = h.full

(* pmm_alloc_pages(n), which leaves a single page to pmm_alloc_page; and    *)
(* the page it returns.                                                     *)
FirstPage(n) == IF n = 1 THEN Pmm!bm_find_first_free ELSE Pmm!bm_find_free(n)

TakePages(n) == IF n = 1 THEN Pmm!pmm_alloc_page ELSE Pmm!pmm_alloc_pages(n)

-----------------------------------------------------------------------------
(* The caller gets the object of r for the given size, and the objects old  *)
(* (none, or the one that krealloc replaces) are freed.                     *)
HandOver(r, size, old) ==
  /\ SetHeap(IF old = {} THEN r.heap ELSE ReturnObject(r.heap, CHOOSE p \in old : TRUE))
  /\ live' = [p \in (DOMAIN live \ old) \cup {r.ptr} |-> IF p = r.ptr THEN size ELSE live[p]]

(* cache_alloc for cache c, from a slab with room.                          *)
AllocPartial(c, size, old) ==
  /\ partial[c] # << >>
  /\ HandOver(TakeObject(heap, c), size, old)
  /\ UNCHANGED <<pmm, slab_pool_next>>

(* From a new slab. *)
AllocNew(c, size, old) ==
  /\ partial[c] = << >>
  /\ slab_pool_next < SLAB_POOL_SIZE
  /\ slab_pool_next' = slab_pool_next + 1
  /\ TakePages(pages_per_slab(c))
  /\ HandOver(TakeObject(slab_create(heap, c, slab_pool_next + 1,
                                     FirstPage(pages_per_slab(c))), c), size, old)

(* No pages left: NULL, and the descriptor that was taken is lost.          *)
AllocNoPages(c) ==
  /\ partial[c] = << >>
  /\ slab_pool_next < SLAB_POOL_SIZE
  /\ FirstPage(pages_per_slab(c)) = Pmm!NotFound
  /\ slab_pool_next' = slab_pool_next + 1
  /\ UNCHANGED <<pmm, slab_pool, partial, full, live>>

kmalloc(size) ==
  LET c == find_cache(size)
  IN /\ size # 0
     /\ c # 0
     /\ AllocPartial(c, size, {}) \/ AllocNew(c, size, {}) \/ AllocNoPages(c)

Forget(p) == [q \in DOMAIN live \ {p} |-> live[q]]

kfree(ptr) == /\ SetHeap(ReturnObject(heap, ptr))
              /\ live' = Forget(ptr)
              /\ UNCHANGED <<pmm, slab_pool_next>>

(* The object stays where it is when its cache is large enough; otherwise a *)
(* new object is allocated and the old one freed.  When that fails the old  *)
(* object stays the caller's.                                               *)
krealloc(ptr, size) ==
  LET old == slab_pool[CHOOSE t \in Owners(heap, ptr) : TRUE].cache
      c   == find_cache(size)
  IN /\ size # 0
     /\ Owners(heap, ptr) # {}
     /\ \/ /\ size <= cache_sizes[old]
           /\ live' = [live EXCEPT ![ptr] = size]
           /\ UNCHANGED <<pmm, slab_pool, slab_pool_next, partial, full>>
        \/ /\ size > cache_sizes[old]
           /\ c # 0
           /\ AllocPartial(c, size, {ptr}) \/ AllocNew(c, size, {ptr}) \/ AllocNoPages(c)

Next == \/ \E n \in Sizes : kmalloc(n)
        \/ \E p \in DOMAIN live : kfree(p)
        \/ \E p \in DOMAIN live, n \in Sizes : krealloc(p, n)

Spec == Init /\ [][Next]_vars

-----------------------------------------------------------------------------
(* Properties. *)

ListedIn(lists, s) == {c \in Caches : \E i \in 1 .. Len(lists[c]) : lists[c][i] = s}

(* A partial slab has at least one free object, a full one none; every slab *)
(* is in exactly one list, of its own cache, and its counter agrees with    *)
(* its bitmap.                                                              *)
ListsExact ==
  \A s \in DOMAIN slab_pool :
    LET slab == slab_pool[s] IN
    /\ slab.free_count = obj_per_slab(slab.cache) - Cardinality(slab.used)
    /\ slab.free_count > 0 => ListedIn(partial, s) = {slab.cache} /\ ListedIn(full, s) = {}
    /\ slab.free_count = 0 => ListedIn(full, s) = {slab.cache} /\ ListedIn(partial, s) = {}

(* Live objects of all caches never overlap, each lies inside pages that    *)
(* the page allocator handed to its slab, and kfree finds it: it is in one  *)
(* slab, at the start of an object whose bit is set and that is large       *)
(* enough.                                                                  *)
ObjectsOwned ==
  /\ \A p, q \in DOMAIN live : p < q => p + live[p] <= q
  /\ \A p \in DOMAIN live :
       /\ \E b \in owned : /\ b[1] * PAGE_SIZE <= p
                           /\ p + live[p] <= (b[1] + b[2]) * PAGE_SIZE
       /\ Cardinality(Owners(heap, p)) = 1
       /\ LET slab == slab_pool[CHOOSE t \in Owners(heap, p) : TRUE]
              size == cache_sizes[slab.cache]
          IN /\ (p - slab.base) % size = 0
             /\ (p - slab.base) \div size \in slab.used
             /\ live[p] <= size

(* kmalloc and kfree keep lists and counters exact (the comments of         *)
(* slab_cache_t) and the objects apart.                                     *)
HeapExact == ListsExact /\ ObjectsOwned
=============================================================================
