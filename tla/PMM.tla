-------------------------------- MODULE PMM --------------------------------
(***************************************************************************)
(* The physical page allocator of kernel/mm/pmm.c: a bitmap with a bit per *)
(* page, a counter of free pages, first-fit search.  Every operation holds *)
(* pmm.lock from its search to its update, so it is one step.              *)
(***************************************************************************)
EXTENDS Integers, Sequences, FiniteSets

CONSTANTS PMM_MAX_PAGES,   \* pages the bitmap covers
          PAGE_SIZE,       \* address units per page
          LOW_PAGES,       \* pages of the reserved first megabyte
          U64,             \* 2^w of the unsigned counters
          BootInfos        \* memory descriptions the boot loader may pass

(* A memory map entry is [base, length, usable]; kernel is [base, length].  *)
ASSUME PMMAssumption ==
  /\ PMM_MAX_PAGES \in Nat \ {0} /\ PAGE_SIZE \in Nat \ {0} /\ LOW_PAGES \in Nat \ {0}
  /\ U64 \in Nat /\ U64 > PMM_MAX_PAGES
  /\ \A bi \in BootInfos : bi.total_memory \in Nat

VARIABLES bitmap,        \* page -> in use
          total_pages,
          free_pages,
          owned          \* what callers hold: set of <<first page, count>>

vars == <<bitmap, total_pages, free_pages, owned>>

Pages == 0 .. PMM_MAX_PAGES - 1

FreeSet == {p \in 0 .. total_pages - 1 : ~bitmap[p]}

-----------------------------------------------------------------------------
(* pmm_init. *)

align_up(x)   == ((x + PAGE_SIZE - 1) \div PAGE_SIZE) * PAGE_SIZE
align_down(x) == (x \div PAGE_SIZE) * PAGE_SIZE

clamp_total(bi) == LET n == bi.total_memory \div PAGE_SIZE IN
                   IF n > PMM_MAX_PAGES THEN PMM_MAX_PAGES ELSE n

(* One usable entry: its pages are cleared and counted.  A region that      *)
(* begins above total_pages makes the difference wrap around.               *)
FreeRegion(s, e, total) ==
  LET base  == align_up(e.base)
      end   == align_down(e.base + e.length)
      start == base \div PAGE_SIZE
      whole == (end - base) \div PAGE_SIZE
      num   == IF start + whole > total THEN (total - start) % U64 ELSE whole
      stop  == (start + num) % U64
  IN IF ~e.usable \/ end <= base THEN s
     ELSE [bitmap |-> [p \in Pages |-> s.bitmap[p] /\ ~(start <= p /\ p < stop)],
           free   |-> (s.free + num) % U64]

(* The usable entries in order.                                             *)
Regions(bi, total) ==
  LET after[i \in 0 .. Len(bi.mmap)] ==
        IF i = 0 THEN [bitmap |-> [p \in Pages |-> TRUE], free |-> 0]
        ELSE FreeRegion(after[i-1], bi.mmap[i], total)
  IN after[Len(bi.mmap)]

(* Marks the free pages of R below total as used.                           *)
Reserve(s, R, total) ==
  LET taken == {p \in R : p < total /\ ~s.bitmap[p]}
  IN [bitmap |-> [p \in Pages |-> s.bitmap[p] \/ p \in taken],
      free   |-> (s.free - Cardinality(taken)) % U64]

KernelPages(bi) ==
  LET first == bi.kernel.base \div PAGE_SIZE
      count == align_up(bi.kernel.length) \div PAGE_SIZE
  IN Pages \cap (first .. first + count - 1)

pmm_init(bi) ==
  LET total == clamp_total(bi)
      s     == Reserve(Reserve(Regions(bi, total), KernelPages(bi), total),
                       Pages \cap (0 .. LOW_PAGES - 1), total)
  IN /\ bitmap = s.bitmap
     /\ free_pages = s.free
     /\ total_pages = total

Init == /\ \E bi \in BootInfos : pmm_init(bi)
        /\ owned = {}

-----------------------------------------------------------------------------
(* The searches; PMM_MAX_PAGES stands for UINT64_MAX, not found.            *)
NotFound == PMM_MAX_PAGES

(* The lowest start of a run of count free pages.                           *)
RunStarts(count) == {p \in 0 .. total_pages - 1 :
                       \A i \in 0 .. count - 1 : p + i \in FreeSet}
bm_find_free(count) ==
  IF RunStarts(count) = {} THEN NotFound
  ELSE CHOOSE p \in RunStarts(count) : \A q \in RunStarts(count) : p <= q

(* The first clear bit, word by word.                                       *)
bm_find_first_free ==
  IF FreeSet = {} THEN NotFound
  ELSE CHOOSE p \in FreeSet : \A q \in FreeSet : p <= q

-----------------------------------------------------------------------------
(* The public operations.  A failed allocation returns 0 and changes        *)
(* nothing.                                                                 *)
Block(p, n) == p .. p + n - 1

pmm_alloc_page ==
  LET page == bm_find_first_free IN
  /\ page # NotFound
  /\ bitmap' = [bitmap EXCEPT ![page] = TRUE]
  /\ free_pages' = (free_pages - 1) % U64
  /\ owned' = owned \cup {<<page, 1>>}
  /\ UNCHANGED total_pages

(* Mutation: only the first page of the run is marked.                      *)
pmm_alloc_pages_MarksOne(count) ==
  LET start == bm_find_free(count) IN
  /\ count > 1
  /\ start # NotFound
  /\ bitmap' = [bitmap EXCEPT ![start] = TRUE]
  /\ free_pages' = (free_pages - 1) % U64
  /\ owned' = owned \cup {<<start, count>>}
  /\ UNCHANGED total_pages

pmm_alloc_pages(count) ==
  LET start == bm_find_free(count) IN
  /\ count > 1
  /\ start # NotFound
  /\ bitmap' = [p \in Pages |-> bitmap[p] \/ p \in Block(start, count)]
  /\ free_pages' = (free_pages - count) % U64
  /\ owned' = owned \cup {<<start, count>>}
  /\ UNCHANGED total_pages

(* Mutation: pages that are already free are counted again.                 *)
Release_NoTest(p, n) ==
  LET freed == {q \in Block(p, n) : q < total_pages} IN
  /\ bitmap' = [q \in Pages |-> bitmap[q] /\ q \notin freed]
  /\ free_pages' = (free_pages + Cardinality(freed)) % U64
  /\ UNCHANGED total_pages

(* Pages that are already free, or past the end, are skipped.               *)
Release(p, n) ==
  LET freed == {q \in Block(p, n) : q < total_pages /\ bitmap[q]} IN
  /\ bitmap' = [q \in Pages |-> bitmap[q] /\ q \notin freed]
  /\ free_pages' = (free_pages + Cardinality(freed)) % U64
  /\ UNCHANGED total_pages

pmm_free_page(b)  == b[2] = 1 /\ Release(b[1], 1) /\ owned' = owned \ {b}
pmm_free_pages(b) == Release(b[1], b[2]) /\ owned' = owned \ {b}

(* A second free of pages that nobody holds any more (they are free).       *)
FreeAgain(p, n) ==
  /\ \A b \in owned : Block(b[1], b[2]) \cap Block(p, n) = {}
  /\ \A q \in Block(p, n) : q < total_pages /\ ~bitmap[q]
  /\ Release(p, n)
  /\ UNCHANGED owned

Next == \/ pmm_alloc_page
        \/ \E n \in 2 .. PMM_MAX_PAGES : pmm_alloc_pages(n)
        \/ \E b \in owned : pmm_free_page(b) \/ pmm_free_pages(b)
        \/ \E p \in Pages, n \in 1 .. PMM_MAX_PAGES : FreeAgain(p, n)

Spec == Init /\ [][Next]_vars

-----------------------------------------------------------------------------
(* Properties. *)

(* The bitmap covers PMM_MAX_PAGES pages; callers hold ranges of pages.     *)
TypeOK == /\ bitmap \in [Pages -> BOOLEAN]
          /\ total_pages \in 0 .. PMM_MAX_PAGES
          /\ free_pages \in 0 .. U64 - 1
          /\ owned \subseteq Pages \X (1 .. PMM_MAX_PAGES)

(* pmm_get_free_pages tells the truth: boot, allocations of every size and  *)
(* repeated frees keep the counter equal to the number of clear bits.       *)
FreePagesExact == free_pages = Cardinality(FreeSet)

(* No page is handed out twice, all pages handed out exist and are marked,  *)
(* and page 0 is not among them: address 0 always means failure.            *)
OwnedDisjoint ==
  /\ \A b \in owned : /\ Block(b[1], b[2]) \subseteq 1 .. total_pages - 1
                      /\ \A p \in Block(b[1], b[2]) : bitmap[p]
  /\ \A b, c \in owned : b # c => Block(b[1], b[2]) \cap Block(c[1], c[2]) = {}
  /\ 0 \notin FreeSet
=============================================================================
