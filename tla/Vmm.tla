--------------------------------- MODULE Vmm ---------------------------------
(***************************************************************************)
(* kernel/mm/vmm.c, as built for x86_64: page tables of four levels, the   *)
(* kernel's address space and those of agents.                             *)
(*                                                                         *)
(* An address is the sequence of its four indices; a table has Fan         *)
(* entries, of which the upper half belongs to the kernel.  Memory is the  *)
(* tables (tab) and the pages the page allocator has left (free, of which  *)
(* it returns the lowest).  Of the flags only PTE_PRESENT and PTE_HUGE are *)
(* kept.  Agents map addresses of the lower half.  A page given back is    *)
(* shown zeroed: alloc_table zeroes a page before its use as a table.      *)
(***************************************************************************)
EXTENDS Integers, Sequences, FiniteSets, FiniteSetsExt, SequencesExt

CONSTANTS Pages,                  \* numbers of pages, 0 not among them
          Fan,                    \* entries per table: 512 in the code
          HugeRanges,             \* what vmm_init maps: <<address, page>>, in order
          Addresses, Frames,      \* what agents map, and to what
          MaxContexts             \* bound: address spaces at a time

VARIABLES tab, free,
          kernel_pml4,            \* kernel_ctx, or 0 before vmm_init
          contexts,               \* of agents: [pml4, page of the struct]
          mapped,                 \* what agents expect: [contexts -> [addresses -> frames]]
          kept                    \* tables of the kernel

vars == <<tab, free, kernel_pml4, contexts, mapped, kept>>

None      == [kind |-> "none", to |-> 0]
Entry(k, p) == [kind |-> k, to |-> p]
Zeroed    == [i \in 0 .. Fan - 1 |-> None]
UserHalf  == 0 .. Fan \div 2 - 1
Mem       == [tab |-> tab, free |-> free]
Keep(m)   == tab' = m.tab /\ free' = m.free

-----------------------------------------------------------------------------
(* A zeroed page, or 0.                                                     *)
alloc_table(m) ==
  IF m.free = {} THEN [m |-> m, page |-> 0]
  ELSE LET p == Min(m.free)
       IN [m |-> [tab |-> [m.tab EXCEPT ![p] = Zeroed], free |-> m.free \ {p}], page |-> p]

SetEntry(m, page, i, e) == [m EXCEPT !.tab[page][i] = e]

Null == [ok |-> FALSE, page |-> 0, idx |-> 0]

(* One level of the walk: a huge page ends it; a missing table ends it or   *)
(* is added.                                                                *)
Descend(s, i, create) ==
  LET e == s.m.tab[s.page][i]
      t == alloc_table(s.m)
  IN CASE s.done -> s
       [] ~s.done /\ e.kind = "huge" -> [s EXCEPT !.done = TRUE, !.at = [ok |-> TRUE, page |-> s.page, idx |-> i]]
       [] ~s.done /\ e.kind = "none" /\ (~create \/ t.page = 0) -> [s EXCEPT !.done = TRUE]
       [] ~s.done /\ e.kind = "none" /\ create /\ t.page # 0 ->
            [s EXCEPT !.m = SetEntry(t.m, s.page, i, Entry("table", t.page)), !.page = t.page]
       [] OTHER -> [s EXCEPT !.page = e.to]

(* The place of the last entry, and the memory with the tables added.       *)
vmm_walk(m, pml4, vaddr, create) ==
  LET start == [m |-> m, page |-> pml4, done |-> FALSE, at |-> Null]
      s == FoldLeft(LAMBDA st, i : Descend(st, i, create), start, SubSeq(vaddr, 1, 3))
  IN [m |-> s.m, at |-> IF s.done THEN s.at ELSE [ok |-> TRUE, page |-> s.page, idx |-> vaddr[4]]]

vmm_get_phys(m, pml4, vaddr) ==
  LET at == vmm_walk(m, pml4, vaddr, FALSE).at
  IN IF at.ok THEN m.tab[at.page][at.idx].to ELSE 0

(* One step of map_huge_range: the tables of two levels, then the entry.    *)
MapHuge(m, pml4, vaddr, phys) ==
  LET Table(r, i) == LET e == r.m.tab[r.page][i]
                         t == alloc_table(r.m)
                     IN IF e.kind # "none" THEN [m |-> r.m, page |-> e.to]
                        ELSE [m |-> SetEntry(t.m, r.page, i, Entry("table", t.page)), page |-> t.page]
      pd == Table(Table([m |-> m, page |-> pml4], vaddr[1]), vaddr[2])
  IN SetEntry(pd.m, pd.page, vaddr[3], Entry("huge", phys))

map_huge_range(m, pml4, ranges) ==
  FoldLeft(LAMBDA acc, r : MapHuge(acc, pml4, r[1], r[2]), m, ranges)

(* The identity map, the direct map, the window for devices and the frame   *)
(* buffer.                                                                  *)
vmm_init ==
  /\ kernel_pml4 = 0
  /\ LET t == alloc_table(Mem)
         m == map_huge_range(t.m, t.page, HugeRanges)
     IN /\ kernel_pml4' = t.page
        /\ Keep(m) /\ kept' = Pages \ m.free
  /\ UNCHANGED <<contexts, mapped>>

-----------------------------------------------------------------------------
vmm_create_ctx ==
  /\ kernel_pml4 # 0 /\ Cardinality(contexts) < MaxContexts
  /\ LET t == alloc_table(Mem)
         s == alloc_table(t.m)        \* pmm_alloc_page; what the page holds is not a table
         copied == [i \in 0 .. Fan - 1 |->
                      IF i \in UserHalf THEN None ELSE tab[kernel_pml4][i]]
     IN \/ t.page = 0 /\ UNCHANGED <<tab, free, contexts, mapped>>
        \/ t.page # 0 /\ s.page = 0 /\ UNCHANGED <<tab, free, contexts, mapped>>   \* given back
        \/ /\ t.page # 0 /\ s.page # 0
           /\ tab' = [s.m.tab EXCEPT ![t.page] = copied] /\ free' = s.m.free
           /\ LET c == [pml4 |-> t.page, page |-> s.page]
              IN /\ contexts' = contexts \cup {c}
                 /\ mapped' = [d \in contexts \cup {c} |-> IF d = c THEN << >> ELSE mapped[d]]
  /\ UNCHANGED <<kernel_pml4, kept>>

(* Without memory for a table nothing is mapped, and the tables added up to *)
(* there stay.                                                              *)
vmm_map_page(c, vaddr, paddr) ==
  LET w == vmm_walk(Mem, c.pml4, vaddr, TRUE) IN
  /\ Keep(IF w.at.ok THEN SetEntry(w.m, w.at.page, w.at.idx, Entry("page", paddr)) ELSE w.m)
  /\ mapped' = [mapped EXCEPT ![c] =
       IF ~w.at.ok THEN @
       ELSE [a \in DOMAIN @ \cup {vaddr} |-> IF a = vaddr THEN paddr ELSE mapped[c][a]]]
  /\ UNCHANGED <<kernel_pml4, contexts, kept>>

vmm_unmap_page(c, vaddr) ==
  LET at == vmm_walk(Mem, c.pml4, vaddr, FALSE).at IN
  /\ at.ok /\ tab[at.page][at.idx].kind # "none"
  /\ Keep(SetEntry(Mem, at.page, at.idx, None))
  /\ mapped' = [mapped EXCEPT ![c] = [a \in DOMAIN @ \ {vaddr} |-> @[a]]]
  /\ UNCHANGED <<kernel_pml4, contexts, kept>>

(* The tables below some entries of a table.                                *)
Below(ps, idx) == {tab[p][i].to : <<p, i>> \in {q \in ps \X idx : tab[q[1]][q[2]].kind = "table"}}

UserTables(pml4) ==
  LET pdpts == Below({pml4}, UserHalf)
      pds   == Below(pdpts, 0 .. Fan - 1)
  IN pdpts \cup pds \cup Below(pds, 0 .. Fan - 1)

Release(c, ps) ==
  /\ free' = free \cup ps
  /\ tab' = [p \in Pages |-> IF p \in ps THEN Zeroed ELSE tab[p]]
  /\ contexts' = contexts \ {c}
  /\ mapped' = [d \in contexts \ {c} |-> mapped[d]]
  /\ UNCHANGED <<kernel_pml4, kept>>

(* Mutation: the last level of tables is left.                              *)
vmm_destroy_ctx_Upper(c) ==
  LET pdpts == Below({c.pml4}, UserHalf)
  IN Release(c, {c.pml4, c.page} \cup pdpts \cup Below(pdpts, 0 .. Fan - 1))

vmm_destroy_ctx(c) == Release(c, {c.pml4, c.page} \cup UserTables(c.pml4))

Init == /\ tab = [p \in Pages |-> Zeroed] /\ free = Pages
        /\ kernel_pml4 = 0 /\ contexts = {} /\ mapped = << >> /\ kept = {}

Next ==
  \/ vmm_init \/ vmm_create_ctx
  \/ \E c \in contexts :
       \/ vmm_destroy_ctx(c)
       \/ \E a \in Addresses : vmm_unmap_page(c, a) \/ \E f \in Frames : vmm_map_page(c, a, f)

Spec == Init /\ [][Next]_vars

-----------------------------------------------------------------------------
(* Every address space translates the addresses its agent has mapped to the *)
(* frames it has mapped them to, and no others; the kernel's addresses      *)
(* translate everywhere as they do in the kernel.  Each page that was taken *)
(* belongs to the kernel or to one address space, so that destroying one    *)
(* gives back all its tables and no table of another: vmm_walk,             *)
(* vmm_create_ctx and vmm_destroy_ctx, also when memory runs out.           *)
SpacesExact ==
  /\ \A c \in contexts :
       /\ \A a \in Addresses :
            vmm_get_phys(Mem, c.pml4, a) = IF a \in DOMAIN mapped[c] THEN mapped[c][a] ELSE 0
       /\ \A r \in Range(HugeRanges) :
            r[1][1] \notin UserHalf => vmm_get_phys(Mem, c.pml4, r[1]) = r[2]
  /\ LET Own(c) == {c.pml4, c.page} \cup UserTables(c.pml4)
     IN /\ \A c, d \in contexts : c # d => Own(c) \cap Own(d) = {}
        /\ Pages \ free = kept \cup UNION {Own(c) : c \in contexts}
        /\ \A c \in contexts : Own(c) \cap kept = {}
==============================================================================
