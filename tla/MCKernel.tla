------------------------------ MODULE MCKernel ------------------------------
(***************************************************************************)
(* Independent kernel data structures, explored side by side: the initial  *)
(* state says which one is used and the others keep their initial state.   *)
(***************************************************************************)
EXTENDS PMM

(* The page allocator: ten pages of two address units.                      *)
Entry(b, l, u) == [base |-> b, length |-> l, usable |-> u]

(* Total memory is the end of the highest entry (boot/efi_main.c).  Holes,  *)
(* an unaligned entry, a kernel inside a usable entry, and more memory than *)
(* the bitmap covers.                                                       *)
MCBootInfos ==
  { [total_memory |-> 20, kernel |-> Entry(4, 3, FALSE),
     mmap |-> << Entry(0, 16, TRUE), Entry(16, 4, FALSE) >>],
    [total_memory |-> 18, kernel |-> Entry(2, 2, FALSE),
     mmap |-> << Entry(8, 10, TRUE), Entry(0, 2, TRUE), Entry(3, 4, TRUE) >>],
    [total_memory |-> 26, kernel |-> Entry(6, 1, FALSE),
     mmap |-> << Entry(2, 4, TRUE), Entry(8, 16, TRUE), Entry(6, 2, FALSE) >>] }

(* The scan of bm_find_free from page 0: before page i, the length of the   *)
(* current run and where it starts, or the answer.                          *)
bm_find_free_loop(count) ==
  LET scan[i \in 0 .. total_pages] ==
        IF i = 0 THEN [run |-> 0, start |-> 0, found |-> FALSE]
        ELSE LET s == scan[i-1] IN
             IF s.found THEN s
             ELSE IF bitmap[i-1] THEN [run |-> 0, start |-> i, found |-> FALSE]
             ELSE [s EXCEPT !.run = @ + 1, !.found = (s.run + 1 = count)]
  IN IF scan[total_pages].found THEN scan[total_pages].start ELSE NotFound

(* The single pass of bm_find_free finds the lowest fitting run whenever    *)
(* there is one, in every bitmap the allocator can produce.                 *)
FirstFit == \A n \in 1 .. PMM_MAX_PAGES : bm_find_free_loop(n) = bm_find_free(n)

-----------------------------------------------------------------------------
(* The heap: two objects per page, one per page, one per two pages; pages   *)
(* of four units, the first one reserved.                                   *)
HeapBootInfos == { [total_memory |-> 20, kernel |-> [base |-> 0, length |-> 4],
                    mmap |-> << [base |-> 0, length |-> 20, usable |-> TRUE] >>] }

(* The run queues: three coroutines of one priority and two of another.     *)
MCCoros == 1 .. 5

(* Memories of the firmware: one with pages of the runtime services in the  *)
(* middle, one where a page of the kernel is taken, two that are too small. *)
Conventional(n) == [i \in 1 .. n |-> "conventional"]
MCFirmwares == <<
  <<"boot", "boot">> \o Conventional(4) \o <<"runtime">> \o Conventional(3) \o <<"acpi", "reserved">>,
  <<"boot", "boot", "boot">> \o Conventional(7) \o <<"runtime", "reserved">>,
  <<"boot", "boot">> \o Conventional(4) \o <<"runtime", "conventional", "reserved">>,
  <<"boot", "boot", "runtime">> >>
MCSegments  == << [paddr |-> 2, pages |-> 1], [paddr |-> 3, pages |-> 1] >>

(* Address spaces: two entries per table, the second one the kernel's.      *)
MCHugeRanges == << << <<0, 0, 0, 0>>, 50>>, << <<0, 1, 0, 0>>, 51>>,
                   << <<1, 0, 0, 0>>, 50>>, << <<1, 0, 1, 0>>, 52>> >>
MCAddresses  == { <<0, 0, 0, 0>>, <<0, 0, 0, 1>>, <<0, 1, 1, 0>> }

VARIABLES part,                   \* what is explored
          h_bitmap, h_total_pages, h_free_pages, h_owned,
          slab_pool, slab_pool_next, partial, full, live,
          run_queues, link, picked,
          stage, fw, key, map_key, tries, at, loaded, bi, told, changes,
          b_bitmap, b_total_pages, b_free_pages, b_owned,
          tab, free, kernel_pml4, contexts, mapped, kept,
          buckets, capacity, count, content,
          read, stack, blocks, next, root, end, short, torn, stray,
          mem, was, call, ret

heapvars  == <<h_bitmap, h_total_pages, h_free_pages, h_owned,
               slab_pool, slab_pool_next, partial, full, live>>
queuevars == <<run_queues, link, picked>>
bootvars  == <<stage, fw, key, map_key, tries, at, loaded, bi, told, changes,
               b_bitmap, b_total_pages, b_free_pages, b_owned>>
spacevars == <<tab, free, kernel_pml4, contexts, mapped, kept>>
mapvars   == <<buckets, capacity, count, content>>
jsonvars  == <<read, stack, blocks, next, root, end, short, torn, stray>>
strvars   == <<mem, was, call, ret>>

Heap == INSTANCE Slab WITH
          cache_sizes <- <<2, 4, 8>>, SLAB_POOL_SIZE <- 4, SLAB_MAX_OBJECTS <- 2,
          Sizes <- {1, 3, 7, 9}, PMM_MAX_PAGES <- 5, PAGE_SIZE <- 4, BootInfos <- HeapBootInfos,
          bitmap <- h_bitmap, total_pages <- h_total_pages,
          free_pages <- h_free_pages, owned <- h_owned

Queues == INSTANCE RunQueue WITH
            Coros <- MCCoros, Priorities <- 0 .. 1, Priority <- [c \in MCCoros |-> c % 2]

Booting == INSTANCE Boot WITH
             Firmwares <- MCFirmwares, Segments <- MCSegments, Stack <- 1, Own <- {7},
             MMAP_MAX_ENTRIES <- 7, KernelTables <- 2, Drivers <- 2, MaxChanges <- 4,
             PMM_MAX_PAGES <- 16, PAGE_SIZE <- 1, BootInfos <- {},
             bitmap <- b_bitmap, total_pages <- b_total_pages,
             free_pages <- b_free_pages, owned <- b_owned

Spaces == INSTANCE Vmm WITH
            Pages <- 1 .. 14, Fan <- 2, HugeRanges <- MCHugeRanges,
            Addresses <- MCAddresses, Frames <- {90, 91}, MaxContexts <- 2

(* Formats that a buffer of at most five bytes holds and that it does not,  *)
(* with widths, padding, a sign and zero; numbers at the ends of eight bits.*)
MCFormats == {
  << [k |-> "str", s |-> <<97>>], [k |-> "int", v |-> -7, width |-> 3, pad |-> 48] >>,
  << [k |-> "int", v |-> 12, width |-> 1, pad |-> 32], [k |-> "str", s |-> << >>] >>,
  << [k |-> "int", v |-> 0, width |-> 0, pad |-> 32] >>,
  << [k |-> "ptr", v |-> 171],
     [k |-> "uint", v |-> 11, base |-> 16, upper |-> TRUE, width |-> 2, pad |-> 32] >> }

Library == INSTANCE Lib WITH
             Keys <- 1 .. 5, Hash <- <<1, 3, 2, 5, 5>>, Values <- {1, 2},
             DEFAULT_CAPACITY <- 2, MaxCapacity <- 8,
             Capacity <- 1, MaxTokens <- 10,
             Size <- 5, MaxCount <- 3, Bytes <- {0, 1, 2}, W <- 8,
             Numbers <- {-128, -100, -1, 0, 9, 10, 127}, Bases <- {1, 2, 10, 16}, Formats <- MCFormats

KernelInit == /\ part \in {"pages", "heap", "queues", "boot", "spaces", "table", "json", "strings"}
              /\ Init /\ Heap!Init /\ Queues!Init /\ Booting!BootInit /\ Spaces!Init /\ Library!MapInit
              /\ Library!json_init /\ Library!StringsInit
              /\ part # "pages" => total_pages = 9      \* one of the memory maps
              /\ part # "boot" => fw[2] = "runtime"     \* one of the memories
              /\ part # "strings" => mem = [a \in DOMAIN mem |-> 0]

KernelNext ==
  \/ part = "pages" /\ Next
     /\ UNCHANGED <<part, heapvars, queuevars, bootvars, spacevars, mapvars, jsonvars, strvars>>
  \/ part = "heap" /\ Heap!Next
     /\ UNCHANGED <<part, vars, queuevars, bootvars, spacevars, mapvars, jsonvars, strvars>>
  \/ part = "queues" /\ Queues!Next
     /\ UNCHANGED <<part, vars, heapvars, bootvars, spacevars, mapvars, jsonvars, strvars>>
  \/ part = "boot" /\ Booting!BootNext
     /\ UNCHANGED <<part, vars, heapvars, queuevars, spacevars, mapvars, jsonvars, strvars>>
  \/ part = "spaces" /\ Spaces!Next
     /\ UNCHANGED <<part, vars, heapvars, queuevars, bootvars, mapvars, jsonvars, strvars>>
  \/ part = "table" /\ Library!MapNext
     /\ UNCHANGED <<part, vars, heapvars, queuevars, bootvars, spacevars, jsonvars, strvars>>
  \/ part = "json" /\ Library!JsonNext
     /\ UNCHANGED <<part, vars, heapvars, queuevars, bootvars, spacevars, mapvars, strvars>>
  \/ part = "strings" /\ Library!CStringNext
     /\ UNCHANGED <<part, vars, heapvars, queuevars, bootvars, spacevars, mapvars, jsonvars>>

KernelSpec == KernelInit /\ [][KernelNext]_<<part, vars, heapvars, queuevars, bootvars,
                                            spacevars, mapvars, jsonvars, strvars>>

-----------------------------------------------------------------------------
(* The properties of Slab, RunQueue, Boot, Vmm and Lib, where they are      *)
(* explained: heap, address spaces, hash table, JSON values  *)
(* and strings hold exactly what the calls made of them, and the page       *)
(* allocator takes the first fitting run.                                   *)
StructuresExact == CASE part = "heap"   -> Heap!HeapExact
                     [] part = "spaces" -> Spaces!SpacesExact
                     [] part = "table"  -> Library!MapExact
                     [] part = "pages"  -> FirstFit
                     [] part = "json"   -> Library!JsonExact
                     [] part = "strings" -> Library!StringsExact
                     [] OTHER -> TRUE
ForeignMemoryKept == part = "boot" => Booting!ForeignMemoryKept
BootMemoryKept    == part = "boot" => Booting!BootMemoryKept
ImplementsFifo    == Queues!ImplementsFifo
=============================================================================
