-------------------------------- MODULE Boot ---------------------------------
(***************************************************************************)
(* boot/efi_main.c and kernel/main.c, as built for x86_64: from the        *)
(* firmware to the scheduler.                                              *)
(*                                                                         *)
(* Memory is pages, each with a type of the firmware.  The firmware places *)
(* what it is asked for in any free pages, and may allocate and free pages *)
(* of its own while boot services run, for boot or for its runtime         *)
(* services, which changes the key of its memory map.  kernel_main         *)
(* is the entry of kernel.elf and keeps running on the stack of the        *)
(* firmware.  PMM is the page allocator it starts.                         *)
(***************************************************************************)
EXTENDS PMM, SequencesExt, FiniteSetsExt

CONSTANTS Firmwares,              \* initial memory: sequences of types, page 0 first
          Stack,                  \* page of the stack efi_main is called on
          Own,                    \* pages the firmware allocates and frees later
          Segments,               \* PT_LOAD segments: [paddr, pages]
          MMAP_MAX_ENTRIES,
          KernelTables, Drivers,  \* pages vmm_init and the drivers allocate
          MaxChanges              \* bound: changes of the memory map

VARIABLES stage,                  \* where efi_main, then kernel_main, is
          fw,                     \* page -> type of the firmware
          key, map_key,           \* of the memory map: now, and last read
          tries,                  \* of ExitBootServices
          at,                     \* pages of boot_info, of the file, of page tables
          loaded,                 \* the segments are at their addresses
          bi,                     \* boot_info
          told,                   \* fw when the map in boot_info was read
          changes

pmmvars  == <<bitmap, total_pages, free_pages, owned>>
bootvars == <<stage, fw, key, map_key, tries, at, loaded, bi, told, changes>>

NoPage == PMM_MAX_PAGES
Typed(t) == {p \in DOMAIN fw : fw[p] = t}

(* AllocatePages: any free page, or the one asked for.                      *)
Allocate(p, next) ==
  /\ fw[p] = "conventional"
  /\ fw' = [fw EXCEPT ![p] = "loader"] /\ key' = key + 1 /\ stage' = next

Halt == stage' = "halted" /\ UNCHANGED <<fw, key, at>>        \* for (;;);

AllocateAny(what, next) ==
  \/ \E p \in Typed("conventional") : Allocate(p, next) /\ at' = [at EXCEPT ![what] = p]
  \/ Typed("conventional") = {} /\ Halt

-----------------------------------------------------------------------------
(* efi_main.                                                                *)
AllocateBootInfo ==
  /\ stage = "boot_info" /\ AllocateAny("boot_info", "gop")
  /\ UNCHANGED <<map_key, tries, loaded, bi, told, changes>>

init_gop ==
  /\ stage = "gop" /\ stage' = "kernel file"
  /\ \E found \in BOOLEAN : bi' = [bi EXCEPT !.fb = found]
  /\ UNCHANGED <<fw, key, map_key, tries, at, loaded, told, changes>>

(* The file may be missing; when it cannot be read its pages are freed.     *)
read_kernel_file ==
  /\ stage = "kernel file"
  /\ AllocateAny("file", "segments") \/ Halt
  /\ UNCHANGED <<map_key, tries, loaded, bi, told, changes>>

Span(s) == s.paddr .. s.paddr + s.pages - 1
KernelImage == UNION {Span(s) : s \in Range(Segments)}

(* One segment; where its address is taken it goes anywhere else, and the   *)
(* kernel will not run.                                                     *)
LoadSegment(m, s) ==
  LET spare == {p \in DOMAIN m.fw : m.fw[p] = "conventional"}
      there == Span(s) \subseteq spare
      pages == IF there THEN Span(s)
               ELSE IF \E p \in spare : p .. p + s.pages - 1 \subseteq spare
               THEN LET p == CHOOSE q \in spare : q .. q + s.pages - 1 \subseteq spare
                    IN p .. p + s.pages - 1
               ELSE {}
  IN [fw |-> [p \in DOMAIN m.fw |-> IF p \in pages THEN "loader" ELSE m.fw[p]],
      loaded |-> m.loaded /\ there, ok |-> m.ok /\ pages # {}]

load_elf_segments ==
  LET m == FoldLeft(LoadSegment, [fw |-> fw, loaded |-> TRUE, ok |-> TRUE], Segments)
      lo == Min(KernelImage)
      hi == Max(KernelImage) + 1
  IN
  /\ stage = "segments" /\ stage' = IF m.ok THEN "config" ELSE "halted"
  /\ fw' = m.fw /\ loaded' = m.loaded /\ key' = key + Len(Segments)
  /\ bi' = [bi EXCEPT !.kernel = [base |-> lo * PAGE_SIZE, length |-> (hi - lo) * PAGE_SIZE]]
  /\ UNCHANGED <<map_key, tries, at, told, changes>>

(* boot.json is read into pool memory and freed; what it says of threads,   *)
(* frames and screen, with defaults for zeroes, is not kept here.           *)
load_boot_json ==
  /\ stage = "config" /\ stage' = "tables"
  /\ \E n \in {0, 2} : key' = key + n
  /\ UNCHANGED <<fw, map_key, tries, at, loaded, bi, told, changes>>

setup_page_tables ==
  /\ stage = "tables" /\ AllocateAny("tables", "map")
  /\ UNCHANGED <<map_key, tries, loaded, bi, told, changes>>

(* Mutation: memory of the firmware's runtime services is usable.           *)
efi_to_aevos_memtype_Runtime(t) ==
  CASE t \in {"conventional", "boot", "loader", "runtime"} -> "usable"
    [] t = "acpi" -> "acpi"
    [] OTHER -> "reserved"

efi_to_aevos_memtype(t) ==
  CASE t \in {"conventional", "boot", "loader"} -> "usable"
    [] t = "acpi" -> "acpi"
    [] OTHER -> "reserved"

(* The firmware's map: runs of pages of one type, in order.                 *)
GetMemoryMap ==
  LET n == Cardinality(DOMAIN fw)
      starts == {p \in 0 .. n - 1 : p = 0 \/ fw[p] # fw[p - 1]}
      End(p) == Min({q \in starts : q > p} \cup {n})
      order == SelectSeq([i \in 1 .. n |-> i - 1], LAMBDA p : p \in starts)
  IN [i \in DOMAIN order |-> [base |-> order[i] * PAGE_SIZE, type |-> fw[order[i]],
                              length |-> (End(order[i]) - order[i]) * PAGE_SIZE]]

(* The entries of boot_info; the one that holds the kernel is its.          *)
ConvertMap(descriptors) ==
  LET ds   == SubSeq(descriptors, 1, Min({MMAP_MAX_ENTRIES, Len(descriptors)}))
      k    == bi.kernel
      holds == {i \in DOMAIN ds : /\ ds[i].base <= k.base
                                  /\ k.base + k.length <= ds[i].base + ds[i].length}
  IN [total |-> Max({0} \cup {d.base + d.length : d \in Range(ds)}),
      mmap  |-> [i \in DOMAIN ds |->
                   [base |-> ds[i].base, length |-> ds[i].length,
                    usable |-> /\ efi_to_aevos_memtype(ds[i].type) = "usable"
                               /\ ~(holds # {} /\ i = Min(holds))]]]

(* The buffer of the map comes from the pool, before the map is read.       *)
ReadMemoryMap ==
  LET m == ConvertMap(GetMemoryMap) IN
  /\ stage = "map"
  /\ \/ /\ stage' = "exit" /\ key' = key + 1 /\ map_key' = key'
        /\ bi' = [bi EXCEPT !.mmap = m.mmap, !.total_memory = m.total]
        /\ told' = fw
     \/ stage' = "halted" /\ UNCHANGED <<key, map_key, bi, told>>     \* no memory for it
  /\ UNCHANGED <<fw, tries, at, loaded, changes>>

(* With an old key the map is read again, but not converted again.          *)
ExitBootServices ==
  /\ stage = "exit" /\ tries' = tries + 1
  /\ \/ map_key = key /\ stage' = "handoff" /\ UNCHANGED map_key
     \/ map_key # key /\ map_key' = key /\ stage' = IF tries' = 4 THEN "halted" ELSE "exit"
  /\ UNCHANGED <<fw, key, at, loaded, bi, told, changes>>

(* The firmware's own allocations, from its callbacks.                      *)
FirmwareChanges ==
  /\ stage \in {"map", "exit"} /\ changes < MaxChanges
  /\ \E p \in Own \cap DOMAIN fw, t \in {"conventional", "boot", "runtime"} :
       /\ fw[p] \in {"conventional", "boot", "runtime"} \ {t}
       /\ fw' = [fw EXCEPT ![p] = t]
  /\ key' = key + 1 /\ changes' = changes + 1
  /\ UNCHANGED <<stage, map_key, tries, at, loaded, bi, told>>

-----------------------------------------------------------------------------
(* kernel_main: the page allocator, then the callers of it in their order.  *)
Become(next) == stage' = next /\ UNCHANGED <<fw, key, map_key, tries, at, loaded, bi, told, changes>>

StartPMM ==
  LET total == clamp_total(bi)
      s == Reserve(Reserve(Regions(bi, total), KernelPages(bi), total),
                   Pages \cap (0 .. LOW_PAGES - 1), total)
  IN /\ stage = "handoff" /\ loaded /\ Become("vmm")
     /\ bitmap' = s.bitmap /\ free_pages' = s.free /\ total_pages' = total /\ UNCHANGED owned

Taken == UNION {Block(b[1], b[2]) : b \in owned}

(* alloc_table, until vmm_switch leaves the tables of efi_main.             *)
VmmInit ==
  /\ stage = "vmm"
  /\ \/ Cardinality(Taken) < KernelTables /\ pmm_alloc_page /\ Become("vmm")
     \/ Cardinality(Taken) = KernelTables /\ Become("drivers") /\ UNCHANGED pmmvars

(* slab_init and the drivers; then the frame buffer is read from boot_info. *)
StartDrivers ==
  /\ stage = "drivers"
  /\ \/ Cardinality(Taken) < KernelTables + Drivers /\ pmm_alloc_page /\ Become("drivers")
     \/ Become("frame buffer") /\ UNCHANGED pmmvars

(* Without one from the firmware it is allocated.                           *)
FrameBuffer ==
  /\ stage = "frame buffer" /\ Become("running")
  /\ \/ ~bi.fb /\ pmm_alloc_pages(2)
     \/ (bi.fb \/ bm_find_free(2) = NotFound) /\ UNCHANGED pmmvars

(* for (;;); after an error, the scheduler, or a kernel that is not there.  *)
Spin == /\ stage \in {"halted", "running"} \/ (stage = "handoff" /\ ~loaded)
        /\ UNCHANGED <<bootvars, pmmvars>>

BootInit ==
  /\ stage = "boot_info" /\ key = 0 /\ map_key = 0 /\ tries = 0 /\ changes = 0
  /\ \E i \in DOMAIN Firmwares : fw = [p \in 0 .. Len(Firmwares[i]) - 1 |-> Firmwares[i][p + 1]]
  /\ told = fw
  /\ at = [w \in {"boot_info", "file", "tables"} |-> NoPage] /\ loaded = FALSE
  /\ bi = [fb |-> FALSE, kernel |-> [base |-> 0, length |-> 0], mmap |-> << >>, total_memory |-> 0]
  /\ bitmap = [p \in Pages |-> TRUE] /\ total_pages = 0 /\ free_pages = 0 /\ owned = {}

BootNext ==
  \/ /\ UNCHANGED pmmvars
     /\ \/ AllocateBootInfo \/ init_gop \/ read_kernel_file \/ load_elf_segments
        \/ load_boot_json \/ setup_page_tables \/ ReadMemoryMap \/ ExitBootServices
        \/ FirmwareChanges
  \/ StartPMM \/ VmmInit \/ StartDrivers \/ FrameBuffer \/ Spin

BootSpec == BootInit /\ [][BootNext]_<<bootvars, pmmvars>>

-----------------------------------------------------------------------------
(* The page allocator of a running kernel never gives out a page of the     *)
(* kernel image, or one that was no memory, or of the firmware's runtime    *)
(* services or ACPI tables, when the map was read, whatever the firmware    *)
(* placed where.  What the firmware has made its own since then is kept too *)
(* as long as the first ExitBootServices succeeds; a retry reads the map    *)
(* again only for its key: efi_to_aevos_memtype, the conversion and the     *)
(* retries of efi_main, and pmm_init.                                       *)
Foreign(types) == {p \in DOMAIN types : types[p] \in {"runtime", "acpi", "reserved"}}

ForeignMemoryKept ==
  /\ Taken \cap (KernelImage \cup Foreign(told)) = {}
  /\ tries <= 1 => Taken \cap Foreign(fw) = {}

(* What kernel_main still uses is not given out either: its stack, boot_info *)
(* until its frame buffer has been read, the page tables of efi_main until   *)
(* vmm_switch.                                                               *)
BootMemoryKept ==
  Taken \cap ({Stack} \cup (IF stage \in {"vmm", "drivers"} THEN {at["boot_info"]} ELSE {})
                      \cup (IF stage = "vmm" THEN {at["tables"]} ELSE {})) = {}
==============================================================================
