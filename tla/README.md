# AevOS in TLA+

TLA+ models of AevOS, the bare-metal operating system for AI agents in `src/`,
with TLC runs on small instances and TLAPS proofs for all instances.

## The system and its models

One processor, one address space, cooperative coroutines. Interrupts cut into
running code: the timer's everywhere, those of keyboard and mouse on the PC. On
top of them sit a kernel (memory, scheduler, drivers, network, file systems), a
library of agent services (mailbox, logs, history, memory, skills, database,
language model, containers) and a shell with a terminal and a chat.

| part of the system | source | modules |
|---|---|---|
| boot loader, start of the kernel | `boot/efi_main.c`, `kernel/main.c` | `Boot`, on an instance of `PMM` |
| coroutine scheduler, timer tick | `kernel/sched/coroutine.c`, `kernel/drivers/timer.c` | `CoroSched` (steps of a context switch), `CoroLifecycle` (what it promises), `RunQueue` (linked lists), `ReadyQueue` (what they promise), `MCCoroQuantum` (adds a counter of ticks) |
| page allocator | `kernel/mm/pmm.c` | `PMM` |
| kernel heap | `kernel/mm/slab.c` | `Slab`, on an instance of `PMM` |
| address spaces | `kernel/mm/vmm.c` (x86_64) | `Vmm` |
| hash map, JSON, strings | `lib/hashmap.c`, `lib/json.c`, `lib/string.c` | `Lib` |
| mailbox, event log | `agent/mailbox.c`, `agent/eventlog.c` | `Mailbox`, `DropOldestQueue` (what the mailbox promises) |
| history, its index, saving and rollback | `agent/history.c`, `agent/hist_bptree.c`, `agent/sep_plane.c` | `History` |
| texts of the history | `lib/lz4.c` | `Lz4` |
| memory engine and its tiers | `agent/memory.c`, `agent/hms_cache.c`, `agent/hms_core.c` | `Memory`, `BinHeap` |
| database, vector index | `db/aevos_db.c`, `db/vecindex.c` | `AevosDb`, `BinHeap` |
| skills | `agent/skill.c` | `Skill` |
| agents, planner, verifier | `agent/agent_core.c`, `agent/sep_plane.c` | `AgentCore` |
| language model | `llm/llm_runtime.c` | `Llm` |
| containers | `container/lc_container.c`, `oci_runtime.c`, `lc_layer.c` | `Containers` |
| input | `kernel/drivers/hid.c`, `virtio_input.c` | `Hid` |
| terminal; chat, sidebar, panels | `ui/terminal.c`; `ui/shell.c`, `chat_view.c`, `sidebar.c` | `Terminal`; `Shell` |
| network card | `kernel/drivers/virtio_net.c` | `VirtioNet` |
| TCP, ping, hosts on a link, addresses | `kernel/net/lwip_port.c` | `Tcp`, `Link`, `NetAddress` |
| DNS client | `kernel/net/dns.c` | `Resolver` |
| disks | `kernel/drivers/nvme.c`, `kernel/drivers/ahci.c` | `Nvme`, `Ahci` |
| AevOS file system | `kernel/fs/aevosfs.c` | `AevosFs` |
| FAT32 reader | `kernel/fs/fs_fat32.c` | `Fat32` |
| search for volumes, ext4 reader | `kernel/fs/storage_automount.c`, `fs_ext4.c`, probes of `fs_fat32.c` and `fs_ntfs.c` | `Volumes` |
| virtual file system | `kernel/fs/vfs.c`, `kernel/fs/devfs.c`, `posix/posix_io.c` | `Vfs` |
| disk image | `tools/mkfs_aevos.c` | `Volumes` |

How state and actions correspond to the code:

* **CoroSched.** `coro_used`, `stack_base`, `state`, `priority`, `wake_tick` are
  the fields of `coro_pool`; `run_queues`, `current_coro`, `since_switch` and
  `preempt` the file's globals. `coro_yield` is cut into the steps `clear`,
  `demote`, `read`, `wake`, `pick`, `commit`, `reset` (`pc`), because the timer
  interrupt may come between any two of them and reads what they write; the
  idle loop of `scheduler_run` has its own steps. `TimelySpec` restricts `Spec`
  to sleeps whose deadline is still ahead when the sleeper's own `coro_yield`
  scans the pool. Without the restriction a sleeper is enqueued twice, which
  the run `sleep_enqueued_twice` shows.
* **RunQueue** has the links `coro_t.next` that CoroSched abstracts to
  sequences, and is shown to implement `ReadyQueue`.
* **PMM, Slab.** The bitmap, the counter and the first-fit search; caches with
  lists of partial and full slabs, descriptors from a pool that only grows.
  `owned` and `live` record what callers hold. A call is one step: `pmm.lock`
  is held throughout, and the heap is used from coroutines only.
* **Vmm** has the tables of four levels as pages of a small memory; `mapped`
  records what the callers asked for, `kept` the tables of the kernel.
* **Boot** lets the firmware change its memory map until boot services end, so
  that `ExitBootServices` is retried; it then starts the page allocator on the
  map and takes pages as `kernel_main` does. A retry reads the map again and
  converts nothing: that only free or the loader's memory is handed out is
  claimed of the map as converted, and of the firmware's own as long as one try
  was enough.
* **Lib** has three parts without common state. Hash map: buckets and their
  doubling. JSON: the recursive parser as a stack of unfinished values, with
  every block it allocates. Strings: loops over a memory of a few cells.
* **Mailbox.** Rings with head and count, one step per locked call.
* **History.** The ring of entries, the window of tokens, the index with its
  splits (including what the write behind a full leaf's key array overwrites),
  the image of `history_serialize`, and the Corrector's checkpoint. **Lz4** has
  the bytes of a text, their compression and what reading them gives back.
* **Memory** has the array of entries, the HNSW graph over its slots and the
  image; its second half the three tiers of answers. **AevosDb** has the tables
  with their trees of messages, and the flat and inverted-file indexes.
* **Skill.** A call of a skill is two steps, since the function runs without
  the lock. **AgentCore.** A call is one step; which allocation fails is chosen.
* **Llm** has the merging of tokens, the positions written to the key and value
  caches and the loop of generation; logits are a choice.
* **Hid.** Handlers of interrupts are single steps; taking an event from the ring
  is cut where an interrupt may come, and so is `push_event` when the main loop
  calls it for a serial character or a virtio-input event (`MainPush`): check,
  index, two halves of the copy, store. `raced` says that an interrupt came
  inside such a call; up to then the ring is exact. The events of a call are
  built on entry, changing `current_modifiers` is one instruction, and the PC has one
  mouse.
* **Terminal** and **Shell** take one event per step, with the texts in their C
  buffers. Scrolling is in pixels, with a height that is no multiple of a line;
  names and values of variables are cut as the code does. A name is stored cut
  but looked up whole: `LineExact` excepts the names that longer ones were cut to.
* **VirtioNet** has avail and used rings with free-running indices modulo
  2^16 (4 in the run), and the device as an actor of its own.
* **Tcp** puts several hosts that run this code on a wire that loses segments
  and, in a second instance, repeats one or lets one overtake another. On the
  wire that keeps order, data arrives in order and once; on the other it may
  not, since `tcp_process` looks at no sequence number, and the property says how far
  it can go wrong.
* **Resolver** and the ping of **Link** have the calls that wait, the answers
  that come late or twice, and the deadlines. The port of a DNS query is the
  timer's tick, its id two later reads of it with an exclusive or; a caller may
  be delayed between them. Two exchanges within one tick therefore share both,
  and so may two that lie 2^16 ticks apart. `ExchangesIsolated` says what holds
  in spite of that. An alias may also have a compressed name that points back
  to itself (`Endless`), from which `dns_name_unpack` does not return. **Link** also has
  hosts whose waiting loops process frames that open further such loops.
* **Nvme, Ahci** have the driver's side of a queue pair and of the command
  slot, and the controller as an actor of its own that fetches, completes in
  any order and late. A poll that gives up is a step that may come at any time
  while there is nothing to take. In `Ahci` a call waits for the busy flag
  (`PortFree`), rewrites header and table (`FillSlot`, two steps) and sets the bit
  (`Issue`). `late` has the transfers in whose rewriting the controller began a
  command that had been given up: it may then read a torn table, and nothing is
  claimed of them.
* **AevosFs.** `sb`, `inode_table` and `next_inode_id` are the file's globals,
  `disk` the blocks. A call is one step (`fs_lock`) and meets at most one
  failing transfer, which may be the reading of a directory's block: its
  entries are then passed over, and a name can be entered a second time. A
  write is a fold over the rounds of its loop. `Crash` loses the memory, and
  the next mount starts from what is on disk.
* **Fat32** takes a cluster per step, each with a sector or a table entry that
  may fail. **Volumes** reads a sector at a time, some of them unreadable, and
  writes the sectors of the image in the order of `main`. Its search for ext4
  ends with the first superblock, whether or not the root behind it is taken.
* **Vfs** has the nodes in the order of their allocation, with the nodes that
  lookups put into the tree or, in devfs, leave outside it. A name is a
  sequence of pieces, two for one longer than `VFS_NAME_MAX - 1`: a walk takes the
  pieces for components, a new node keeps the first of them and may hide
  another. `NoNodeHidden` excepts nodes that were made under such names.

`MC*` modules give the constants of a run. `MCKernel`, `MCAgentData`,
`MCNetwork`, `MCStorage` and `MCShell` explore several parts that share no state
side by side: the initial state chooses the part, the others stay as they are.
That is the union of the separate explorations, not their product.

## Runs

| run | shows | bounds |
|---|---|---|
| `scheduler` | queues stay well formed, no ready coroutine is lost, no stack in use is freed, no sleeper wakes early, a used-up quantum raises the request, the life cycle is implemented; sleepers wake and the highest priority runs | 3 coroutines, 2 priorities, 3 ticks: two in one queue, one overtaking, sleepers due at different ticks |
| `kernel_structures` | pages and objects are handed out once and counted exactly, pointers find their slab, an address translates to what was mapped and a destroyed context gives everything back, the hash map is a map, JSON values own exactly their blocks, memory and string functions write what they promise, the linked queues are FIFOs, and the start of the kernel hands out no memory that is not the loader's or free | 10 pages and three memory maps; 4 slabs in 5 pages; tables of 2 entries in 14 pages, 2 contexts; 5 keys in 2 to 8 buckets; JSON of 10 tokens with arrays that grow from 1; 5 memory cells of 3 values; 5 coroutines; 4 firmware memories of up to 12 pages with 4 changes |
| `agent_data` | the mailbox is a queue that drops its oldest message; snapshots of the log are its tail; a text is read back unless its block has the match of distance 0 that `text_garbled` shows; window, index and image of the history are exact; memory entries, tiers, vectors, sessions, rows and skills are what the calls made of them, with failing allocations | capacity 3 and 5 sends; log of 3 and 8 events; texts of up to 18 bytes of two bits; 11 pushes, enough for an index of three levels, ring of 2 for images; 3 entries on 2 levels; tiers of 2 slots for 3 queries; 3 vectors; 2 sessions and 4 messages; 3 skills |
| `network` | the card loses and alters no frame; a resolution takes answers with its own port and id, of its own tick before the ids come round, and a ping its own answers only; TCP data arrives in order and once while the wire keeps order, and a unit twice only when it was repeated; lookups are current; written addresses read back; hosts that wait for each other go on; frames are taken and resolutions return unless they unpack a name without an end | queues of 2, indices modulo 4, 5 frames (the indices wrap); 2 alias hops, 2 sockets, ids of 3 bits, ticks 1, 3 and 9 (one port; 9 is past the wrap, with the id that stands for 0), 2 queries that reach the server; 2 hosts, 2 connection attempts in the same slot, 1 with a disturbance of the wire; 3 pings with sequence numbers modulo 4; 2 hosts on a link, 1 lost frame; 3 cache slots for 4 addresses |
| `storage` | a command's completion is its own until one has timed out; a transfer that reports success was executed whole, unless a given-up command began while the slot was rewritten; files read back what was written, blocks are used once, names resolve; volumes are found and mounted; FAT32 and ext4 reads return the file, a prefix or an error; the files of an image other than the model read back and its partitions overlap nothing; appending loses nothing, no node of the tree hides another unless its name was cut | rings of 3 with 5 command ids, 1 timeout (every index wraps); 3 transfers of 2 chunks, 2 timeouts; files of 2 blocks on a device of 10, which two writes fill, a restart on one of 8, directories of 2 blocks; chains of 3 clusters; tables of 2 partitions, superblocks that are accepted, refused or missing; directories of 2 blocks and files of 2 extents; images of 44 and 47 sectors; 2 descriptors, 6 nodes, 2 writes |
| `shell` | events leave the ring in the order they came and tell which keys are down, until an interrupt cuts into the main loop's own push; a line is what the user typed; the prompt stays in view where the height is a whole number of lines, and is the next line otherwise; every chat message is answered; the tables of agents and containers, the verifier's judgement, and the tokens and caches of inference follow the calls | ring of 3 events, a PC with keyboard and mouse, one with keyboard, serial line and virtio-input, a board with the last two only; lines of 3 characters, 2 history entries of one, 6 output lines on a screen of three and a half, one variable more than fits; 2 agents and 3 ids, 3 rounds; context of 4 with 2 layers, prompts of 5; 3 container slots, 4 bundles, 7 ids in base 2 |

Every bound is a constant of the part's module. They are chosen so that each
limit of the code (a full ring, table, window or device, a wrapped index, a
grown array) is reached and passed.

Runs that show a disagreement between the code and what the repository says:

| run | what it shows |
|---|---|
| `sleep_enqueued_twice` | a sleeper whose deadline is due during its own `coro_yield` is enqueued twice |
| `index_loses_slot` | the key that overflows a full leaf overwrites two slots of that leaf |
| `text_garbled` | a text whose block has a match directly behind another one is read back as its compressed bytes |
| `rollback_keeps_newer` | a rollback after evictions keeps entries newer than the checkpoint |
| `root_not_rebuilt` | after a checkpoint and a restart the root directory of the AevOS file system is empty |
| `boot_memory_reused` | pages that `kernel_main` still uses, `boot_info` and its stack, are given out while it starts |

`HistoryExact` and the rest of the history hold for texts that are not empty,
which is what `agent_data` pushes.

Deadlock is checked in `scheduler`, `kernel_structures` and `shell`. The others
may stop: a bounded number of messages, frames or transfers is used up, a
resolution has returned, an image is written.

**Fairness.** In `scheduler` the processor keeps executing the
scheduler's steps, the timer keeps ticking, and a running coroutine gives up
the processor some time: the kernel has no preemption, and the shell loop
yields when `sched_preempt_pending` is set (`ui/shell.c`). Nothing is assumed
about the order in which coroutines are created, sleep or exit. In
`network` the card is polled again and again (the shell polls it
every frame), and a caller that waits goes on when its wait ends, at the latest
at its deadline. No fairness is assumed of the peer, the device or the wire.
That hosts on a link go on is a state property (`WaitsEnd`): when no host can
take a step and nothing was lost, none is waiting.

## Proofs

| theorem | module | for all |
|---|---|---|
| `TypeCorrect`, `QueuesStayWellFormed`, `NoReadyCoroutineLost`, `AtMostOneRunning`, `StackNeverFreedInUse`, `SleepersNeverWokenEarly`, `SchedulerImplementsLifecycle`, `QuantumAlwaysEnforced` | `CoroSchedProofs` | pool sizes, numbers of priorities, quanta, sleeps and clocks |
| `CounterExact`, `NoPageTwice` | `PMMProofs` | numbers of pages and sizes of requests |
| `TypeCorrect`, `MailboxIsQueue`, `SnapshotsAreTails` | `MailboxProofs` | capacities, sets of agents, sizes of a snapshot |
| `TypeCorrect`, `PhaseBitExact`, `CompletionIsOwn` | `StorageProofs` | sizes of ring, ranges of command ids, numbers of timeouts |
| `TransfersAreWhole` | `StorageProofs` | numbers of chunks, transfers and timeouts |
| `ExchangesStayIsolated` | `NetworkProofs` | names, sizes of the socket table, ranges of ports and ids, timers |
| `PingsStayIsolated` | `NetworkProofs` | sets of targets, fewer requests than sequence numbers |

`NatFacts` has what these modules share: induction over the natural numbers and the
arithmetic of remainders, each proved from what the provers know of integers.

*Scheduler.* `QueuesWellFormed` is not inductive: that the coroutine `coro_yield`
enqueues is in no queue follows only from which step it is in. The inductive
invariant `IInv` adds `QueueInv` (a coroutine is in a queue exactly when it is
ready, apart from the one inside its own yield), `StepInv` (what each value of
`pc` says about `current_coro` and `next`), `OneRunning`, `StackAlive` and
`OwnDeadlineAhead`. There is one lemma per action, resting on two lemmas on the
queues (`EnqueueLemma`, `PickLemma`). The refinement maps a slot to "free" or its state; each
step is a step of `CoroLifecycle` or changes no slot's state. The theorems are
about `TimelySpec`. For the quantum, `QuantumInv` adds that the interrupt's counter is
never behind the ticks that the running coroutine has had, unless a preemption is
already pending.

*Page allocator.* The invariant relates the counter to the cardinality of the
set of clear bits; the theorems start from any boot state with an exact
counter, which `pmm_init` produces in the run. `LeastExists` gives the least element
that the first-fit search needs.

*Mailbox.* The abstract queue is the sequence of `count` slots from `head`. The
proof relates indices modulo the capacity to positions in that sequence
(`AtFacts`, `AtInjective`, `AtNext`) and then treats sending, taking the
first and taking the n-th message, each also across the wrap. For the event
log, `LogInv` says which sequence number each slot holds.

*NVMe.* That the entry at the head has the driver's phase exactly when it is
new needs to be known of every entry: `RingInv` says that the unread
completions are in the slots from the head to the controller's tail, that
slots before the tail have the controller's phase and the others the opposite
one, and that this phase differs from the driver's exactly when the unread
entries reach around the end of the ring. One lemma treats posting an entry (`RingComplete`), one
taking it (`RingPoll`). `CompletionIsOwn` rests on `OneCommand`: without a
timeout at most one command is anywhere between the driver and the controller.

*AHCI.* `SlotInv`: the command under way during a poll is the one polled for. One
that was given up is either still in the slot, and overwritten before it
starts, or under way, and waited for; or the transfer is one of `late`.

*DNS and ping.* `ResolverInv` says that exactly the port of the waiting query is
bound, that `dns_rx` has its id, and of every query sent that its id is its tick
while the ticks have not come round; `IdOfTick` derives this from `XorAssumption`.
`EchoInv` says that a waiter is active only while its call waits and that
sequence numbers tell requests of a kind apart, and that a noted answer is to a
request that was made.

The constants' assumptions are `CoroAssumption`, `PMMAssumption`,
`MailboxAssumption`, `EventLogAssumption`, `NvmeAssumption` and `ResolverAssumption`:
positive sizes, and rings of at least two entries. `XorAssumption` says that the
exclusive or of two ids is a number and that with 0 it changes nothing. `BpMaxAssumption` fixes the 3 keys of an index node, on which the
layout of a node depends; no proof uses it.

`TypeCorrect`, `AtMostOneRunning` and `PhaseBitExact` are proved only; the runs
check the deeper properties that rest on them. `SnapshotIsTail`, `PingsIsolated` and
`Ahci`'s `TransferWhole` are checked as conjuncts of `RecordsExact`, `RequestsEnd` and
`MCStorage`'s `TransferWhole`.

Only model-checked: all liveness, and the components without a proof module.
Liveness, `ENABLED` and induction over recursive definitions are out of the
prover's reach; `Lz4`, `BinHeap`, `NetAddress` and other modules with loops over data
use such definitions.

## Observations without a run

Places where the code differs from what a comment says or a reader expects, met
while modelling. The models have the behaviour of the code unless a line says
that a case is left out.

*Scheduler, memory, boot*

* `coroutine.c:281` reclaims dead coroutines only when nothing is ready, so
  that their stacks stay as long as something always is.
* `coroutine.c:256`: a timer interrupt inside a switch leaves a preemption request
  for the coroutine that was just switched to, whose quantum (`coroutine.c:16`)
  has hardly begun.
* `coroutine.c:108`: `coro_sleep(0)` at tick 0 sleeps for ever.
* `slab_create` does not return its descriptor when there are no pages.
* `pmm.c:98`: a usable region above the memory that the bitmap covers lowers
  `free_pages`. `PMM` has this; the maps of the run have no such region.
* `vmm.c`: mapping over a present entry flushes no TLB entry; kernel entries added
  to the top level after `vmm_create_ctx` are not in the contexts made before.
* `efi_main.c`: the retry of `ExitBootServices` reads the memory map again but
  hands over the one converted before.

*Library*

* JSON: `\uXXXX` keeps its last digit, text behind the value is ignored, and when
  only one of an object's two arrays can grow the other one is leaked.
* `string.c:79`: `strncpy` writes a NUL behind the n bytes when the source is
  shorter. `snprintf` pads between sign and digits.
* LZ4's estimate of the compressed size is one byte short; the caller's
  `comp_max` makes up for it.

*Agents and their data*

* `history.c:67`: an empty text leaves a pointer in the entry that was freed.
  `agent_data` pushes texts that are not empty.
* `hist_bptree.c:184`: a failed allocation in a split leaves a leaf with one key
  too many.
* `history_get` into a buffer smaller than the text returns compressed bytes, so
  that the verifier may not see a tool's result.
* `agent_create`, `memory_init` and `aevos_db_open` ask the heap for more than 64 KiB,
  its largest object, and fail. The engines are modelled at their own interfaces.
* `agent_core.c`: `active_agent` is an index and means another agent when an
  earlier one is destroyed; the first cancelled agent clears the flag that was
  to cancel all; tool results are pushed before the assistant's message that
  asked for them; `agent_save_state` saves nothing.
* `memory.c:575`: `memory_forget` leaves graph nodes of dropped slots, though
  `docs/en/hms.md:67` says that the graph must not point at freed payloads.
* `hms_cache.c`: L1 holds one entry at most, since `l1_evict` passes over free
  slots; storing and forgetting invalidate no tier.
* `vecindex.c`: training again leaves vectors in their old lists; fewer than k
  results are not sorted; training with fewer vectors than lists is left out.
* `aevos_db.c`: `child_count` counts pushes that failed; `get_branch` drops the end
  at the leaf when the buffer is short; the list of sessions is cut by age
  before it is sorted newest first.
* `skill.c`: slots of unregistered skills are not used again; unregistering an
  inactive skill removes the registry entry of a newer one with its name; after
  `skill_deserialize` a name can be registered only after it is unregistered.
* `llm_runtime.c`: a prompt that fills the context stores one token behind its
  rows; `infer_cb` leaves out a token that is too long and appends later ones.
  The loader assigns no texts to the vocabulary, so tokens are never merged
  today; `Llm` has the general case.
* Containers: bundles are never freed; after 16 runs the message "OCI: bundle
  registered" is printed without one.

*Input and shell*

* The PC also polls the serial line, which `hid.c:350` gives to platforms without
  PS/2; a full ring may lose the release of a key.
* `hid.c:40`: `push_event` is called by the main loop with interrupts on and by the
  interrupt handlers. One that comes in between stores into the same slot, or
  the head goes back over its event.
* `hid.c:450`: Alt is taken back behind the pushes; a modifier key that changes
  meanwhile may be undone.
* `shell.c`: panels act on the release of a key, with the modifiers of that moment;
  keys reach a hidden terminal; the sidebar and the chat read wheel movements
  from events that carry a position.
* `terminal.c`: the history keeps the first 64 commands, not the last; `export NAME`
  sets an empty value; "ping" is not completed by Tab; a comment turns following
  on without scrolling; when the output scrolls and the height is no multiple of a
  line's, `terminal_render` leaves out the prompt (`terminal.c:1291`); without "=" a name longer than 39 characters is stored
  cut but looked up whole (`terminal.c:54`), so that setting it again adds an entry.

*Network*

* `lwip_port.c:129` says a full ARP table overwrites its oldest entry; the code
  overwrites slot 0, which may be the newest.
* `lwip_port.c:1435` describes DHCP as discover, offer, request, ack; the code
  takes the address of the first offer and sends no request. Each call of
  `dhcp_discover` binds another socket; none is unbound.
* `lwip_port.h:234`: the form "fe80::1" of its comment is not parsed, an embedded
  IPv4 address behind "::" is misplaced, and `net_format_ipv6` ("compact where
  possible") writes all groups.
* `lwip_port.c:910`: an echo request from an unresolved neighbour polls the card
  from inside a frame's handler, and further ones nest; an answer that arrives
  meanwhile is reported as a timeout when the outer deadline has passed.
* `lwip_port.c:1390`: data is taken whatever its sequence number.
* `dns.c:53`: `dns_name_unpack` counts no pointers (`depth` never changes); a
  name whose pointer leads back to itself keeps it for ever.
* `dns.c:185`: the id of a query is the tick, as is its port; two aliases
  followed within one tick use the same ones, and the repeated answer to the
  first is taken for the second's.
* `lwip_port.c:1423`: a socket in `LAST_ACK` waits for an acknowledgement that its
  peer, already freed, never sends.

*Storage*

* `nvme.c:58`: a completion that comes after the timeout is taken as that of the
  next command; the driver does not compare ids.
* `ahci.c:138`: the busy flag is read before the slot is rewritten; a command that
  was given up and is still in the slot may begin in between.
* `ahci.c:184`: after a task file error a controller that stopped is not
  restarted; every later command times out.
* `fs_fat32.c:374`, `fs_ntfs.c:141`: the probe reads the candidate's first sector
  over the partition table it is looping over, so that a second partition
  behind one it does not know is missed.
* `fs_ext4.c:391`: a first volume with a root that is refused ends the search.
* `fs_ext4.c`: a file of several extents is read from its first one; an empty file
  is listed but not found.
* `aevosfs.c:388`: a write that runs out of blocks half-way returns a count but
  does not raise the file's size. `aevosfs.c:212`: a superblock that cannot be
  read is replaced by that of an empty file system. `aevosfs.c:184`: a directory
  keeps a new block whose writing failed; this case is left out. `aevosfs.c:155`:
  a directory block that cannot be read is passed over, so that a name may be
  created twice.
* `vfs.c:38`: a node keeps 127 characters of its name, by which it is then found;
  a second name with the same beginning hides or is hidden.
* `vfs.c:249`: a file that `vfs_open` created stays when no descriptor is free.
* `devfs.c:125`, and procfs likewise: the node of a lookup has neither a parent
  nor functions, since the mount point's are in `mount_ops`; reading and
  writing `/dev/null`, `/dev/zero` and the files of `/proc` returns `-ENOTSUP`,
  and each open leaves a node that nothing frees.
* `posix_io.c:44`: `O_CREAT | O_EXCL` succeeds a second time for a file created
  below a mount, whose `stat` refuses nodes without `fs_data`.
* `mkfs_aevos.c:568`: `boot.json` is written over the first cluster of the model; files
  are put into the root though the comment says `/EFI/BOOT`; files larger than
  the system partition run into the data partition.

## Plan

What remains, in this order:

1. *Proofs*: the heap on top of `PMM`, the order of TCP's data, block ownership
   of the AevOS file system, the tree of messages of the database.
2. *Devices*: the rings of virtio-gpu and virtio-input, after `VirtioNet`.
3. *Virtual memory* of the other architectures, whose tables have another
   format but the same walks.
4. *Loaders*: `gguf_loader.c` and `safetensors_loader.c` as readers of a file whose
   reads may fail.

## Not modelled

`PROJECT.json` lists every part with its reason:

* audio and display: register access and drawing; no state that several steps
  share, apart from the command queue of virtio-gpu (see Plan);
* architecture support, serial port, PCI scan, kernel log: registers, port
  input and output, formatting. Their interrupts are actions of `CoroSched` and
  `Hid`;
* capabilities (`cap_ipc.c`): a table without callers besides its initialisation;
* requests to the language model (`llm_ipc.c`): compiled out in this build, and
  without a server that would take from the ring;
* arithmetic of the language model (`quantize.c`, `simd_kernels.c`): floating point;
* the evolution plane: stubs and counters; `evolution.c` runs only when
  `auto_evolve_enabled` is set, which no code does.

A body, text or payload is a number or a short sequence everywhere: formatting
and wording are left out unless a property is about them.
