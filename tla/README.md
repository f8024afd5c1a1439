# Sprite: a verification project

Sprite is a small x86 kernel in C++ (boot by multiboot, paging, a heap, kernel
threads, an IDE driver and the beginnings of a Minix-like file system). This
directory holds TLA+ models of its core, the TLC runs that check them and the
proofs, checked by TLAPS, about every part that is modelled. All source paths
below are relative to the repository's `src/`.

Run a check with `tlc -config Vmm.cfg MCVmm`, and the proofs of a module with
`tlapm FsProofs.tla`; the longest, `HeapProofs` and `LruCacheProofs`, take a few
minutes.

## 1. Inventory

| component | state | operations | talks to |
|---|---|---|---|
| physical memory, `lib/pmm.cc` | `pmm_stack`, `pmm_stack_top`, `phy_page_count` | `init_pmm`, `pmm_alloc_page()`, `pmm_alloc_page(pma)`, `pmm_free_page` | called by vmm; reads the multiboot memory map |
| virtual memory, `include/vmm.h`, `lib/vmm.cc` | dictionary `entries`, the `reserve` of tables, `table_count` | `init_vmm`, `insert`, `operator[]`, `page_fault_handler` | pops frames from pmm; handler runs inside any access to memory |
| heap, `include/ILAllocator.hpp`, `lib/kmalloc.cc` | block headers inside the heap | `alloc`, `free` | stacks of threads, nodes of the block cache |
| scheduler, `include/scheduler.h`, `lib/kthread.cc`, `lib/switch_to.s` | ring of `task_struct`, `running_`, `pid_cnt_` | `submit`, `exit`, `schedule` | kmalloc; called from the timer interrupt |
| timer, `lib/timer.cc` | none | `timer_callback` | calls the scheduler, wakes `hlt` |
| block cache, `include/lrucache.hpp` | hash table, ring `queue_`, free list, `count_` | `Get`, `Alloc`/`Set`, `erase`, uncache callback | callback re-enters it through fs |
| file system, block layer, `lib/fs.cc` | the buffers of the cache, the disk | `get_block`, `read_block`, `write_block`, `read_blocks`, `write_blocks`, `sync_all` | block cache, IDE driver |
| file system, inode layer, `lib/fs.cc` | super block, inode table, bitmaps | `init_fs`, `read_zone`, `traverse_dir`, `find_entry`, `namei`, `list_entries` | keeps pointers into buffers of the block layer |
| IDE driver, `lib/ide.cc` | `ide_device`, the loop variables of a request | `ide_init`, `ide_wait_ready`, `ide_read_secs`, `ide_write_secs` | the drive; waits by `hlt` |
| console, `lib/console.cc` | `cursor_x`, `cursor_y` | `console_putc`, `console_clear` | every thread and the keyboard interrupt |
| keyboard, `lib/keyboard.cc` | shift and capslock flags | `keyboard_isr`, `TypeIn` | prints to the console |
| interrupts, `lib/idt.cc`, `lib/isr.s` | handler table | `init_idt`, `register_isr`, `isr_dispatcher`, `irq_dispatcher` | calls all handlers; ends interrupts at the 8259 controllers |
| boot, `init/entry.cc` | - | `kern_init` | calls the `init_` function of every part, interrupts being on from the third call on |
| bitmap, strings, spin lock, ELF symbols, C++ run time, boot code | - | helpers | - |

What is hard in this kernel:

* *Preemption without locks.* Interrupts are on from `init_idt` on, and nothing
  in the kernel disables them or takes a lock. A tick may fall between any two
  accesses of `submit`, `exit`, `console_putc` or `alloc`.
* *Re-entry.* Evicting a block calls `write_block`, which calls back into the
  cache that is in the middle of the eviction.
* *Pointers into a cache.* `traverse_dir` reads on in a buffer after its callback
  has read any number of other blocks; nothing pins the buffer.
* *Power failing during a sync*, whose tables are written block by block, some of
  them through buffers that were never read.
* *Arithmetic at the edges of `uint32_t` and `uint8_t`*: a stack index whose
  empty value is `0xFFFFFFFF`, a remainder that may be negative, a column that
  may be decremented below zero.
* *Exhaustion*: frames, page tables, heap blocks and cache buffers are all
  small fixed pools.
* *Interrupts that do not return*: the timer's handler may switch to a thread
  that has never run and that starts outside any interrupt.
* *Waiting*: the driver halts the CPU after testing a status that may change in
  between.

What makes each part correct: a frame, a page table, a heap block and a cache
buffer has one owner at a time and none is lost; a translation never changes
(there is no TLB invalidation); the ring of tasks holds exactly the live
threads and everybody in it runs; a cached block is what was written to it
last; a path leads to the file it names and a listing shows every file; the disk
never holds a mixture within an inode; a request transfers exactly the sectors it was asked for, and returns;
the cursor stays on the screen; no interrupt reaches a part that is not set up,
and none is held back for ever. PROJECT.json lists the places where that may
go wrong, under "hazards".

## 2. Modules

Each module states at its top what it abstracts. Names are those of the source.

**Pmm** has the frame stack and `init_pmm`, whose two loops take one action per
turn. A frame is its page number. The stack index is a `uint32_t` with its wrap
(`Inc`, `Dec`), and a read outside `pmm_stack` returns any word of `Words`. It
has no Next: **PmmClient** drives its whole interface with callers that free only
what they were given, and **Vmm** composes it with the page tables.

**Vmm** (instance in **MCVmm**) has the two-level dictionary. A dictionary entry
holds the *physical* address of a table, as in the code, and `TableOf` goes back
to the table through `VMA` (`real_page_table`). The handler runs with interrupts
off, so a page fault is one action with three outcomes: a frame is mapped, the
frames are used up, or the tables are. A fault that runs out of frames has
already installed a table, as in the code. `halted` is the endless loop of a
failed assert. A fault on a page that is present is ignored by the handler and
changes nothing; it is no action.

**DemandPaging** is the abstract specification of both: frames are found at boot,
and a page that is touched for the first time gets a frame that was free and keeps
it. Vmm instantiates it with `free` as the frames of the stack and `backing` as the
translations of the pages outside the kernel's mapping.

**HeapProofs**, **SchedulerProofs**, **BlockCacheProofs**, **FsProofs** and
**IdeProofs** hold the theorems about the module each is named for, and extend it;
**MemoryProofs** those about PmmClient and Vmm, **InterruptsProofs** those about
Interrupts and Console. (PmmClient and Console therefore have names of their own
for `Init`, `Next`, `Spec` and `TypeOK`.) **LruCacheProofs** has the lemmas about
the cache's operators on which BlockCacheProofs and FsProofs both rest. Section 4
goes through them.

**Heap** has `alloc` and `free` over memory in 16-bit halves: all sizes are even
and headers four bytes, so a header written at a wrong place may overlap another
by half, and the model shows what the overlapped header then says. Both functions
run with interrupts on, so each header they read or write is an action of its own
and the threads of `Threads` interleave. `damage` counts the writes since a
remainder size wrapped around, `free` read the word behind the heap, or an `alloc`
overlapped a call of another thread; `lost` says that a walk along the headers has
left the heap.

**Scheduler** (instance in **MCScheduler**) has the ring and one action per load or
store of a pointer or pid in it, so that a tick may fall anywhere; the tick itself
is one action since it runs in an interrupt gate. A task is its stack, because its
`task_struct` lies in it. In `exit` the two loads that move `cur` and `prev`
(`ExitScan`, `ExitFollow`) and the load and the store of `prev->next = cur->next`
(`ExitRead`, `ExitUnlink`) are four actions; so are, in `submit` and `find_task`, the
test of a `next` pointer and the step along it two. Only a `task_struct` that is not
in the ring yet is filled in at once. Which free stack `kmalloc` returns is the
constant `Fit`. Use of a null task sets `wild`, after which nothing is modelled.
`raced` is a history variable: a thread has unlinked its task while another
thread's walk rested on it or was about to step to it (its `cur`, its `prev`, the
successor of `prev` between the two loads, or the `cur->next` it had loaded,
`Resting`), or `submit` has linked a task behind one about to be unlinked.

**LruCache** has `LRUCache` with the pointer assignments of `detach`, `push_back`
and `pop_front` in their order, and `get_block`, `read_block` and `write_block`,
as operators from cache state to cache state; one thread uses the file system. The
re-entrant callback is the call of `write_block` in `free`. The disk travels with
the cache, and the drive may fail to transfer the block `c.fault`; the file system
ignores the result of `ide_read_secs` and `ide_write_secs`. `c.ret` is the node
whose buffer was returned last. Which blocks there are and what one holds are
constants, which BlockCache and Fs give their values.

**BlockCache** makes actions of these operators: any sequence of operations on
single blocks with a drive that may fail. A block's data is the owner and version
of its first bytes and the owner of the rest, since `sync_super_block` and
`write_blocks` overwrite a part of a block only.

**Fs** (instance in **MCFs**) composes the cache with the inode layer. A block is
`kPerBlock` items: inodes, directory entries, numbers, bytes of a bitmap. A pointer
into a buffer is a node of the cache and an index, so that a later eviction shows
in what is read through it. `list_entries` recurses through `traverse_dir`; its
stack of frames is a variable, and one turn of the loop is an action. `find_entry`
and `namei` are operators, as is `read_zone`; their loops are recursive functions
on the number of turns made. A lookup through a null directory
reads address 0, which may look like a directory (`wild`) or not. `sync_all` takes
one action per block written, and `PowerOff` may come after any of them; then the
cache is cold and `init_fs` runs again. `strcmp` is `IsPrefix`: it stops at the end
of the entry's name. The disk that mkfs left, `Image`, is a constant; what the
kernel takes for granted about it is `ImageAssumption`. MCFs has the recursive
definition that a listing is compared with, since a proof module may not reach it,
and tests `ZoneBlock`, which says where a zone is, against the zones in order.

**Ide** has the driver and, as external, the drive. A request is followed through
`ide_wait_ready`, with the test of the status and the `hlt` as separate steps. The
drive may fail at any sector. `ide_read_secs` and `ide_write_secs` differ only in
the direction of the transfer and share their actions.

**Console** has the cursor and one action per access to it in each thread; the
keyboard's `console_putc` is one action since it runs inside the interrupt. A
character is its class; the picture does not influence the cursor and is left out.

**Interrupts** has the way of an interrupt through the kernel: the 8259
controllers and the keyboard controller (external: requests, lines in service,
priorities, end of interrupt; one byte in the output buffer), the handler table,
`irq_dispatcher` and the stub around it, and `kern_init` as the sequence `Calls`,
interrupts being taken between any two of them once `init_idt` has turned them on.
The timer's handler switches threads: one that was switched away from comes back
inside its own interrupt, one that never ran starts at its function with
interrupts on. The keyboard's handler keeps the flags of `TypeIn`; the character a
key gives is computed with the `char` arithmetic of the code, and `typed` is what
the handler printed last. `down`, `asked` and `early` are history variables: the
keys held down, the case that the Shift and Caps Lock keys moved so far ask for, and
whether a key moved while no handler was registered.

## 3. Runs

Passing runs:

| run | instance | shows |
|---|---|---|
| `vmm` | one page of kernel, four free frames, five dictionary entries of two pages, four tables; the usable region ends beyond `PAGE_MAX_SIZE` | the scan ends at `PAGE_MAX_SIZE` and the stack index never wraps (`TypeOK`); every order of page faults after boot, until frames or tables run out: no frame or table has two users (`FramesExclusive`, `TablesExclusive`), none is lost (`FramesConserved`), the direct mapping stands (`KernelMapped`), no translation ever changes (`TranslationStable`), the machine stops only with all tables, or all frames but one, in use (`StopsWhenUsedUp`), and the whole implements DemandPaging (`ImplementsDemandPaging`) |
| `pmm_client` | three frames, the scan bounded by `PAGE_MAX_SIZE` | any mix of the three operations keeps each frame in one place (`FramesInOnePlace`), until an allocation is served from an empty stack, and an assert fails only for want of a frame (`StopsOnlyWhenOut`) |
| `heap` | 26 bytes, sizes 1 and 6, three live blocks, two threads | threads that free at the same time, neighbours too, do no harm: blocks tile the heap and the allocated ones are those callers hold or are giving back (`HeapSound`), and no two callers are given overlapping memory (`BlocksApart`), up to the first damage |
| `scheduler` | three threads besides the boot thread, three stacks, which are used again | with two threads the ring holds exactly the live threads at every step of `submit` and `exit` (`RingSoundForTwo`); with three it does until a task is unlinked under another thread's walk, be it between the two loads of `exit`'s scan, or linked behind one being unlinked (`RingUnlessRaced`); an exiting thread finds its own task or none, and so looks for and frees nobody else's (`ExitsOwnTask`); short of such a race `find_task` misses only the last task of the ring (`MissesOnlyLast`); unless the ring has come to harm, everyone in it runs again (`EveryoneRuns`), and a thread that `find_task` has found leaves it (`LeavesRing`) |
| `block_cache` | three buffers, blocks 1, 2, 4, 7, of which 1, 4 and 7 collide; block 4 is written, and its transfers may fail | all entries stay reachable by probing, no buffer is used twice (`TableSound`), and no update is lost, nor does a failed transfer or an unread buffer harm any block but its own (`NoLostUpdate`) |
| `fs` | seven buffers, 21 blocks of three items, a root directory of 13 entries in direct, indexed and doubly indexed zones, a sub-directory and one below that, two files under several names, three calls between two starts | the buffers `traverse_dir` points into hold what it read there (`PointersFresh`) and the listing is complete and in order (`ListedRight`), both as long as no buffer has dropped out of the cache's ring; lookups are right where no entry's name is a beginning of another (`NameiRight`); whatever is cut off, every inode on the disk is the old or the new one and nothing else is overwritten (`Durable`) |
| `ide` | chunks of two sectors, two requests of one to three sectors, a disk of four | driver and drive agree on what is still to be transferred (`InStep`), a request of one chunk transfers the right sectors (`TransferRight`), each returns (`Terminates`) |
| `interrupts` | lines 0, 1 and 14 (timer, keyboard, disk), the keys A, both Shifts and Caps Lock, two threads besides the boot thread | no tick reaches the scheduler before it exists (`SchedulerReady`); while a thread executes, no line is in service at the controllers (`ControllerFree`); a letter is printed in the case that the Shift and Caps Lock keys moved before it ask for (`CaseRight`); every key is read (`KeysRead`) |
| `console` | two threads and the keyboard, a screen of 4 x 2, columns modulo 12 | the cursor is on the screen whenever no thread is inside `console_putc` (`CursorOnScreen`) |

Runs that end in a violation, each of a sentence the repository says of itself:

| run | the code | what the repository says |
|---|---|---|
| `heap_headers` | when the block found is barely larger than the request, `remain_size` wraps around and the remainder's header is written over the next block (`ILAllocator.hpp:41`) | the header of each block "tells whether this block is allocated, and its size" (`ILAllocator.hpp:7`) |
| `scheduler_exit` | with three threads, two exiting at the same time put one of them back into the ring (`scheduler.h:123`) | "Normally exit or kill a thread" (`kthread.h:25`) |
| `lru_ring` | the callback that `free` calls during an eviction promotes the evicted node back into the queue; pushed again by `Set` it is its own predecessor, and when it is hit next the nodes behind it drop out of the queue, not to be evicted until they are hit again (`lrucache.hpp:148`) | "LRU cache" (`lrucache.hpp:8`), "LRU queue" (`lrucache.hpp:193`) |

Some more facts came up that no run of its own is spent on.

*Threads and heap.* `find_task` (`scheduler.h:104`) stops before it looks at the
last task of the ring, although its comment says "If none, return nullptr": that
thread searches the ring for `nullptr` in `exit` for ever, which is why
`LeavesRing` is about threads that were found; `MissesOnlyLast` says that it passes
over no other. A thread preempted between its
unlinking and `kfree` is not scheduled again, so its stack is never freed. An
`alloc` that overlaps a call of another thread (`submit` in the boot thread, the
`kfree` of an exiting one) may take a block whose header the other is about to
write; `HeapSound` stops there.

*File system.* `find_entry` takes the first entry whose name is a beginning of the
rest of the path, so `..` always resolves to `.`, the entry before it (`fs.cc:182`,
`string.cc:22`). `namei` does not test for a missing directory (`fs.cc:196`). On a
miss `get_block` hands out a buffer that was never read (`fs.cc:23`), so the tail
of a block that `write_blocks` fills only in part may be written with another
block's data; `num_inodes / 8` leaves out the last byte of a bitmap
(`fs.cc:109`), which lies in such a tail. Nothing tests that the disk's inodes fit
into `g_inode_table` (`fs.cc:212`); `FsAssumption` states it. Once a buffer has
dropped out of the ring (`lru_ring`), `traverse_dir` does come to read through a
stale pointer in the `fs` run, although each sub-tree fits into the cache: entries
are then those of another block, or no entries at all (`wild`). The history variable
`lost` of Fs marks it, and `PointersFresh` and `ListedRight` are about the time
before.

*Devices and frames.* Of two Shift keys held down, the release of either clears
`is_shifting` (`keyboard.cc:23`), so the letters typed with the other still down are
small; `asked` in Interrupts takes that for what the keys ask for. `secno += n`
(`ide.cc:152`) comes after `n` has been counted down to 0, so each chunk of 128
sectors of a large request transfers the sectors of the first one; no caller asks
for more than one chunk, and `TransferRight` is about those. A key that moves
between `init_idt` and `init_keyboard` is dispatched to no handler: its byte stays
in the keyboard controller, which offers no other, and the keyboard is dead
(`early` in Interrupts). The assert in
`pmm_alloc_page` takes index 0 for an empty stack, so one frame is never used
(`StopsWhenUsedUp` says exactly that); and `pmm_alloc_page(pma)`, which has no
caller, can take that frame too, after which the index is `0xFFFFFFFF` and the
assert does not fire (`underflow` in PmmClient).

### Bounds

Every bound is a constant of its own name. They are chosen so that each limit is
reached: in `vmm` the scan meets `PAGE_MAX_SIZE`, and both the frames and the tables
run out; in `pmm_client` the stack wraps; `U32_MAX`, `HALF`, `U8` and `U32` are the smallest moduli at which
the wrapped values cannot be mistaken for good ones. In `heap`, 26 bytes hold
three blocks with a remainder, so that two neighbours can be freed at once; the
writes are followed for `MaxDamage` from the first damaging one on. In `scheduler`,
three threads are what two neighbours need to leave together while the boot thread
links in another; the run reaches the race, and also behaviours with three threads
in which it never happens. Its stacks are numbered by address and `kmalloc` returns
the lowest free one (`FirstFit`), as the heap's first fit does; `SchedulerProofs` is
about any choice. In `block_cache`, three colliding keys among four make every
eviction break and repair a probe chain, and a version bit tells the last write
from the one before; of a block that has been spoilt no further failed transfer is
followed. In `fs`, the sub-tree below the root's entry `d` has six
blocks, which with the buffer that the listing of the root comes back to makes seven,
the number of buffers: when it comes back that buffer is the next to be evicted, and
one block more would break the listing. The listing of the root goes through its
direct, indexed and doubly indexed zones, and is completed with the ring of the cache
whole, as a first and as a second call, and after an edit; other orders of calls do
break the ring. The edits are of `d/dx` and `g/dx`: as in `/test/test.txt`, which
`test_fs` edits, a directory's name is a beginning of the file's, and the second
path uses a file as a directory. Three calls allow an edit, a sync and a listing in
any order before the power fails. In `ide`, a second request follows one that failed or was
cut short at any point. Runs say `CHECK_DEADLOCK FALSE` where the system really
stops: after a failed assert, at the bound on calls, or when no call is under way.
`console`, `interrupts` and `fs` never stop and are checked for deadlock. In
`interrupts`, one line before and one behind the cascade besides the keyboard's
make each pair of priorities meet, and two threads let a tick find one that has
run and one that has not.

### Fairness

*Scheduler*: `WF(Tick)`, since the timer is never disabled, and `SF(Step(t))` for
each thread: a time slice is about a million instructions, so a thread that is
scheduled again and again does take steps, but is not enabled continuously.
*Ide*: weak fairness of the driver (the only thread), of the timer, which
`kern_init` starts before `ide_init`, and of the drive, which does not stay busy
for ever; callers need not call. Without the timer `Terminates` fails, as the
drive's interrupt may come between the test and the `hlt`. *Interrupts*: weak
fairness of the steps inside an interrupt, and `SF(Interrupt(l))`: a request that
is offered again and again is taken once, although more urgent ones may come
first. A device other than the keyboard requests again only while a thread
executes: between two ticks lie 5 ms, and a handler takes microseconds. Neither
`kern_init` nor threads need to proceed.

## 4. Proofs

Each component has one inductive invariant (`IInv` for Vmm, `ClientInv` for
PmmClient, `CursorInv` for Console, `Inv` for the others), a step lemma per action,
and the theorem `Invariance` (`ClientInvariance`, `ConsoleInvariance`), from which
the properties follow. The theorems hold for every value of the constants that the
named assumptions admit; TLC evaluates these on the instances of the runs.

| module | proved | for every |
|---|---|---|
| MemoryProofs | all eight properties of `vmm`, the refinement too | memory map, kernel size, dictionary and table size, table reserve, position of the kernel |
| MemoryProofs | `ClientTypeOK`, `FramesInOnePlace`, `StopsOnlyWhenOut` | memory map, stack size, number of frames a caller may hold |
| HeapProofs | `TypeOK`, `HeapSound`, `BlocksApart` | heap, word and request size, number of threads and live blocks |
| SchedulerProofs | `TypeOK`, `ExitsOwnTask`, `RingUnlessRaced`, `MissesOnlyLast` | number of stacks and of threads created, choice of a free stack |
| BlockCacheProofs | `TypeOK`, `TableSound`, `NoLostUpdate` | number of buffers from two on, any blocks, any of them unreliable |
| FsProofs | `TypeOK`, `Durable`, `NameiRight` | disk image, number of buffers from two on, items in a block, direct zones, paths, edits |
| IdeProofs | `TypeOK`, `InStep`, `TransferRight` | size of the disk, of a chunk and of the requests, any failures |
| InterruptsProofs | `TypeOK`, `SchedulerReady`, `ControllerFree`, `CaseRight` | set of lines and of keys, number of threads |
| InterruptsProofs | `ConsoleTypeOK`, `CursorOnScreen` | set of threads, size of the screen and of a tab |

### Virtual memory

`MemoryProofs` proves, for every memory map, kernel size, dictionary and table size,
table reserve and position of the kernel, that the properties of the `vmm` run are
invariants of `Spec`: `TypeCorrect`, `FramesExclusiveHolds`,
`TablesExclusiveHolds`, `KernelMappedHolds`, `FramesConservedHolds`,
`StopsWhenUsedUpHolds`, the action property `TranslationStableHolds`, and the
refinement `DemandPagingImplemented`.

Assumptions (`SizesAssumption`, `MMapAssumption` in Pmm, `VmmAssumption` in Vmm):
the stack index does not reach `U32_MAX` by counting up; the memory map has
exactly one usable entry at 1MB and that region is larger than the kernel at its
start; the dictionary object lies above `PAGE_OFFSET`; and the direct mapping does
not reach the end of the address space. All hold of the constants in the source
and of the machines Sprite boots on.

None of the properties is inductive. `IInv`, proved in `Invariance`, adds

* `ScanInv`: how many pages `init_pmm` has pushed, and that the one usable entry
  is behind it or before it;
* `StackInv`: slot `i` of the stack holds frame `FirstPage + i` for ever, as after
  boot the stack is only popped, and the top never wraps; this is where the
  off-by-one assert of `pmm_alloc_page` is needed. `TypeOK` has the bound in it: the
  index is `U32_MAX` only until the first page is pushed, and below
  `phy_page_count` from then on;
* `DemandInv`: the demand-paged pages hold one each of exactly the frames above
  the top of the stack. This one statement gives exclusion and conservation;
* `BootInv` and `KernelInv`: nothing is demand paged before paging is on, and the
  first `kmap_i` kernel pages are mapped and stay mapped;
* `TablesExclusive`, without which a write to one table could change the
  translation of another page.

`InsertStep` is the central lemma: a write through `insert` or `operator[]`
changes the translation of its own page only. It needs that a table's address
survives the trip through `PMA` and `VMA` (`TableRoundTrip`) and that two pages of
the address space have different slots (`SlotsDistinct`). Each action has a step
lemma; the theorems follow from `Invariance`. `StopsWhenUsedUp` needs `HaltInv`,
the same fact by stack index.

`DemandPagingImplemented` shows that every step maps to a step of DemandPaging or
to a stutter: the scan pushes one frame that backs no page (`ScanFinds`), a fault
takes the top frame, which was free, for a page that had none (`FaultTouches`), and
the steps of `init_vmm`, and a fault that stops the machine half way through, leave
the mapped state alone (`SameBacking`).

### Physical memory

`FramesInOnePlace` counts the slots a frame is in. `ClientInv` says it without counting:
no two slots in use hold the same frame, those frames were found at boot, and the
callers hold, once each, exactly the other ones (`SharedOut`). The index that wraps
below 0 is the one that means "no slot in use", so `pmm_alloc_page(pma)` on the
last frame keeps this true; only an allocation after it (`underflow`) does not, and
both properties stop there. That frees fit on the stack follows from it too: the
frames held are missing from the stack.

### Heap

`Inv` needs the set of places where blocks begin, which the code keeps nowhere. It
says that while nothing is damaged there is a set `B` whose blocks tile the heap
(`Tiled`); that each allocated block is held by one caller or being given back by
one `free` (`Held`); and that what a call has read and not yet acted on is still so
(`Knows`): the block an `alloc` has found is free and of the size it saw, the
neighbour a `free` will merge is free. Between the two headers an `alloc` writes
the heap does not tile; then the memory *after* the second one is in order
(`Mending`). `Cut` and `Merge` show that splitting a block and joining two keep a
tiling. That `alloc`'s walk visits exactly `B` needs induction over the walk: the
library's induction theorems cannot be instantiated by the provers, but a
well-founded set has a minimum, and `Least` and `SetInduction` get induction over
the members of a set from that. `HeapAssumption` has the heap's ends even and below
the word size, and every request at most the word size less 2: nobody asks for
`0xFFFFFFFF` bytes.

### Scheduler

Two invariants. `find_task` compares pids, so the first is about pids: no two
`task_struct`s hold the same one, not even those in freed stacks, all are below
`pid_cnt_`, and a thread that lives has one that is not the boot thread's
(`PidsApart`); its stack is allocated, so no `submit` fills it in again
(`StackHeld`); then the task found is the caller's or none (`Looking`). It says
nothing of the ring, so `ExitsOwnTask` holds where the ring is broken too.
`pid_cnt_` is bounded by `MaxCreate`; the code's would wrap after 2^32 threads.

The second is about the ring. With three threads it does break
(`scheduler_exit`), so the theorem says by what: `RingUnlessRaced` holds for any
number of threads. The race is wide: `exit` loads `cur->next` and `prev->next` one
after the other, and a task unlinked between the two loads leaves `prev` where its
unlinking does nothing. `RingInv` says that until the race there is a sequence
`q[0..n]` of tasks without repetition, each the `next` of the one before, from the
boot thread back to it; that a stack is on it exactly if its thread was linked in
and has not unlinked itself; that every walk rests on it (`Walking`: the tail
search of `submit`, `find_task`, and the scan of `exit`, whose `prev` and `cur` are
neighbours, or two apart between their loads, the task not being behind them); and
that the thread that runs is on it or has just left it, its `next` still leading there. Linking at the tail makes the
sequence one longer, unlinking closes a gap in it, and the work is in showing that
the other threads' pointers survive both. `MissesOnlyLast` comes from the same
`Walking`: a search that has not passed its task and stands on the last one stands
on it. `RingSound` itself speaks of a chain of
`Cardinality(Tasks)` hops; that a sequence without repetition is no longer than
that comes from the library's facts about cardinality.

### Block cache

The operations are operators from state to state, and the lemmas of LruCacheProofs
say what they do to the table and to the ring, whatever a block holds. In
BlockCacheProofs,
`Inv` says of the cache at rest that the table holds
each node made so far once, that every entry is reached by probing from its key's
place, that the count is right, and that every pointer of a node in use leads to a
node in use; and that every block that is not spoilt has its last version in its
buffer, or on the disk when it is not cached. It does not say that the pointers
form a ring, which is false (`lru_ring`): whichever node the broken queue offers
for eviction, no table entry and no update is lost. The hard case is `erase`, which
leaves a hole that cuts probe chains: `free` evicts only when the table is full, so
the hole is the only one, every probe ends there, and the new entry fills it at
once (`ReusedEntry`); and in between, `write_block` re-enters the cache with a key
that is still found (`Evicted`). One buffer would not do: `N >= 2` is in
`CacheAssumption`.

### File system

FsProofs proves `TypeOK`, `Durable` and `NameiRight`. `FsAssumption` and
`ImageAssumption` say what the kernel never tests of the disk: the tables fit
before the data and into memory, a directory's zones are data blocks and hold
entries, an entry has an inode of the table, and what `test_fs` edits is a file
with a first block of its own, not part of a directory. Which inode an edited path
comes to is said by `Destination`, with the match of `find_entry` that takes the first
entry whose name is a beginning of the one looked for; a directory that such an entry
names on the way, or elsewhere on the disk, does no harm (`test` before `test.txt`).
`DestinationRun` shows that `namei` goes there. `CacheAssumption` has at least two
buffers.

`Inv` has six parts.

* `CacheInv`: between two steps no buffer differs from its block (`Clean`), because
  whoever changes a buffer writes the block in the same step. This is what makes
  the rest possible: a read then changes nothing but the cache, whichever blocks it
  evicts and whatever the callback writes (`Quietly`), and returns what the disk
  holds.
* `TableInv`: the tables in memory are the image's, but for the sizes of files.
* `DiskInv`: so are those on the disk, and its data is the image with the edits
  made, which no directory or index is part of.
* `SyncInv`: each inode on the disk is that of the last sync or, while the inodes
  are being written, that of this one; the blocks before `block` are done.
* `FrameInv`: every traversal under way is of a directory.
* `FoundInv`: what `namei` returned is what the path names.

`Durable` follows from `DiskInv` and `SyncInv`. The step that matters is
`SyncBlock`: `get_block` may return a buffer that was never read and whose tail is
another block's, and it may evict; `TableWritten` shows that the step writes one
block, with the table's items in it, and that the tables of the super block, the
bitmaps and the inodes never share one. For `NameiRight`, `find_entry`'s loop over
the entries, with its change of zone at every `kPerBlock`-th, is shown to find the
first entry whose name is a beginning of the name (`Search`, by way of `ZoneBlock`
for direct, indexed and doubly indexed zones), and `namei` to follow `Walk` name by
name, whatever it evicts on the way.

The loops are recursive functions. That such a function exists and takes the steps
its definition says (`LoopRuns`), and that a property kept by every turn holds
after the last one (`NatClosed`), are proved once from the library's facts about
well-founded sets; each loop is an instance.

### IDE driver

`Inv` relates the driver's loops to the drive: sectors transferred, of this chunk
and of later chunks add up to the request (`Counted`), and the drive has as many
sectors left as the driver counts, one more while it stores the last one
(`Follows`). For a request of one chunk, what is before the driver's position is in
the buffer or on the disk, except that a write's last sector may still be under way
(`ReadInv`, `WriteInv`). `IdeAssumption` has sizes small enough that `secno + nsecs`
does not wrap, or the range check of a request would let it through.

### Console

A column off the line is *owed*: some thread is about to test it and bring it back
(`ColumnOwed`), and so is a row off the screen (`RowOwed`). A thread may store a
stale column long after others have moved the cursor, but then its own test still
lies ahead. `ConsoleAssumption` has the screen smaller than a `uint8_t` counts and
the tab a divisor of 256, as in the source.

### Interrupts

`Service`: exactly the line that was entered, with the cascade for one of the
slave's, is in service until `irq_dispatcher` ends it, so `ControllerFree` holds
although the timer's handler may not return to its stub. `FlagRight`: interrupts
are on exactly while a thread executes. `TimerLate` places the registration of the
timer behind `init_kthread`. `FlagsTracked`: the flags of
`TypeIn` are what the keys moved so far ask for, but for the byte that waits; for
`CaseRight` the `char` arithmetic of `Shifted` then comes down to the two flags
(`LetterCase`).

### Only model-checked

* `RingSoundForTwo`: that a race does no harm as long as there are two threads
  depends on that number; `RingUnlessRaced` is the statement for any number.
* `EveryoneRuns`, `LeavesRing`, `Terminates`, `KeysRead`: liveness under fairness is
  out of the prover's reach.
* `PointersFresh`: it depends on the order in which the cache evicts and on the
  size of the sub-trees against the number of buffers, so it is a fact about an
  instance; the one checked has no buffer to spare.
* `ListedRight`: its reference definition is RECURSIVE, over the directory tree, and
  it rests on `PointersFresh`.

## 5. Not modelled, and the plan

Not modelled: the temporary page tables and segments of the boot code, the C++ run
time, ELF symbol lookup and debug printing (they only print), the spin lock (no
users), port I/O instructions. Inside modelled parts: register contents on a
switch, the picture on the screen and the formatting of `printk`,
`LRUCache::clear` (only run by the destructor of a global), `ide_request` and
`ide_ioctl` (no callers), the bit operations of `bitmap` (no callers: the file
system copies its bytes).

Some things the code would not survive are left out because nothing in this kernel
does them: several threads creating threads (`pid_cnt_++`, `scheduler.h:46`), one
thread killing another, several threads using the disk (the register writes of a
command, `ide.cc:137`), a request for `0xFFFFFFFF` bytes (`ILAllocator.hpp:34`),
and files being created or deleted.

What could come next: a bound on the blocks of a sub-tree, as an assumption on the
image, under which `PointersFresh` holds for every instance whose ring is whole.
