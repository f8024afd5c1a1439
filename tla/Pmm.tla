---------------------------------- MODULE Pmm ----------------------------------
(*****************************************************************************)
(* The physical memory manager (lib/pmm.cc): a stack of free page frames,    *)
(* filled by init_pmm from the boot loader's memory map and popped by        *)
(* pmm_alloc_page.  The module has no Next of its own: PmmClient drives the  *)
(* whole interface, Vmm composes it with the page tables.                    *)
(*                                                                           *)
(* A frame is its page number.  Only the end of a memory region need not be  *)
(* page aligned, so lengths are in units, PMM_PAGE_SIZE of them to a page.   *)
(*****************************************************************************)
EXTENDS Integers, Sequences

CONSTANTS
    MMap,           \* the entries init_pmm scans, in order
    HIGH_MEM,       \* page number of 0x100000, where usable memory starts
    KERNEL_PAGES,   \* pages between kern_start and kern_end
    PMM_PAGE_SIZE,  \* units per page
    PAGE_MAX_SIZE,  \* supported pages; pmm_stack has one slot more
    U32_MAX,        \* (uint32_t)-1, the value of pmm_stack_top when empty
    Words           \* the values a read outside pmm_stack may return

VARIABLES
    pmm_stack,      \* uint32_t pmm_stack[PAGE_MAX_SIZE + 1]
    pmm_stack_top,  \* uint32_t index of the top, U32_MAX when empty
    phy_page_count,
    mmap_entry,     \* init_pmm: entry being looked at
    page_addr,      \* init_pmm: next page of that entry, NoPage outside the loop
    halted          \* an assert failed, or a scan never ends: while (1);

pmmVars == <<pmm_stack, pmm_stack_top, phy_page_count>>
scanVars == <<mmap_entry, page_addr>>

NoPage == -1
FirstPage == HIGH_MEM + KERNEL_PAGES

MMapEntry == [type : Nat, base : Nat, length : Nat]

Usable(e) == e.type = 1 /\ e.base = HIGH_MEM

ASSUME SizesAssumption ==
    /\ PAGE_MAX_SIZE \in Nat /\ U32_MAX \in Nat
    /\ PAGE_MAX_SIZE + 1 < U32_MAX
    /\ HIGH_MEM \in Nat \ {0} /\ KERNEL_PAGES \in Nat /\ PMM_PAGE_SIZE \in Nat \ {0}
    /\ Words \subseteq Nat

\* The memory map, and whatever init_pmm reads behind it (its end pointer is
\* computed in entries, not bytes), holds one usable region at 1MB, and that
\* region is larger than the kernel loaded at its start.
ASSUME MMapAssumption ==
    /\ MMap \in Seq(MMapEntry)
    /\ \E i \in 1..Len(MMap) :
         /\ Usable(MMap[i])
         /\ FirstPage * PMM_PAGE_SIZE < HIGH_MEM * PMM_PAGE_SIZE + MMap[i].length
         /\ \A j \in 1..Len(MMap) : Usable(MMap[j]) => j = i
    /\ FirstPage <= PAGE_MAX_SIZE

--------------------------------------------------------------------------------
(* uint32_t arithmetic on the stack index, and the array it indexes.         *)

Inc(x) == IF x = U32_MAX THEN 0 ELSE x + 1
Dec(x) == IF x = 0 THEN U32_MAX ELSE x - 1

Slots == 0..PAGE_MAX_SIZE

\* The indices that hold free frames.
UsedSlots == IF pmm_stack_top = U32_MAX THEN {} ELSE {i \in Slots : i <= pmm_stack_top}

FreeFrames == {pmm_stack[i] : i \in UsedSlots}

\* A read past the array returns whatever word lies there.
ReadSlot(i) == IF i \in Slots THEN {pmm_stack[i]} ELSE Words

--------------------------------------------------------------------------------
PmmInit ==
    /\ pmm_stack = [i \in Slots |-> 0]
    /\ pmm_stack_top = U32_MAX
    /\ phy_page_count = 0
    /\ mmap_entry = 1
    /\ page_addr = NoPage
    /\ halted = FALSE

\* void pmm_free_page(uint32_t p)
pmm_free_page(p) ==
    IF pmm_stack_top = PAGE_MAX_SIZE
    THEN halted' = TRUE /\ UNCHANGED <<pmm_stack, pmm_stack_top>>
    ELSE /\ pmm_stack_top' = Inc(pmm_stack_top)
         /\ pmm_stack' = IF Inc(pmm_stack_top) \in Slots
                         THEN [pmm_stack EXCEPT ![Inc(pmm_stack_top)] = p]
                         ELSE pmm_stack
         /\ UNCHANGED halted

\* Mutant: the pop forgets to lower the top.
pmm_alloc_page_KeepsTop(f) ==
    /\ pmm_stack_top # 0
    /\ f \in ReadSlot(pmm_stack_top)
    /\ UNCHANGED <<pmm_stack, pmm_stack_top, halted>>

\* Mutant: the pop decrements before it reads.
pmm_alloc_page_PreDec(f) ==
    /\ pmm_stack_top # 0
    /\ f \in ReadSlot(Dec(pmm_stack_top))
    /\ pmm_stack_top' = Dec(pmm_stack_top)
    /\ UNCHANGED <<pmm_stack, halted>>

\* uint32_t pmm_alloc_page(), returning f
pmm_alloc_page(f) ==
    /\ pmm_stack_top # 0
    /\ f \in ReadSlot(pmm_stack_top)
    /\ pmm_stack_top' = Dec(pmm_stack_top)
    /\ UNCHANGED <<pmm_stack, halted>>

\* Mutant: the assert wants two frames.
pmm_alloc_page_halts_Early ==
    /\ pmm_stack_top <= 1
    /\ halted' = TRUE
    /\ UNCHANGED <<pmm_stack, pmm_stack_top>>

\* Its assert(pmm_stack_top != 0, "out of memory").
pmm_alloc_page_halts ==
    /\ pmm_stack_top = 0
    /\ halted' = TRUE
    /\ UNCHANGED <<pmm_stack, pmm_stack_top>>

\* The slots that pmm_alloc_page(pma) finds pma in.  Above an empty stack its
\* loop bound is U32_MAX, so it sees the stale slots too.
Matches(pma) == {i \in Slots : i <= pmm_stack_top /\ pmm_stack[i] = pma}

\* Mutant: the hole is not filled with the frame on top.
pmm_alloc_page_at_Hole(pma, res) ==
    \/ /\ Matches(pma) # {}
       /\ pmm_stack_top' = Dec(pmm_stack_top)
       /\ res = pma
       /\ UNCHANGED <<pmm_stack, halted>>
    \/ /\ Matches(pma) = {}
       /\ res = 0
       /\ UNCHANGED <<pmm_stack, pmm_stack_top, halted>>

\* uint32_t pmm_alloc_page(uint32_t pma), returning res
pmm_alloc_page_at(pma, res) ==
    \/ \E i \in Matches(pma), w \in ReadSlot(pmm_stack_top) :
         /\ \A j \in Matches(pma) : i <= j
         /\ pmm_stack' = [pmm_stack EXCEPT ![i] = w]
         /\ pmm_stack_top' = Dec(pmm_stack_top)
         /\ res = pma
         /\ UNCHANGED halted
    \/ /\ Matches(pma) = {}
       /\ pmm_stack_top \in Slots
       /\ res = 0
       /\ UNCHANGED <<pmm_stack, pmm_stack_top, halted>>
    \* past the array: pma turns up in foreign memory, or the scan goes on
    \/ /\ Matches(pma) = {}
       /\ pmm_stack_top \notin Slots
       /\ \/ /\ res = pma
             /\ pmm_stack_top' = Dec(pmm_stack_top)
             /\ UNCHANGED <<pmm_stack, halted>>
          \/ /\ res = 0
             /\ halted' = TRUE
             /\ UNCHANGED <<pmm_stack, pmm_stack_top>>

--------------------------------------------------------------------------------
(* init_pmm, one action per turn of its two loops.                           *)

PmmReady == mmap_entry > Len(MMap)

RegionEnd == HIGH_MEM * PMM_PAGE_SIZE + MMap[mmap_entry].length

\* Mutant: no bound by the supported memory.
InRegion_Unbounded == page_addr * PMM_PAGE_SIZE < RegionEnd

InRegion ==
    /\ page_addr * PMM_PAGE_SIZE < RegionEnd
    /\ page_addr <= PAGE_MAX_SIZE

ScanEntry ==
    /\ ~halted /\ ~PmmReady /\ page_addr = NoPage
    /\ IF Usable(MMap[mmap_entry])
       THEN page_addr' = FirstPage /\ UNCHANGED mmap_entry
       ELSE mmap_entry' = mmap_entry + 1 /\ UNCHANGED page_addr
    /\ UNCHANGED <<pmmVars, halted>>

ScanPage ==
    /\ ~halted /\ page_addr # NoPage /\ InRegion
    /\ pmm_free_page(page_addr)
    /\ page_addr' = page_addr + 1
    /\ phy_page_count' = phy_page_count + 1
    /\ UNCHANGED mmap_entry

ScanEntryDone ==
    /\ ~halted /\ page_addr # NoPage /\ ~InRegion
    /\ page_addr' = NoPage
    /\ mmap_entry' = mmap_entry + 1
    /\ UNCHANGED <<pmmVars, halted>>

init_pmm == ScanEntry \/ ScanPage \/ ScanEntryDone

================================================================================
