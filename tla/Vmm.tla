---------------------------------- MODULE Vmm ----------------------------------
(*****************************************************************************)
(* Virtual memory (include/vmm.h, lib/vmm.cc) on top of the physical memory  *)
(* manager: the two-level page dictionary, its reserve of page tables, the   *)
(* kernel mapping made by init_vmm and the page-fault handler that maps a    *)
(* frame on first access.  The handler runs with interrupts off, so a fault  *)
(* is one action.  Virtual and physical addresses are page numbers; every    *)
(* present entry is also writable, so PAGE_WRITE is left out.                *)
(*****************************************************************************)
EXTENDS Pmm

CONSTANTS
    DICTIONARY_MAX_SIZE,
    TABLE_MAX_SIZE,
    TABLE_RESERVE,      \* page tables embedded in the dictionary object
    PAGE_OFFSET,        \* page number of 0xC0000000
    RESERVE_PAGE,       \* page number of &page_dictionary.reserve[0]
    KERNEL_MAP_PAGES    \* pages of the direct mapping: 4MB

VARIABLES
    entries,      \* PageDictionary::entries, physical address of a table
    reserve,      \* PageDictionary::reserve[i].entries
    table_count,
    kmap_i,       \* init_vmm's loop counter
    paging        \* page_fault_handler registered and cr3 loaded

vmmVars == <<entries, reserve, table_count>>
vars == <<pmmVars, scanVars, halted, vmmVars, kmap_i, paging>>

DictIdx  == 0..(DICTIONARY_MAX_SIZE - 1)
TableIdx == 0..(TABLE_MAX_SIZE - 1)
Tables   == 0..(TABLE_RESERVE - 1)
\* The 32-bit address space, in pages.
AddressPages == DICTIONARY_MAX_SIZE * TABLE_MAX_SIZE
VPages   == 0..(AddressPages - 1)

ASSUME VmmAssumption ==
    /\ DICTIONARY_MAX_SIZE \in Nat \ {0} /\ TABLE_MAX_SIZE \in Nat \ {0}
    /\ TABLE_RESERVE \in Nat \ {0}
    /\ AddressPages \in Nat
    /\ PAGE_OFFSET \in VPages
    \* page_dictionary lies in the kernel image, above PAGE_OFFSET
    /\ RESERVE_PAGE \in Nat /\ PAGE_OFFSET <= RESERVE_PAGE
    /\ RESERVE_PAGE + TABLE_RESERVE <= AddressPages
    \* and the direct mapping does not reach the end of the address space
    /\ KERNEL_MAP_PAGES \in Nat /\ PAGE_OFFSET + KERNEL_MAP_PAGES <= AddressPages

--------------------------------------------------------------------------------
\* PMA and VMA, modulo the address space.
PMA(x) == IF x >= PAGE_OFFSET THEN x - PAGE_OFFSET ELSE x - PAGE_OFFSET + AddressPages
VMA(x) == IF x + PAGE_OFFSET < AddressPages THEN x + PAGE_OFFSET
                                            ELSE x + PAGE_OFFSET - AddressPages

dict_index(v)  == (v \div TABLE_MAX_SIZE) % DICTIONARY_MAX_SIZE
table_index(v) == v % TABLE_MAX_SIZE

NotPresent == [present |-> FALSE, addr |-> 0]
Entry(a)   == [present |-> TRUE, addr |-> a]
Entries    == [present : BOOLEAN, addr : Nat]

\* real_page_table: from the physical address in a dictionary entry back to
\* the table object, here its index in reserve.
TableOf(pde) == VMA(pde.addr) - RESERVE_PAGE

\* The page-table entry a walk of the dictionary ends at, by the MMU or by
\* PageDictionary::at.
Pte(d, t) == IF entries[d].present THEN reserve[TableOf(entries[d])][t] ELSE NotPresent
Walk(v)   == Pte(dict_index(v), table_index(v))

--------------------------------------------------------------------------------
Init ==
    /\ PmmInit
    /\ entries = [d \in DictIdx |-> NotPresent]
    /\ reserve = [i \in Tables |-> [t \in TableIdx |-> NotPresent]]
    /\ table_count = 0
    /\ kmap_i = 0
    /\ paging = FALSE

\* assert(table_count < TABLE_RESERVE, "no page table available")
NoTableLeft(d) == ~entries[d].present /\ table_count >= TABLE_RESERVE

\* Mutant: the table handed out before this one.
TableFor_Previous(d) ==
    IF entries[d].present THEN TableOf(entries[d])
    ELSE IF table_count = 0 THEN 0 ELSE table_count - 1

\* The table used for entry d, and the dictionary once d has one
\* (alloc_table, set_page_table).
TableFor(d) == IF entries[d].present THEN TableOf(entries[d]) ELSE table_count

\* Mutant: table_count is not incremented once a second table is in use.
TableAllocated_NoCount(d) ==
    IF entries[d].present
    THEN UNCHANGED <<entries, table_count>>
    ELSE /\ entries' = [entries EXCEPT ![d] = Entry(PMA(RESERVE_PAGE + table_count))]
         /\ table_count' = IF table_count = 0 THEN 1 ELSE table_count

TableAllocated(d) ==
    IF entries[d].present
    THEN UNCHANGED <<entries, table_count>>
    ELSE /\ entries' = [entries EXCEPT ![d] = Entry(PMA(RESERVE_PAGE + table_count))]
         /\ table_count' = table_count + 1

\* void PageDictionary::insert(uint32_t vma, uint32_t pma)
insert(v, pma) ==
    /\ TableAllocated(dict_index(v))
    /\ reserve' = [reserve EXCEPT ![TableFor(dict_index(v))][table_index(v)] = Entry(pma)]

\* init_vmm, one action per turn of its loop, then its last two calls.
MapKernelPage ==
    /\ ~halted /\ PmmReady /\ kmap_i < KERNEL_MAP_PAGES
    /\ IF NoTableLeft(dict_index(VMA(kmap_i)))
       THEN halted' = TRUE /\ UNCHANGED <<vmmVars, kmap_i>>
       ELSE /\ insert(VMA(kmap_i), kmap_i)
            /\ kmap_i' = kmap_i + 1
            /\ UNCHANGED halted
    /\ UNCHANGED <<pmmVars, scanVars, paging>>

register_dictionary ==
    /\ ~halted /\ PmmReady /\ kmap_i = KERNEL_MAP_PAGES /\ ~paging
    /\ paging' = TRUE
    /\ UNCHANGED <<pmmVars, scanVars, halted, vmmVars, kmap_i>>

\* page_fault_handler for an access to a page that has no mapping:
\* PageDictionary::operator[], then PageTable::operator[].
MapOnFault(v) ==
    /\ ~NoTableLeft(dict_index(v))
    /\ TableAllocated(dict_index(v))
    /\ \E f \in FreeFrames \cup Words :
         /\ pmm_alloc_page(f)
         /\ reserve' = [reserve EXCEPT ![TableFor(dict_index(v))][table_index(v)] = Entry(f)]

OutOfFrames(v) ==
    /\ ~NoTableLeft(dict_index(v))
    /\ TableAllocated(dict_index(v))
    /\ pmm_alloc_page_halts
    /\ UNCHANGED reserve

OutOfTables(v) ==
    /\ NoTableLeft(dict_index(v))
    /\ halted' = TRUE
    /\ UNCHANGED <<vmmVars, pmm_stack, pmm_stack_top>>

\* Mutant: neither the error code nor PAGE_PRESENT is tested.
page_fault_handler_Remaps(v) ==
    /\ ~halted /\ paging
    /\ MapOnFault(v) \/ OutOfFrames(v) \/ OutOfTables(v)
    /\ UNCHANGED <<phy_page_count, scanVars, kmap_i, paging>>

page_fault_handler(v) ==
    /\ ~halted /\ paging /\ ~Walk(v).present
    /\ MapOnFault(v) \/ OutOfFrames(v) \/ OutOfTables(v)
    /\ UNCHANGED <<phy_page_count, scanVars, kmap_i, paging>>

Next ==
    \/ init_pmm /\ UNCHANGED <<vmmVars, kmap_i, paging>>
    \/ MapKernelPage
    \/ register_dictionary
    \/ \E v \in VPages : page_fault_handler(v)

Spec == Init /\ [][Next]_vars

--------------------------------------------------------------------------------
\* The types, with the bounds that keep pmm.cc inside its stack: from the first
\* page that init_pmm pushes the index stays on a slot that was pushed, and never
\* wraps again; the scan ends with page PAGE_MAX_SIZE.
TypeOK ==
    /\ pmm_stack \in [Slots -> Nat]
    /\ phy_page_count \in 0..PAGE_MAX_SIZE
    /\ pmm_stack_top \in IF phy_page_count = 0 THEN {U32_MAX} ELSE 0..(phy_page_count - 1)
    /\ mmap_entry \in 1..(Len(MMap) + 1)
    /\ page_addr \in FirstPage..(PAGE_MAX_SIZE + 1) \cup {NoPage}
    /\ halted \in BOOLEAN
    /\ entries \in [DictIdx -> Entries]
    /\ reserve \in [Tables -> [TableIdx -> Entries]]
    /\ table_count \in 0..TABLE_RESERVE
    /\ kmap_i \in 0..KERNEL_MAP_PAGES
    /\ paging \in BOOLEAN

\* The dictionary slots of the direct mapping; all others are demand paged.
KernelSlot(d, t) ==
    \E i \in 0..(KERNEL_MAP_PAGES - 1) : d = dict_index(VMA(i)) /\ t = table_index(VMA(i))

DemandMapped(d, t) == Pte(d, t).present /\ ~KernelSlot(d, t)

\* A frame backs at most one demand-paged page, is never both mapped and on
\* the free stack, is not on the stack twice, and is no frame of the kernel
\* image: page_fault_handler, pmm_alloc_page and init_pmm together.
FramesExclusive ==
    /\ \A i, j \in UsedSlots : pmm_stack[i] = pmm_stack[j] => i = j
    /\ \A f \in FreeFrames : f >= FirstPage
    /\ \A d, e \in DictIdx, t, u \in TableIdx :
         DemandMapped(d, t) =>
            /\ Pte(d, t).addr >= FirstPage
            /\ Pte(d, t).addr \notin FreeFrames
            /\ DemandMapped(e, u) /\ Pte(d, t).addr = Pte(e, u).addr => d = e /\ t = u

\* Two dictionary entries never share a page table, and a table of the
\* reserve that alloc_table has not handed out holds no mapping yet.
TablesExclusive ==
    /\ \A d \in DictIdx : entries[d].present => TableOf(entries[d]) \in 0..(table_count - 1)
    /\ \A d, e \in DictIdx :
         entries[d].present /\ entries[e].present /\ TableOf(entries[d]) = TableOf(entries[e])
            => d = e
    /\ \A i \in Tables, t \in TableIdx : i >= table_count => ~reserve[i][t].present

\* Nothing invalidates the TLB after register_dictionary, so from then on a
\* translation that is present must never change again.
TranslationStable ==
    [][paging => \A d \in DictIdx, t \in TableIdx :
                    Pte(d, t).present => Pte(d, t)' = Pte(d, t)]_vars

\* Once paging is on, the kernel's own pages translate to their physical
\* addresses, whatever has been faulted in since.
KernelMapped ==
    paging => \A i \in 0..(KERNEL_MAP_PAGES - 1) : Walk(VMA(i)) = Entry(i)

\* No frame found at boot is lost: each one is on the stack or mapped.
Mapped == {Pte(s[1], s[2]).addr : s \in {s \in DictIdx \X TableIdx : DemandMapped(s[1], s[2])}}

FramesConserved ==
    PmmReady => FreeFrames \cup Mapped = FirstPage..(FirstPage + phy_page_count - 1)

\* The machine stops only when memory is used up: alloc_table has no table
\* left, or one frame is left, which the assert in pmm_alloc_page (0 is the
\* index of the last frame, not an empty stack) never gives out.
StopsWhenUsedUp ==
    halted => table_count = TABLE_RESERVE \/ \E f \in FreeFrames : FreeFrames = {f}

--------------------------------------------------------------------------------
(* Demand paging, as the page tables and the frame stack implement it.       *)

NoFrame == -1
DemandPages == {s \in DictIdx \X TableIdx : ~KernelSlot(s[1], s[2])}
Backing ==
    [s \in DemandPages |-> IF Pte(s[1], s[2]).present THEN Pte(s[1], s[2]).addr ELSE NoFrame]

Paging == INSTANCE DemandPaging WITH
    Pages <- DemandPages, Frames <- FirstPage..PAGE_MAX_SIZE,
    free <- FreeFrames, backing <- Backing

\* Every step of init_pmm, init_vmm and page_fault_handler, those that stop the
\* machine half way through included, finds one new frame, gives one free
\* frame to one page that had none, or changes neither.
ImplementsDemandPaging == Paging!Spec

================================================================================
