----------------------------- MODULE MemoryProofs ------------------------------
(*****************************************************************************)
(* Proofs about physical and virtual memory, for every memory map, stack     *)
(* size, kernel size, address-space shape and table reserve that the         *)
(* assumptions allow.                                                        *)
(*                                                                           *)
(* PmmClient: "each frame in one place" counts slots; ClientInv says the     *)
(* same without counting: no two slots hold one frame, and the callers hold, *)
(* once each, the frames that no slot does.                                  *)
(*                                                                           *)
(* Vmm: IInv is the inductive invariant; each action has a step lemma.       *)
(*****************************************************************************)
EXTENDS PmmClient, Vmm, FiniteSetTheorems, TLAPS

\* The scan of the memory map meets one region, and counts its pages.
RegionInv ==
    /\ page_addr # NoPage =>
         /\ mmap_entry <= Len(MMap) /\ Usable(MMap[mmap_entry])
         /\ page_addr = FirstPage + phy_page_count
    /\ page_addr = NoPage /\ phy_page_count > 0 =>
         \A j \in 1..Len(MMap) : Usable(MMap[j]) => j < mmap_entry
    /\ FirstPage + phy_page_count <= PAGE_MAX_SIZE + 1
    /\ ~PmmReady => ~underflow

\* The stack and the callers share out the frames found so far.
SharedOut ==
    /\ pmm_stack_top \in Slots \cup {U32_MAX}
    /\ \A i, j \in UsedSlots : pmm_stack[i] = pmm_stack[j] => i = j
    /\ FreeFrames \subseteq BootFrames
    /\ \A f \in Frames : held[f] = IF f \in BootFrames \ FreeFrames THEN 1 ELSE 0

\* The asserts that can have failed are the ones on an empty stack.
NoneLeft == pmm_stack_top = 0 \/ pmm_stack_top = U32_MAX

ClientInv ==
    /\ ClientTypeOK
    /\ RegionInv
    /\ ~underflow => SharedOut
    /\ halted /\ ~underflow => NoneLeft

--------------------------------------------------------------------------------
(* The constants.                                                            *)

\* The consequences of the assumptions that the proofs use.
LEMMA Constants ==
    /\ Len(MMap) \in Nat
    /\ FirstPage \in Nat /\ FirstPage >= 1 /\ FirstPage <= PAGE_MAX_SIZE
    /\ PAGE_MAX_SIZE \in Nat /\ U32_MAX \in Nat /\ PAGE_MAX_SIZE + 1 < U32_MAX
    /\ U32_MAX \notin Slots /\ 0 \in Slots /\ Slots \subseteq Nat
  <1>1. MMap \in Seq(MMapEntry)
    BY MMapAssumption
  <1>2. Len(MMap) \in Nat
    BY <1>1
  <1> QED
    BY <1>2, SizesAssumption, MMapAssumption DEF FirstPage, Slots

\* The index of the stack wraps at both ends.
LEMMA IndexSteps ==
    /\ \A x \in 0..U32_MAX : Inc(x) \in 0..U32_MAX /\ Dec(x) \in 0..U32_MAX
    /\ \A x \in Slots : Dec(x) \in Slots \cup {U32_MAX}
    /\ \A x \in Slots \cup {U32_MAX} : x # PAGE_MAX_SIZE => Inc(x) \in Slots
  BY Constants DEF Inc, Dec, Slots

\* There is exactly one usable entry.
LEMMA OneRegion ==
    /\ \E i \in 1..Len(MMap) : Usable(MMap[i])
    /\ \A i, j \in 1..Len(MMap) : Usable(MMap[i]) /\ Usable(MMap[j]) => i = j
BY MMapAssumption

--------------------------------------------------------------------------------
(* The stack.                                                                *)

\* A stack of the frames found so far always has room: there are fewer frames
\* than slots.
LEMMA StackHasRoom ==
    ASSUME ClientTypeOK, RegionInv, SharedOut
    PROVE  pmm_stack_top # PAGE_MAX_SIZE
  <1> SUFFICES ASSUME pmm_stack_top = PAGE_MAX_SIZE PROVE FALSE
    OBVIOUS
  <1>1. UsedSlots = Slots
    <2>1. pmm_stack_top # U32_MAX /\ \A i \in Slots : i <= pmm_stack_top
      BY Constants DEF Slots
    <2> QED
      BY <2>1 DEF UsedSlots
  <1>2. pmm_stack \in [Slots -> BootFrames]
    BY <1>1 DEF ClientTypeOK, SharedOut, FreeFrames
  <1>3. /\ IsFiniteSet(Slots) /\ IsFiniteSet(BootFrames)
        /\ Cardinality(BootFrames) < Cardinality(Slots)
    <2>1. phy_page_count \in Nat
      BY DEF ClientTypeOK
    <2>2. IsFiniteSet(Slots) /\ Cardinality(Slots) = PAGE_MAX_SIZE + 1
      BY FS_Interval, Constants DEF Slots
    <2>3. IsFiniteSet(BootFrames) /\ Cardinality(BootFrames) = phy_page_count
      <3> DEFINE last == FirstPage + phy_page_count - 1
      <3>1. FirstPage \in Int /\ last \in Int /\ BootFrames = FirstPage..last
        BY <2>1, Constants DEF BootFrames
      <3>2. last - FirstPage + 1 = phy_page_count /\ (FirstPage > last => phy_page_count = 0)
        BY <2>1, Constants
      <3> HIDE DEF last
      <3> QED
        BY <3>1, <3>2, FS_Interval
    <2> QED
      BY <2>1, <2>2, <2>3, Constants DEF RegionInv
  <1>4. \E x, y \in Slots : x # y /\ pmm_stack[x] = pmm_stack[y]
    BY <1>2, <1>3, FS_PigeonHole
  <1> QED
    BY <1>1, <1>4 DEF SharedOut

\* Filling the hole in slot i with the frame on top, and lowering the top,
\* takes the frame of slot i, and only it, out of the stack.
LEMMA StackTake ==
    ASSUME ClientTypeOK, SharedOut, NEW i \in UsedSlots,
           pmm_stack' = [pmm_stack EXCEPT ![i] = pmm_stack[pmm_stack_top]],
           pmm_stack_top' = Dec(pmm_stack_top)
    PROVE  /\ pmm_stack_top' \in Slots \cup {U32_MAX}
           /\ \A j, k \in UsedSlots' : pmm_stack'[j] = pmm_stack'[k] => j = k
           /\ FreeFrames' = FreeFrames \ {pmm_stack[i]}
  <1> DEFINE top == pmm_stack_top
  <1>1. top \in Slots /\ top \in UsedSlots /\ i \in Slots /\ i <= top
    BY Constants DEF SharedOut, UsedSlots, Slots
  <1>2. UsedSlots' = UsedSlots \ {top}
    BY <1>1, Constants DEF UsedSlots, Dec, Slots
  <1>3. \A j \in UsedSlots' : pmm_stack'[j] = IF j = i THEN pmm_stack[top] ELSE pmm_stack[j]
    BY <1>1, <1>2 DEF ClientTypeOK, UsedSlots
  <1>4. \A j, k \in UsedSlots' : pmm_stack'[j] = pmm_stack'[k] => j = k
    BY <1>1, <1>2, <1>3 DEF SharedOut
  <1>5. FreeFrames' \subseteq FreeFrames \ {pmm_stack[i]}
    BY <1>1, <1>2, <1>3 DEF SharedOut, FreeFrames
  <1>6. FreeFrames \ {pmm_stack[i]} \subseteq FreeFrames'
    <2> SUFFICES ASSUME NEW j \in UsedSlots, pmm_stack[j] # pmm_stack[i]
                 PROVE  \E k \in UsedSlots' : pmm_stack'[k] = pmm_stack[j]
      BY DEF FreeFrames
    <2>1. CASE j = top
      BY <1>1, <1>2, <1>3, <2>1
    <2>2. CASE j # top
      BY <1>2, <1>3, <2>2
    <2> QED
      BY <2>1, <2>2
  <1> QED
    BY <1>1, <1>4, <1>5, <1>6, IndexSteps

\* Pushing a frame that is in no slot adds it, and only it.
LEMMA StackPush ==
    ASSUME ClientTypeOK, SharedOut, NEW p, p \notin FreeFrames, pmm_stack_top # PAGE_MAX_SIZE,
           pmm_free_page(p)
    PROVE  /\ pmm_stack_top' \in Slots \cup {U32_MAX}
           /\ \A j, k \in UsedSlots' : pmm_stack'[j] = pmm_stack'[k] => j = k
           /\ FreeFrames' = FreeFrames \cup {p}
           /\ pmm_stack' = [pmm_stack EXCEPT ![Inc(pmm_stack_top)] = p]
           /\ UNCHANGED halted
  <1> DEFINE n == Inc(pmm_stack_top)
  <1>1. n \in Slots /\ n \notin UsedSlots
    BY Constants, IndexSteps DEF SharedOut, UsedSlots, Inc, Slots
  <1>2. pmm_stack_top' = n /\ pmm_stack' = [pmm_stack EXCEPT ![n] = p] /\ UNCHANGED halted
    BY <1>1 DEF pmm_free_page
  <1>3. UsedSlots' = UsedSlots \cup {n}
    BY <1>1, <1>2, Constants DEF SharedOut, UsedSlots, Inc, Slots
  <1>4. \A j \in UsedSlots' : pmm_stack'[j] = IF j = n THEN p ELSE pmm_stack[j]
    BY <1>1, <1>2, <1>3 DEF ClientTypeOK, UsedSlots
  <1>5. \A j, k \in UsedSlots' : pmm_stack'[j] = pmm_stack'[k] => j = k
    BY <1>1, <1>3, <1>4 DEF SharedOut, FreeFrames
  <1>6. FreeFrames' = FreeFrames \cup {p}
    BY <1>1, <1>3, <1>4 DEF FreeFrames
  <1> QED
    BY <1>1, <1>2, <1>5, <1>6

--------------------------------------------------------------------------------
(* init_pmm.                                                                 *)

\* Nothing of the scan touches the callers.
LEMMA RegionStep ==
    ASSUME ClientInv, init_pmm, UNCHANGED clientVars
    PROVE  ClientInv'
  <1>1. ~halted /\ ~PmmReady /\ mmap_entry \in 1..Len(MMap)
    BY Constants DEF ClientInv, init_pmm, ScanEntry, ScanPage, ScanEntryDone, RegionInv, PmmReady, ClientTypeOK
  <1>2. ~underflow /\ ~underflow' /\ SharedOut /\ held' = held
    BY <1>1 DEF ClientInv, RegionInv, clientVars
  <1>3. CASE ScanEntry
    <2>1. UNCHANGED <<pmm_stack, pmm_stack_top, phy_page_count, halted>>
      BY <1>3 DEF ScanEntry, pmmVars
    <2>2. SharedOut'
      BY <1>2, <2>1 DEF SharedOut, FreeFrames, UsedSlots, BootFrames
    <2>3. CASE Usable(MMap[mmap_entry])
      <3>1. page_addr' = FirstPage /\ mmap_entry' = mmap_entry /\ page_addr = NoPage
        BY <1>3, <2>3 DEF ScanEntry
      <3>2. phy_page_count = 0
        BY <1>1, <2>3, <3>1 DEF ClientInv, RegionInv, ClientTypeOK
      <3>3. ClientTypeOK' /\ RegionInv'
        BY <1>1, <1>2, <2>1, <2>3, <3>1, <3>2, Constants
        DEF ClientInv, ClientTypeOK, RegionInv, NoPage, clientVars
      <3> QED
        BY <1>1, <2>1, <2>2, <3>3 DEF ClientInv
    <2>4. CASE ~Usable(MMap[mmap_entry])
      <3>1. page_addr' = NoPage /\ mmap_entry' = mmap_entry + 1 /\ page_addr = NoPage
        BY <1>3, <2>4 DEF ScanEntry
      <3>2. ClientTypeOK' /\ RegionInv'
        BY <1>1, <1>2, <2>1, <2>4, <3>1, Constants DEF ClientInv, ClientTypeOK, RegionInv, clientVars
      <3> QED
        BY <1>1, <2>1, <2>2, <3>2 DEF ClientInv
    <2> QED
      BY <2>3, <2>4
  <1>4. CASE ScanPage
    <2>1. /\ page_addr = FirstPage + phy_page_count /\ page_addr <= PAGE_MAX_SIZE
          /\ page_addr # NoPage /\ mmap_entry' = mmap_entry
          /\ page_addr' = page_addr + 1 /\ phy_page_count' = phy_page_count + 1
          /\ pmm_free_page(page_addr) /\ phy_page_count \in Nat
      BY <1>4 DEF ClientInv, ClientTypeOK, ScanPage, InRegion, RegionInv
    <2>2. page_addr \notin BootFrames /\ BootFrames' = BootFrames \cup {page_addr}
      BY <2>1, Constants DEF BootFrames
    <2>3. page_addr \in Frames
      BY <2>1, Constants, ClientAssumption
    <2>4. page_addr \notin FreeFrames /\ pmm_stack_top # PAGE_MAX_SIZE
      BY <1>2, <2>2, StackHasRoom DEF ClientInv, SharedOut
    <2>5. /\ pmm_stack_top' \in Slots \cup {U32_MAX}
          /\ \A j, k \in UsedSlots' : pmm_stack'[j] = pmm_stack'[k] => j = k
          /\ FreeFrames' = FreeFrames \cup {page_addr}
          /\ pmm_stack' = [pmm_stack EXCEPT ![Inc(pmm_stack_top)] = page_addr]
          /\ UNCHANGED halted
      BY <1>2, <2>1, <2>4, StackPush DEF ClientInv
    <2>6. SharedOut'
      <3>1. FreeFrames' \subseteq BootFrames'
        BY <1>2, <2>2, <2>5 DEF SharedOut
      <3>2. BootFrames' \ FreeFrames' = BootFrames \ FreeFrames
        BY <2>2, <2>5
      <3> QED
        BY <1>2, <2>5, <3>1, <3>2 DEF SharedOut
    <2>7. ClientTypeOK'
      <3>1. phy_page_count' \in 0..(PAGE_MAX_SIZE + 1) /\ page_addr' \in Nat
        BY <2>1, Constants
      <3>2. pmm_stack' \in [Slots -> Frames \cup {0}]
        BY <2>3, <2>5 DEF ClientInv, ClientTypeOK
      <3>3. pmm_stack_top' \in 0..U32_MAX
        BY <2>5, Constants DEF Slots
      <3> QED
        BY <1>2, <2>1, <2>5, <3>1, <3>2, <3>3 DEF ClientInv, ClientTypeOK, clientVars
    <2>8. RegionInv'
      BY <1>1, <1>2, <2>1, Constants DEF ClientInv, RegionInv, NoPage
    <2> QED
      BY <1>1, <2>5, <2>6, <2>7, <2>8 DEF ClientInv
  <1>5. CASE ScanEntryDone
    <2>1. /\ UNCHANGED <<pmm_stack, pmm_stack_top, phy_page_count, halted>>
          /\ page_addr' = NoPage /\ mmap_entry' = mmap_entry + 1 /\ page_addr # NoPage
      BY <1>5 DEF ScanEntryDone, pmmVars
    <2>2. SharedOut'
      BY <1>2, <2>1 DEF SharedOut, FreeFrames, UsedSlots, BootFrames
    <2>3. ClientTypeOK'
      BY <1>1, <1>2, <2>1, Constants DEF ClientInv, ClientTypeOK, clientVars
    <2>4. RegionInv'
      <3>1. \A j \in 1..Len(MMap) : Usable(MMap[j]) => j < mmap_entry'
        BY <1>1, <2>1, OneRegion DEF ClientInv, RegionInv
      <3> QED
        BY <1>2, <2>1, <3>1 DEF ClientInv, RegionInv
    <2> QED
      BY <1>1, <2>1, <2>2, <2>3, <2>4 DEF ClientInv
  <1> QED
    BY <1>3, <1>4, <1>5 DEF init_pmm

--------------------------------------------------------------------------------
(* The calls.                                                                *)

\* Giving out one frame, and only it, while the stack is not empty.
LEMMA GiveStep ==
    ASSUME ClientInv, NEW f \in Frames, Give(f), UNCHANGED <<phy_page_count, scanVars, halted>>,
           pmm_stack' \in [Slots -> Frames \cup {0}], pmm_stack_top' \in 0..U32_MAX,
           ~halted, PmmReady,
           ~underflow' =>
               /\ pmm_stack_top' \in Slots \cup {U32_MAX}
               /\ \A j, k \in UsedSlots' : pmm_stack'[j] = pmm_stack'[k] => j = k
               /\ f \in FreeFrames /\ FreeFrames' = FreeFrames \ {f}
    PROVE  ClientInv'
  <1>1. /\ held' = [held EXCEPT ![f] = @ + 1] /\ held[f] < MaxHeld
        /\ underflow' = (underflow \/ UsedSlots = {})
        /\ UNCHANGED <<phy_page_count, mmap_entry, page_addr>>
    BY DEF Give, scanVars
  <1>2. ClientTypeOK'
    <2>1. held' \in [Frames -> 0..MaxHeld]
      BY <1>1, ClientAssumption DEF ClientInv, ClientTypeOK
    <2>2. underflow' \in BOOLEAN
      BY <1>1 DEF ClientInv, ClientTypeOK
    <2> QED
      BY <1>1, <2>1, <2>2 DEF ClientInv, ClientTypeOK
  <1>3. RegionInv'
    BY <1>1 DEF ClientInv, RegionInv, PmmReady
  <1>4. ASSUME ~underflow' PROVE SharedOut'
    <2>1. ~underflow /\ SharedOut
      BY <1>1, <1>4 DEF ClientInv
    <2>2. BootFrames' = BootFrames
      BY <1>1 DEF BootFrames
    <2>3. f \in BootFrames /\ BootFrames \ FreeFrames' = (BootFrames \ FreeFrames) \cup {f}
      BY <1>4, <2>1 DEF SharedOut
    <2>4. \A g \in Frames : held'[g] = IF g \in BootFrames \ FreeFrames' THEN 1 ELSE 0
      <3>1. held[f] = 0
        BY <1>4, <2>1 DEF SharedOut
      <3>2. held'[f] = 1
        BY <1>1, <3>1 DEF ClientInv, ClientTypeOK
      <3>3. \A g \in Frames : g # f => held'[g] = held[g]
        BY <1>1 DEF ClientInv, ClientTypeOK
      <3> QED
        BY <2>1, <2>3, <3>2, <3>3 DEF SharedOut
    <2> QED
      BY <1>4, <2>1, <2>2, <2>4 DEF SharedOut
  <1> QED
    BY <1>2, <1>3, <1>4 DEF ClientInv

\* A failed assert, or a scan that goes on, changes nothing else.
LEMMA CallHalts ==
    ASSUME ClientInv, PmmReady, UNCHANGED <<pmm_stack, pmm_stack_top, phy_page_count, scanVars, clientVars>>,
           halted' \in BOOLEAN, halted' /\ ~underflow => NoneLeft
    PROVE  ClientInv'
  <1>1. UNCHANGED <<pmm_stack, pmm_stack_top, phy_page_count, mmap_entry, page_addr, held, underflow>>
    BY DEF scanVars, clientVars
  <1>2. ClientTypeOK' /\ RegionInv'
    BY <1>1 DEF ClientInv, ClientTypeOK, RegionInv, PmmReady
  <1>3. SharedOut => SharedOut'
    BY <1>1 DEF SharedOut, FreeFrames, UsedSlots, BootFrames
  <1> QED
    BY <1>1, <1>2, <1>3 DEF ClientInv, NoneLeft

\* pmm_alloc_page() gives out the frame on top, or stops at the last one.
LEMMA AllocAnyStep ==
    ASSUME ClientInv, AllocAny, ~halted, PmmReady, UNCHANGED <<phy_page_count, scanVars>>
    PROVE  ClientInv'
  <1>1. ASSUME NEW f \in Frames, pmm_alloc_page(f), Give(f) PROVE ClientInv'
    <2>1. /\ UNCHANGED <<pmm_stack, halted>> /\ pmm_stack_top' = Dec(pmm_stack_top)
          /\ f \in ReadSlot(pmm_stack_top)
      BY <1>1 DEF pmm_alloc_page
    <2>2. pmm_stack' \in [Slots -> Frames \cup {0}] /\ pmm_stack_top' \in 0..U32_MAX
      BY <2>1, IndexSteps DEF ClientInv, ClientTypeOK
    <2>3. ASSUME ~underflow'
          PROVE  /\ pmm_stack_top' \in Slots \cup {U32_MAX}
                 /\ \A j, k \in UsedSlots' : pmm_stack'[j] = pmm_stack'[k] => j = k
                 /\ f \in FreeFrames /\ FreeFrames' = FreeFrames \ {f}
      <3>1. ~underflow /\ UsedSlots # {} /\ SharedOut
        BY <1>1, <2>3 DEF Give, ClientInv
      <3>2. pmm_stack_top \in Slots /\ pmm_stack_top \in UsedSlots
        BY <3>1, Constants DEF SharedOut, UsedSlots
      <3>3. f = pmm_stack[pmm_stack_top]
        BY <2>1, <3>2 DEF ReadSlot
      <3>4. pmm_stack' = [pmm_stack EXCEPT ![pmm_stack_top] = pmm_stack[pmm_stack_top]]
        BY <2>1, <3>2 DEF ClientInv, ClientTypeOK
      <3> QED
        BY <2>1, <3>1, <3>2, <3>3, <3>4, StackTake DEF ClientInv, FreeFrames
    <2> QED
      BY <1>1, <2>1, <2>2, <2>3, GiveStep
  <1>2. CASE pmm_alloc_page_halts /\ UNCHANGED clientVars
    BY <1>2, CallHalts DEF pmm_alloc_page_halts, NoneLeft
  <1> QED
    BY <1>1, <1>2 DEF AllocAny

\* pmm_alloc_page(pma) fills the hole it makes with the frame on top.
LEMMA AllocAtStep ==
    ASSUME ClientInv, NEW pma \in Frames \ {0}, AllocAt(pma), ~halted, PmmReady,
           UNCHANGED <<phy_page_count, scanVars>>
    PROVE  ClientInv'
  <1>1. pmm_stack_top \in 0..U32_MAX /\ Dec(pmm_stack_top) \in 0..U32_MAX
    BY IndexSteps DEF ClientInv, ClientTypeOK
  <1>2. ASSUME NEW i \in Matches(pma), NEW w \in ReadSlot(pmm_stack_top), Give(pma),
               pmm_stack' = [pmm_stack EXCEPT ![i] = w],
               pmm_stack_top' = Dec(pmm_stack_top), UNCHANGED halted
        PROVE  ClientInv'
    <2>1. w \in Frames \cup {0}
      BY ClientAssumption DEF ClientInv, ClientTypeOK, ReadSlot
    <2>2. pmm_stack' \in [Slots -> Frames \cup {0}] /\ pmm_stack_top' \in 0..U32_MAX
      BY <1>1, <1>2, <2>1 DEF ClientInv, ClientTypeOK
    <2>3. ASSUME ~underflow'
          PROVE  /\ pmm_stack_top' \in Slots \cup {U32_MAX}
                 /\ \A j, k \in UsedSlots' : pmm_stack'[j] = pmm_stack'[k] => j = k
                 /\ pma \in FreeFrames /\ FreeFrames' = FreeFrames \ {pma}
      <3>1. ~underflow /\ UsedSlots # {} /\ SharedOut
        BY <1>2, <2>3 DEF Give, ClientInv
      <3>2. pmm_stack_top \in Slots /\ pmm_stack_top # U32_MAX
        BY <3>1, Constants DEF SharedOut, UsedSlots
      <3>3. i \in UsedSlots /\ pmm_stack[i] = pma
        BY <3>2 DEF Matches, UsedSlots
      <3>4. w = pmm_stack[pmm_stack_top]
        BY <3>2 DEF ReadSlot
      <3> QED
        BY <1>2, <3>1, <3>3, <3>4, StackTake DEF ClientInv, FreeFrames
    <2> QED
      BY <1>2, <2>2, <2>3, GiveStep
  <1>3. ASSUME pmm_stack_top \notin Slots, Give(pma),
               pmm_stack_top' = Dec(pmm_stack_top), UNCHANGED <<pmm_stack, halted>>
        PROVE  ClientInv'
    <2>1. underflow'
      BY <1>3, Constants DEF Give, ClientInv, SharedOut, UsedSlots
    <2> QED
      BY <1>1, <1>3, <2>1, GiveStep DEF ClientInv, ClientTypeOK
  <1>4. CASE pmm_alloc_page_at(pma, pma) /\ Give(pma)
    <2>1. pma # 0
      OBVIOUS
    <2> QED
      BY <1>2, <1>3, <1>4, <2>1 DEF pmm_alloc_page_at
  <1>5. CASE pmm_alloc_page_at(pma, 0) /\ UNCHANGED clientVars
    <2>1. UNCHANGED <<pmm_stack, pmm_stack_top>> /\ (UNCHANGED halted \/ (halted' = TRUE /\ pmm_stack_top \notin Slots))
      BY <1>5 DEF pmm_alloc_page_at
    <2>2. halted' /\ ~underflow => NoneLeft
      BY <2>1 DEF ClientInv, SharedOut, NoneLeft
    <2>3. halted' \in BOOLEAN
      BY <2>1 DEF ClientInv, ClientTypeOK
    <2> QED
      BY <1>5, <2>1, <2>2, <2>3, CallHalts
  <1> QED
    BY <1>4, <1>5 DEF AllocAt

\* A frame that is freed was in no slot, and there is room for it.
LEMMA FreeStep ==
    ASSUME ClientInv, NEW f \in Frames, Free(f), ~halted, PmmReady,
           UNCHANGED <<phy_page_count, scanVars>>
    PROVE  ClientInv'
  <1>1. /\ held[f] > 0 /\ held' = [held EXCEPT ![f] = @ - 1] /\ pmm_free_page(f)
        /\ UNCHANGED <<underflow, phy_page_count, mmap_entry, page_addr>>
    BY DEF Free, scanVars
  <1>2. ClientTypeOK'
    <2>1. held' \in [Frames -> 0..MaxHeld]
      BY <1>1, ClientAssumption DEF ClientInv, ClientTypeOK
    <2>2. Inc(pmm_stack_top) \in 0..U32_MAX
      BY IndexSteps DEF ClientInv, ClientTypeOK
    <2>3. /\ pmm_stack' \in [Slots -> Frames \cup {0}]
          /\ pmm_stack_top' \in 0..U32_MAX /\ halted' \in BOOLEAN
      BY <1>1, <2>2 DEF ClientInv, ClientTypeOK, pmm_free_page
    <2> QED
      BY <1>1, <2>1, <2>3 DEF ClientInv, ClientTypeOK
  <1>3. RegionInv'
    BY <1>1 DEF ClientInv, RegionInv, PmmReady
  <1>4. ASSUME ~underflow PROVE SharedOut' /\ ~halted'
    <2>1. SharedOut /\ pmm_stack_top # PAGE_MAX_SIZE
      BY <1>4, StackHasRoom DEF ClientInv
    <2>2. f \in BootFrames /\ f \notin FreeFrames /\ held[f] = 1
      BY <1>1, <2>1 DEF SharedOut
    <2>3. /\ pmm_stack_top' \in Slots \cup {U32_MAX}
          /\ \A j, k \in UsedSlots' : pmm_stack'[j] = pmm_stack'[k] => j = k
          /\ FreeFrames' = FreeFrames \cup {f} /\ UNCHANGED halted
      BY <1>1, <2>1, <2>2, StackPush DEF ClientInv
    <2>4. BootFrames' = BootFrames
      BY <1>1 DEF BootFrames
    <2>5. \A g \in Frames : held'[g] = IF g \in BootFrames \ FreeFrames' THEN 1 ELSE 0
      <3>1. held'[f] = 0
        BY <1>1, <2>2 DEF ClientInv, ClientTypeOK
      <3>2. \A g \in Frames : g # f => held'[g] = held[g]
        BY <1>1 DEF ClientInv, ClientTypeOK
      <3> QED
        BY <2>1, <2>3, <3>1, <3>2 DEF SharedOut
    <2> QED
      BY <2>1, <2>2, <2>3, <2>4, <2>5 DEF SharedOut
  <1> QED
    BY <1>1, <1>2, <1>3, <1>4 DEF ClientInv

--------------------------------------------------------------------------------
(* The theorems.                                                             *)

\* init_pmm, and after it any mix of the three calls, share the frames out
\* between the slots of the stack and the callers.
THEOREM ClientInvariance == ClientSpec => []ClientInv
  <1>1. ClientInit => ClientInv
    <2> SUFFICES ASSUME ClientInit PROVE ClientInv
      OBVIOUS
    <2> USE DEF ClientInit, PmmInit
    <2>1. ClientTypeOK
      <3>1. 0 \in 0..MaxHeld /\ U32_MAX \in 0..U32_MAX /\ 0 \in 0..(PAGE_MAX_SIZE + 1)
        BY Constants, ClientAssumption
      <3>2. 1 \in 1..(Len(MMap) + 1)
        BY Constants
      <3> QED
        BY <3>1, <3>2 DEF ClientTypeOK
    <2>2. RegionInv
      BY Constants DEF RegionInv
    <2>3. UsedSlots = {} /\ FreeFrames = {} /\ BootFrames = {}
      BY Constants DEF UsedSlots, FreeFrames, BootFrames
    <2>4. SharedOut
      BY <2>3 DEF SharedOut
    <2> QED
      BY <2>1, <2>2, <2>4 DEF ClientInv
  <1>2. ClientInv /\ [ClientNext]_pmmClientVars => ClientInv'
    <2> SUFFICES ASSUME ClientInv, [ClientNext]_pmmClientVars PROVE ClientInv'
      OBVIOUS
    <2>1. CASE UNCHANGED pmmClientVars
      <3>1. UNCHANGED <<pmm_stack, pmm_stack_top, phy_page_count, mmap_entry, page_addr, halted, held, underflow>>
        BY <2>1 DEF pmmClientVars, pmmVars, scanVars, clientVars
      <3> QED
        BY <3>1 DEF ClientInv, ClientTypeOK, RegionInv, SharedOut, NoneLeft, PmmReady, FreeFrames, UsedSlots, BootFrames
    <2>2. CASE init_pmm /\ UNCHANGED clientVars
      BY <2>2, RegionStep
    <2>3. CASE Call
      BY <2>3, AllocAnyStep, AllocAtStep, FreeStep DEF Call
    <2> QED
      BY <2>1, <2>2, <2>3 DEF ClientNext
  <1> QED
    BY <1>1, <1>2, PTL DEF ClientSpec

\* The stack, its index and the scan keep their types, through underflow too.
THEOREM ClientTypeCorrect == ClientSpec => []ClientTypeOK
  <1>1. ClientInv => ClientTypeOK
    BY DEF ClientInv
  <1> QED
    BY <1>1, ClientInvariance, PTL

\* Until pmm_alloc_page serves a caller from an empty stack, each frame that
\* init_pmm found is with one caller or in one slot of the stack.
THEOREM FramesInOnePlaceHolds == ClientSpec => []FramesInOnePlace
  <1>1. ClientInv => FramesInOnePlace
    <2> SUFFICES ASSUME ClientInv, ~underflow, NEW f \in Frames
                 PROVE  held[f] + Cardinality({i \in UsedSlots : pmm_stack[i] = f})
                            = IF f \in BootFrames THEN 1 ELSE 0
      BY DEF FramesInOnePlace
    <2> DEFINE S == {i \in UsedSlots : pmm_stack[i] = f}
    <2>1. CASE f \in FreeFrames
      <3>1. PICK i \in UsedSlots : pmm_stack[i] = f
        BY <2>1 DEF FreeFrames
      <3>2. S = {i}
        BY <3>1 DEF ClientInv, SharedOut
      <3>3. Cardinality(S) = 1
        BY <3>2, FS_Singleton
      <3>4. held[f] = 0 /\ f \in BootFrames
        BY <2>1 DEF ClientInv, SharedOut
      <3> QED
        BY <3>3, <3>4
    <2>2. CASE f \notin FreeFrames
      <3>1. S = {}
        BY <2>2 DEF FreeFrames
      <3>2. Cardinality(S) = 0
        BY <3>1, FS_EmptySet
      <3>3. held[f] = IF f \in BootFrames THEN 1 ELSE 0
        BY <2>2 DEF ClientInv, SharedOut
      <3> QED
        BY <3>2, <3>3
    <2> QED
      BY <2>1, <2>2
  <1> QED
    BY <1>1, ClientInvariance, PTL

\* Until then the assert of pmm_free_page never fails: the system stops with
\* at most one frame left.
THEOREM StopsOnlyWhenOutHolds == ClientSpec => []StopsOnlyWhenOut
  <1>1. ClientInv => StopsOnlyWhenOut
    <2> SUFFICES ASSUME ClientInv, halted, ~underflow PROVE Cardinality(UsedSlots) <= 1
      BY DEF StopsOnlyWhenOut
    <2>1. NoneLeft
      BY DEF ClientInv
    <2>2. UsedSlots = {} \/ UsedSlots = {0}
      <3>1. \A i \in Slots : i <= 0 <=> i = 0
        BY Constants
      <3>2. CASE pmm_stack_top = 0
        BY <3>1, <3>2, Constants DEF UsedSlots
      <3>3. CASE pmm_stack_top = U32_MAX
        BY <3>3 DEF UsedSlots
      <3> QED
        BY <2>1, <3>2, <3>3 DEF NoneLeft
    <2>3. Cardinality(UsedSlots) \in {0, 1}
      BY <2>2, FS_EmptySet, FS_Singleton
    <2> QED
      BY <2>3
  <1> QED
    BY <1>1, ClientInvariance, PTL

--------------------------------------------------------------------------------
(* Virtual memory on the frame stack.                                        *)

\* The indices computed from an address are within the two arrays.
LEMMA IndexTypes ==
    ASSUME NEW v \in Nat
    PROVE  dict_index(v) \in DictIdx /\ table_index(v) \in TableIdx
<1>1. TABLE_MAX_SIZE \in Nat \ {0} /\ DICTIONARY_MAX_SIZE \in Nat \ {0}
    BY VmmAssumption
<1>2. v \div TABLE_MAX_SIZE \in Nat
    BY <1>1, SMT
<1>3. v % TABLE_MAX_SIZE \in 0..(TABLE_MAX_SIZE - 1)
    BY <1>1, SMT
<1>4. (v \div TABLE_MAX_SIZE) % DICTIONARY_MAX_SIZE \in 0..(DICTIONARY_MAX_SIZE - 1)
    BY <1>1, <1>2, SMT
<1> QED BY <1>3, <1>4 DEF dict_index, table_index, DictIdx, TableIdx

\* Division with remainder.
LEMMA DivMod ==
    ASSUME NEW m \in Nat \ {0}, NEW v \in Nat
    PROVE  v = m * (v \div m) + (v % m)
OBVIOUS

\* Multiplication by a natural number is monotonic.
LEMMA TimesMonotonic ==
    ASSUME NEW m \in Nat, NEW p \in Nat, NEW q \in Nat, q >= p
    PROVE  m * q >= m * p
OBVIOUS

\* A quotient that is below the modulus is its own remainder.
LEMMA SmallRemainder ==
    ASSUME NEW m \in Nat \ {0}, NEW q \in Nat, q < m
    PROVE  q % m = q
OBVIOUS

\* Two pages of the address space have different dictionary slots.
LEMMA SlotsDistinct ==
    ASSUME NEW v \in VPages, NEW w \in VPages,
           dict_index(v) = dict_index(w), table_index(v) = table_index(w)
    PROVE  v = w
<1> DEFINE T == TABLE_MAX_SIZE
           D == DICTIONARY_MAX_SIZE
<1>1. T \in Nat \ {0} /\ D \in Nat \ {0}
    BY VmmAssumption
<1>2. ASSUME NEW x \in VPages
      PROVE  /\ x = T * (x \div T) + (x % T)
             /\ (x \div T) % D = x \div T
    <2>1. x \in Nat /\ x < D * T
        BY <1>1, VmmAssumption DEF VPages, AddressPages
    <2> DEFINE q == x \div T
    <2>2. x = T * q + (x % T)
        BY <1>1, <2>1, DivMod
    <2>3. q \in Nat /\ x % T \in Nat
        BY <1>1, <2>1
    <2>4. T * q \in Nat /\ T * D \in Nat /\ T * D = D * T
        BY <1>1, <2>3
    <2>5. q >= D => T * q >= T * D
        BY <1>1, <2>3, TimesMonotonic
    <2> HIDE DEF q, T, D
    <2>6. q < D
        BY <1>1, <2>1, <2>2, <2>3, <2>4, <2>5
    <2> QED BY <1>1, <2>2, <2>3, <2>6, SmallRemainder DEF q
<1>3. v \div T = w \div T /\ v % T = w % T
    BY <1>2 DEF dict_index, table_index
<1> QED BY <1>2, <1>3

\* The direct mapping lies in the address space and VMA is injective on it.
LEMMA AddressTypes ==
    /\ AddressPages \in Nat
    /\ \A i \in Nat : i < KERNEL_MAP_PAGES => VMA(i) \in Nat
    /\ \A i \in Nat : i < KERNEL_MAP_PAGES => VMA(i) \in VPages
    /\ \A i, j \in Nat :
         i < KERNEL_MAP_PAGES /\ j < KERNEL_MAP_PAGES /\ VMA(i) = VMA(j) => i = j
    /\ VPages \subseteq Nat
BY VmmAssumption DEF VMA, VPages

\* A table's address survives the trip through a dictionary entry.
LEMMA TableRoundTrip ==
    ASSUME NEW i \in Tables
    PROVE  /\ PMA(RESERVE_PAGE + i) \in Nat
           /\ TableOf(Entry(PMA(RESERVE_PAGE + i))) = i
BY VmmAssumption DEF Tables, PMA, VMA, TableOf, Entry, VPages

--------------------------------------------------------------------------------
(* What a write to one page-table entry does to all translations.            *)

\* The part of the type invariant about the page tables.
VmmType ==
    /\ entries \in [DictIdx -> Entries]
    /\ reserve \in [Tables -> [TableIdx -> Entries]]
    /\ table_count \in 0..TABLE_RESERVE

\* No translation but the one at (d0, t0) appears or changes.
OthersKept(d0, t0) ==
    \A d \in DictIdx, t \in TableIdx :
        d # d0 \/ t # t0 =>
            /\ Pte(d, t)'.present => Pte(d, t).present
            /\ Pte(d, t).present => Pte(d, t)' = Pte(d, t)

\* An insertion that passes the assert of alloc_table uses a table of the reserve.
LEMMA TableForType ==
    ASSUME VmmType, TablesExclusive, NEW d \in DictIdx, ~NoTableLeft(d)
    PROVE  TableFor(d) \in Tables
BY VmmAssumption DEF VmmType, TablesExclusive, TableFor, NoTableLeft, Tables

\* alloc_table hands out a table that nothing uses.
LEMMA TableAllocatedStep ==
    ASSUME VmmType, TablesExclusive, NEW d0 \in DictIdx, ~NoTableLeft(d0), TableAllocated(d0)
    PROVE  /\ entries' \in [DictIdx -> Entries]
           /\ table_count' \in 0..TABLE_RESERVE
           /\ table_count' >= table_count
           /\ entries'[d0].present /\ TableOf(entries'[d0]) = TableFor(d0)
           /\ TableFor(d0) < table_count'
           /\ \A d \in DictIdx : d # d0 => entries'[d] = entries[d]
           /\ \A d \in DictIdx : d # d0 /\ entries[d].present => TableOf(entries[d]) # TableFor(d0)
<1>1. CASE entries[d0].present
    BY <1>1 DEF VmmType, TablesExclusive, TableAllocated, TableFor
<1>2. CASE ~entries[d0].present
    <2>1. table_count \in Tables
        BY <1>2, VmmAssumption DEF VmmType, NoTableLeft, Tables
    <2> DEFINE e == Entry(PMA(RESERVE_PAGE + table_count))
    <2>2. e \in Entries /\ e.present /\ TableOf(e) = table_count
        BY <2>1, TableRoundTrip DEF Entry, Entries
    <2>3. entries' = [entries EXCEPT ![d0] = e] /\ table_count' = table_count + 1
        BY <1>2 DEF TableAllocated
    <2>4. TableFor(d0) = table_count
        BY <1>2 DEF TableFor
    <2> HIDE DEF e
    <2>5. table_count' \in 0..TABLE_RESERVE
        BY <2>1, <2>3, VmmAssumption DEF Tables, VmmType
    <2> QED BY <2>2, <2>3, <2>4, <2>5 DEF VmmType, TablesExclusive
<1> QED BY <1>1, <1>2

\* insert and operator[]: the entry written changes, no other translation does.
LEMMA InsertStep ==
    ASSUME VmmType, TablesExclusive,
           NEW d0 \in DictIdx, NEW t0 \in TableIdx, NEW a \in Nat,
           ~NoTableLeft(d0), TableAllocated(d0),
           reserve' = [reserve EXCEPT ![TableFor(d0)][t0] = Entry(a)]
    PROVE  VmmType' /\ TablesExclusive' /\ Pte(d0, t0)' = Entry(a) /\ OthersKept(d0, t0)
<1> DEFINE tb == TableFor(d0)
<1>1. tb \in Tables
    BY TableForType
<1>2. Entry(a) \in Entries
    BY DEF Entry, Entries
<1>3. /\ entries' \in [DictIdx -> Entries]
      /\ table_count' \in 0..TABLE_RESERVE
      /\ table_count' >= table_count
      /\ entries'[d0].present /\ TableOf(entries'[d0]) = tb
      /\ tb < table_count'
      /\ \A d \in DictIdx : d # d0 => entries'[d] = entries[d]
      /\ \A d \in DictIdx : d # d0 /\ entries[d].present => TableOf(entries[d]) # tb
    BY TableAllocatedStep
<1>4. ~entries[d0].present => \A t \in TableIdx : ~reserve[tb][t].present
    BY <1>1 DEF TablesExclusive, TableFor, VmmType
<1>5. entries[d0].present => TableOf(entries[d0]) = tb
    BY DEF TableFor
<1> HIDE DEF tb
<1>6. /\ reserve' \in [Tables -> [TableIdx -> Entries]]
      /\ reserve'[tb][t0] = Entry(a)
      /\ \A t \in TableIdx : t # t0 => reserve'[tb][t] = reserve[tb][t]
      /\ \A i \in Tables : i # tb => reserve'[i] = reserve[i]
    BY <1>1, <1>2 DEF VmmType, tb
<1>7. VmmType'
    BY <1>3, <1>6 DEF VmmType
<1>8. TablesExclusive'
    <2>1. \A d \in DictIdx : entries'[d].present => TableOf(entries'[d]) \in 0..(table_count' - 1)
        BY <1>1, <1>3 DEF TablesExclusive, VmmType, Tables
    <2>2. \A d, e \in DictIdx :
            entries'[d].present /\ entries'[e].present /\ TableOf(entries'[d]) = TableOf(entries'[e])
                => d = e
        BY <1>3 DEF TablesExclusive
    <2>3. \A i \in Tables, t \in TableIdx : i >= table_count' => ~reserve'[i][t].present
        BY <1>1, <1>3, <1>6 DEF TablesExclusive, VmmType, Tables
    <2> QED BY <2>1, <2>2, <2>3 DEF TablesExclusive, TableOf, VMA
<1>9. Pte(d0, t0)' = Entry(a)
    BY <1>3, <1>6 DEF Pte, TableOf, VMA
<1>10. OthersKept(d0, t0)
    <2> SUFFICES ASSUME NEW d \in DictIdx, NEW t \in TableIdx, d # d0 \/ t # t0
                 PROVE  /\ Pte(d, t)'.present => Pte(d, t).present
                        /\ Pte(d, t).present => Pte(d, t)' = Pte(d, t)
        BY DEF OthersKept
    <2>1. CASE d # d0
        <3>1. entries'[d] = entries[d]
            BY <1>3, <2>1
        <3>2. entries[d].present => TableOf(entries[d]) \in Tables /\ TableOf(entries[d]) # tb
            BY <1>3, <2>1, VmmAssumption DEF TablesExclusive, VmmType, Tables
        <3> QED BY <3>1, <3>2, <1>6 DEF Pte, TableOf, VMA
    <2>2. CASE d = d0
        <3>1. Pte(d, t)' = reserve'[tb][t] /\ reserve'[tb][t] = reserve[tb][t]
            BY <2>2, <1>3, <1>6 DEF Pte, TableOf, VMA
        <3>2. CASE entries[d0].present
            BY <3>1, <3>2, <2>2, <1>5 DEF Pte
        <3>3. CASE ~entries[d0].present
            BY <3>1, <3>3, <2>2, <1>4 DEF Pte, NotPresent
        <3> QED BY <3>2, <3>3
    <2> QED BY <2>1, <2>2
<1> QED BY <1>7, <1>8, <1>9, <1>10

--------------------------------------------------------------------------------
(* The inductive invariant.                                                  *)

\* The types of the variables alone: the bounds on the stack index and on the
\* scan that TypeOK adds follow from ScanInv and StackInv.
RangesOK ==
    /\ pmm_stack \in [Slots -> Nat]
    /\ pmm_stack_top \in 0..U32_MAX
    /\ phy_page_count \in Nat
    /\ mmap_entry \in 1..(Len(MMap) + 1)
    /\ page_addr \in Nat \cup {NoPage}
    /\ halted \in BOOLEAN
    /\ entries \in [DictIdx -> Entries]
    /\ reserve \in [Tables -> [TableIdx -> Entries]]
    /\ table_count \in 0..TABLE_RESERVE
    /\ kmap_i \in 0..KERNEL_MAP_PAGES
    /\ paging \in BOOLEAN

\* init_pmm: the pages pushed so far, and that there is one usable region.
ScanInv ==
    /\ page_addr # NoPage =>
         /\ mmap_entry <= Len(MMap) /\ Usable(MMap[mmap_entry])
         /\ page_addr = FirstPage + phy_page_count
    /\ page_addr = NoPage /\ phy_page_count > 0 =>
         \A j \in 1..Len(MMap) : Usable(MMap[j]) => j < mmap_entry
    /\ \A j \in 1..Len(MMap) : Usable(MMap[j]) /\ j < mmap_entry => phy_page_count > 0
    /\ FirstPage + phy_page_count <= PAGE_MAX_SIZE + 1

\* After the scan the stack is only popped, so slot i holds what init_pmm
\* put there, and pmm_alloc_page's assert keeps the top from wrapping.
StackInv ==
    /\ PmmReady => pmm_stack_top < phy_page_count
    /\ ~PmmReady => pmm_stack_top = IF phy_page_count = 0 THEN U32_MAX ELSE phy_page_count - 1
    /\ \A i \in Slots : i < phy_page_count => pmm_stack[i] = FirstPage + i

\* No page is demand paged before paging is on.
BootInv ==
    /\ ~PmmReady => ~paging
    /\ ~paging => \A d \in DictIdx, t \in TableIdx : ~DemandMapped(d, t)

\* The demand-paged pages have one each of the frames popped so far.
DemandInv ==
    /\ \A d \in DictIdx, t \in TableIdx :
         DemandMapped(d, t) =>
            /\ FirstPage + pmm_stack_top < Pte(d, t).addr
            /\ Pte(d, t).addr < FirstPage + phy_page_count
    /\ \A d, e \in DictIdx, t, u \in TableIdx :
         DemandMapped(d, t) /\ DemandMapped(e, u) /\ Pte(d, t).addr = Pte(e, u).addr
            => d = e /\ t = u
    /\ \A f \in Nat :
         FirstPage + pmm_stack_top < f /\ f < FirstPage + phy_page_count =>
            \E d \in DictIdx, t \in TableIdx : DemandMapped(d, t) /\ Pte(d, t).addr = f

\* init_vmm's loop has mapped the first kmap_i pages, and they stay mapped.
KernelInv ==
    /\ paging => kmap_i = KERNEL_MAP_PAGES
    /\ \A i \in 0..(kmap_i - 1) : Walk(VMA(i)) = Entry(i)

IInv ==
    RangesOK /\ ScanInv /\ StackInv /\ BootInv /\ TablesExclusive /\ DemandInv /\ KernelInv

\* The consequences of the assumptions that the proofs use.
LEMMA ConstantFacts ==
    /\ Len(MMap) \in Nat
    /\ FirstPage \in Nat /\ FirstPage >= 1 /\ FirstPage <= PAGE_MAX_SIZE
    /\ PAGE_MAX_SIZE \in Nat /\ U32_MAX \in Nat /\ PAGE_MAX_SIZE + 1 < U32_MAX
    /\ Words \subseteq Nat
<1>1. MMap \in Seq(MMapEntry)
    BY MMapAssumption
<1>2. Len(MMap) \in Nat
    BY <1>1
<1> QED BY <1>2, SizesAssumption, MMapAssumption DEF FirstPage

\* The region at 1MB holds at least one page behind the kernel.
LEMMA RegionNotEmpty ==
    ASSUME NEW m \in 1..Len(MMap), Usable(MMap[m])
    PROVE  FirstPage * PMM_PAGE_SIZE < HIGH_MEM * PMM_PAGE_SIZE + MMap[m].length
BY MMapAssumption

\* The boot state satisfies the inductive invariant.
LEMMA InitIInv == Init => IInv
<1> SUFFICES ASSUME Init PROVE IInv
    OBVIOUS
<1> USE DEF Init, PmmInit
<1>1. RangesOK
    <2>1. NotPresent \in Entries
        BY DEF NotPresent, Entries
    <2>2. entries \in [DictIdx -> Entries] /\ reserve \in [Tables -> [TableIdx -> Entries]]
        BY <2>1
    <2>3. pmm_stack \in [Slots -> Nat] /\ pmm_stack_top \in 0..U32_MAX /\ phy_page_count \in Nat
        BY ConstantFacts
    <2>4. mmap_entry \in 1..(Len(MMap) + 1)
        BY ConstantFacts
    <2>5. table_count \in 0..TABLE_RESERVE /\ kmap_i \in 0..KERNEL_MAP_PAGES
        BY VmmAssumption
    <2> QED BY <2>2, <2>3, <2>4, <2>5 DEF RangesOK
<1>2. ScanInv
    BY ConstantFacts DEF ScanInv
<1>3. ~PmmReady
    BY OneRegion, ConstantFacts DEF PmmReady
<1>4. StackInv
    BY <1>3, ConstantFacts DEF StackInv, Slots
<1>5. \A d \in DictIdx, t \in TableIdx : ~Pte(d, t).present
    BY DEF Pte, NotPresent
<1>6. BootInv
    BY <1>5 DEF BootInv, DemandMapped
<1>7. TablesExclusive
    BY DEF TablesExclusive, NotPresent
<1>8. DemandInv
    BY <1>5, ConstantFacts DEF DemandInv, DemandMapped
<1>9. KernelInv
    BY DEF KernelInv
<1> QED BY <1>1, <1>2, <1>4, <1>6, <1>7, <1>8, <1>9 DEF IInv

--------------------------------------------------------------------------------
(* init_pmm leaves the page tables alone, and paging is still off.           *)

\* The part of StackInv that speaks of the scan.
ScanStack ==
    /\ pmm_stack_top = IF phy_page_count = 0 THEN U32_MAX ELSE phy_page_count - 1
    /\ \A i \in Slots : i < phy_page_count => pmm_stack[i] = FirstPage + i

\* There is no number strictly between two neighbours.
LEMMA NothingBetween ==
    ASSUME NEW m \in Nat, NEW n \in Nat
    PROVE  \A f \in Nat : ~(m + (n - 1) < f /\ f < m + n)
OBVIOUS

\* A step of init_pmm need only be shown to keep its own part of the invariant.
LEMMA ScanPreserves ==
    ASSUME IInv, ~PmmReady, UNCHANGED <<vmmVars, kmap_i, paging>>,
           RangesOK', ScanInv', ScanStack'
    PROVE  IInv'
<1>0. phy_page_count' \in Nat
    BY DEF RangesOK
<1>a. /\ phy_page_count' = 0 => pmm_stack_top' = U32_MAX
      /\ phy_page_count' # 0 => pmm_stack_top' = phy_page_count' - 1
    BY DEF ScanStack
<1>1. StackInv'
    <2>1. PmmReady' => phy_page_count' > 0
        BY OneRegion, ConstantFacts DEF ScanInv, PmmReady, RangesOK
    <2>2. PmmReady' => pmm_stack_top' < phy_page_count'
        BY <1>0, <1>a, <2>1, ConstantFacts
    <2> QED BY <2>2 DEF StackInv, ScanStack
<1>2. ~paging' /\ \A d \in DictIdx, t \in TableIdx : ~DemandMapped(d, t)'
    BY DEF IInv, BootInv, DemandMapped, KernelSlot, Pte, TableOf, VMA, vmmVars
<1>3. BootInv'
    BY <1>2 DEF BootInv
<1>4. TablesExclusive'
    BY DEF IInv, TablesExclusive, TableOf, VMA, vmmVars
<1>5. DemandInv'
    <2>1. \A f \in Nat :
            ~(FirstPage + pmm_stack_top' < f /\ f < FirstPage + phy_page_count')
        <3>1. CASE phy_page_count' = 0
            BY <3>1, <1>a, ConstantFacts
        <3>2. CASE phy_page_count' # 0
            BY <3>2, <1>0, <1>a, NothingBetween, ConstantFacts
        <3> QED BY <3>1, <3>2
    <2> QED BY <1>2, <2>1 DEF DemandInv
<1>6. KernelInv'
    BY DEF IInv, KernelInv, Walk, Pte, TableOf, VMA, dict_index, table_index, vmmVars
<1> QED BY <1>1, <1>3, <1>4, <1>5, <1>6 DEF IInv

\* init_pmm preserves the invariant.
LEMMA ScanStep ==
    ASSUME IInv, init_pmm, UNCHANGED <<vmmVars, kmap_i, paging>>
    PROVE  IInv'
<1> USE DEF IInv, vmmVars
<1>0. ~PmmReady /\ ~paging /\ mmap_entry \in 1..Len(MMap)
    BY ConstantFacts
    DEF init_pmm, ScanEntry, ScanPage, ScanEntryDone, PmmReady, ScanInv, BootInv, RangesOK
<1>1. ScanStack
    BY <1>0 DEF StackInv, ScanStack
<1>2. CASE ScanEntry
    <2>1. RangesOK' /\ ScanInv'
        <3>1. CASE Usable(MMap[mmap_entry])
            <4>1. page_addr' = FirstPage /\ mmap_entry' = mmap_entry /\ UNCHANGED <<pmmVars, halted>>
                BY <1>2, <3>1 DEF ScanEntry
            <4>2. phy_page_count = 0
                BY <1>2, <3>1, <1>0 DEF ScanEntry, ScanInv, RangesOK
            <4> QED BY <4>1, <4>2, <3>1, <1>0, ConstantFacts DEF RangesOK, ScanInv, pmmVars, NoPage
        <3>2. CASE ~Usable(MMap[mmap_entry])
            <4>1. page_addr' = page_addr /\ mmap_entry' = mmap_entry + 1 /\ UNCHANGED <<pmmVars, halted>>
                BY <1>2, <3>2 DEF ScanEntry
            <4> QED BY <4>1, <3>2, <1>0, <1>2, ConstantFacts DEF RangesOK, ScanInv, pmmVars, ScanEntry
        <3> QED BY <3>1, <3>2
    <2>2. ScanStack'
        BY <1>1, <1>2 DEF ScanEntry, ScanStack, pmmVars
    <2> QED BY <2>1, <2>2, <1>0, ScanPreserves
<1>3. CASE ScanPage
    <2>1. /\ page_addr = FirstPage + phy_page_count /\ page_addr <= PAGE_MAX_SIZE
          /\ page_addr # NoPage
        BY <1>3 DEF ScanPage, InRegion, ScanInv
    <2>2. Inc(pmm_stack_top) = phy_page_count /\ phy_page_count \in Slots
        BY <2>1, <1>1, ConstantFacts DEF Inc, ScanStack, Slots, RangesOK
    <2>3. pmm_stack_top # PAGE_MAX_SIZE
        BY <2>1, <1>1, ConstantFacts DEF ScanStack, RangesOK
    <2>4. /\ pmm_stack_top' = phy_page_count
          /\ pmm_stack' = [pmm_stack EXCEPT ![phy_page_count] = page_addr]
          /\ halted' = halted
          /\ page_addr' = page_addr + 1
          /\ phy_page_count' = phy_page_count + 1
          /\ mmap_entry' = mmap_entry
        BY <1>3, <2>2, <2>3 DEF ScanPage, pmm_free_page
    <2>5. RangesOK'
        BY <2>1, <2>2, <2>4, ConstantFacts DEF RangesOK, Slots, NoPage
    <2>6. ScanInv'
        BY <2>1, <2>4, <1>0, OneRegion, ConstantFacts DEF ScanInv, RangesOK, NoPage
    <2>7. ScanStack'
        <3>1. phy_page_count' # 0 /\ pmm_stack_top' = phy_page_count' - 1
            BY <2>4 DEF RangesOK
        <3>2. \A i \in Slots : i < phy_page_count' => pmm_stack'[i] = FirstPage + i
            <4> TAKE i \in Slots
            <4>1. CASE i = phy_page_count
                BY <4>1, <2>1, <2>2, <2>4 DEF RangesOK
            <4>2. CASE i # phy_page_count
                BY <4>2, <2>4, <1>1 DEF RangesOK, ScanStack, Slots
            <4> QED BY <4>1, <4>2
        <3> QED BY <3>1, <3>2 DEF ScanStack
    <2> QED BY <2>5, <2>6, <2>7, <1>0, ScanPreserves
<1>4. CASE ScanEntryDone
    <2>1. /\ page_addr' = NoPage /\ mmap_entry' = mmap_entry + 1
          /\ UNCHANGED <<pmmVars, halted>> /\ page_addr # NoPage /\ ~InRegion
        BY <1>4 DEF ScanEntryDone
    <2>2. Usable(MMap[mmap_entry]) /\ page_addr = FirstPage + phy_page_count
        BY <2>1 DEF ScanInv
    <2>3. phy_page_count > 0
        <3>1. SUFFICES ASSUME phy_page_count = 0 PROVE FALSE
            BY DEF RangesOK
        <3>2. page_addr = FirstPage
            BY <3>1, <2>2, ConstantFacts
        <3> QED BY <3>2, <2>1, <2>2, <1>0, RegionNotEmpty, ConstantFacts DEF InRegion, RegionEnd
    <2>4. RangesOK'
        BY <2>1, <1>0, ConstantFacts DEF RangesOK, pmmVars, NoPage
    <2>5. ScanInv'
        BY <2>1, <2>2, <2>3, <1>0, OneRegion, ConstantFacts DEF ScanInv, RangesOK, pmmVars
    <2>6. ScanStack'
        BY <2>1, <1>1 DEF ScanStack, pmmVars
    <2> QED BY <2>4, <2>5, <2>6, <1>0, ScanPreserves
<1> QED BY <1>2, <1>3, <1>4 DEF init_pmm

--------------------------------------------------------------------------------
(* Steps that map no demand-paged page.                                      *)

\* The demand-paged pages and their frames are the same after the step.
SameDemand ==
    \A d \in DictIdx, t \in TableIdx :
        /\ DemandMapped(d, t)' <=> DemandMapped(d, t)
        /\ DemandMapped(d, t) => Pte(d, t)' = Pte(d, t)

\* A step that leaves the stack and the demand-paged pages alone preserves IInv.
LEMMA SameDemandPreserves ==
    ASSUME IInv, UNCHANGED <<pmmVars, scanVars>>, SameDemand,
           RangesOK', TablesExclusive', KernelInv', paging => paging', paging' => PmmReady
    PROVE  IInv'
<1> USE DEF pmmVars, scanVars
<1>1. ScanInv' /\ StackInv'
    BY DEF IInv, ScanInv, StackInv, PmmReady
<1>2. BootInv'
    BY DEF IInv, BootInv, SameDemand, PmmReady
<1>3. DemandInv'
    BY DEF IInv, DemandInv, SameDemand
<1> QED BY <1>1, <1>2, <1>3 DEF IInv

\* The slots of the direct mapping are fixed by the constants.
LEMMA KernelSlotRigid ==
    ASSUME NEW d, NEW t
    PROVE  KernelSlot(d, t)' <=> KernelSlot(d, t)
BY DEF KernelSlot, VMA, dict_index, table_index, AddressPages

\* A step that leaves the page tables alone leaves the demand-paged pages alone.
LEMMA SameTables ==
    ASSUME IInv, UNCHANGED <<vmmVars, kmap_i>>, paging' => kmap_i = KERNEL_MAP_PAGES
    PROVE  SameDemand /\ TablesExclusive' /\ KernelInv'
<1>1. \A d \in DictIdx, t \in TableIdx : Pte(d, t)' = Pte(d, t)
    BY DEF vmmVars, Pte, TableOf, VMA
<1>2. SameDemand
    BY <1>1, KernelSlotRigid DEF SameDemand, DemandMapped
<1>3. TablesExclusive'
    BY DEF IInv, TablesExclusive, TableOf, VMA, vmmVars
<1>4. KernelInv'
    BY DEF IInv, KernelInv, Walk, Pte, TableOf, VMA, dict_index, table_index, vmmVars
<1> QED BY <1>2, <1>3, <1>4

\* Paging is turned on after init_pmm has returned.
LEMMA ReadyWhenPaging ==
    ASSUME IInv, paging
    PROVE  PmmReady
BY DEF IInv, BootInv

\* A turn of init_vmm's loop preserves the invariant.
LEMMA KernelMapStep ==
    ASSUME IInv, MapKernelPage
    PROVE  IInv' /\ SameDemand
<1>k. PICK k \in Nat : k = kmap_i
    BY VmmAssumption DEF IInv, RangesOK
<1> DEFINE d0 == dict_index(VMA(k))
           t0 == table_index(VMA(k))
<1>0. RangesOK /\ TablesExclusive /\ VmmType /\ PmmReady /\ UNCHANGED <<pmmVars, scanVars, paging>>
    BY DEF IInv, RangesOK, VmmType, MapKernelPage
<1>1. k < KERNEL_MAP_PAGES /\ KERNEL_MAP_PAGES \in Nat
    BY <1>k, <1>0, VmmAssumption DEF RangesOK, MapKernelPage
<1>2. d0 \in DictIdx /\ t0 \in TableIdx
    BY <1>1, AddressTypes, IndexTypes
<1>3. CASE NoTableLeft(d0)
    <2>1. halted' = TRUE /\ UNCHANGED <<vmmVars, kmap_i>>
        BY <1>k, <1>3 DEF MapKernelPage
    <2>2. RangesOK'
        BY <1>0, <2>1 DEF RangesOK, pmmVars, scanVars, vmmVars
    <2>3. paging' => kmap_i = KERNEL_MAP_PAGES
        BY <1>0 DEF IInv, KernelInv
    <2> QED BY <1>0, <2>1, <2>2, <2>3, SameTables, SameDemandPreserves, ReadyWhenPaging
<1>4. CASE ~NoTableLeft(d0)
    <2>1. insert(VMA(k), k) /\ kmap_i' = k + 1 /\ UNCHANGED halted
        BY <1>k, <1>4 DEF MapKernelPage
    <2>2. /\ TableAllocated(d0)
          /\ reserve' = [reserve EXCEPT ![TableFor(d0)][t0] = Entry(k)]
        BY <2>1 DEF insert
    <2>3. KernelSlot(d0, t0)
        BY <1>1 DEF KernelSlot
    <2> HIDE DEF d0, t0
    <2>4. VmmType' /\ TablesExclusive' /\ OthersKept(d0, t0) /\ Pte(d0, t0)' = Entry(k)
        BY <1>0, <1>1, <1>2, <1>4, <2>2, InsertStep
    <2>5. RangesOK'
        BY <1>0, <1>1, <2>1, <2>4 DEF RangesOK, VmmType, pmmVars, scanVars
    <2>6. SameDemand
        BY <2>3, <2>4, KernelSlotRigid DEF SameDemand, DemandMapped, OthersKept
    <2>7. KernelInv'
        <3>1. ~paging'
            BY <1>k, <1>0, <1>1 DEF IInv, KernelInv
        <3>2. ASSUME NEW i \in 0..k PROVE Walk(VMA(i))' = Entry(i)
            <4>1. i \in Nat /\ i < KERNEL_MAP_PAGES
                BY <1>1
            <4>2. CASE i = k
                BY <2>4, <4>2 DEF Walk, d0, t0, dict_index, table_index, VMA
            <4>3. CASE i # k
                <5>1. Walk(VMA(i)) = Entry(i)
                    BY <1>k, <1>1, <4>3 DEF IInv, KernelInv
                <5>2. VMA(i) # VMA(k) /\ VMA(i) \in VPages /\ VMA(k) \in VPages
                    BY <1>1, <4>1, <4>3, AddressTypes
                <5>3. dict_index(VMA(i)) # d0 \/ table_index(VMA(i)) # t0
                    BY <5>2, SlotsDistinct DEF d0, t0
                <5>4. dict_index(VMA(i)) \in DictIdx /\ table_index(VMA(i)) \in TableIdx
                    BY <4>1, AddressTypes, IndexTypes
                <5>5. Pte(dict_index(VMA(i)), table_index(VMA(i)))' = Entry(i)
                    BY <2>4, <5>1, <5>3, <5>4 DEF OthersKept, Walk, Entry
                <5> QED BY <5>5 DEF Walk
            <4> QED BY <4>2, <4>3
        <3> QED BY <3>1, <3>2, <2>1, <1>1 DEF KernelInv, VMA
    <2> QED BY <1>0, <2>4, <2>5, <2>6, <2>7, SameDemandPreserves
<1> QED BY <1>3, <1>4

\* register_dictionary preserves the invariant.
LEMMA RegisterStep ==
    ASSUME IInv, register_dictionary
    PROVE  IInv'
<1>1. UNCHANGED <<pmmVars, scanVars, halted, vmmVars, kmap_i>> /\ paging' = TRUE
      /\ PmmReady /\ kmap_i = KERNEL_MAP_PAGES
    BY DEF register_dictionary
<1>2. RangesOK'
    BY <1>1 DEF IInv, RangesOK, pmmVars, scanVars, vmmVars
<1> QED BY <1>1, <1>2, SameTables, SameDemandPreserves

\* A step that changes nothing preserves the invariant.
LEMMA StutterStep ==
    ASSUME IInv, UNCHANGED vars
    PROVE  IInv'
<1>1. RangesOK' /\ UNCHANGED <<pmmVars, scanVars, vmmVars, kmap_i, paging>>
    BY DEF IInv, RangesOK, vars, pmmVars, scanVars, vmmVars
<1>2. paging => kmap_i = KERNEL_MAP_PAGES
    BY DEF IInv, KernelInv
<1> QED BY <1>1, <1>2, SameTables, SameDemandPreserves, ReadyWhenPaging

--------------------------------------------------------------------------------
(* The page-fault handler.                                                   *)

\* No present translation changes.
PresentKept ==
    \A d \in DictIdx, t \in TableIdx : Pte(d, t).present => Pte(d, t)' = Pte(d, t)

\* The page that faults is not one of the direct mapping, so the pages of the
\* direct mapping are among the others.
LEMMA FaultOutsideKernel ==
    ASSUME IInv, paging, NEW d0 \in DictIdx, NEW t0 \in TableIdx, ~Pte(d0, t0).present
    PROVE  /\ ~KernelSlot(d0, t0)
           /\ OthersKept(d0, t0) /\ UNCHANGED <<kmap_i, paging>> => KernelInv'
<1>1. \A i \in 0..(KERNEL_MAP_PAGES - 1) :
        Pte(dict_index(VMA(i)), table_index(VMA(i))) = Entry(i)
    BY DEF IInv, KernelInv, Walk
<1>2. ~KernelSlot(d0, t0)
    BY <1>1 DEF KernelSlot, Entry
<1>3. ASSUME OthersKept(d0, t0), UNCHANGED <<kmap_i, paging>>
      PROVE  KernelInv'
    <2>1. kmap_i' = KERNEL_MAP_PAGES
        BY <1>3 DEF IInv, KernelInv
    <2>2. ASSUME NEW i \in 0..(KERNEL_MAP_PAGES - 1)
          PROVE  Walk(VMA(i))' = Entry(i)
        <3>1. dict_index(VMA(i)) # d0 \/ table_index(VMA(i)) # t0
            BY <1>2 DEF KernelSlot
        <3>2. dict_index(VMA(i)) \in DictIdx /\ table_index(VMA(i)) \in TableIdx
            BY VmmAssumption, AddressTypes, IndexTypes
        <3>3. Pte(dict_index(VMA(i)), table_index(VMA(i)))' = Entry(i)
            BY <1>1, <1>3, <3>1, <3>2 DEF OthersKept, Entry
        <3> QED BY <3>3 DEF Walk
    <2> QED BY <2>1, <2>2 DEF KernelInv, VMA
<1> QED BY <1>2, <1>3

\* A walk of the dictionary ends at an entry.
LEMMA PteType ==
    ASSUME IInv, NEW d \in DictIdx, NEW t \in TableIdx
    PROVE  Pte(d, t) \in Entries
<1>1. CASE entries[d].present
    <2>1. TableOf(entries[d]) \in Tables
        BY <1>1, VmmAssumption DEF IInv, RangesOK, TablesExclusive, Tables
    <2> QED BY <1>1, <2>1 DEF IInv, RangesOK, Pte
<1>2. CASE ~entries[d].present
    BY <1>2 DEF Pte, NotPresent, Entries
<1> QED BY <1>1, <1>2

\* The frame on top of the stack is popped and mapped at (d0, t0).
TopMapped(d0, t0) ==
    /\ pmm_stack_top \in Slots \ {0} /\ pmm_stack_top < phy_page_count
    /\ pmm_stack_top' = pmm_stack_top - 1 /\ pmm_stack' = pmm_stack
    /\ d0 \in DictIdx /\ t0 \in TableIdx /\ ~KernelSlot(d0, t0)
    /\ ~DemandMapped(d0, t0)
    /\ DemandMapped(d0, t0)' /\ Pte(d0, t0)'.addr = FirstPage + pmm_stack_top
    /\ \A d \in DictIdx, t \in TableIdx : d # d0 \/ t # t0 =>
         /\ DemandMapped(d, t)' <=> DemandMapped(d, t)
         /\ DemandMapped(d, t) => Pte(d, t)' = Pte(d, t)

\* MapOnFault maps the top of the stack and preserves the invariant.
LEMMA MapOnFaultStep ==
    ASSUME IInv, NEW v \in VPages, page_fault_handler(v), MapOnFault(v)
    PROVE  IInv' /\ PresentKept /\ TopMapped(dict_index(v), table_index(v))
<1> DEFINE d0 == dict_index(v)
           t0 == table_index(v)
<1>0. /\ RangesOK /\ VmmType /\ TablesExclusive /\ paging /\ PmmReady
      /\ ~Pte(d0, t0).present
      /\ UNCHANGED <<phy_page_count, scanVars, kmap_i, paging>>
      /\ d0 \in DictIdx /\ t0 \in TableIdx
    BY ReadyWhenPaging, AddressTypes, IndexTypes
    DEF IInv, RangesOK, VmmType, page_fault_handler, Walk
<1>1. PICK f \in FreeFrames \cup Words :
        /\ ~NoTableLeft(d0) /\ TableAllocated(d0) /\ pmm_alloc_page(f)
        /\ reserve' = [reserve EXCEPT ![TableFor(d0)][t0] = Entry(f)]
    BY DEF MapOnFault
<1> HIDE DEF d0, t0
<1>2. /\ pmm_stack_top \in Slots \ {0} /\ pmm_stack_top < phy_page_count
      /\ phy_page_count \in Nat
    BY <1>0, <1>1, ConstantFacts DEF IInv, StackInv, ScanInv, RangesOK, Slots, pmm_alloc_page
<1>3. f = FirstPage + pmm_stack_top /\ f \in Nat
    BY <1>1, <1>2, ConstantFacts DEF IInv, StackInv, pmm_alloc_page, ReadSlot, Slots
<1>4. pmm_stack_top' = pmm_stack_top - 1 /\ pmm_stack' = pmm_stack /\ halted' = halted
    BY <1>1, <1>2 DEF pmm_alloc_page, Dec
<1>5. VmmType' /\ TablesExclusive' /\ Pte(d0, t0)' = Entry(f) /\ OthersKept(d0, t0)
    BY <1>0, <1>1, <1>3, InsertStep
<1>6. ~KernelSlot(d0, t0) /\ KernelInv'
    BY <1>0, <1>5, FaultOutsideKernel
<1>7. RangesOK'
    BY <1>0, <1>2, <1>4, <1>5, ConstantFacts DEF RangesOK, VmmType, scanVars, Slots
<1>8. ScanInv'
    BY <1>0, <1>4 DEF IInv, ScanInv, scanVars
<1>9. StackInv'
    <2>1. PmmReady' /\ pmm_stack_top' < phy_page_count'
        BY <1>0, <1>2, <1>4 DEF PmmReady, scanVars, Slots
    <2>2. \A i \in Slots : i < phy_page_count' => pmm_stack'[i] = FirstPage + i
        BY <1>0, <1>4 DEF IInv, StackInv
    <2> QED BY <2>1, <2>2 DEF StackInv
<1>10. BootInv'
    BY <1>0 DEF BootInv, PmmReady, scanVars
<1>11. /\ DemandMapped(d0, t0)' /\ Pte(d0, t0)'.addr = f /\ ~DemandMapped(d0, t0)
       /\ \A d \in DictIdx, t \in TableIdx : d # d0 \/ t # t0 =>
            /\ DemandMapped(d, t)' <=> DemandMapped(d, t)
            /\ DemandMapped(d, t) => Pte(d, t)' = Pte(d, t)
    BY <1>0, <1>5, <1>6, KernelSlotRigid DEF DemandMapped, OthersKept, Entry
<1>12. DemandInv'
    <2>1. \A d \in DictIdx, t \in TableIdx :
            DemandMapped(d, t)' =>
                /\ FirstPage + pmm_stack_top' < Pte(d, t)'.addr
                /\ Pte(d, t)'.addr < FirstPage + phy_page_count'
        <3> SUFFICES ASSUME NEW d \in DictIdx, NEW t \in TableIdx, DemandMapped(d, t)'
                     PROVE  /\ FirstPage + pmm_stack_top' < Pte(d, t)'.addr
                            /\ Pte(d, t)'.addr < FirstPage + phy_page_count'
            OBVIOUS
        <3>1. CASE d = d0 /\ t = t0
            BY <3>1, <1>0, <1>2, <1>3, <1>4, <1>11, ConstantFacts DEF Slots
        <3>2. CASE d # d0 \/ t # t0
            <4>1. DemandMapped(d, t) /\ Pte(d, t)' = Pte(d, t)
                BY <3>2, <1>11
            <4>2. /\ FirstPage + pmm_stack_top < Pte(d, t).addr
                  /\ Pte(d, t).addr < FirstPage + phy_page_count
                BY <4>1 DEF IInv, DemandInv
            <4>3. PICK g \in Nat : g = Pte(d, t).addr
                BY PteType DEF Entries
            <4>4. Pte(d, t)'.addr = g
                BY <4>1, <4>3
            <4> QED BY <4>2, <4>3, <4>4, <1>0, <1>2, <1>4, ConstantFacts DEF Slots
        <3> QED BY <3>1, <3>2
    <2>2. \A d, e \in DictIdx, t, u \in TableIdx :
            DemandMapped(d, t)' /\ DemandMapped(e, u)' /\ Pte(d, t)'.addr = Pte(e, u)'.addr
                => d = e /\ t = u
        <3>1. \A d \in DictIdx, t \in TableIdx : DemandMapped(d, t) => Pte(d, t).addr # f
            BY <1>2, <1>3, PteType, ConstantFacts DEF IInv, DemandInv, Slots
        <3> QED BY <3>1, <1>11 DEF IInv, DemandInv
    <2>3. \A g \in Nat :
            FirstPage + pmm_stack_top' < g /\ g < FirstPage + phy_page_count' =>
                \E d \in DictIdx, t \in TableIdx : DemandMapped(d, t)' /\ Pte(d, t)'.addr = g
        <3> SUFFICES ASSUME NEW g \in Nat, FirstPage + pmm_stack_top' < g,
                            g < FirstPage + phy_page_count'
                     PROVE  \E d \in DictIdx, t \in TableIdx :
                                DemandMapped(d, t)' /\ Pte(d, t)'.addr = g
            OBVIOUS
        <3>1. CASE g = f
            BY <3>1, <1>0, <1>11
        <3>2. CASE g # f
            <4>1. FirstPage + pmm_stack_top < g /\ g < FirstPage + phy_page_count
                BY <3>2, <1>0, <1>2, <1>3, <1>4, ConstantFacts DEF Slots
            <4>2. PICK d \in DictIdx, t \in TableIdx : DemandMapped(d, t) /\ Pte(d, t).addr = g
                BY <4>1 DEF IInv, DemandInv
            <4>3. d # d0 \/ t # t0
                BY <4>2, <1>11
            <4> QED BY <4>2, <4>3, <1>11
        <3> QED BY <3>1, <3>2
    <2> QED BY <2>1, <2>2, <2>3 DEF DemandInv
<1>13. PresentKept
    BY <1>0, <1>5 DEF PresentKept, OthersKept
<1>14. TopMapped(d0, t0)
    BY <1>0, <1>2, <1>3, <1>4, <1>6, <1>11 DEF TopMapped
<1>15. IInv'
    BY <1>5, <1>6, <1>7, <1>8, <1>9, <1>10, <1>12 DEF IInv
<1> QED BY <1>13, <1>14, <1>15 DEF d0, t0

\* The assert in pmm_alloc_page comes after the dictionary entry was set: the
\* new table is empty.
LEMMA OutOfFramesStep ==
    ASSUME IInv, NEW v \in VPages, page_fault_handler(v), OutOfFrames(v)
    PROVE  IInv' /\ PresentKept /\ SameDemand
<1> DEFINE d0 == dict_index(v)
           t0 == table_index(v)
<1>0. /\ RangesOK /\ VmmType /\ TablesExclusive /\ paging /\ PmmReady
      /\ ~Pte(d0, t0).present
      /\ UNCHANGED <<pmmVars, scanVars, kmap_i, paging, reserve>> /\ halted' = TRUE
      /\ d0 \in DictIdx /\ t0 \in TableIdx
      /\ ~NoTableLeft(d0) /\ TableAllocated(d0)
    BY ReadyWhenPaging, AddressTypes, IndexTypes
    DEF IInv, RangesOK, VmmType, page_fault_handler, Walk, OutOfFrames, pmm_alloc_page_halts, pmmVars
<1> HIDE DEF d0, t0
<1>1. TableFor(d0) \in Tables
    BY <1>0, TableForType
<1>2. /\ entries' \in [DictIdx -> Entries]
      /\ table_count' \in 0..TABLE_RESERVE
      /\ table_count' >= table_count
      /\ entries'[d0].present /\ TableOf(entries'[d0]) = TableFor(d0)
      /\ TableFor(d0) < table_count'
      /\ \A d \in DictIdx : d # d0 => entries'[d] = entries[d]
      /\ \A d \in DictIdx : d # d0 /\ entries[d].present => TableOf(entries[d]) # TableFor(d0)
    BY <1>0, TableAllocatedStep
<1>3. \A d \in DictIdx, t \in TableIdx :
        /\ Pte(d, t)'.present <=> Pte(d, t).present
        /\ Pte(d, t).present => Pte(d, t)' = Pte(d, t)
    <2> SUFFICES ASSUME NEW d \in DictIdx, NEW t \in TableIdx
                 PROVE  /\ Pte(d, t)'.present <=> Pte(d, t).present
                        /\ Pte(d, t).present => Pte(d, t)' = Pte(d, t)
        OBVIOUS
    <2>1. CASE d # d0
        BY <2>1, <1>0, <1>2 DEF Pte, TableOf, VMA
    <2>2. CASE d = d0 /\ entries[d].present
        BY <2>2, <1>0 DEF TableAllocated, Pte, TableOf, VMA
    <2>3. CASE d = d0 /\ ~entries[d].present
        <3>1. Pte(d, t)' = reserve[TableFor(d0)][t]
            BY <2>3, <1>0, <1>2 DEF Pte, TableOf, VMA
        <3>2. ~reserve[TableFor(d0)][t].present
            BY <2>3, <1>0, <1>1 DEF TableFor, TablesExclusive, VmmType
        <3> QED BY <2>3, <3>1, <3>2 DEF Pte, NotPresent
    <2> QED BY <2>1, <2>2, <2>3
<1>4. SameDemand
    BY <1>3, KernelSlotRigid DEF SameDemand, DemandMapped
<1>5. OthersKept(d0, t0)
    BY <1>3 DEF OthersKept
<1>6. TablesExclusive'
    <2>1. \A d \in DictIdx : entries'[d].present => TableOf(entries'[d]) \in 0..(table_count' - 1)
        BY <1>0, <1>1, <1>2 DEF TablesExclusive, VmmType, Tables
    <2>2. \A d, e \in DictIdx :
            entries'[d].present /\ entries'[e].present /\ TableOf(entries'[d]) = TableOf(entries'[e])
                => d = e
        BY <1>0, <1>2 DEF TablesExclusive
    <2>3. \A i \in Tables, t \in TableIdx : i >= table_count' => ~reserve'[i][t].present
        BY <1>0, <1>2 DEF TablesExclusive, VmmType, Tables
    <2> QED BY <2>1, <2>2, <2>3 DEF TablesExclusive, TableOf, VMA
<1>7. RangesOK'
    BY <1>0, <1>2 DEF RangesOK, pmmVars, scanVars
<1>8. PresentKept
    BY <1>3 DEF PresentKept
<1> QED BY <1>0, <1>4, <1>5, <1>6, <1>7, <1>8, FaultOutsideKernel, SameDemandPreserves

\* page_fault_handler preserves the invariant and every present translation.
LEMMA FaultStep ==
    ASSUME IInv, NEW v \in VPages, page_fault_handler(v)
    PROVE  IInv' /\ PresentKept
<1>1. CASE OutOfTables(v)
    <2>1. /\ UNCHANGED <<pmmVars, scanVars, vmmVars, kmap_i, paging>> /\ halted' = TRUE
          /\ paging => kmap_i = KERNEL_MAP_PAGES
        BY <1>1 DEF OutOfTables, page_fault_handler, pmmVars, IInv, KernelInv
    <2>2. RangesOK'
        BY <2>1 DEF IInv, RangesOK, pmmVars, scanVars, vmmVars
    <2>3. PresentKept
        BY <2>1 DEF PresentKept, Pte, TableOf, VMA, vmmVars
    <2> QED BY <2>1, <2>2, <2>3, SameTables, SameDemandPreserves, ReadyWhenPaging
<1> QED BY <1>1, MapOnFaultStep, OutOfFramesStep DEF page_fault_handler

\* Every step preserves the invariant.
LEMMA NextIInv == IInv /\ [Next]_vars => IInv'
<1> SUFFICES ASSUME IInv, [Next]_vars PROVE IInv'
    OBVIOUS
<1>1. CASE init_pmm /\ UNCHANGED <<vmmVars, kmap_i, paging>>
    BY <1>1, ScanStep
<1>2. CASE MapKernelPage
    BY <1>2, KernelMapStep
<1>3. CASE register_dictionary
    BY <1>3, RegisterStep
<1>4. ASSUME NEW v \in VPages, page_fault_handler(v) PROVE IInv'
    BY <1>4, FaultStep
<1>5. CASE UNCHANGED vars
    BY <1>5, StutterStep
<1> QED BY <1>1, <1>2, <1>3, <1>4, <1>5 DEF Next

\* IInv holds throughout boot and every sequence of page faults after it.
THEOREM Invariance == Spec => []IInv
BY InitIInv, NextIInv, PTL DEF Spec

--------------------------------------------------------------------------------
(* What the inductive invariant implies.                                     *)

\* init_pmm, init_vmm and page_fault_handler keep every variable in its type: the
\* scan stops at page PAGE_MAX_SIZE, pmm_stack_top is on a slot that was pushed
\* from the first push on and never wraps, and table_count stays in the reserve.
THEOREM TypeCorrect == Spec => []TypeOK
<1>1. ASSUME IInv PROVE TypeOK
    <2> USE <1>1, ConstantFacts DEF IInv, RangesOK
    <2>1. phy_page_count \in 0..PAGE_MAX_SIZE
        BY DEF ScanInv
    <2>2. pmm_stack_top \in IF phy_page_count = 0 THEN {U32_MAX} ELSE 0..(phy_page_count - 1)
        <3>1. CASE PmmReady
            BY <3>1, <2>1 DEF StackInv
        <3>2. CASE ~PmmReady
            BY <3>2, <2>1 DEF StackInv
        <3> QED BY <3>1, <3>2
    <2>3. page_addr \in FirstPage..(PAGE_MAX_SIZE + 1) \cup {NoPage}
        BY <2>1 DEF ScanInv
    <2> QED BY <2>1, <2>2, <2>3 DEF TypeOK
<1> QED BY <1>1, Invariance, PTL

\* alloc_table never hands a page table to two dictionary entries.
THEOREM TablesExclusiveHolds == Spec => []TablesExclusive
<1>1. IInv => TablesExclusive
    BY DEF IInv
<1> QED BY <1>1, Invariance, PTL

\* Once init_vmm has loaded cr3 the direct mapping is complete and right, and
\* no page fault changes it.
THEOREM KernelMappedHolds == Spec => []KernelMapped
<1>1. IInv => KernelMapped
    BY DEF IInv, KernelInv, KernelMapped
<1> QED BY <1>1, Invariance, PTL

\* The used slots of the stack are the ones below the pages that are left.
LEMMA FreeFramesAre ==
    ASSUME IInv
    PROVE  /\ \A i \in UsedSlots : i \in Nat /\ pmm_stack[i] = FirstPage + i
           /\ \A i \in UsedSlots : i <= pmm_stack_top /\ i < phy_page_count
           /\ phy_page_count \in Nat /\ phy_page_count <= PAGE_MAX_SIZE
<1>1. phy_page_count \in Nat /\ phy_page_count <= PAGE_MAX_SIZE
    BY ConstantFacts DEF IInv, RangesOK, ScanInv
<1>2. \A i \in UsedSlots : i \in Slots /\ i <= pmm_stack_top /\ i < phy_page_count
    <2> SUFFICES ASSUME NEW i \in UsedSlots
                 PROVE  i \in Slots /\ i <= pmm_stack_top /\ i < phy_page_count
        OBVIOUS
    <2>1. i \in Slots /\ i <= pmm_stack_top /\ pmm_stack_top # U32_MAX
        BY DEF UsedSlots
    <2>2. pmm_stack_top < phy_page_count
        BY <2>1, <1>1 DEF IInv, StackInv
    <2> QED BY <2>1, <2>2, <1>1, ConstantFacts DEF Slots, IInv, RangesOK
<1> QED BY <1>1, <1>2 DEF IInv, StackInv, Slots

\* No frame is used for two things: not by two demand-paged pages, not by a
\* page and the free stack, not by a page and the kernel image.
THEOREM FramesExclusiveHolds == Spec => []FramesExclusive
<1>1. ASSUME IInv PROVE FramesExclusive
    <2>1. \A i, j \in UsedSlots : pmm_stack[i] = pmm_stack[j] => i = j
        BY <1>1, FreeFramesAre, ConstantFacts
    <2>2. \A f \in FreeFrames : f \in Nat /\ f >= FirstPage /\ f <= FirstPage + pmm_stack_top
        BY <1>1, FreeFramesAre, ConstantFacts DEF FreeFrames, IInv, RangesOK
    <2>3. \A d \in DictIdx, t \in TableIdx : DemandMapped(d, t) =>
            Pte(d, t).addr >= FirstPage /\ Pte(d, t).addr \notin FreeFrames
        BY <1>1, <2>2, PteType, ConstantFacts DEF IInv, DemandInv, RangesOK, Entries
    <2>4. \A d, e \in DictIdx, t, u \in TableIdx :
            DemandMapped(d, t) /\ DemandMapped(e, u) /\ Pte(d, t).addr = Pte(e, u).addr
                => d = e /\ t = u
        BY <1>1 DEF IInv, DemandInv
    <2> QED BY <2>1, <2>2, <2>3, <2>4 DEF FramesExclusive
<1> QED BY <1>1, Invariance, PTL

\* Of the frames that init_pmm found, none is lost: page_fault_handler maps
\* every frame it pops.
THEOREM FramesConservedHolds == Spec => []FramesConserved
<1>1. ASSUME IInv, PmmReady
      PROVE  FreeFrames \cup Mapped = FirstPage..(FirstPage + phy_page_count - 1)
    <2>0. /\ phy_page_count \in Nat /\ phy_page_count <= PAGE_MAX_SIZE
          /\ pmm_stack_top \in Nat /\ pmm_stack_top < phy_page_count
        BY <1>1, FreeFramesAre DEF IInv, StackInv, RangesOK
    <2>1. ASSUME NEW f \in FreeFrames PROVE f \in FirstPage..(FirstPage + phy_page_count - 1)
        BY <1>1, <2>0, <2>1, FreeFramesAre, ConstantFacts DEF FreeFrames
    <2>2. ASSUME NEW f \in Mapped PROVE f \in FirstPage..(FirstPage + phy_page_count - 1)
        <3>1. PICK d \in DictIdx, t \in TableIdx : DemandMapped(d, t) /\ f = Pte(d, t).addr
            BY <2>2 DEF Mapped
        <3>2. f \in Nat
            BY <1>1, <3>1, PteType DEF Entries
        <3>3. FirstPage + pmm_stack_top < f /\ f < FirstPage + phy_page_count
            BY <1>1, <3>1 DEF IInv, DemandInv
        <3> QED BY <3>2, <3>3, <2>0, ConstantFacts
    <2>3. ASSUME NEW f \in FirstPage..(FirstPage + phy_page_count - 1)
          PROVE  f \in FreeFrames \cup Mapped
        <3>0. f \in Nat /\ f >= FirstPage /\ f < FirstPage + phy_page_count
            BY <2>0, <2>3, ConstantFacts
        <3>1. CASE f <= FirstPage + pmm_stack_top
            <4>1. PICK k \in Nat : f = FirstPage + k
                BY <3>0, ConstantFacts
            <4>2. k <= pmm_stack_top /\ k \in Slots /\ pmm_stack_top # U32_MAX
                BY <3>1, <4>1, <2>0, ConstantFacts DEF Slots
            <4>3. k \in UsedSlots /\ pmm_stack[k] = f
                BY <1>1, <4>1, <4>2, FreeFramesAre DEF UsedSlots
            <4> QED BY <4>3 DEF FreeFrames
        <3>2. CASE FirstPage + pmm_stack_top < f
            <4>1. PICK d \in DictIdx, t \in TableIdx : DemandMapped(d, t) /\ Pte(d, t).addr = f
                BY <1>1, <3>0, <3>2 DEF IInv, DemandInv
            <4>2. <<d, t>> \in {s \in DictIdx \X TableIdx : DemandMapped(s[1], s[2])}
                BY <4>1
            <4> QED BY <4>1, <4>2 DEF Mapped
        <3> QED BY <3>0, <3>1, <3>2, <2>0, ConstantFacts
    <2> QED BY <2>1, <2>2, <2>3
<1> QED BY <1>1, Invariance, PTL DEF FramesConserved

\* What is left when an assert has stopped the machine, by stack index.
HaltInv == halted => table_count = TABLE_RESERVE \/ (PmmReady /\ pmm_stack_top = 0)

\* An assert fires for want of a table, or of any frame but the last one.
LEMMA HaltStep == IInv /\ HaltInv /\ [Next]_vars => HaltInv'
<1> SUFFICES ASSUME IInv, HaltInv, [Next]_vars, halted' PROVE HaltInv'
    BY DEF HaltInv
<1>0. table_count \in Nat /\ table_count <= TABLE_RESERVE /\ TABLE_RESERVE \in Nat
    BY VmmAssumption DEF IInv, RangesOK
<1>1. CASE UNCHANGED vars
    BY <1>1 DEF HaltInv, vars, vmmVars, pmmVars, scanVars, PmmReady
<1>2. CASE init_pmm
    <2>1. ScanPage /\ pmm_stack_top = PAGE_MAX_SIZE
        BY <1>2 DEF init_pmm, ScanEntry, ScanPage, ScanEntryDone, pmm_free_page
    <2>2. pmm_stack_top # PAGE_MAX_SIZE
        BY <2>1, ConstantFacts DEF ScanPage, IInv, ScanInv, StackInv, RangesOK, PmmReady
    <2> QED BY <2>1, <2>2
<1>3. CASE MapKernelPage
    <2>1. NoTableLeft(dict_index(VMA(kmap_i))) /\ table_count' = table_count
        BY <1>3 DEF MapKernelPage, vmmVars
    <2>2. table_count = TABLE_RESERVE
        BY <1>0, <2>1 DEF NoTableLeft
    <2> QED BY <2>1, <2>2 DEF HaltInv
<1>4. CASE register_dictionary
    BY <1>4 DEF register_dictionary
<1>5. ASSUME NEW v \in VPages, page_fault_handler(v) PROVE HaltInv'
    <2>1. ~halted /\ PmmReady /\ PmmReady'
        BY <1>5, ReadyWhenPaging DEF page_fault_handler, scanVars, PmmReady
    <2>2. CASE OutOfTables(v)
        BY <1>0, <2>2 DEF OutOfTables, NoTableLeft, HaltInv, vmmVars
    <2>3. CASE OutOfFrames(v)
        BY <2>1, <2>3 DEF OutOfFrames, pmm_alloc_page_halts, HaltInv
    <2>4. CASE MapOnFault(v)
        BY <2>1, <2>4 DEF MapOnFault, pmm_alloc_page
    <2> QED BY <1>5, <2>2, <2>3, <2>4 DEF page_fault_handler
<1> QED BY <1>1, <1>2, <1>3, <1>4, <1>5 DEF Next

\* The asserts of pmm_alloc_page and alloc_table stop the machine only when
\* every table, or every frame but one, is in use.
THEOREM StopsWhenUsedUpHolds == Spec => []StopsWhenUsedUp
<1>1. Init => HaltInv
    BY DEF Init, PmmInit, HaltInv
<1>2. ASSUME IInv, HaltInv, halted, table_count # TABLE_RESERVE
      PROVE  \E f \in FreeFrames : FreeFrames = {f}
    <2>1. pmm_stack_top = 0
        BY <1>2 DEF HaltInv
    <2>2. UsedSlots = {0}
        BY <2>1, ConstantFacts DEF UsedSlots, Slots
    <2>3. FreeFrames = {pmm_stack[0]}
        BY <2>2 DEF FreeFrames
    <2> QED BY <2>3
<1>3. IInv /\ HaltInv => StopsWhenUsedUp
    BY <1>2 DEF StopsWhenUsedUp
<1> QED BY <1>1, <1>3, HaltStep, Invariance, PTL DEF Spec

\* No step changes a translation that is present once paging is on, which is
\* what a kernel that never invalidates the TLB depends on.
THEOREM TranslationStableHolds == Spec => TranslationStable
<1>1. ASSUME IInv, paging, [Next]_vars
      PROVE  PresentKept
    <2>1. CASE UNCHANGED vars
        BY <2>1 DEF PresentKept, Pte, TableOf, VMA, vars, vmmVars
    <2>2. CASE init_pmm
        BY <2>2, <1>1, ReadyWhenPaging, ConstantFacts
        DEF init_pmm, ScanEntry, ScanPage, ScanEntryDone, PmmReady, IInv, ScanInv, RangesOK
    <2>3. CASE MapKernelPage
        BY <2>3, <1>1, VmmAssumption DEF MapKernelPage, IInv, KernelInv
    <2>4. CASE register_dictionary
        BY <2>4, <1>1 DEF register_dictionary
    <2>5. ASSUME NEW v \in VPages, page_fault_handler(v) PROVE PresentKept
        BY <1>1, <2>5, FaultStep
    <2> QED BY <1>1, <2>1, <2>2, <2>3, <2>4, <2>5 DEF Next
<1>2. IInv /\ [Next]_vars =>
        [paging => \A d \in DictIdx, t \in TableIdx :
                     Pte(d, t).present => Pte(d, t)' = Pte(d, t)]_vars
    BY <1>1 DEF PresentKept
<1> QED BY <1>2, Invariance, PTL DEF Spec, TranslationStable

--------------------------------------------------------------------------------
(* Demand paging is implemented.                                             *)

\* A demand-paged page is backed by the frame it is mapped to.
LEMMA BackingIs ==
    /\ \A d \in DictIdx, t \in TableIdx : ~KernelSlot(d, t) <=> <<d, t>> \in DemandPages
    /\ \A s \in DemandPages : \E d \in DictIdx, t \in TableIdx :
         /\ s = <<d, t>> /\ ~KernelSlot(d, t)
         /\ DemandMapped(d, t) => Backing[s] = Pte(d, t).addr
         /\ ~DemandMapped(d, t) => Backing[s] = NoFrame
    /\ Backing = [s \in DemandPages |-> Backing[s]]
BY DEF DemandPages, Backing, DemandMapped

\* If no demand-paged page changes, no backing does.
LEMMA SameBacking ==
    ASSUME SameDemand
    PROVE  Backing' = Backing
<1>1. \A s \in DemandPages : s[1] \in DictIdx /\ s[2] \in TableIdx /\ ~KernelSlot(s[1], s[2])
    BY DEF DemandPages
<1>2. ASSUME NEW s \in DemandPages
      PROVE  (IF Pte(s[1], s[2])'.present THEN Pte(s[1], s[2])'.addr ELSE NoFrame) =
             (IF Pte(s[1], s[2]).present THEN Pte(s[1], s[2]).addr ELSE NoFrame)
    <2>1. DemandMapped(s[1], s[2])' <=> Pte(s[1], s[2])'.present
        BY <1>1, KernelSlotRigid DEF DemandMapped
    <2>2. DemandMapped(s[1], s[2]) <=> Pte(s[1], s[2]).present
        BY <1>1 DEF DemandMapped
    <2>3. /\ DemandMapped(s[1], s[2])' <=> DemandMapped(s[1], s[2])
          /\ DemandMapped(s[1], s[2]) => Pte(s[1], s[2])' = Pte(s[1], s[2])
        BY <1>1 DEF SameDemand
    <2> QED BY <2>1, <2>2, <2>3
<1>3. DemandPages' = DemandPages
    BY KernelSlotRigid DEF DemandPages, DictIdx, TableIdx
<1> QED BY <1>2, <1>3 DEF Backing, NoFrame

\* init_pmm finds the next page of the region, or changes nothing yet.
LEMMA ScanFinds ==
    ASSUME IInv, init_pmm, UNCHANGED <<vmmVars, kmap_i, paging>>
    PROVE  [Paging!Next]_<<FreeFrames, Backing>>
<1>0. ~PmmReady /\ ~paging
    BY ConstantFacts
    DEF init_pmm, ScanEntry, ScanPage, ScanEntryDone, PmmReady, IInv, ScanInv, BootInv, RangesOK
<1>1. Backing' = Backing
    <2>1. \A d \in DictIdx, t \in TableIdx : Pte(d, t)' = Pte(d, t)
        BY DEF vmmVars, Pte, TableOf, VMA
    <2>2. SameDemand
        BY <2>1, KernelSlotRigid DEF SameDemand, DemandMapped
    <2> QED BY <2>2, SameBacking
<1>2. CASE ScanPage
    <2>0. phy_page_count \in Nat
        BY DEF IInv, RangesOK
    <2>1. /\ page_addr = FirstPage + phy_page_count /\ page_addr <= PAGE_MAX_SIZE
          /\ pmm_stack_top = IF phy_page_count = 0 THEN U32_MAX ELSE phy_page_count - 1
        BY <1>0, <1>2 DEF ScanPage, InRegion, IInv, ScanInv, StackInv
    <2>2. /\ Inc(pmm_stack_top) = phy_page_count /\ phy_page_count \in Slots
          /\ pmm_stack_top # PAGE_MAX_SIZE
        BY <2>0, <2>1, ConstantFacts DEF Inc, Slots
    <2>3. /\ pmm_stack_top' = phy_page_count
          /\ pmm_stack' = [pmm_stack EXCEPT ![phy_page_count] = page_addr]
        BY <1>2, <2>2 DEF ScanPage, pmm_free_page
    <2>4. /\ \A i \in UsedSlots : i \in Slots /\ i < phy_page_count /\ pmm_stack[i] = FirstPage + i
          /\ \A i \in Slots : i < phy_page_count => i \in UsedSlots
        BY <2>0, <2>1, FreeFramesAre, ConstantFacts DEF UsedSlots, Slots
    <2>5. UsedSlots' = UsedSlots \cup {phy_page_count}
        BY <2>0, <2>2, <2>3, <2>4, ConstantFacts DEF UsedSlots, Slots
    <2>6. /\ \A i \in UsedSlots : pmm_stack'[i] = pmm_stack[i]
          /\ pmm_stack'[phy_page_count] = page_addr
        BY <2>0, <2>2, <2>3, <2>4 DEF IInv, RangesOK, Slots
    <2>7. FreeFrames' = FreeFrames \cup {page_addr}
        BY <2>5, <2>6 DEF FreeFrames
    <2>8. page_addr \notin FreeFrames
        BY <2>0, <2>1, <2>4, ConstantFacts DEF FreeFrames, Slots
    <2>9. \A s \in DemandPages : Backing[s] # page_addr
        <3>1. NoFrame # page_addr
            BY <2>0, <2>1, ConstantFacts DEF NoFrame
        <3>2. \A d \in DictIdx, t \in TableIdx : ~DemandMapped(d, t)
            BY <1>0 DEF IInv, BootInv
        <3> QED BY <3>1, <3>2, BackingIs
    <2>10. page_addr \in FirstPage..PAGE_MAX_SIZE
        BY <2>0, <2>1, ConstantFacts
    <2> QED BY <1>1, <2>7, <2>8, <2>9, <2>10 DEF Paging!Next, Paging!Find
<1>3. CASE ScanEntry \/ ScanEntryDone
    <2>1. UNCHANGED pmmVars
        BY <1>3 DEF ScanEntry, ScanEntryDone
    <2>2. FreeFrames' = FreeFrames
        BY <2>1 DEF pmmVars, FreeFrames, UsedSlots
    <2> QED BY <1>1, <2>2
<1> QED BY <1>2, <1>3 DEF init_pmm

\* The numbers of an interval up to one of them.
LEMMA Prefix ==
    ASSUME NEW m \in Nat, NEW n \in Nat, n <= m
    PROVE  {i \in 0..m : i <= n} = 0..n
OBVIOUS

\* A fault that maps a page gives it a free frame.
LEMMA FaultTouches ==
    ASSUME IInv, NEW d0, NEW t0, TopMapped(d0, t0)
    PROVE  Paging!Next
<1> DEFINE f == FirstPage + pmm_stack_top
           p == <<d0, t0>>
<1>1. pmm_stack_top \in Nat /\ pmm_stack_top <= PAGE_MAX_SIZE /\ pmm_stack_top # 0
      /\ phy_page_count \in Nat /\ pmm_stack_top < phy_page_count
      /\ FirstPage + phy_page_count <= PAGE_MAX_SIZE + 1
    BY ConstantFacts DEF TopMapped, Slots, IInv, RangesOK, ScanInv
<1>2. f \in FirstPage..PAGE_MAX_SIZE
    BY <1>1, ConstantFacts
<1>3. /\ UsedSlots = 0..pmm_stack_top /\ UsedSlots' = 0..(pmm_stack_top - 1)
      /\ \A i \in 0..pmm_stack_top : pmm_stack[i] = FirstPage + i /\ pmm_stack'[i] = FirstPage + i
    <2>1. UsedSlots = 0..pmm_stack_top
        <3>1. UsedSlots = {i \in 0..PAGE_MAX_SIZE : i <= pmm_stack_top}
            BY <1>1, ConstantFacts DEF UsedSlots, Slots
        <3> QED BY <3>1, <1>1, ConstantFacts, Prefix
    <2>2. UsedSlots' = 0..(pmm_stack_top - 1)
        <3>1. PICK k \in Nat : k = pmm_stack_top - 1 /\ k <= PAGE_MAX_SIZE /\ k # U32_MAX
            BY <1>1, ConstantFacts
        <3>2. pmm_stack_top' = k
            BY <3>1 DEF TopMapped
        <3> QED BY <3>1, <3>2, ConstantFacts, Prefix DEF UsedSlots, Slots
    <2>3. \A i \in 0..pmm_stack_top : pmm_stack[i] = FirstPage + i
        BY <2>1, FreeFramesAre
    <2> QED BY <2>1, <2>2, <2>3 DEF TopMapped
<1>4. f \in FreeFrames /\ FreeFrames' = FreeFrames \ {f}
    <2>1. f \in FreeFrames
        BY <1>1, <1>3 DEF FreeFrames
    <2>2. \A g : g \in FreeFrames' <=> \E i \in 0..(pmm_stack_top - 1) : g = FirstPage + i
        BY <1>1, <1>3 DEF FreeFrames
    <2>3. \A g : g \in FreeFrames <=> \E i \in 0..pmm_stack_top : g = FirstPage + i
        BY <1>1, <1>3 DEF FreeFrames
    <2>4. \A i \in 0..pmm_stack_top : FirstPage + i # f <=> i \in 0..(pmm_stack_top - 1)
        BY <1>1, ConstantFacts
    <2>5. \A i \in 0..(pmm_stack_top - 1) : i \in 0..pmm_stack_top
        BY <1>1
    <2> HIDE DEF f
    <2> QED BY <2>1, <2>2, <2>3, <2>4, <2>5
<1>5. p \in DemandPages /\ Backing[p] = NoFrame
    BY DEF TopMapped, DemandPages, Backing, DemandMapped
<1>6. Backing' = [Backing EXCEPT ![p] = f]
    <2>1. \A s \in DemandPages : s[1] \in DictIdx /\ s[2] \in TableIdx /\ ~KernelSlot(s[1], s[2])
        BY DEF DemandPages
    <2>2. ASSUME NEW s \in DemandPages
          PROVE  (IF Pte(s[1], s[2])'.present THEN Pte(s[1], s[2])'.addr ELSE NoFrame) =
                 IF s = p THEN f ELSE Backing[s]
        <3>1. DemandMapped(s[1], s[2])' <=> Pte(s[1], s[2])'.present
            BY <2>1, KernelSlotRigid DEF DemandMapped
        <3>2. DemandMapped(s[1], s[2]) <=> Pte(s[1], s[2]).present
            BY <2>1 DEF DemandMapped
        <3>3. CASE s = p
            BY <3>1, <3>3 DEF TopMapped
        <3>4. CASE s # p
            <4>1. s[1] # d0 \/ s[2] # t0
                BY <3>4, <2>2 DEF DemandPages
            <4>2. /\ DemandMapped(s[1], s[2])' <=> DemandMapped(s[1], s[2])
                  /\ DemandMapped(s[1], s[2]) => Pte(s[1], s[2])' = Pte(s[1], s[2])
                BY <2>1, <4>1 DEF TopMapped
            <4> QED BY <3>1, <3>2, <3>4, <4>2 DEF Backing
        <3> QED BY <3>3, <3>4
    <2>3. DemandPages' = DemandPages
        BY KernelSlotRigid DEF DemandPages, DictIdx, TableIdx
    <2>4. Backing' = [s \in DemandPages |->
                IF Pte(s[1], s[2])'.present THEN Pte(s[1], s[2])'.addr ELSE NoFrame]
        BY <2>3 DEF Backing, NoFrame
    <2>5. DOMAIN Backing = DemandPages
        BY DEF Backing
    <2> HIDE DEF p, f
    <2>6. [Backing EXCEPT ![p] = f] = [s \in DemandPages |-> IF s = p THEN f ELSE Backing[s]]
        BY <1>5, <2>5 DEF Backing
    <2> QED BY <2>2, <2>4, <2>6
<1> HIDE DEF p, f
<1>7. Paging!Touch(p, f)
    BY <1>4, <1>5, <1>6 DEF Paging!Touch
<1> QED BY <1>2, <1>5, <1>7 DEF Paging!Next

\* The page tables and the frame stack implement demand paging: every frame
\* that page_fault_handler maps was free, backs one page, and stays there.
THEOREM DemandPagingImplemented == Spec => ImplementsDemandPaging
<1>1. Init => Paging!Init
    <2> SUFFICES ASSUME Init PROVE Paging!Init
        OBVIOUS
    <2>1. FreeFrames = {}
        BY DEF Init, PmmInit, FreeFrames, UsedSlots
    <2>2. \A d \in DictIdx, t \in TableIdx : ~Pte(d, t).present
        BY DEF Init, Pte, NotPresent
    <2>3. Backing = [s \in DemandPages |-> NoFrame]
        BY <2>2 DEF Backing, DemandPages
    <2> QED BY <2>1, <2>3 DEF Paging!Init
<1>2. IInv /\ [Next]_vars => [Paging!Next]_<<FreeFrames, Backing>>
    <2> SUFFICES ASSUME IInv, [Next]_vars
                 PROVE  [Paging!Next]_<<FreeFrames, Backing>>
        OBVIOUS
    <2>0. ASSUME UNCHANGED pmmVars, SameDemand PROVE UNCHANGED <<FreeFrames, Backing>>
        BY <2>0, SameBacking DEF pmmVars, FreeFrames, UsedSlots
    <2>1. CASE init_pmm /\ UNCHANGED <<vmmVars, kmap_i, paging>>
        BY <2>1, ScanFinds
    <2>2. CASE MapKernelPage
        BY <2>0, <2>2, KernelMapStep DEF MapKernelPage
    <2>3. CASE register_dictionary \/ UNCHANGED vars
        <3>1. UNCHANGED <<pmmVars, vmmVars, kmap_i>> /\ (paging' => kmap_i = KERNEL_MAP_PAGES)
            BY <2>3 DEF register_dictionary, vars, vmmVars, pmmVars, IInv, KernelInv
        <3> QED BY <3>1, <2>0, SameTables
    <2>4. ASSUME NEW v \in VPages, page_fault_handler(v)
          PROVE  [Paging!Next]_<<FreeFrames, Backing>>
        <3>1. CASE MapOnFault(v)
            BY <2>4, <3>1, MapOnFaultStep, FaultTouches
        <3>2. CASE OutOfFrames(v)
            BY <2>0, <2>4, <3>2, OutOfFramesStep
            DEF OutOfFrames, pmm_alloc_page_halts, page_fault_handler, pmmVars
        <3>3. CASE OutOfTables(v)
            <4>1. UNCHANGED <<pmmVars, vmmVars, kmap_i>> /\ (paging' => kmap_i = KERNEL_MAP_PAGES)
                BY <2>4, <3>3 DEF OutOfTables, page_fault_handler, pmmVars, IInv, KernelInv
            <4> QED BY <4>1, <2>0, SameTables
        <3> QED BY <2>4, <3>1, <3>2, <3>3 DEF page_fault_handler
    <2> QED BY <2>1, <2>2, <2>3, <2>4 DEF Next
<1> QED BY <1>1, <1>2, Invariance, PTL DEF Spec, ImplementsDemandPaging, Paging!Spec

================================================================================
