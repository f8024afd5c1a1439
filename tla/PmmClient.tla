------------------------------- MODULE PmmClient -------------------------------
(*****************************************************************************)
(* Every way to use the interface of pmm.h once init_pmm has returned: any   *)
(* mix of pmm_alloc_page(), pmm_alloc_page(pma) and pmm_free_page(p), where  *)
(* the caller frees only what it was given.  Two history variables record    *)
(* what the callers hold.                                                    *)
(*****************************************************************************)
EXTENDS Pmm, FiniteSets

CONSTANTS
    Frames,     \* the frame numbers callers may name or be given
    MaxHeld     \* bound: how often one frame may be held at a time

VARIABLES
    held,       \* held[f]: how many callers believe they own frame f
    underflow   \* an allocation was served although no frame was free

clientVars == <<held, underflow>>
pmmClientVars == <<pmmVars, scanVars, halted, clientVars>>

ASSUME ClientAssumption ==
    /\ Words \subseteq Frames /\ Frames \subseteq Nat
    /\ FirstPage..PAGE_MAX_SIZE \subseteq Frames
    /\ MaxHeld \in Nat \ {0}

ClientInit ==
    /\ PmmInit
    /\ held = [f \in Frames |-> 0]
    /\ underflow = FALSE

Give(f) ==
    /\ held[f] < MaxHeld
    /\ held' = [held EXCEPT ![f] = @ + 1]
    /\ underflow' = (underflow \/ UsedSlots = {})

AllocAny ==
    \/ \E f \in Frames : pmm_alloc_page(f) /\ Give(f)
    \/ pmm_alloc_page_halts /\ UNCHANGED clientVars

AllocAt(pma) ==
    \/ pmm_alloc_page_at(pma, pma) /\ Give(pma)
    \/ pmm_alloc_page_at(pma, 0) /\ UNCHANGED clientVars

Free(f) ==
    /\ held[f] > 0
    /\ held' = [held EXCEPT ![f] = @ - 1]
    /\ pmm_free_page(f)
    /\ UNCHANGED underflow

Call ==
    /\ ~halted /\ PmmReady
    /\ \/ AllocAny
       \/ \E pma \in Frames \ {0} : AllocAt(pma)
       \/ \E f \in Frames : Free(f)
    /\ UNCHANGED <<phy_page_count, scanVars>>

ClientNext ==
    \/ init_pmm /\ UNCHANGED clientVars
    \/ Call

ClientSpec == ClientInit /\ [][ClientNext]_pmmClientVars

--------------------------------------------------------------------------------
ClientTypeOK ==
    /\ pmm_stack \in [Slots -> Frames \cup {0}]
    /\ pmm_stack_top \in 0..U32_MAX
    /\ phy_page_count \in 0..(PAGE_MAX_SIZE + 1)
    /\ mmap_entry \in 1..(Len(MMap) + 1)
    /\ page_addr \in Nat \cup {NoPage}
    /\ halted \in BOOLEAN
    /\ held \in [Frames -> 0..MaxHeld]
    /\ underflow \in BOOLEAN

BootFrames == FirstPage..(FirstPage + phy_page_count - 1)

\* As long as no allocation is served from an empty stack, each frame found
\* by init_pmm so far is in one place: with one caller or in one slot of the
\* stack, whatever mix of the two pmm_alloc_page functions and pmm_free_page
\* ran.
FramesInOnePlace ==
    ~underflow =>
        \A f \in Frames :
            held[f] + Cardinality({i \in UsedSlots : pmm_stack[i] = f})
                = IF f \in BootFrames THEN 1 ELSE 0

\* As long, the system stops only for want of a frame: the assert of
\* pmm_free_page that the stack has room never fails, neither in init_pmm nor
\* for a caller that frees what it was given.
StopsOnlyWhenOut == halted /\ ~underflow => Cardinality(UsedSlots) <= 1

================================================================================
