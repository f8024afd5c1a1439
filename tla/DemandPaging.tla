------------------------------ MODULE DemandPaging -----------------------------
(*****************************************************************************)
(* What page frames and page tables promise together: frames are found at    *)
(* boot; a page that is touched for the first time gets a frame that was     *)
(* free, and keeps it.                                                       *)
(*****************************************************************************)
CONSTANTS
    Pages,
    Frames,
    NoFrame

VARIABLES
    free,       \* frames that back no page
    backing     \* the frame of each page, or NoFrame

Init ==
    /\ free = {}
    /\ backing = [p \in Pages |-> NoFrame]

Find(f) ==
    /\ f \notin free /\ \A p \in Pages : backing[p] # f
    /\ free' = free \cup {f}
    /\ UNCHANGED backing

Touch(p, f) ==
    /\ backing[p] = NoFrame /\ f \in free
    /\ backing' = [backing EXCEPT ![p] = f]
    /\ free' = free \ {f}

Next ==
    \/ \E f \in Frames : Find(f)
    \/ \E p \in Pages, f \in Frames : Touch(p, f)

Spec == Init /\ [][Next]_<<free, backing>>

================================================================================
