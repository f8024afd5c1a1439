SPECIFICATION Spec
CONSTANTS
    Stacks = {1, 2, 3}
    Main = main
    Null = null
    MaxCreate = 3
    Fit <- FirstFit
INVARIANTS
    TypeOK
    RingSoundForTwo
    RingUnlessRaced
    ExitsOwnTask
PROPERTIES
    MissesOnlyLast
    EveryoneRuns
    LeavesRing
CHECK_DEADLOCK FALSE
