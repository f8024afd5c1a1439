SPECIFICATION Spec
CONSTANTS
    HALF = 16
    kHeapStart = 4
    kHeapEnd = 30
    Sizes = {1, 4, 6}
    Threads = {t1}
    MaxLive = 3
    EndWords = {6, 1}
    MaxDamage = 3
INVARIANT HeaderTellsAllocated
CHECK_DEADLOCK FALSE
