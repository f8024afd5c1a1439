SPECIFICATION Spec
CONSTANTS
    HALF = 16
    kHeapStart = 4
    kHeapEnd = 30
    Sizes = {1, 6}
    Threads = {t1, t2}
    MaxLive = 3
    EndWords = {6, 1}
    MaxDamage = 3
INVARIANTS
    TypeOK
    HeapSound
    BlocksApart
CHECK_DEADLOCK FALSE
