SPECIFICATION ClientSpec
CONSTANTS
    MMap <- MCMMap
    HIGH_MEM = 1
    KERNEL_PAGES = 1
    PMM_PAGE_SIZE = 2
    PAGE_MAX_SIZE = 4
    U32_MAX = 7
    Words = {0, 3}
    Frames = {0, 2, 3, 4}
    MaxHeld = 2
INVARIANTS
    ClientTypeOK
    FramesInOnePlace
    StopsOnlyWhenOut
CHECK_DEADLOCK FALSE
