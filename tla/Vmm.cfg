SPECIFICATION Spec
CONSTANTS
    MMap <- MCMMap
    HIGH_MEM = 1
    KERNEL_PAGES = 1
    PMM_PAGE_SIZE = 2
    PAGE_MAX_SIZE = 5
    U32_MAX = 15
    Words = {0, 2, 3}
    DICTIONARY_MAX_SIZE = 5
    TABLE_MAX_SIZE = 2
    TABLE_RESERVE = 4
    PAGE_OFFSET = 4
    RESERVE_PAGE = 5
    KERNEL_MAP_PAGES = 2
INVARIANTS
    TypeOK
    FramesExclusive
    TablesExclusive
    KernelMapped
    FramesConserved
    StopsWhenUsedUp
PROPERTIES
    TranslationStable
    ImplementsDemandPaging
CHECK_DEADLOCK FALSE
