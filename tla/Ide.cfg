SPECIFICATION Spec
CONSTANTS
    kMaxSectors = 2
    SECCNT = 4
    MAX_DISK_NSECS = 4
    U32 = 16
    Sizes = {1, 2, 3}
    MaxRequests = 2
INVARIANTS
    TypeOK
    InStep
    TransferRight
PROPERTY
    Terminates
CHECK_DEADLOCK FALSE
