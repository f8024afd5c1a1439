SPECIFICATION Spec
CONSTANTS
    N = 3
    Blocks = {1, 2, 4, 7}
    Data <- BlockData
    Written = {4}
    Unreliable = {4}
    kSuperBlockBNO = 1
INVARIANTS
    TypeOK
    TableSound
    NoLostUpdate
CHECK_DEADLOCK FALSE
