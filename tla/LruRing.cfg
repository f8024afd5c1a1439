SPECIFICATION Spec
CONSTANTS
    N = 3
    Blocks = {1, 2, 4, 7}
    Data <- BlockData
    Written = {1}
    Unreliable = {}
    kSuperBlockBNO = 1
INVARIANT EveryBufferQueued
CHECK_DEADLOCK FALSE
