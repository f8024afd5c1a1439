SPECIFICATION Spec
CONSTANTS
    Lines = {0, 1, 14}
    Keys = {30, 42, 54, 58}
    MaxThreads = 2
INVARIANTS
    TypeOK
    SchedulerReady
    ControllerFree
PROPERTIES
    CaseRight
    KeysRead
