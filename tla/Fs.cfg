SPECIFICATION Spec
CONSTANTS
    N = 7
    Blocks <- MCBlocks
    Data <- BlockData
    Image <- MCImage
    kPerBlock = 3
    kDirect = 1
    kByte = 6
    kNumInodes = 8
    Paths <- MCPaths
    EditPaths <- MCEditPaths
    MaxCalls = 3
INVARIANTS
    TypeOK
    PointersFresh
    ListedRight
    NameiRight
    Durable
