CONSTANTS
    MEMPOOL_NUM_MEMBLOCKS = 3
    MEMPOOL_SIZE = 4
    Bytes = {"x"}
SPECIFICATION MemSpec
INVARIANT
    MemInv
PROPERTY
    ImplementsPool
