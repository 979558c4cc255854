\* Two calls; blocks of more than 112 bytes are large, a chunk has room for five small ones.
SPECIFICATION Spec
CONSTANTS
    t1 = t1  t2 = t2
    Hosts = {t1, t2}
    PoolMax = 112
    ChunkBytes = 256
    Mallocs = {1, 2, 3, 4, 5, 6, 7}
    ScopedSet = {TRUE, FALSE}
    Lens = {4, 56}
    LitLens = {1}
    StoreSizes = {8, 128}
    StoreCaps = {128, 256, 512, 1024}
    ReadAllCap = 128
    Exporting = TRUE
    MaxValues = 2
    MaxOps = 4
    MaxCalls = 2
INVARIANTS
    NoBlockTwice
    HeldIsAllocated
    ScopedKeepsNothing
    FreshStoreIsZero
CHECK_DEADLOCK FALSE
