SPECIFICATION Spec
CONSTANTS
    Width = 8
    minheap = 64
    maxheap = 120
    vmin = 128
    vmax = 152
    Procs = {1, 2}
    Requests = {5, 16}
    VRequests = {8, 12}
    PoolRequests <- Pools
    NBPOOLS = 2
    NSEM = 1
    Loads <- Mixes
INVARIANTS HeapInv
PROPERTIES IsAllocator
CHECK_DEADLOCK FALSE
