SPECIFICATION Spec
CONSTANTS
    Procs = {1, 2}
    Frames = {1, 2, 3, 4, 5, 6, 7, 8}
    MaxHeapSize = 6
    PageTabSize = 3
    NStores = 3
    PagesPerStore = 2
    RdPagesPerBs = 3
    DiskPages = 7
    Vals = {0, 1}
    PolicyTesting = TRUE
    Systems <- Pagers
INVARIANTS FrameInv DataIntact StoresDisjoint PanicsExplained HandlerExclusive
