\* One-page heap ranges of two threads, with the page allocator called as kva.c
\* calls it.
SPECIFICATION Spec
CONSTANTS
    t1 = t1
    t2 = t2
    Threads <- TwoThreads
    TotalManagedPages = 2
    ManagedBasePhys = 0
    PageSize = 1
    AddressSpan = 8
    Counts = {1}
    Alignments = {1}
    MaxPhysAddrs = {0}
    StackPages = 0
    HeapPages = 2
    FixmapPages = 0
    MaxRanges = 2
    MaxGeneration = 2
    TokenGenerationMask = 1
    Shapes <- SinglePages
INVARIANTS
    TeardownNeverPanics
CHECK_DEADLOCK FALSE
