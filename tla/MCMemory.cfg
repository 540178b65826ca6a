\* Two threads build, fail and release stack and heap ranges, take pages of their
\* own and open a temporary map, with two records, until the generations run
\* out; the page allocator is called with no lock held, as kva.c does.
SPECIFICATION Spec
CONSTANTS
    t1 = t1
    t2 = t2
    Threads <- TwoThreads
    TotalManagedPages = 3
    ManagedBasePhys = 4
    PageSize = 2
    AddressSpan = 16
    Counts = {1, 2}
    Alignments = {1, 2}
    MaxPhysAddrs = {0, 3, 7, 8}
    StackPages = 2
    HeapPages = 2
    FixmapPages = 1
    MaxRanges = 2
    MaxGeneration = 3
    TokenGenerationMask = 2
    Shapes <- StackAndHeap
SYMMETRY Symmetry
CONSTRAINT UpToOverlap
INVARIANTS
    PhysicalPageHasOneOwner
    HandlesNameTheirRange
    MappedExactlyWhereUsable
    ScanFindsLowestFit
CHECK_DEADLOCK FALSE
