\* Twenty-one pages of four bytes; a kernel of two pages, stacks of one.
SPECIFICATION Spec
CONSTANTS
    Machines <- MCMachines
    PhysPages = 21
    Unit = 4
    PageSize = 4
    AddressSpan = 84
    LowReservedPages = 1
    LargePages = 2
    IdentityPages = 16
    VirtualBase <- Windows
    HandoffPages = 1
    StackPages = 1
    PoolPages = 1
    PoolTables = 24
    FixedBudget = 10
    SlackEntries = 8
    MapPages = 1
    RawSpan = 2
    MaxTicks = 3
    MaxInterrupts = 2
    TrueFreq = 5
    Disturbed = {3, 9}
    MaxCount = 2
INVARIANTS
    ManifestMatchesTables
    ProbeIsSpare
    FreeMemoryIsSafeToUse
    FreeMemoryIsExactlyUsable
    UptimeIsTrue
    ClockEventIsQuiet
CHECK_DEADLOCK FALSE
