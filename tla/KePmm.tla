------------------------------- MODULE KePmm --------------------------------
(***************************************************************************)
(* The physical page allocator (ke/pmm/bitmap_sink.c behind the facade     *)
(* ke/pmm/pmm_device.c).  A page is free, allocated or reserved; the       *)
(* counters are kept beside the bitmap and never recomputed.               *)
(*                                                                         *)
(* Nothing in the allocator excludes a second caller.  BitmapAllocPages    *)
(* first looks for free pages and then marks them, and a thread may be     *)
(* preempted in between unless its caller runs it inside a critical        *)
(* section, which docs/design/pmm.md:66 leaves to the callers.  The two    *)
(* halves are two actions here.  The history variable overlapped records   *)
(* that a call ran while another one stood between its halves: what the    *)
(* allocator promises, it promises up to then.  The byte that holds four   *)
(* page states and a counter are each written in one step.                 *)
(***************************************************************************)
EXTENDS Integers, FiniteSets, FiniteSetsExt

CONSTANTS
    Threads,            \* callers
    TotalManagedPages,  \* pages of the bitmap
    ManagedBasePhys,    \* address of page 0 of the bitmap
    PageSize,           \* PAGE_4KB, in the address unit of the instance
    AddressSpan,        \* 2^64: one more than the largest address
    Counts,             \* page counts the callers ask for
    Alignments,         \* AlignmentPages they ask for
    MaxPhysAddrs        \* MaxPhysAddr they ask for, 0 meaning none

ASSUME PmmAssumption ==
    /\ TotalManagedPages \in Nat \ {0}
    /\ ManagedBasePhys \in Nat
    /\ PageSize \in Nat \ {0}
    /\ AddressSpan \in Nat
    /\ ManagedBasePhys + TotalManagedPages * PageSize <= AddressSpan
    /\ Counts \subseteq Nat \ {0}
    /\ Alignments \subseteq Nat \ {0}
    /\ MaxPhysAddrs \subseteq 0 .. AddressSpan - 1

VARIABLES
    bitmap,         \* state of every page
    FreePages, AllocatedPages, ReservedPages,
    found,          \* found[t]: pages the scan of t chose, not yet marked
    held,           \* held[t]: pages t was given and has not given back
    overlapped      \* history: two calls of the allocator have overlapped

pmmVars == <<bitmap, FreePages, AllocatedPages, ReservedPages, found, held, overlapped>>

Page == 0 .. TotalManagedPages - 1

NoPage == -1

Run(base, count) == base .. base + count - 1

InState(s) == {p \in Page : bitmap[p] = s}

PmmInit ==
    /\ bitmap \in [Page -> {"free", "reserved"}]
    /\ FreePages = Cardinality(InState("free"))
    /\ AllocatedPages = 0
    /\ ReservedPages = Cardinality(InState("reserved"))
    /\ found = [t \in Threads |-> {}]
    /\ held = [t \in Threads |-> {}]
    /\ overlapped = FALSE

-----------------------------------------------------------------------------

\* The first page index beyond the reach of the constraint MaxPhysAddr.  The
\* "+ 1" is computed in 64 bits.
MaxPageIndex(maxPhysAddr) ==
    IF maxPhysAddr = 0 THEN TotalManagedPages
    ELSE IF maxPhysAddr < ManagedBasePhys THEN 0
    ELSE LET limit == ((maxPhysAddr - ManagedBasePhys + 1) % AddressSpan) \div PageSize
         IN  IF limit < TotalManagedPages THEN limit ELSE TotalManagedPages

\* Mutant: the scan continues one page too far.
ScanSkipsOne(count, align, limit) ==
    LET from[i \in 0 .. TotalManagedPages + align + 1] ==
            IF i + count > limit THEN NoPage
            ELSE IF i % align # 0 THEN from[i + align - (i % align)]
            ELSE LET busy == {p \in Run(i, count) : bitmap[p] # "free"}
                 IN  IF busy = {} THEN i ELSE from[Min(busy) + 2]
    IN  from[0]

\* The first-fit scan: step to the alignment, look at count pages, continue
\* after the first one that is not free.
Scan(count, align, limit) ==
    LET from[i \in 0 .. TotalManagedPages + align] ==
            IF i + count > limit THEN NoPage
            ELSE IF i % align # 0 THEN from[i + align - (i % align)]
            ELSE LET busy == {p \in Run(i, count) : bitmap[p] # "free"}
                 IN  IF busy = {} THEN i ELSE from[Min(busy) + 1]
    IN  from[0]

\* A call runs now: is another one between its two halves?
CallRuns == overlapped' = (overlapped \/ \E t \in Threads : found[t] # {})

\* First half of KePmmAllocPages: the search.  It fails without an effect
\* when it finds no run of pages.
KePmmAllocScan(t, count, align, maxPhysAddr) ==
    LET base == Scan(count, align, MaxPageIndex(maxPhysAddr)) IN
    /\ found[t] = {}
    /\ base # NoPage
    /\ CallRuns
    /\ found' = [found EXCEPT ![t] = Run(base, count)]
    /\ UNCHANGED <<bitmap, FreePages, AllocatedPages, ReservedPages, held>>

\* BitmapSetRange: the states are written without a look at the old ones.
BitmapSetRange(pages, s) ==
    bitmap' = [p \in Page |-> IF p \in pages THEN s ELSE bitmap[p]]

\* Second half: the pages are marked whatever their state is by now.
KePmmAllocMark(t) ==
    LET n == Cardinality(found[t]) IN
    /\ found[t] # {}
    /\ BitmapSetRange(found[t], "allocated")
    /\ FreePages' = FreePages - n
    /\ AllocatedPages' = AllocatedPages + n
    /\ held' = [held EXCEPT ![t] = @ \cup found[t]]
    /\ found' = [found EXCEPT ![t] = {}]
    /\ UNCHANGED <<ReservedPages, overlapped>>

\* BitmapFreePages accepts a run only when every page of it is allocated.
Freeable(pages) == pages \subseteq InState("allocated")

BitmapFreePages(pages) ==
    LET n == Cardinality(pages) IN
    /\ BitmapSetRange(pages, "free")
    /\ FreePages' = FreePages + n
    /\ AllocatedPages' = AllocatedPages - n
    /\ CallRuns
    /\ UNCHANGED ReservedPages

\* A caller gives back pages it was given.
KePmmFreePages(t, base, count) ==
    /\ Run(base, count) \subseteq held[t]
    /\ Freeable(Run(base, count))
    /\ BitmapFreePages(Run(base, count))
    /\ held' = [held EXCEPT ![t] = @ \ Run(base, count)]
    /\ UNCHANGED found

\* BitmapReservePages: pages that are all free leave the allocator for good.
KePmmReservePages(base, count) ==
    LET pages == Run(base, count) IN
    /\ pages \subseteq InState("free")
    /\ CallRuns
    /\ BitmapSetRange(pages, "reserved")
    /\ FreePages' = FreePages - count
    /\ ReservedPages' = ReservedPages + count
    /\ UNCHANGED <<AllocatedPages, found, held>>

-----------------------------------------------------------------------------

\* BitmapCheckInvariants succeeds in every state: the three counters agree
\* with the bitmap after any sequence of allocations of any length,
\* alignment and limit, of releases and of reservations.
BitmapCheckInvariants ==
    /\ FreePages = Cardinality(InState("free"))
    /\ AllocatedPages = Cardinality(InState("allocated"))
    /\ ReservedPages = Cardinality(InState("reserved"))

\* Physical addresses of the first and the last byte of a run.
FirstByte(base) == ManagedBasePhys + base * PageSize
LastByte(base, count) == ManagedBasePhys + (base + count) * PageSize - 1

\* A run that meets a request: free pages, physically aligned, below the limit.
Meets(base, count, align, maxPhysAddr) ==
    /\ Run(base, count) \subseteq InState("free")
    /\ FirstByte(base) % (align * PageSize) = 0
    /\ maxPhysAddr = 0 \/ LastByte(base, count) <= maxPhysAddr

\* The scan of BitmapAllocPages returns the lowest run of free pages that
\* meets the request and fails only when there is none, in every bitmap that
\* can arise (docs/design/pmm.md: first fit from low addresses).
ScanFindsLowestFit ==
    \A c \in Counts, a \in Alignments, m \in MaxPhysAddrs :
        LET fits == {b \in Page : Meets(b, c, a, m)} IN
        Scan(c, a, MaxPageIndex(m)) = IF fits = {} THEN NoPage ELSE Min(fits)
=============================================================================
