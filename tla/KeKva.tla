------------------------------- MODULE KeKva --------------------------------
(***************************************************************************)
(* Kernel virtual addresses (ke/mm/kva.c) on top of the physical page      *)
(* allocator: ranges with guard pages in the stack and the heap arena,     *)
(* one-page temporary maps in the fixmap arena, and the pages behind them. *)
(*                                                                         *)
(* Every critical section of kva.c is one action.  KeKvaMapOwnedPages is   *)
(* many: it works page by page, calls the page allocator with no lock      *)
(* held, and undoes the whole range when one page fails.  The page tables  *)
(* are external here: KePtMapPage may fail, KePtUnmapPage does not.        *)
(*                                                                         *)
(* live and stale are the range handles that some part of the kernel holds *)
(* for a range it owns, and copies that outlived their range; likewise for *)
(* the tokens of temporary maps.                                           *)
(***************************************************************************)
EXTENDS KePmm

CONSTANTS
    StackPages, HeapPages, FixmapPages, \* pages of the three arenas
    MaxRanges,                          \* KE_KVA_MAX_RANGES
    MaxGeneration,                      \* 2^64 - 1, the last range generation
    TokenGenerationMask,                \* 2^58 - 1, the last slot generation
    Shapes                              \* ranges the callers ask for

VARIABLES
    pageStates,         \* KE_KVA_PAGE_STATE_* of every page of every arena
    ranges,             \* gKvaRanges
    rangeGeneration,    \* gKvaRangeGenerationCounter, 0 when exhausted
    slotGenerations,    \* gFixmapSlotGenerations
    pt,                 \* what the kernel page table maps at every page
    pc, range, index,   \* a thread inside KeKvaMapOwnedPages: the step, the
                        \* handle it was called with and pageIdx
    live, stale,        \* range handles
    tokens, staleTokens,\* temporary map handles
    panicked            \* HO_KPANIC was called

kvaVars == <<pageStates, ranges, rangeGeneration, slotGenerations, pt,
             live, stale, tokens, staleTokens, panicked>>
threadVars == <<pc, range, index>>
vars == <<pmmVars, kvaVars, threadVars>>

Arena == {"stack", "heap", "fixmap"}

PageCount(a) == CASE a = "stack"  -> StackPages
                  [] a = "heap"   -> HeapPages
                  [] a = "fixmap" -> FixmapPages

Record == 1 .. MaxRanges
NoRange == [arena |-> "none"]
NotPresent == -1
Alias == -2         \* a page that belongs to the caller of KeFixmapAcquire

Total(r) == r.lower + r.usable + r.upper
Covered(r) == r.base .. r.base + Total(r) - 1
UsableBase(r) == r.base + r.lower
Usable(r) == UsableBase(r) .. UsableBase(r) + r.usable - 1

InUse(i) == ranges[i] # NoRange

\* KiKvaFillRangeFromRecord: the handle repeats the record and names it.
Handle(i, r) == [id |-> i, range |-> r]

ASSUME KvaAssumption ==
    /\ StackPages \in Nat /\ HeapPages \in Nat /\ FixmapPages \in Nat
    /\ MaxRanges \in Nat
    /\ MaxGeneration \in Nat \ {0}
    /\ TokenGenerationMask \in Nat \ {0}
    /\ \A s \in Shapes : /\ s.arena \in {"stack", "heap"}
                         /\ s.usable \in Nat \ {0}
                         /\ s.lower \in Nat /\ s.upper \in Nat

\* KeKvaInit, with every arena unmapped.
Init ==
    /\ PmmInit
    /\ pageStates = [a \in Arena |-> [p \in 0 .. PageCount(a) - 1 |-> "free"]]
    /\ ranges = [i \in Record |-> NoRange]
    /\ rangeGeneration = 1
    /\ slotGenerations = [s \in 0 .. FixmapPages - 1 |-> 0]
    /\ pt = [a \in Arena |-> [p \in 0 .. PageCount(a) - 1 |-> NotPresent]]
    /\ pc = [t \in Threads |-> "run"]
    /\ range = [t \in Threads |-> NoRange]
    /\ index = [t \in Threads |-> 0]
    /\ live = {} /\ stale = {}
    /\ tokens = {} /\ staleTokens = {}
    /\ panicked = FALSE

-----------------------------------------------------------------------------
(* The records *)

\* Thread t is at step l of a machine that has not stopped.
At(t, l) == ~panicked /\ pc[t] = l

FreeRecords == {i \in Record : ~InUse(i)}

\* Base pages at which an arena has n free pages in a row.
Fits(a, n) == {b \in 0 .. PageCount(a) - n :
                  \A p \in b .. b + n - 1 : pageStates[a][p] = "free"}

\* The generation after g; the counter stops at 0 instead of wrapping.
NextRangeGeneration(g) == IF g = MaxGeneration THEN 0 ELSE g + 1

\* Mutant: the handle's generation is not compared.
FindRecordAnyGeneration(h) ==
    InUse(h.id) /\ [h.range EXCEPT !.generation = 0] = [ranges[h.id] EXCEPT !.generation = 0]

\* KiKvaFindRecordById: the handle must agree with the record it names in
\* arena, generation and extent.
FindRecordById(h) == InUse(h.id) /\ h.range = ranges[h.id]

\* KiKvaFindRecordByUsableBase
FindRecordByUsableBase(a, p) ==
    {i \in Record : InUse(i) /\ ranges[i].arena = a /\ UsableBase(ranges[i]) = p}

FixmapSlotRetired(s) == slotGenerations[s] >= TokenGenerationMask

Mapped(r) == {p \in Usable(r) : pt[r.arena][p] # NotPresent}

\* KiKvaReleaseRecord, always inside a critical section: every mapped page is
\* unmapped and, when the range owns its pages, given back; then the pages
\* of the range and the record become free.  A page the allocator does not
\* take back stops the machine.
KiKvaReleaseRecord(i) ==
    LET r == ranges[i]
        a == r.arena
        phys == IF r.owns THEN {pt[a][p] : p \in Mapped(r)} ELSE {}
        released == IF a = "fixmap" /\ Total(r) = 1 /\ FixmapSlotRetired(r.base)
                    THEN "retired" ELSE "free"
    IN  IF Freeable(phys)
        THEN /\ BitmapFreePages(phys)
             /\ pt' = [pt EXCEPT ![a] = [p \in DOMAIN @ |-> IF p \in Usable(r) THEN NotPresent ELSE @[p]]]
             /\ pageStates' = [pageStates EXCEPT ![a] =
                    [p \in DOMAIN @ |-> IF p \in Covered(r) THEN released ELSE @[p]]]
             /\ ranges' = [ranges EXCEPT ![i] = NoRange]
             /\ UNCHANGED panicked
        ELSE /\ panicked' = TRUE
             /\ UNCHANGED <<bitmap, FreePages, AllocatedPages, ReservedPages,
                            overlapped, pt, pageStates, ranges>>

-----------------------------------------------------------------------------
(* Ranges with their own pages *)

\* The pages of a range become guard pages and allocated pages.
Claim(a, r) ==
    pageStates' = [pageStates EXCEPT ![a] =
        [p \in DOMAIN @ |-> IF p \in Usable(r) THEN "alloc"
                            ELSE IF p \in Covered(r) THEN "guard" ELSE @[p]]]

\* KeKvaAllocRange by a caller that goes on to KeKvaMapOwnedPages
\* (KiThreadCreateInternal for a stack, KeHeapAllocPages for the heap).  It
\* fails without an effect when no record, no run of pages or no generation
\* is left.
KeKvaAllocRange(t, shape) ==
    LET a == shape.arena
        n == shape.lower + shape.usable + shape.upper
        i == Min(FreeRecords)
        r == [arena |-> a, generation |-> rangeGeneration, base |-> Min(Fits(a, n)),
              lower |-> shape.lower, usable |-> shape.usable, upper |-> shape.upper,
              owns |-> TRUE]
    IN  /\ At(t, "run")
        /\ FreeRecords # {}
        /\ Fits(a, n) # {}
        /\ rangeGeneration # 0
        /\ rangeGeneration' = NextRangeGeneration(rangeGeneration)
        /\ Claim(a, r)
        /\ ranges' = [ranges EXCEPT ![i] = r]
        /\ range' = [range EXCEPT ![t] = Handle(i, r)]
        /\ pc' = [pc EXCEPT ![t] = "check"]
        /\ UNCHANGED <<pmmVars, slotGenerations, pt, index, live, stale, tokens,
                       staleTokens, panicked>>

\* KeKvaMapOwnedPages up to its loop.
KeKvaMapOwnedPages(t) ==
    /\ At(t, "check")
    /\ FindRecordById(range[t]) /\ ranges[range[t].id].owns
    /\ pc' = [pc EXCEPT ![t] = "alloc"]
    /\ index' = [index EXCEPT ![t] = 0]
    /\ UNCHANGED <<pmmVars, kvaVars, range>>

\* KePmmAllocPages of one page, in its two halves, with no lock held.
AllocOwnedPage(t) ==
    /\ At(t, "alloc")
    /\ KePmmAllocScan(t, 1, 1, 0)
    /\ pc' = [pc EXCEPT ![t] = "mark"]
    /\ UNCHANGED <<kvaVars, range, index>>

MarkOwnedPage(t) ==
    /\ At(t, "mark")
    /\ KePmmAllocMark(t)
    /\ pc' = [pc EXCEPT ![t] = "map"]
    /\ UNCHANGED <<kvaVars, range, index>>

NoPageLeft(t) ==
    /\ At(t, "alloc")
    /\ Scan(1, 1, TotalManagedPages) = NoPage
    /\ pc' = [pc EXCEPT ![t] = "undo"]
    /\ UNCHANGED <<pmmVars, kvaVars, range, index>>

\* Mutant: pages are mapped from the lower guard page on.
AddressFromBase(t) == range[t].range.base + index[t]

VirtAddr(t) == UsableBase(range[t].range) + index[t]
PhysAddr(t) == CHOOSE p \in held[t] : TRUE

\* KeKvaMapPage, when KePtMapPage succeeds.  After the last page the range
\* belongs to the caller.
KeKvaMapPage(t) ==
    LET r == range[t].range
        last == index[t] + 1 = r.usable
    IN  /\ At(t, "map")
        /\ FindRecordById(range[t])
        /\ index[t] < r.usable
        /\ pt[r.arena][VirtAddr(t)] = NotPresent
        /\ pt' = [pt EXCEPT ![r.arena][VirtAddr(t)] = PhysAddr(t)]
        /\ held' = [held EXCEPT ![t] = @ \ {PhysAddr(t)}]
        /\ index' = [index EXCEPT ![t] = IF last THEN 0 ELSE @ + 1]
        /\ pc' = [pc EXCEPT ![t] = IF last THEN "run" ELSE "alloc"]
        /\ range' = [range EXCEPT ![t] = IF last THEN NoRange ELSE @]
        /\ live' = IF last THEN live \cup {range[t]} ELSE live
        /\ UNCHANGED <<bitmap, FreePages, AllocatedPages, ReservedPages, found,
                       overlapped, pageStates, ranges, rangeGeneration, slotGenerations,
                       stale, tokens, staleTokens, panicked>>

\* KeKvaMapPage fails: no page for a page table, or the page is mapped.
MapPageFails(t) ==
    /\ At(t, "map")
    /\ pc' = [pc EXCEPT ![t] = "give back"]
    /\ UNCHANGED <<pmmVars, kvaVars, range, index>>

\* Mutant: the page in hand is forgotten.
ForgetPage(t) ==
    /\ At(t, "give back")
    /\ held' = [held EXCEPT ![t] = {}]
    /\ pc' = [pc EXCEPT ![t] = "undo"]
    /\ UNCHANGED <<bitmap, FreePages, AllocatedPages, ReservedPages, found,
                   overlapped, kvaVars, range, index>>

\* The page in hand goes back, whatever KePmmFreePages answers.
GiveBackPage(t) ==
    /\ At(t, "give back")
    /\ IF Freeable(held[t]) THEN BitmapFreePages(held[t])
       ELSE UNCHANGED <<bitmap, FreePages, AllocatedPages, ReservedPages, overlapped>>
    /\ held' = [held EXCEPT ![t] = {}]
    /\ pc' = [pc EXCEPT ![t] = "undo"]
    /\ UNCHANGED <<found, kvaVars, range, index>>

\* The range and the pages mapped so far are released.
UndoRange(t) ==
    /\ At(t, "undo")
    /\ FindRecordById(range[t])
    /\ KiKvaReleaseRecord(range[t].id)
    /\ stale' = stale \cup {range[t]}
    /\ pc' = [pc EXCEPT ![t] = "run"]
    /\ range' = [range EXCEPT ![t] = NoRange]
    /\ index' = [index EXCEPT ![t] = 0]
    /\ UNCHANGED <<found, held, rangeGeneration, slotGenerations, live, tokens, staleTokens>>

-----------------------------------------------------------------------------
(* Pages without a range *)

\* A thread that holds no page asks the allocator itself, for pages in a row at
\* an alignment and under a limit (InitKernel, the page tables), ...
KePmmAllocPages(t) ==
    /\ At(t, "run")
    /\ \E c \in Counts, a \in Alignments, m \in MaxPhysAddrs : KePmmAllocScan(t, c, a, m)
    /\ pc' = [pc EXCEPT ![t] = "take"]
    /\ UNCHANGED <<kvaVars, range, index>>

TakePages(t) ==
    /\ At(t, "take")
    /\ KePmmAllocMark(t)
    /\ pc' = [pc EXCEPT ![t] = "use"]
    /\ UNCHANGED <<kvaVars, range, index>>

\* ... and gives them back.
FreeTakenPages(t) ==
    /\ At(t, "use")
    /\ KePmmFreePages(t, Min(held[t]), Cardinality(held[t]))
    /\ pc' = [pc EXCEPT ![t] = "run"]
    /\ UNCHANGED <<kvaVars, range, index>>

ReservePages ==
    /\ ~panicked
    /\ \E b \in Page, c \in Counts : KePmmReservePages(b, c)
    /\ UNCHANGED <<kvaVars, threadVars>>

-----------------------------------------------------------------------------

\* KeKvaReleaseRangeHandle, with the handle of a range or with a copy that
\* outlived it.
KeKvaReleaseRangeHandle(h) ==
    /\ ~panicked
    /\ FindRecordById(h)
    /\ KiKvaReleaseRecord(h.id)
    /\ live' = live \ {h}
    /\ stale' = stale \cup {h}
    /\ UNCHANGED <<found, held, rangeGeneration, slotGenerations, tokens,
                   staleTokens, threadVars>>

\* KeHeapFreePages: KeKvaReleaseRange by the address of a heap range.
KeHeapFreePages(h) ==
    LET i == Min(FindRecordByUsableBase("heap", UsableBase(h.range))) IN
    /\ ~panicked
    /\ h.range.arena = "heap"
    /\ FindRecordByUsableBase("heap", UsableBase(h.range)) # {}
    /\ KiKvaReleaseRecord(i)
    /\ live' = live \ {h}
    /\ stale' = stale \cup {h}
    /\ UNCHANGED <<found, held, rangeGeneration, slotGenerations, tokens,
                   staleTokens, threadVars>>

-----------------------------------------------------------------------------
(* Temporary maps *)

Slot == 0 .. FixmapPages - 1
FreeSlots == {s \in Slot : pageStates["fixmap"][s] = "free"}
OpenSlots == {s \in FreeSlots : ~FixmapSlotRetired(s)}

\* The loop of KeFixmapAcquire retires the exhausted slots it passes.
Passed == {s \in FreeSlots \ OpenSlots : OpenSlots = {} \/ s < Min(OpenSlots)}

SetSlots(taken) ==
    pageStates' = [pageStates EXCEPT !["fixmap"] =
        [s \in Slot |-> IF s \in Passed THEN "retired" ELSE IF s \in taken THEN "alloc" ELSE @[s]]]

\* KeFixmapAcquire maps the lowest usable slot under the slot's next
\* generation.
KeFixmapAcquire ==
    LET s == Min(OpenSlots)
        g == slotGenerations[s] + 1
        r == [arena |-> "fixmap", generation |-> g, base |-> s,
              lower |-> 0, usable |-> 1, upper |-> 0, owns |-> FALSE]
    IN  /\ ~panicked
        /\ FreeRecords # {}
        /\ OpenSlots # {}
        /\ slotGenerations' = [slotGenerations EXCEPT ![s] = g]
        /\ SetSlots({s})
        /\ ranges' = [ranges EXCEPT ![Min(FreeRecords)] = r]
        /\ pt' = [pt EXCEPT !["fixmap"][s] = Alias]
        /\ tokens' = tokens \cup {[slot |-> s, generation |-> g]}
        /\ UNCHANGED <<pmmVars, rangeGeneration, live, stale, staleTokens, panicked, threadVars>>

\* KePtMapPage fails: the slot and the record are free again, the generation
\* is spent.
FixmapAcquireFails ==
    LET s == Min(OpenSlots) IN
    /\ ~panicked
    /\ FreeRecords # {}
    /\ OpenSlots # {}
    /\ slotGenerations' = [slotGenerations EXCEPT ![s] = @ + 1]
    /\ SetSlots({})
    /\ UNCHANGED <<pmmVars, ranges, pt, rangeGeneration, live, stale, tokens,
                   staleTokens, panicked, threadVars>>

\* No slot is usable: the call fails, but what it passed stays retired.
FixmapExhausted ==
    /\ ~panicked
    /\ FreeRecords # {}
    /\ OpenSlots = {} /\ Passed # {}
    /\ SetSlots({})
    /\ UNCHANGED <<pmmVars, ranges, pt, slotGenerations, rangeGeneration, live,
                   stale, tokens, staleTokens, panicked, threadVars>>

\* KeTempPhysMapRelease, with a token or with a copy that outlived its map.
KeTempPhysMapRelease(k) ==
    LET owners == FindRecordByUsableBase("fixmap", k.slot) IN
    /\ ~panicked
    /\ owners # {}
    /\ slotGenerations[k.slot] = k.generation
    /\ KiKvaReleaseRecord(Min(owners))
    /\ tokens' = tokens \ {k}
    /\ staleTokens' = staleTokens \cup {k}
    /\ UNCHANGED <<found, held, rangeGeneration, slotGenerations, live, stale, threadVars>>

Next ==
    \/ \E t \in Threads, shape \in Shapes : KeKvaAllocRange(t, shape)
    \/ \E t \in Threads :
          \/ KeKvaMapOwnedPages(t)
          \/ AllocOwnedPage(t)
          \/ MarkOwnedPage(t)
          \/ NoPageLeft(t)
          \/ KeKvaMapPage(t)
          \/ MapPageFails(t)
          \/ GiveBackPage(t)
          \/ UndoRange(t)
          \/ KePmmAllocPages(t)
          \/ TakePages(t)
          \/ FreeTakenPages(t)
    \/ ReservePages
    \/ \E h \in live \cup stale : KeKvaReleaseRangeHandle(h)
    \/ \E h \in live : KeHeapFreePages(h)
    \/ KeFixmapAcquire
    \/ FixmapAcquireFails
    \/ FixmapExhausted
    \/ \E k \in tokens \cup staleTokens : KeTempPhysMapRelease(k)

Spec == Init /\ [][Next]_vars

-----------------------------------------------------------------------------

\* Records of one arena that cover page p.
Owners(a, p) == {i \in Record : InUse(i) /\ ranges[i].arena = a /\ p \in Covered(ranges[i])}

\* The page states that KeKvaAllocRange searches and the records that
\* KiKvaReleaseRecord works from are two descriptions of the same layout:
\* ranges never overlap, a page is "alloc" or "guard" exactly as its range
\* says, and pages of no range are free or, in the fixmap arena, retired
\* with their generations used up.
ArenasMatchRecords ==
    \A a \in Arena : \A p \in 0 .. PageCount(a) - 1 :
        \/ /\ Owners(a, p) = {}
           /\ \/ pageStates[a][p] = "free"
              \/ pageStates[a][p] = "retired" /\ a = "fixmap" /\ FixmapSlotRetired(p)
        \/ \E i \in Record :
              /\ Owners(a, p) = {i}
              /\ pageStates[a][p] = IF p \in Usable(ranges[i]) THEN "alloc" ELSE "guard"

\* The two descriptions agree, and so does the page table: guard pages, free
\* pages and retired slots fault; a range that a caller
\* holds is mapped on every usable page, whatever failed and was undone
\* around it.
MappedExactlyWhereUsable ==
    /\ ArenasMatchRecords
    /\ \A a \in Arena : \A p \in 0 .. PageCount(a) - 1 :
          pt[a][p] # NotPresent => pageStates[a][p] = "alloc"
    /\ \A h \in live : Mapped(h.range) = Usable(h.range)
    /\ \A k \in tokens : pt["fixmap"][k.slot] = Alias

\* The handle of a range, in a caller's hands or in KeKvaMapOwnedPages, names
\* that range until its holder releases it, and a copy that outlived its
\* range never names another one: generations are not used twice, not even
\* when the counter runs out.  The same for the tokens of temporary maps,
\* which name a slot and its generation.  (A stopped machine owes nothing.)
HandlesNameTheirRange == panicked \/
    /\ \A h \in live : FindRecordById(h)
    /\ \A t \in Threads : range[t] # NoRange => FindRecordById(range[t])
    /\ \A h \in stale : ~FindRecordById(h)
    /\ \A k \in tokens : /\ FindRecordByUsableBase("fixmap", k.slot) # {}
                         /\ slotGenerations[k.slot] = k.generation
    /\ \A k \in staleTokens : /\ k \notin tokens
                              /\ slotGenerations[k.slot] = k.generation
                                    => FindRecordByUsableBase("fixmap", k.slot) = {}

\* Places of arenas with their own pages.
OwnedPlaces == UNION {{<<a, p>> : p \in {q \in DOMAIN pt[a] : pt[a][q] # NotPresent}} :
                          a \in {"stack", "heap"}}

\* The tear-down of a range never finds a page the allocator refuses to take
\* back (HO_KPANIC at kva.c:352).
TeardownNeverPanics == ~panicked

\* Until two calls of the page allocator overlap, every allocated page is
\* mapped at one place or in the hands of one
\* thread: none is lost when a range fails half-way and none is shared
\* (docs/design/pmm.md:61: an allocation only takes a free page); and the
\* counters that are kept beside the bitmap agree with it.  So the tear-down of
\* a range never finds a page gone.
PhysicalPageHasOneOwner == overlapped \/
    /\ TeardownNeverPanics
    /\ BitmapCheckInvariants
    /\ \A x, y \in OwnedPlaces : pt[x[1]][x[2]] = pt[y[1]][y[2]] => x = y
    /\ \A x \in OwnedPlaces, t \in Threads : pt[x[1]][x[2]] \notin held[t] \cup found[t]
    /\ \A t, u \in Threads : t # u => (held[t] \cup found[t]) \cap (held[u] \cup found[u]) = {}
    /\ InState("allocated") = {pt[x[1]][x[2]] : x \in OwnedPlaces} \cup UNION {held[t] : t \in Threads}

=============================================================================
