----------------------------- MODULE KePmmBoot ------------------------------
(***************************************************************************)
(* KePmmInitFromBootMemoryMap (ke/pmm/pmm_boot_init.c): the page bitmap is *)
(* built from the firmware's memory map, one action per step of the code.  *)
(* KernelBoot hands it the map and the ranges of the boot capsule.         *)
(* Addresses are bytes of a small space; sums wrap at AddressSpan.         *)
(***************************************************************************)
EXTENDS Integers, FiniteSets, FiniteSetsExt, Sequences, SequencesExt

CONSTANTS
    PageSize,           \* PAGE_4KB
    AddressSpan,        \* 2^64
    LowReservedPages    \* PMM_LOW_RESERVED_PAGES, the first megabyte

ASSUME BootAssumption ==
    /\ PageSize \in Nat \ {0}
    /\ AddressSpan % PageSize = 0
    /\ LowReservedPages \in Nat \ {0}

VARIABLES
    phase,      \* the step that is next, or how the call ended
    descs,      \* the descriptors
    boot,       \* ranges that the kernel still uses: image, stacks, tables...
    low, high,  \* managedLowest, managedHighest
    meta,       \* bitmapPhys
    bitmap,     \* state of every managed page
    FreePages, ReservedPages

pmmVars == <<phase, descs, boot, low, high, meta, bitmap, FreePages, ReservedPages>>

\* IS_RECLAIMABLE_MEMORY: conventional, loader and boot services memory.
IsReclaimable(d) == d.type = "ram"

PmmInit ==
    /\ phase = "off"
    /\ descs = <<>> /\ boot = {}
    /\ low = AddressSpan - 1 /\ high = 0
    /\ meta = 0
    /\ bitmap = <<>>
    /\ FreePages = 0 /\ ReservedPages = 0

\* The call, with the descriptors and the ranges the capsule names.
KePmmInitFromBootMemoryMap(map, ranges) ==
    /\ phase = "off"
    /\ phase' = "sort"
    /\ descs' = map
    /\ boot' = ranges
    /\ UNCHANGED <<low, high, meta, bitmap, FreePages, ReservedPages>>

\* start + pages * PAGE_4KB in 64 bits.
End(d) == (d.start + d.pages * PageSize) % AddressSpan

-----------------------------------------------------------------------------

\* The insertion sort moves a descriptor down past larger starts only, so that
\* of equal ones the earlier stays in front.
SortsBefore(i, j) == descs[i].start < descs[j].start \/ (descs[i].start = descs[j].start /\ i <= j)
Place(i) == Cardinality({j \in DOMAIN descs : SortsBefore(j, i)})

SortDescriptorsByPhysAddr ==
    /\ phase = "sort"
    /\ descs' = [k \in DOMAIN descs |-> descs[CHOOSE i \in DOMAIN descs : Place(i) = k]]
    /\ phase' = "validate"
    /\ UNCHANGED <<boot, low, high, meta, bitmap, FreePages, ReservedPages>>

\* What the loop demands of descriptor i: empty ones are skipped, the others
\* are aligned, do not wrap and begin after the end of the one before.
Acceptable(i) ==
    LET d == descs[i] IN
    d.pages = 0 \/
    /\ d.start % PageSize = 0
    /\ End(d) >= d.start
    /\ i > 1 => \/ descs[i - 1].pages = 0
                \/ d.start >= End(descs[i - 1])

Reclaimable == {i \in DOMAIN descs : descs[i].pages > 0 /\ IsReclaimable(descs[i])}

\* The managed range spans the reclaimable descriptors.
ManagedLowest == Min({descs[i].start : i \in Reclaimable})
ManagedHighest == Max({End(descs[i]) : i \in Reclaimable})

Accepted ==
    /\ \A i \in DOMAIN descs : Acceptable(i)
    /\ Reclaimable # {}
    /\ ManagedLowest < ManagedHighest

ValidateDescriptors ==
    /\ phase = "validate"
    /\ Accepted
    /\ low' = ManagedLowest
    /\ high' = ManagedHighest
    /\ phase' = "place"
    /\ UNCHANGED <<descs, boot, meta, bitmap, FreePages, ReservedPages>>

RejectMap ==
    /\ phase = "validate"
    /\ ~Accepted
    /\ phase' = "failed"
    /\ UNCHANGED <<descs, boot, low, high, meta, bitmap, FreePages, ReservedPages>>

TotalManagedPages == (high - low) \div PageSize
CeilDiv(a, b) == (a + b - 1) \div b

\* Two bits per page.
BitmapPages == CeilDiv(CeilDiv(TotalManagedPages, 4), PageSize)

Overlap(aStart, aEnd, bStart, bEnd) == aStart < bEnd /\ bStart < aEnd

\* A boot range blocks a candidate it overlaps, or every one when it wraps.
Blocks(r, from, to) == r.pages # 0 /\ (End(r) < r.start \/ Overlap(from, to, r.start, End(r)))

\* Addresses inside descriptor i where the bitmap may go: above the low
\* window, inside the descriptor, clear of what the boot left behind.
Candidates(i) ==
    LET size == BitmapPages * PageSize IN
    {a \in descs[i].start .. End(descs[i]) - size :
        /\ a % PageSize = 0
        /\ a >= LowReservedPages * PageSize
        /\ \A r \in boot : ~Blocks(r, a, a + size)}

Hosts == {i \in Reclaimable : Candidates(i) # {}}

\* The first descriptor with room takes the bitmap, at its lowest candidate.
PlaceBitmap ==
    /\ phase = "place"
    /\ Hosts # {}
    /\ meta' = Min(Candidates(Min(Hosts)))
    /\ phase' = "mark"
    /\ UNCHANGED <<descs, boot, low, high, bitmap, FreePages, ReservedPages>>

NoRoomForBitmap ==
    /\ phase = "place"
    /\ Hosts = {}
    /\ phase' = "failed"
    /\ UNCHANGED <<descs, boot, low, high, meta, bitmap, FreePages, ReservedPages>>

Managed == 0 .. TotalManagedPages - 1

\* Managed pages of the byte range from .. to - 1, clipped.
PagesOf(from, to) == {p \in Managed : from <= low + p * PageSize /\ low + p * PageSize < to}

\* Everything is reserved, then the reclaimable descriptors are freed and
\* counted one after the other.
MarkReclaimable ==
    LET freed == UNION {PagesOf(descs[i].start, End(descs[i])) : i \in Reclaimable}
        size(i) == Cardinality(PagesOf(descs[i].start, End(descs[i])))
        n == MapThenSumSet(size, Reclaimable)
    IN  /\ phase = "mark"
        /\ bitmap' = [p \in Managed |-> IF p \in freed THEN "free" ELSE "reserved"]
        /\ FreePages' = n
        /\ ReservedPages' = (TotalManagedPages - n) % AddressSpan
        /\ phase' = "reserve"
        /\ UNCHANGED <<descs, boot, low, high, meta>>

\* Mutant: the bitmap does not reserve its own pages.
BootOwnedWithoutBitmap ==
    PagesOf(0, LowReservedPages * PageSize)
      \cup PagesOf(0, PageSize)
      \cup UNION {PagesOf(r.start, End(r)) : r \in boot}

\* The ranges of steps 6 to 9, as byte ranges: the bitmap itself, the low
\* window with page 0, and what the capsule names.
BootOwned ==
    PagesOf(meta, meta + BitmapPages * PageSize)
      \cup PagesOf(0, LowReservedPages * PageSize)
      \cup PagesOf(0, PageSize)
      \cup UNION {PagesOf(r.start, End(r)) : r \in boot}

\* ReserveBootRange takes a page only while it is free, so that ranges may
\* overlap one another and reserved memory.
ReserveBootRanges ==
    LET taken == {p \in BootOwned : bitmap[p] = "free"} IN
    /\ phase = "reserve"
    /\ bitmap' = [p \in Managed |-> IF p \in taken THEN "reserved" ELSE bitmap[p]]
    /\ FreePages' = FreePages - Cardinality(taken)
    /\ ReservedPages' = (ReservedPages + Cardinality(taken)) % AddressSpan
    /\ phase' = "ready"
    /\ UNCHANGED <<descs, boot, low, high, meta>>

PmmStep ==
    \/ SortDescriptorsByPhysAddr
    \/ ValidateDescriptors
    \/ RejectMap
    \/ PlaceBitmap
    \/ NoRoomForBitmap
    \/ MarkReclaimable
    \/ ReserveBootRanges

-----------------------------------------------------------------------------

\* Bytes of a descriptor or boot range, without wrapping.
Bytes(d) == d.start .. d.start + d.pages * PageSize - 1

PageBytes(p) == low + p * PageSize .. low + (p + 1) * PageSize - 1

\* The pages the allocator starts with are exactly the ones nobody uses: a
\* page may be handed out if and only if a reclaimable descriptor contains it and it
\* lies outside the low window, the bitmap and every range of the capsule.
\* (Of overlapping descriptors that pass the checks, the reclaimable one counts.)
FreeMemoryIsExactlyUsable ==
    phase = "ready" =>
        \A p \in Managed :
            bitmap[p] # "reserved" <=>
                /\ \E i \in DOMAIN descs : IsReclaimable(descs[i]) /\ PageBytes(p) \subseteq Bytes(descs[i])
                /\ \A b \in PageBytes(p) :
                      /\ b >= LowReservedPages * PageSize
                      /\ b \notin meta .. meta + BitmapPages * PageSize - 1
                      /\ \A r \in boot : b \notin Bytes(r)
=============================================================================
