----------------------------- MODULE KernelBoot -----------------------------
(***************************************************************************)
(* From power-on to a kernel that owns its memory: the boot loader         *)
(* (BootLoader), the checks that InitKernel makes of what it was handed    *)
(* (init/hhdm.c), the page allocator built from the firmware's map         *)
(* (KePmmBoot), the import of the manifest (KeImportKernelAddressSpace)    *)
(* and the time source and clock event device (KeTime).                    *)
(* A descriptor counts bytes, Unit = PageSize of them to a page.           *)
(***************************************************************************)
EXTENDS BootLoader, KePmmBoot, KeTime

\* Loader and kernel have the same pages and the same physical addresses.
ASSUME KernelBootAssumption == Unit = PageSize /\ AddressSpan = PhysPages * Unit

VARIABLES
    init,       \* the step of InitKernel that is next, "up" or "panic"
    probe,      \* page that VerifyHhdm wrote to, or -1
    regions     \* imported regions of the kernel address space

vars == <<loaderVars, pmmVars, timeVars, init, probe, regions>>

Init ==
    /\ LoaderInit
    /\ PmmInit
    /\ TimeInit
    /\ init = "validate"
    /\ probe = -1
    /\ regions = <<>>

Load ==
    /\ LoaderStep
    /\ UNCHANGED <<pmmVars, timeVars, init, probe, regions>>

\* ValidateBootMappingManifestEntry and the geometry of the manifest.
EntryIsValid(e) ==
    /\ e.pages # 0
    /\ e.at + e.pages < PhysPages

ValidateBootMappingManifest ==
    /\ stage = "kernel" /\ init = "validate"
    /\ init' = IF /\ Len(manifest) <= capacity
                  /\ \A i \in DOMAIN manifest : EntryIsValid(manifest[i])
               THEN "probe" ELSE "panic"
    /\ UNCHANGED <<loaderVars, pmmVars, timeVars, probe, regions>>

\* Mutant: the two ranges are not sorted.
ExcludedUnsorted ==
    <<[first |-> capsule.base, end |-> capsule.base + CapsulePages],
      [first |-> Min(held["pool"]), end |-> Min(held["pool"]) + PoolPages]>>

\* The capsule and the page tables, the lower one first.
Excluded ==
    LET c == [first |-> capsule.base, end |-> capsule.base + CapsulePages]
        p == [first |-> Min(held["pool"]), end |-> Min(held["pool"]) + PoolPages]
    IN  IF p.first < c.first THEN <<p, c>> ELSE <<c, p>>

\* FindFirstSafeProbePage: a page of the descriptor before, between or behind
\* the excluded ranges; the end of the descriptor when there is none.
FindFirstSafeProbePage(d) ==
    LET start == d.start \div Unit
        end == start + d.pages
        Meets(r) == r.end > start /\ r.first < end
        Skip(c, r) == IF Meets(r) /\ c < r.end THEN r.end ELSE c
        r1 == Excluded[1]
        r2 == Excluded[2]
        c1 == Skip(start, r1)
    IN  IF Meets(r1) /\ start < r1.first THEN start
        ELSE IF c1 >= end THEN end
        ELSE IF Meets(r2) /\ c1 < r2.first THEN c1
        ELSE Min({Skip(c1, r2), end})

\* VerifyHhdm: the first candidate other than page 0 is written and restored;
\* page 0 serves when there is no other and NULL detection is off.
VerifyHhdm ==
    LET hosts == {i \in DOMAIN machine.map :
                     /\ IsReclaimable(machine.map[i]) /\ machine.map[i].pages # 0
                     /\ FindFirstSafeProbePage(machine.map[i]) < machine.map[i].start \div Unit + machine.map[i].pages}
        others == {i \in hosts : FindFirstSafeProbePage(machine.map[i]) # 0}
    IN  /\ init = "probe"
        /\ probe' = IF others # {} THEN FindFirstSafeProbePage(machine.map[Min(others)])
                    ELSE IF hosts # {} /\ ~machine.nullDetection THEN 0
                    ELSE -1
        /\ init' = "rsdp"
        /\ UNCHANGED <<loaderVars, pmmVars, timeVars, regions>>

\* AssertRsdp, on whatever is mapped where the capsule says.
AssertRsdp ==
    /\ init = "rsdp"
    /\ init' = IF FindAcpiRsdpPhys # 0 /\ machine.acpi.revision >= 2 THEN "pmm" ELSE "panic"
    /\ UNCHANGED <<loaderVars, pmmVars, timeVars, probe, regions>>

Bytewise(first, n) == [start |-> first * Unit, pages |-> n]

\* Mutant: the stacks of the capsule are forgotten.
BootRangesWithoutStacks ==
    {Bytewise(capsule.kernel, KernelPages), Bytewise(capsule.base, HandoffPages),
     Bytewise(Min(held["pool"]), PoolPages),
     Bytewise(machine.framebuffer, IF machine.framebuffer = 0 THEN 0 ELSE 1)}

\* What KePmmInitFromBootMemoryMap reads out of the capsule.
BootRanges ==
    {Bytewise(capsule.kernel, KernelPages),
     Bytewise(capsule.stack, StackPages), Bytewise(capsule.ist1, StackPages), Bytewise(capsule.ist2, StackPages),
     Bytewise(capsule.base, HandoffPages),
     Bytewise(Min(held["pool"]), PoolPages),
     Bytewise(machine.framebuffer, IF machine.framebuffer = 0 THEN 0 ELSE 1)}

CallPmm ==
    /\ init = "pmm"
    /\ KePmmInitFromBootMemoryMap(machine.map, BootRanges)
    /\ UNCHANGED <<loaderVars, timeVars, init, probe, regions>>

RunPmm ==
    /\ PmmStep
    /\ UNCHANGED <<loaderVars, timeVars, init, probe, regions>>

PmmFails ==
    /\ init = "pmm" /\ phase = "failed"
    /\ init' = "panic"
    /\ UNCHANGED <<loaderVars, pmmVars, timeVars, probe, regions>>

FreeNow == {p \in DOMAIN bitmap : bitmap[p] = "free"}

\* KiCompareImportedRegions: by address, then by size (and then by type, which
\* no lookup tells apart).
Before(a, b) == a.va < b.va \/ (a.va = b.va /\ a.pages < b.pages)
RegionsBefore(i, j) ==
    Before(manifest[i], manifest[j]) \/ (~Before(manifest[j], manifest[i]) /\ i <= j)
RegionPlace(i) == Cardinality({j \in DOMAIN manifest : RegionsBefore(j, i)})

\* KeImportKernelAddressSpace keeps the regions, sorted, in a page that it
\* takes from the allocator.
KeImportKernelAddressSpace ==
    /\ init = "pmm" /\ phase = "ready"
    /\ FreeNow # {}
    /\ bitmap' = [bitmap EXCEPT ![Min(FreeNow)] = "allocated"]
    /\ FreePages' = FreePages - 1
    /\ regions' = [k \in DOMAIN manifest |-> manifest[CHOOSE i \in DOMAIN manifest : RegionPlace(i) = k]]
    /\ init' = "self_test"
    /\ UNCHANGED <<loaderVars, timeVars, phase, descs, boot, low, high, meta, ReservedPages, probe>>

NoPageForRegions ==
    /\ init = "pmm" /\ phase = "ready"
    /\ FreeNow = {}
    /\ init' = "panic"
    /\ UNCHANGED <<loaderVars, pmmVars, timeVars, probe, regions>>

\* KeFindImportedRegion: the smallest region that contains the page.
KeFindImportedRegion(v) ==
    LET hits == {i \in DOMAIN regions : regions[i].va <= v /\ v < regions[i].va + regions[i].pages}
        least == Min({regions[i].pages : i \in hits})
    IN  IF hits = {} THEN <<>> ELSE regions[Min({i \in hits : regions[i].pages = least})]

\* KiFindScratchHole: the first page behind the start of the direct map that no
\* region describes and no entry maps.
Holes == {v \in VirtualBase["hhdm"] .. VirtualBase["mmio"] - 1 :
             KeFindImportedRegion(v) = <<>> /\ v \notin DOMAIN tables}
KiFindScratchHole == Min(Holes)

\* Tables that a mapping of the hole adds; they stay when it is unmapped.
TablesAdded ==
    TablesUsed(Merge(tables, KiFindScratchHole :> [at |-> 0, flags |-> {}, large |-> FALSE])) - TablesUsed(tables)

\* KePtSelfTest maps a page at the hole, protects and unmaps it, and switches to
\* a private root and back (KiPrivateRootSelfTest); the page and the root are
\* given back.
KePtSelfTest ==
    /\ init = "self_test"
    /\ Cardinality(FreeNow) >= 2 + TablesAdded
    /\ LET kept == {p \in FreeNow : Cardinality({q \in FreeNow : q < p}) \in 1 .. TablesAdded} IN
       bitmap' = [p \in DOMAIN bitmap |-> IF p \in kept THEN "allocated" ELSE bitmap[p]]
    /\ FreePages' = FreePages - TablesAdded
    /\ init' = "time"
    /\ UNCHANGED <<loaderVars, timeVars, phase, descs, boot, low, high, meta, ReservedPages, probe, regions>>

KePtSelfTestFails ==
    /\ init = "self_test"
    /\ Cardinality(FreeNow) < 2 + TablesAdded
    /\ init' = "panic"
    /\ UNCHANGED <<loaderVars, pmmVars, timeVars, probe, regions>>

\* AcpiFindHpetTable and AcpiFindFadtTable: the entries of the root table up to
\* the first one with the signature, and those of the older root table (which
\* lists the same) when there is none; null entries are followed too.
Matching(sig) == {i \in DOMAIN AcpiTables : AcpiTables[i].at # 0 /\ AcpiTables[i].sig = sig}
TablesRead(sig) ==
    {AcpiTables[i].at : i \in IF Matching(sig) = {} THEN DOMAIN AcpiTables ELSE 1 .. Min(Matching(sig))}
      \cup {r \in {machine.acpi.xsdt} : r # 0}
      \cup {r \in {machine.acpi.rsdt} : r # 0 /\ (machine.acpi.xsdt = 0 \/ Matching(sig) = {})}

\* ... and the registers of the first HPET.
RegistersRead == {AcpiTables[i].hpet : i \in {j \in Matching("HPET") : j = Min(Matching("HPET"))}}

\* Everything is read through the direct map; a page that is not mapped faults.
Reachable == \A p \in TablesRead("HPET") \cup TablesRead("FACP") \cup RegistersRead :
                 VirtualBase["hhdm"] + p \in DOMAIN tables

CallTimeSource ==
    /\ init = "time" /\ step = "off"
    /\ Reachable
    /\ KeTimeSourceInit(machine.clock, Matching("FACP") # {}, Matching("HPET") # {})
    /\ UNCHANGED <<loaderVars, pmmVars, init, probe, regions>>

TimeSourceFaults ==
    /\ init = "time" /\ step = "off"
    /\ ~Reachable
    /\ init' = "panic"
    /\ UNCHANGED <<loaderVars, pmmVars, timeVars, probe, regions>>

CallClockEvent ==
    /\ \/ KeClockEventInit(machine.clock, machine.lapic)
       \/ ClockEventInitFails(machine.clock, machine.lapic)
    /\ UNCHANGED <<loaderVars, pmmVars, init, probe, regions>>

RunTime ==
    /\ init = "up" \/ (init = "time" /\ step \notin {"ready", "failed"})
    /\ TimeStep
    /\ UNCHANGED <<loaderVars, pmmVars, init, probe, regions>>

\* InitKernel goes on or stops with the status of the two calls.
TimeEnds ==
    /\ init = "time" /\ step \in {"ready", "failed"}
    /\ init' = IF step = "ready" THEN "up" ELSE "panic"
    /\ UNCHANGED <<loaderVars, pmmVars, timeVars, probe, regions>>

Next ==
    \/ Load
    \/ ValidateBootMappingManifest
    \/ VerifyHhdm
    \/ AssertRsdp
    \/ CallPmm
    \/ RunPmm
    \/ PmmFails
    \/ KeImportKernelAddressSpace
    \/ NoPageForRegions
    \/ KePtSelfTest \/ KePtSelfTestFails
    \/ CallTimeSource
    \/ TimeSourceFaults
    \/ CallClockEvent
    \/ RunTime
    \/ TimeEnds

Spec == Init /\ [][Next]_vars

-----------------------------------------------------------------------------

Describes(e, v) == tables[v].at = e.at + (v - e.va) /\ tables[v].flags = e.flags

\* What the kernel is told about its address space is what the processor
\* sees: every entry of the manifest is mapped, where and as it says, every
\* mapped page has an entry, and once imported the lookup of any page gives
\* a region that is true of it.  With NULL detection page 0 is not mapped.
\* The size of the manifest is estimated before anything is mapped, and the
\* estimate is never what stops the boot.
ManifestMatchesTables ==
  /\ why # "manifest_full" /\ Len(manifest) <= capacity
  /\ stage \in MappingStages \cup {"load", "exit", "kernel"} =>
        /\ \A i \in DOMAIN manifest :
               LET e == manifest[i] IN
               \A v \in e.va .. e.va + e.pages - 1 : v \in DOMAIN tables /\ Describes(e, v)
        /\ \A v \in DOMAIN tables :
               \E i \in DOMAIN manifest : v \in manifest[i].va .. manifest[i].va + manifest[i].pages - 1
        /\ regions # <<>> => \A v \in DOMAIN tables :
               KeFindImportedRegion(v) # <<>> /\ Describes(KeFindImportedRegion(v), v)
        /\ machine.nullDetection => 0 \notin DOMAIN tables

\* The page that VerifyHhdm writes to is spare memory: no part of the capsule
\* or of the page tables, and mapped writable where it writes.
ProbeIsSpare ==
    probe # -1 =>
        /\ probe \notin held["capsule"] \cup held["pool"]
        /\ VirtualBase["hhdm"] + probe \in DOMAIN tables
        /\ tables[VirtualBase["hhdm"] + probe].at = probe
        /\ "W" \in tables[VirtualBase["hhdm"] + probe].flags

Frame(p) == low \div Unit + p

\* Pages that the allocator writes to, its bitmap, or may hand out.
AllocatorPages ==
    (IF phase \in {"mark", "reserve", "ready"} THEN meta \div Unit .. meta \div Unit + BitmapPages - 1 ELSE {})
      \cup (IF phase = "ready" THEN {Frame(p) : p \in FreeNow} ELSE {})

\* The allocator and the page tables agree: its bitmap, which is written before
\* anything is reserved, and every page that it may hand out are memory
\* that the kernel can write through its direct map, and hold neither a table
\* nor a page of the capsule, which the kernel's own code, data and stacks
\* are mapped to.
FreeMemoryIsSafeToUse ==
    \A f \in AllocatorPages :
        /\ VirtualBase["hhdm"] + f \in DOMAIN tables
        /\ tables[VirtualBase["hhdm"] + f].at = f
        /\ tables[VirtualBase["hhdm"] + f].flags = {"W"} \cup Nx
        /\ f \notin held["pool"] \cup held["capsule"]
        /\ \A v \in DOMAIN tables : v >= VirtualBase["kernel"] => tables[v].at # f
=============================================================================
