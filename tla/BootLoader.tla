----------------------------- MODULE BootLoader -----------------------------
(***************************************************************************)
(* The UEFI boot loader (boot/v2): StagingKernel claims the page at        *)
(* address 0, reads the kernel, takes the firmware's memory map, lays out  *)
(* the boot capsule, builds the first page tables together with the        *)
(* manifest that describes them, loads the kernel, leaves boot services    *)
(* and jumps.  One action per step of StagingKernel and of                 *)
(* CreateInitialMapping; every call of the firmware may fail.  Memory is   *)
(* counted in pages, a large page is LargePages of them, and an address is *)
(* the number of its page.                                                 *)
(***************************************************************************)
EXTENDS Integers, FiniteSets, FiniteSetsExt, Sequences, SequencesExt

CONSTANTS
    Machines,       \* firmware, processor and kernel image: records, see MachineType
    PhysPages,      \* pages of the physical address space
    Unit,           \* bytes of a page in the descriptors of the firmware's map
    LargePages,     \* PAGE_2MB / PAGE_4KB
    IdentityPages,  \* pages below 2 GB
    VirtualBase,    \* first page of every window of the virtual space
    HandoffPages,   \* header, manifest and memory map of the capsule
    StackPages,     \* HO_STACK_SIZE
    PoolPages,      \* MAX_PAGE_TABLE_POOL_PAGES
    PoolTables,     \* tables those pages have room for
    FixedBudget, SlackEntries,  \* BOOT_MAPPING_FIXED_ENTRY_BUDGET, ..._EXTRA_SLACK_ENTRIES
    MapPages        \* MIN_MEMMAP_PAGES

\* The windows lie one behind the other, and the direct map has room for the
\* physical address space.  Beside descriptors and ACPI tables the loader
\* records at most twelve entries (the code allows for 10 + 8).
ASSUME LoaderAssumption ==
    /\ {PhysPages, Unit, LargePages, StackPages, PoolPages, HandoffPages} \subseteq Nat \ {0}
    /\ {IdentityPages, MapPages, PoolTables, FixedBudget, SlackEntries} \subseteq Nat
    /\ VirtualBase \in [{"identity", "hhdm", "mmio", "kernel", "stack", "ist1", "ist2"} -> Nat]
    /\ \A w \in DOMAIN VirtualBase : VirtualBase[w] % LargePages = 0
    /\ LargePages <= IdentityPages /\ IdentityPages <= VirtualBase["hhdm"]
    /\ VirtualBase["hhdm"] + PhysPages <= VirtualBase["mmio"] /\ VirtualBase["mmio"] < VirtualBase["kernel"]
    /\ \A w \in {"stack", "ist1", "ist2"} : VirtualBase["kernel"] < VirtualBase[w]
    /\ FixedBudget + SlackEntries >= 12

\* What the firmware describes: a memory map, which may be malformed, an image
\* of segments, and pages of the physical address space with tables and devices.
ASSUME MachineAssumption == \A m \in Machines :
    /\ m.map \in Seq([start : Nat, pages : Nat, type : STRING])
    /\ m.image.filePages \in Nat
    /\ m.image.segs \in Seq([at : Nat, pages : Nat, exec : BOOLEAN])
    /\ {m.framebuffer, m.lapic} \subseteq 0 .. PhysPages - 2
    /\ {m.acpi.rsdp.v1, m.acpi.rsdp.v2, m.acpi.xsdt, m.acpi.rsdt} \subseteq 0 .. PhysPages - 1
    /\ m.acpi.tables \in Seq([at : 0 .. PhysPages - 1, hpet : 0 .. PhysPages - 1, whole : BOOLEAN, sig : STRING])

VARIABLES
    stage,      \* the step that is next, "failed", or "kernel" after the jump
    why,        \* the status of a failed call
    machine,    \* the machine, fixed at power-on
    held,       \* pages the loader has allocated, by purpose
    grown,      \* times the buffer of the memory map was found too small
    capsule,    \* BOOT_CAPSULE: where its parts lie
    tables,     \* the leaf entries of the page tables, by virtual page
    manifest,   \* the entries recorded
    capacity    \* EntryCapacity of the manifest

loaderVars == <<stage, why, machine, held, grown, capsule, tables, manifest, capacity>>

Purposes == {"null", "image", "map", "leaked", "capsule", "pool"}

\* A descriptor in whole pages (the firmware's map itself is in bytes).
PagesOfDesc(d) == d.start \div Unit .. d.start \div Unit + d.pages - 1

Conventional ==
    {f \in 0 .. PhysPages - 1 :
        \E i \in DOMAIN machine.map : machine.map[i].type = "ram" /\ f \in PagesOfDesc(machine.map[i])}

FreeFrames == Conventional \ UNION {held[p] : p \in Purposes}

\* AllocatePages(AllocateAnyPages): any run of free pages; the firmware of
\* the model takes the lowest or the highest one.
Runs(n) == {b \in FreeFrames : b .. b + n - 1 \subseteq FreeFrames}
AllocatePages(n) == IF Runs(n) = {} THEN {} ELSE {Min(Runs(n)), Max(Runs(n))}

LoaderInit ==
    /\ stage = "claim" /\ why = "none"
    /\ machine \in Machines
    /\ held = [p \in Purposes |-> {}]
    /\ grown = 0
    /\ capsule = <<>> /\ tables = <<>> /\ manifest = <<>> /\ capacity = 0

Goto(s) == stage' = s /\ UNCHANGED why

\* FreePages of the firmware gives back a range that is allocated as a whole, or nothing.
ReleasePages(h, pages) ==
    [p \in Purposes |-> IF pages \subseteq UNION {h[q] : q \in Purposes} THEN h[p] \ pages ELSE h[p]]

BootReleaseNullGuardPage(h) == [h EXCEPT !["null"] = {}]

\* The buffer of the image, of which MapBufferTooSmall may have freed the front.
ImageRange ==
    IF held["image"] = {} THEN {} ELSE Max(held["image"]) - machine.image.filePages + 1 .. Max(held["image"])

\* handle_error: the image goes back, then the memory map with the page of
\* margin that memoryMapPages counts, unless that page is no longer allocated,
\* then page 0; the capsule and, once they are complete, the page tables stay
\* allocated.
HandleError(status, pool) ==
    LET image == ReleasePages([held EXCEPT !["pool"] = pool], ImageRange)
        map == IF held["map"] = {} THEN {} ELSE held["map"] \cup {Max(held["map"]) + 1}
    IN  /\ stage' = "failed"
        /\ why' = status
        /\ held' = BootReleaseNullGuardPage(ReleasePages(image, map))

\* BootValidateGuardedAllocation: with NULL detection page 0 is refused.
Guarded(base) == ~machine.nullDetection \/ base # 0

-----------------------------------------------------------------------------

\* Page 0 is claimed when it is free; a page that cannot be found satisfies
\* the guard as well.
BootClaimNullGuardPage ==
    /\ stage = "claim"
    /\ held' = IF machine.nullDetection /\ 0 \in FreeFrames THEN [held EXCEPT !["null"] = {0}] ELSE held
    /\ Goto("read")
    /\ UNCHANGED <<machine, grown, capsule, tables, manifest, capacity>>

\* The firmware refuses page 0 for any other reason.
NullGuardPageRefused ==
    /\ stage = "claim" /\ machine.nullDetection
    /\ HandleError("EFI_OUT_OF_RESOURCES", held["pool"])
    /\ UNCHANGED <<machine, grown, capsule, tables, manifest, capacity>>

\* ReadKernelImage: the file cannot be opened or sized, there is no room, the
\* buffer lies at page 0, or the read is short: the buffer is released again.
ReadKernelImage ==
    /\ stage = "read"
    /\ \E b \in AllocatePages(machine.image.filePages) :
          /\ Guarded(b)
          /\ held' = [held EXCEPT !["image"] = b .. b + machine.image.filePages - 1]
    /\ Goto("map")
    /\ UNCHANGED <<machine, grown, capsule, tables, manifest, capacity>>

ReadKernelImageFails ==
    /\ stage = "read"
    /\ HandleError("EFI_DEVICE_ERROR", held["pool"])
    /\ UNCHANGED <<machine, grown, capsule, tables, manifest, capacity>>

\* InitMemoryMap and FillMemoryMap: the map and its margin fit into the buffer.
FillMemoryMap(n) == n >= machine.mapPages

\* One turn of the loop of GetLoaderRuntimeMemoryMap that succeeds.
GetLoaderRuntimeMemoryMap ==
    /\ stage = "map"
    /\ FillMemoryMap(MapPages + grown)
    /\ \E b \in AllocatePages(MapPages + grown) :
          /\ Guarded(b)
          /\ held' = [held EXCEPT !["map"] = b .. b + MapPages + grown - 1]
    /\ Goto("layout")
    /\ UNCHANGED <<machine, grown, capsule, tables, manifest, capacity>>

\* A turn whose buffer is too small: the count is raised before the buffer is
\* freed, so that the page behind it goes too when that one is allocated, and
\* neither does when it is not.
MapBufferTooSmall ==
    /\ stage = "map"
    /\ ~FillMemoryMap(MapPages + grown)
    /\ \E b \in AllocatePages(MapPages + grown) :
          /\ Guarded(b)
          /\ held' = LET behind == b + MapPages + grown IN
                     IF \E p \in Purposes : behind \in held[p]
                     THEN [p \in Purposes |-> held[p] \ {behind}]
                     ELSE [held EXCEPT !["leaked"] = @ \cup (b .. behind - 1)]
    /\ grown' = grown + 1
    /\ UNCHANGED <<stage, why, machine, capsule, tables, manifest, capacity>>

NoMemoryMap ==
    /\ stage = "map"
    /\ \/ AllocatePages(MapPages + grown) = {}
       \/ \E b \in AllocatePages(MapPages + grown) : ~Guarded(b)
    /\ HandleError("EFI_OUT_OF_RESOURCES", held["pool"])
    /\ UNCHANGED <<machine, grown, capsule, tables, manifest, capacity>>

-----------------------------------------------------------------------------

\* Elf64GetHeader and Elf64GetProgramHeader: a whole, well-formed header for
\* this processor whose table of segments lies inside the file.
Elf64Validate == machine.image.wellFormed

\* Elf64GetLoadInfo: pages of the executable and of the other segments, and
\* the least address.  Addresses are offsets from KRNL_BASE_VA.
SegmentPages(exec) ==
    Cardinality(UNION {{i} \X (1 .. machine.image.segs[i].pages) :
                          i \in {j \in DOMAIN machine.image.segs : machine.image.segs[j].exec = exec}})
CodePages == SegmentPages(TRUE)
DataPages == SegmentPages(FALSE)
KernelPages == CodePages + DataPages
ImageIsStandard ==
    /\ Elf64Validate
    /\ machine.image.segs # <<>>
    /\ Min({machine.image.segs[i].at : i \in DOMAIN machine.image.segs}) = machine.image.entry
    /\ machine.image.entry = 0

\* FindAcpiRsdpPhys: the root pointer of the newer table, else of the older
\* one; a table that the firmware does not install is 0.
FindAcpiRsdpPhys == IF machine.acpi.rsdp.v2 # 0 THEN machine.acpi.rsdp.v2 ELSE machine.acpi.rsdp.v1

\* CountAcpiManifestEntries: the root pointer, the root table, its entries that
\* are not null, and the registers of every HPET.
RootTable == IF machine.acpi.revision >= 2 /\ machine.acpi.xsdt # 0 THEN machine.acpi.xsdt ELSE machine.acpi.rsdt
AcpiTables == machine.acpi.tables
CountAcpiManifestEntries ==
    IF FindAcpiRsdpPhys = 0 THEN 0
    ELSE IF RootTable = 0 \/ ~machine.acpi.rootWhole THEN 5
    ELSE 2 + Cardinality({i \in DOMAIN AcpiTables : AcpiTables[i].at # 0})
           + Cardinality({i \in DOMAIN AcpiTables : AcpiTables[i].at # 0 /\ AcpiTables[i].whole /\ AcpiTables[i].hpet # 0})

EstimateBootMappingManifestSize ==
    Len(machine.map) + CountAcpiManifestEntries + FixedBudget + SlackEntries

CapsulePages == HandoffPages + KernelPages + 3 * StackPages

\* The manifest starts empty, with as many entries as its size has room for.
BootMappingManifestInitialize ==
    /\ manifest' = <<>>
    /\ capacity' = EstimateBootMappingManifestSize

CreateCapsule ==
    /\ stage = "layout"
    /\ ImageIsStandard
    /\ \E b \in AllocatePages(CapsulePages) :
          /\ Guarded(b)
          /\ held' = [held EXCEPT !["capsule"] = b .. b + CapsulePages - 1]
          /\ LET kernel == b + HandoffPages
                 stack == kernel + KernelPages
             IN  capsule' = [base |-> b, kernel |-> kernel, stack |-> stack,
                             ist1 |-> stack + StackPages, ist2 |-> stack + 2 * StackPages]
    /\ BootMappingManifestInitialize
    /\ Goto("pool")
    /\ UNCHANGED <<machine, grown, tables>>

NoCapsule ==
    /\ stage = "layout"
    /\ \/ ~ImageIsStandard
       \/ AllocatePages(CapsulePages) = {}
       \/ \E b \in AllocatePages(CapsulePages) : ~Guarded(b)
    /\ HandleError("EFI_OUT_OF_RESOURCES", held["pool"])
    /\ UNCHANGED <<machine, grown, capsule, tables, manifest, capacity>>

\* The pool of CreateInitialMapping; its first page becomes the root.  A pool
\* at page 0 looks like a failed allocation and stays allocated.
AllocatePool ==
    /\ stage = "pool"
    /\ \E b \in AllocatePages(PoolPages) \ {0} :
          held' = [held EXCEPT !["pool"] = b .. b + PoolPages - 1]
    /\ Goto("identity")
    /\ UNCHANGED <<machine, grown, capsule, tables, manifest, capacity>>

NoPool ==
    /\ stage = "pool"
    /\ \/ AllocatePages(PoolPages) = {} /\ HandleError("EFI_OUT_OF_RESOURCES", {})
       \/ 0 \in AllocatePages(PoolPages) /\ HandleError("EFI_OUT_OF_RESOURCES", 0 .. PoolPages - 1)
    /\ UNCHANGED <<machine, grown, capsule, tables, manifest, capacity>>

-----------------------------------------------------------------------------

Nx == IF machine.nx THEN {"NX"} ELSE {}
Region(type, at, va, n, flags) == [type |-> type, at |-> at, va |-> va, pages |-> n, flags |-> flags]
Hhdm(type, at, n, flags) == Region(type, at, VirtualBase["hhdm"] + at, n, flags)

\* MapRegion walks the region and takes a large page wherever both addresses
\* are aligned to one and that much is left.
TakesLargePage(r, v) ==
    LET first == (v \div LargePages) * LargePages IN
    /\ r.at % LargePages = r.va % LargePages
    /\ r.va <= first /\ first + LargePages <= r.va + r.pages
VirtualPages(r) == r.va .. r.va + r.pages - 1
Leaves(r) ==
    [v \in VirtualPages(r) |->
        [at |-> r.at + (v - r.va), flags |-> r.flags, large |-> TakesLargePage(r, v)]]

\* MapPage leaves a present entry alone: of several regions with a page, the
\* first one maps it.
Merge(t, l) == [v \in DOMAIN t \cup DOMAIN l |-> IF v \in DOMAIN t THEN t[v] ELSE l[v]]
MapRegions(t, rs) ==
    LET first(v) == Min({i \in DOMAIN rs : v \in VirtualPages(rs[i])})
    IN  Merge(t, [v \in UNION {VirtualPages(rs[i]) : i \in DOMAIN rs} |-> Leaves(rs[first(v)])[v]])

\* ... and reports an error unless it is the same mapping, page size included.
Agrees(t, r) == \A v \in VirtualPages(r) : t[v] = Leaves(r)[v]

\* Tables that HobAlloc has handed out: the root, two directories per window,
\* and a table for every large page that is mapped in small ones.
TablesUsed(t) ==
    1 + 2 * Cardinality({Max({VirtualBase[w] : w \in {x \in DOMAIN VirtualBase : VirtualBase[x] <= v}}) : v \in DOMAIN t})
      + Cardinality({v \div LargePages : v \in {x \in DOMAIN t : ~t[x].large}})

\* Below 2 GB; with NULL detection page 0 stays out.
IdentityRegions ==
    IF machine.nullDetection
    THEN <<Region("identity", 1, 1, LargePages - 1, {"W"}),
           Region("identity", LargePages, LargePages, IdentityPages - LargePages, {"W"})>>
    ELSE <<Region("identity", 0, 0, IdentityPages, {"W"})>>

GetHhdmMapFlags(type) ==
    CASE type = "mmio" -> {"CD", "W"} \cup Nx
      [] type = "acpi" -> Nx
      [] OTHER -> {"W"} \cup Nx

\* Every descriptor; an empty one is a region of no pages.
HhdmRegions ==
    [i \in DOMAIN machine.map |->
        Hhdm("hhdm", machine.map[i].start \div Unit, machine.map[i].pages, GetHhdmMapFlags(machine.map[i].type))]

\* MapFullHhdmFromMemoryMap refuses an end that wraps, and the manifest an
\* address that is not on a page.
MapIsUsable ==
    \A i \in DOMAIN machine.map :
        LET d == machine.map[i] IN
        d.pages # 0 => d.start % Unit = 0 /\ d.start + d.pages * Unit < PhysPages * Unit

\* The pool and the capsule are mapped when the descriptors did not cover them.
IsVirtualRangeMapped(r) == VirtualPages(r) \subseteq DOMAIN tables
Unmapped(r) == IF IsVirtualRangeMapped(r) THEN [r EXCEPT !.pages = 0] ELSE r
PoolRegion == Hhdm("page_tables", Min(held["pool"]), PoolPages, {"W"} \cup Nx)
StagingRegion == Hhdm("staging", capsule.base, CapsulePages, {"W"} \cup Nx)
HandoffRegion == Hhdm("handoff", capsule.base, HandoffPages, {"W"} \cup Nx)

\* MapAcpiTables: the root pointer, the root table and the tables it lists that
\* have a whole header, read-only; the registers of an HPET when nothing else
\* is mapped there, otherwise with a warning and no entry.  (The code records
\* registers behind their table; nothing depends on the order of the entries.)
AcpiRanges ==
    <<Hhdm("rsdp", FindAcpiRsdpPhys, 1, Nx), Hhdm("root", RootTable, 1, Nx)>> \o
    [i \in DOMAIN AcpiTables |-> Hhdm("table", AcpiTables[i].at, IF AcpiTables[i].at # 0 /\ AcpiTables[i].whole THEN 1 ELSE 0, Nx)]
HpetRegion(i) == Hhdm("hpet", AcpiTables[i].hpet, 1, {"CD", "W"} \cup Nx)
HpetRanges(S) == [i \in DOMAIN AcpiTables |-> IF i \in S THEN HpetRegion(i) ELSE [HpetRegion(i) EXCEPT !.pages = 0]]
Hpets == {i \in DOMAIN AcpiTables : AcpiTables[i].at # 0 /\ AcpiTables[i].whole /\ AcpiTables[i].hpet # 0}

\* The registers that can be mapped: behind their own table and the ones before
\* it nothing else is there yet, or the same.  A later table on that page
\* then differs from them and stops the boot.
HpetsMapped ==
    {i \in Hpets : Agrees(MapRegions(tables, Append(SubSeq(AcpiRanges, 1, 2 + i), HpetRegion(i))), HpetRegion(i))}

\* Mutant: a failure to map the registers is only logged, and recorded anyway.
HpetsRecordedUnmapped == Hpets

HpetsRecorded == HpetsMapped

\* The kernel's code writable and executable, its data behind it, the stacks.
KernelRegions ==
    <<Region("code", capsule.kernel, VirtualBase["kernel"], CodePages, {"W"}),
      Region("data", capsule.kernel + CodePages, VirtualBase["kernel"] + CodePages, DataPages, {"W"} \cup Nx),
      Region("stack", capsule.stack, VirtualBase["stack"], StackPages, {"W"} \cup Nx),
      Region("ist1", capsule.ist1, VirtualBase["ist1"], StackPages, {"W"} \cup Nx),
      Region("ist2", capsule.ist2, VirtualBase["ist2"], StackPages, {"W"} \cup Nx)>>

\* The framebuffer and the registers of the local APIC.
DeviceRegions ==
    <<Region("framebuffer", machine.framebuffer, VirtualBase["mmio"],
             IF machine.framebuffer = 0 THEN 0 ELSE 1, {"CD", "W"} \cup Nx),
      Hhdm("lapic", machine.lapic, IF machine.lapic = 0 THEN 0 ELSE 1, {"CD", "W"} \cup Nx)>>

-----------------------------------------------------------------------------

\* The steps of CreateInitialMapping in order: what each maps, what it records
\* and whether its inputs are acceptable.
Plan ==
    CASE stage = "identity" ->
           [next |-> "hhdm", valid |-> TRUE, maps |-> IdentityRegions, records |-> IdentityRegions]
      [] stage = "hhdm" ->
           [next |-> "staging", valid |-> MapIsUsable, maps |-> HhdmRegions, records |-> HhdmRegions]
      [] stage = "staging" ->
           [next |-> "acpi", valid |-> TRUE,
            maps |-> <<Unmapped(PoolRegion), Unmapped(StagingRegion)>>,
            records |-> <<PoolRegion, StagingRegion, HandoffRegion>>]
      [] stage = "acpi" /\ FindAcpiRsdpPhys = 0 ->
           [next |-> "kernel_map", valid |-> TRUE, maps |-> <<>>, records |-> <<>>]
      [] stage = "acpi" /\ FindAcpiRsdpPhys # 0 ->
           [next |-> "kernel_map", valid |-> RootTable # 0 /\ machine.acpi.rootWhole,
            maps |-> AcpiRanges \o HpetRanges(HpetsMapped),
            records |-> AcpiRanges \o HpetRanges(HpetsRecorded)]
      [] stage = "kernel_map" ->
           [next |-> "devices", valid |-> TRUE, maps |-> KernelRegions, records |-> KernelRegions]
      [] stage = "devices" ->
           [next |-> "load", valid |-> TRUE, maps |-> DeviceRegions, records |-> DeviceRegions]

MappingStages == {"identity", "hhdm", "staging", "acpi", "kernel_map", "devices"}

\* Entries of no pages are not recorded; the others keep their order.
Recorded(rs) ==
    LET used == {i \in DOMAIN rs : rs[i].pages # 0}
    IN  [k \in 1 .. Cardinality(used) |-> rs[CHOOSE i \in used : Cardinality({j \in used : j <= i}) = k]]

MappingStatus ==
    LET t == MapRegions(tables, Plan.maps) IN
    IF ~Plan.valid \/ \E i \in DOMAIN Plan.maps : ~Agrees(t, Plan.maps[i]) THEN "EFI_INVALID_PARAMETER"
    ELSE IF TablesUsed(t) > PoolTables THEN "EFI_OUT_OF_RESOURCES"
    ELSE IF Len(manifest) + Len(Recorded(Plan.records)) > capacity THEN "manifest_full"
    ELSE IF Plan.next = "load" /\ TablesUsed(t) = PoolTables THEN "pool_used_up"
    ELSE "EFI_SUCCESS"

CreateInitialMapping ==
    /\ stage \in MappingStages
    /\ MappingStatus = "EFI_SUCCESS"
    /\ tables' = MapRegions(tables, Plan.maps)
    /\ manifest' = manifest \o Recorded(Plan.records)
    /\ Goto(Plan.next)
    /\ UNCHANGED <<machine, held, grown, capsule, capacity>>

\* A step that fails frees the pool, and StagingKernel the rest; the caller
\* takes a pool that was just large enough for a failure, and keeps it.
InitialMappingFails ==
    /\ stage \in MappingStages
    /\ MappingStatus # "EFI_SUCCESS"
    /\ HandleError(MappingStatus, IF MappingStatus = "pool_used_up" THEN held["pool"] ELSE {})
    /\ UNCHANGED <<machine, grown, capsule, tables, manifest, capacity>>

\* LoadKernel: Elf64LoadToBuffer copies every segment that lies inside the
\* pages laid out for the kernel.  (InitCpuCoreLocalData before it refuses only
\* a buffer smaller than its record, and the capsule holds that very record.)
SegmentsFit ==
    \A i \in DOMAIN machine.image.segs :
        machine.image.segs[i].at + machine.image.segs[i].pages <= KernelPages

LoadKernel ==
    /\ stage = "load"
    /\ SegmentsFit
    /\ Goto("exit")
    /\ UNCHANGED <<machine, held, grown, capsule, tables, manifest, capacity>>

LoadKernelFails ==
    /\ stage = "load"
    /\ ~SegmentsFit
    /\ HandleError("EFI_LOAD_ERROR", held["pool"])
    /\ UNCHANGED <<machine, grown, capsule, tables, manifest, capacity>>

\* LoadMemoryMap reads the map again into the capsule, for the key that
\* ExitBootServices wants; then the tables are switched.
ExitBootServices ==
    /\ stage = "exit"
    /\ Goto("kernel")
    /\ UNCHANGED <<machine, held, grown, capsule, tables, manifest, capacity>>

\* The map no longer fits or the key is stale.
ExitBootServicesFails ==
    /\ stage = "exit"
    /\ HandleError("EFI_INVALID_PARAMETER", held["pool"])
    /\ UNCHANGED <<machine, grown, capsule, tables, manifest, capacity>>

\* EnableNxe does not take effect: boot services are gone and nothing is freed.
EnableNxeFails ==
    /\ stage = "exit" /\ machine.nx
    /\ stage' = "failed" /\ why' = "EFI_DEVICE_ERROR"
    /\ UNCHANGED <<machine, held, grown, capsule, tables, manifest, capacity>>

LoaderStep ==
    \/ BootClaimNullGuardPage \/ NullGuardPageRefused
    \/ ReadKernelImage \/ ReadKernelImageFails
    \/ GetLoaderRuntimeMemoryMap \/ MapBufferTooSmall \/ NoMemoryMap
    \/ CreateCapsule \/ NoCapsule
    \/ AllocatePool \/ NoPool
    \/ CreateInitialMapping \/ InitialMappingFails
    \/ LoadKernel \/ LoadKernelFails
    \/ ExitBootServices \/ ExitBootServicesFails \/ EnableNxeFails
=============================================================================
