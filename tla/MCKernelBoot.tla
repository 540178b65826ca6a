---------------------------- MODULE MCKernelBoot ----------------------------
(* Instances of KernelBoot for TLC. *)
EXTENDS KernelBoot

D(start, pages, type) == [start |-> start, pages |-> pages, type |-> type]

Windows == [identity |-> 0, hhdm |-> 32, mmio |-> 64, kernel |-> 68, stack |-> 72, ist1 |-> 74, ist2 |-> 76]

\* One large descriptor of memory among two others: empty, unaligned or wrapping
\* ones, memory in front of it, behind it and inside it, ACPI tables, device
\* registers in a large page and under the wrong type.
Memory == {D(4, 13, "ram"), D(0, 14, "ram")}
Others == {D(0, 1, "ram"), D(0, 0, "ram"), D(8, 2, "ram"), D(60, 1, "ram"), D(62, 1, "ram"),
           D(64, 1, "acpi"), D(72, 2, "mmio"), D(76, 1, "reserved"), D(80, 1, "mmio")}
Maps == {<<a, m, b>> : m \in Memory, a \in Others, b \in Others}

Table(at, whole, sig, hpet) == [at |-> at, whole |-> whole, sig |-> sig, hpet |-> hpet]
Acpi(rsdp, revision, xsdt, rsdt, listed) ==
    [rsdp |-> rsdp, revision |-> revision, xsdt |-> xsdt, rsdt |-> rsdt, rootWhole |-> TRUE, tables |-> listed]
V2(at) == [v2 |-> at, v1 |-> 0]
FirmwareTables ==
    {Acpi(V2(16), 2, 16, 0, <<Table(16, TRUE, "HPET", 19), Table(0, TRUE, "", 0)>>),
     Acpi(V2(16), 2, 16, 17, <<Table(17, TRUE, "FACP", 0), Table(17, FALSE, "", 0)>>)}
OldTables == {Acpi([v2 |-> 0, v1 |-> 17], 0, 0, 16, <<>>), Acpi(V2(0), 0, 0, 0, <<>>)}
\* A table on the page of the registers that the one before it describes.
Crossed == Acpi(V2(16), 2, 16, 0, <<Table(16, TRUE, "HPET", 18), Table(18, TRUE, "FACP", 0)>>)
Clocked == Acpi(V2(16), 2, 16, 0, <<Table(16, TRUE, "FACP", 0), Table(16, TRUE, "HPET", 18)>>)

Segment(at, pages, exec) == [at |-> at, pages |-> pages, exec |-> exec]
Kernel == [wellFormed |-> TRUE, filePages |-> 1, entry |-> 0, segs |-> <<Segment(0, 1, TRUE), Segment(1, 1, FALSE)>>]
Odd == {[wellFormed |-> TRUE, filePages |-> 1, entry |-> 1, segs |-> <<Segment(0, 1, FALSE), Segment(1, 1, TRUE)>>],
        [wellFormed |-> FALSE, filePages |-> 1, entry |-> 0, segs |-> <<Segment(0, 1, TRUE)>>],
        [wellFormed |-> TRUE, filePages |-> 1, entry |-> 0, segs |-> <<Segment(0, 1, TRUE), Segment(2, 1, FALSE)>>]}

Clock(features, crystal, base, gas, port, period, lapic, hz) ==
    [tsc |-> features, crystal |-> crystal, base |-> base, gas |-> gas, legacyPort |-> port, hpetPeriod |-> period, lapic |-> lapic, lapicHz |-> hz]
NoClock == Clock({}, 0, 0, "none", FALSE, 0, "none", 0)
Clocks == {Clock({"counter"}, 0, 0, "memory", TRUE, 1, "xapic", 1),
           Clock({"counter"}, 0, 0, "memory", FALSE, 1, "none", 1),
           Clock({"counter", "invariant"}, 0, 0, "io", FALSE, 0, "x2apic", 1),
           Clock({"counter", "hypervisor"}, 7, 0, "none", FALSE, 0, "x2apic", 0),
           Clock({"counter", "hypervisor"}, 0, 7, "io", FALSE, 0, "x2apic", 0)}

Machine(map, mapPages, acpi, nx, null, lapic, fb, image, clock) ==
    [map |-> map, mapPages |-> mapPages, acpi |-> acpi, nx |-> nx, nullDetection |-> null, lapic |-> lapic, framebuffer |-> fb,
     image |-> image, clock |-> clock]

\* Machines with just enough memory, and with too little.
Tight == {<<D(0, n, "ram"), D(64, 1, "acpi"), d>> : n \in {1, 9, 14}, d \in {D(68, 1, "ram"), D(76, 1, "mmio")}}

MemoryMachines ==
    {Machine(m, 1, a, TRUE, a.rsdt = 0, 18, 0, Kernel, NoClock) : m \in Maps, a \in FirmwareTables}
      \cup {Machine(m, IF l = 0 THEN 1 ELSE 2, a, FALSE, n, l, 15, i, NoClock) :
               m \in Tight, a \in FirmwareTables \cup OldTables, n \in BOOLEAN, l \in {0, 19}, i \in Odd \cup {Kernel}}
      \cup {Machine(<<D(4, 12, "ram"), D(64, 1, "acpi")>>, 1, Crossed, TRUE, TRUE, 0, 0, Kernel, NoClock)}

\* One memory map, with every set of clocks.
ClockMachines ==
    {Machine(<<D(4, 12, "ram"), D(64, 1, "acpi")>>, 1, Clocked, TRUE, TRUE, 18, 0, Kernel, c) : c \in Clocks}

MCMachines == MemoryMachines \cup ClockMachines
=============================================================================
