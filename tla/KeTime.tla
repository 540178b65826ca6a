------------------------------- MODULE KeTime -------------------------------
(***************************************************************************)
(* The time source and the clock event device (ke/time and drivers/time):  *)
(* KeTimeSourceInit detects, calibrates and selects a counter,             *)
(* KeClockEventInit calibrates the timer of the local APIC and tests it,   *)
(* and then threads and the timer's interrupt read the time.               *)
(*                                                                         *)
(* A read of the ACPI timer extends a counter of RawSpan ticks with two    *)
(* fields of its sink.  A thread reads and writes them one by one, as the  *)
(* unoptimized build does, and the interrupt, which reads the time too,    *)
(* may come between any two accesses.  KernelBoot makes the calls of       *)
(* InitKernel.                                                             *)
(***************************************************************************)
EXTENDS Integers, FiniteSets, FiniteSetsExt, Sequences, SequencesExt

CONSTANTS
    RawSpan,        \* 2^24 or 2^32, the period of the ACPI timer
    MaxTicks,       \* bound: ticks of real time
    MaxInterrupts,  \* bound: interrupts of the timer
    TrueFreq,       \* frequency of the processor's counter
    Disturbed,      \* what a disturbed measurement of it may give
    MaxCount        \* 0xFFFFFFFF, the largest count of the APIC timer

ASSUME TimeAssumption ==
    /\ {RawSpan, TrueFreq, MaxCount} \subseteq Nat \ {0}
    /\ {MaxTicks, MaxInterrupts} \subseteq Nat
    /\ Disturbed \subseteq Nat \ {TrueFreq}

VARIABLES
    step,       \* the step of the initialization that is next, "ready" or "failed"
    sinks,      \* the time sinks that are initialized
    tsc,        \* gTscSink: FreqHz, Calibrated, and whether most samples were good
    source,     \* gTimeDevice.Kind
    ticks,      \* real time, in ticks of the source
    pmt,        \* gPmTimerSink: High and LastRaw, and the real time LastRaw was read at
    epoch,      \* StartTick, and the real time it was read at
    reader,     \* a thread inside ReadCounter: its next access, and the values it holds
    last,       \* the value returned last, and the real time it was read at
    lost,       \* history: a read was torn by an interrupt, or a wrap passed unread
    apic,       \* the timer: count, masked, an interrupt pending, and the state of the last request
    fired,      \* InterruptCount
    tests       \* the self-test: rounds, and the count before this one

timeVars == <<step, sinks, tsc, source, ticks, pmt, epoch, reader, last, lost, apic, fired, tests>>

Idle == [next |-> "port", at |-> 0, raw |-> 0, high |-> 0]

TimeInit ==
    /\ step = "off"
    /\ sinks = {} /\ source = "none"
    /\ tsc = [freq |-> 0, calibrated |-> FALSE, sound |-> TRUE]
    /\ ticks = 0 /\ pmt = [high |-> 0, raw |-> 0, at |-> 0]
    /\ epoch = [value |-> 0, at |-> 0] /\ last = [value |-> 0, at |-> 0]
    /\ reader = Idle /\ lost = FALSE
    /\ apic = [count |-> 0, masked |-> TRUE, pending |-> FALSE, request |-> "none"]
    /\ fired = 0 /\ tests = [round |-> 0, before |-> 0]

-----------------------------------------------------------------------------

\* KeTscTimeSinkInit: the counter exists, and runs at a constant rate or under
\* a hypervisor.
TscUsable(hw) == "counter" \in hw.tsc /\ hw.tsc \cap {"invariant", "hypervisor"} # {}

\* TscGetFreqFromCpuid: from the leaf of the crystal, when it is complete, else
\* from the one of the base frequency; 0 when the processor has neither.
TscGetFreqFromCpuid(hw) == IF hw.crystal # 0 THEN hw.crystal ELSE hw.base

\* PmTimerSetup: the extended block in I/O space, else the legacy port.
PmTimerUsable(hw, fadt) == fadt /\ (hw.gas = "io" \/ hw.legacyPort)

\* HpetSetup: registers in memory, with a period.
HpetUsable(hw, table) == table /\ hw.hpetPeriod # 0

\* The sinks are tried in turn; any tick may be the first that the ACPI timer shows.
KeTimeSourceInit(hw, fadt, hpetTable) ==
    /\ step = "off"
    /\ sinks' = (IF TscUsable(hw) THEN {"tsc"} ELSE {})
                  \cup (IF PmTimerUsable(hw, fadt) THEN {"pmtimer"} ELSE {})
                  \cup (IF HpetUsable(hw, hpetTable) THEN {"hpet"} ELSE {})
    /\ tsc' = IF TscUsable(hw) THEN [tsc EXCEPT !.freq = TscGetFreqFromCpuid(hw), !.calibrated = TscGetFreqFromCpuid(hw) # 0] ELSE tsc
    /\ ticks' \in 0 .. RawSpan - 1
    /\ pmt' = [high |-> 0, raw |-> ticks', at |-> ticks']
    /\ step' = IF TscUsable(hw) /\ sinks' # {"tsc"} THEN "calibrate" ELSE "select"
    /\ UNCHANGED <<source, epoch, reader, last, lost, apic, fired, tests>>

Samples == 5
DiscardExtremes == 2

\* The value that sorting the results puts at place i.
Ranked(results, i) ==
    CHOOSE v \in Range(results) :
        /\ Cardinality({j \in DOMAIN results : results[j] < v}) < i
        /\ i <= Cardinality({j \in DOMAIN results : results[j] <= v})

\* The results are sorted and the ones between the extremes averaged.
Frequency(results) ==
    LET middle == DiscardExtremes + 1 .. Samples - DiscardExtremes
    IN  MapThenSumSet(LAMBDA i : Ranked(results, i), middle) \div (Samples - 2 * DiscardExtremes)

Good(results) == {i \in DOMAIN results : results[i] = TrueFreq}

\* KeTscTimeSinkCalibrate, against the ACPI timer or else the HPET, whose
\* frequencies are not 0, so that it succeeds.  A measurement that the
\* firmware interrupts comes out too small or too large.
KeTscTimeSinkCalibrate ==
    /\ step = "calibrate"
    /\ \E results \in [1 .. Samples -> Disturbed \cup {TrueFreq}] :
          tsc' = [freq |-> Frequency(results), calibrated |-> TRUE,
                  sound |-> Cardinality(Good(results)) > Samples \div 2]
    /\ step' = "select"
    /\ UNCHANGED <<sinks, source, ticks, pmt, epoch, reader, last, lost, apic, fired, tests>>

Selected ==
    IF "tsc" \in sinks /\ tsc.calibrated THEN "tsc"
    ELSE IF "pmtimer" \in sinks THEN "pmtimer"
    ELSE IF "hpet" \in sinks THEN "hpet" ELSE "none"

\* The active source is fixed and the start of time read from it.
SelectSource ==
    /\ step = "select"
    /\ source' = Selected
    /\ epoch' = [value |-> ticks, at |-> ticks]
    /\ last' = [value |-> ticks, at |-> ticks]
    /\ step' = IF Selected = "none" THEN "failed" ELSE "clock"
    /\ UNCHANGED <<sinks, tsc, ticks, pmt, reader, lost, apic, fired, tests>>

-----------------------------------------------------------------------------

\* Real time matters to the ACPI timer only: the other counters are read as
\* they are.
Passes == ticks < MaxTicks /\ source = "pmtimer" /\ step \in {"test", "wait", "ready"}

Tick ==
    /\ Passes
    /\ ticks' = ticks + 1
    /\ UNCHANGED <<step, sinks, tsc, source, pmt, epoch, reader, last, lost, apic, fired, tests>>

\* Mutant: a read in the same tick counts as a wrap.
WrappedOrSame(raw) == raw <= pmt.raw

\* A raw value below the last one means that the counter wrapped.
Wrapped(raw) == raw < pmt.raw

\* The start of the counter's period that a time lies in.
Base(t) == t - (t % RawSpan)

\* A whole period since the read that LastRaw is from cannot be seen.
Missed == ticks - pmt.at >= RawSpan

\* A read now damages the one that a thread is in the middle of: the thread
\* compares an older value with a newer LastRaw, or adds a wrap that is counted
\* already; or the new read counts one that the thread has added without
\* storing its raw value yet; or High moves on under the value to be returned.
\* Between its load and its store of High the thread overwrites what the
\* new read did to it, which does no harm.
Torn ==
    \/ reader.next = "compare" /\ reader.at # ticks
    \/ reader.next = "load"
    \/ reader.next = "store" /\ {Base(pmt.at), Base(ticks)} # {Base(reader.at)}
    \/ reader.next = "return" /\ Base(ticks) # Base(reader.at)

\* ReadCounter where no interrupt divides it: in the interrupt's own handler,
\* and in the self-test, during which no handler reads the time.
ReadCounter ==
    LET raw == ticks % RawSpan
        high == IF Wrapped(raw) THEN pmt.high + RawSpan ELSE pmt.high
    IN  /\ pmt' = IF source = "pmtimer" THEN [high |-> high, raw |-> raw, at |-> ticks] ELSE pmt
        /\ last' = [value |-> IF source = "pmtimer" THEN high + raw ELSE ticks, at |-> ticks]
        /\ lost' = (lost \/ (source = "pmtimer" /\ (Missed \/ Torn)))

\* KeGetSystemUpRealTime in a thread: the counter is read.  The value of any
\* other source is returned as it is.
ReadRaw ==
    /\ step = "ready" /\ reader = Idle
    /\ reader' = [next |-> IF source = "pmtimer" THEN "compare" ELSE "return",
                  at |-> ticks, raw |-> ticks % RawSpan, high |-> 0]
    /\ lost' = (lost \/ (source = "pmtimer" /\ Missed))
    /\ UNCHANGED <<step, sinks, tsc, source, ticks, pmt, epoch, last, apic, fired, tests>>

\* LastRaw is compared, ...
CompareRaw ==
    /\ reader.next = "compare"
    /\ reader' = [reader EXCEPT !.next = IF Wrapped(reader.raw) THEN "load" ELSE "store"]
    /\ UNCHANGED <<step, sinks, tsc, source, ticks, pmt, epoch, last, lost, apic, fired, tests>>

\* ... High increased, in two accesses, ...
LoadHigh ==
    /\ reader.next = "load"
    /\ reader' = [reader EXCEPT !.next = "add", !.high = pmt.high]
    /\ UNCHANGED <<step, sinks, tsc, source, ticks, pmt, epoch, last, lost, apic, fired, tests>>

StoreHigh ==
    /\ reader.next = "add"
    /\ pmt' = [pmt EXCEPT !.high = reader.high + RawSpan]
    /\ reader' = [reader EXCEPT !.next = "store"]
    /\ UNCHANGED <<step, sinks, tsc, source, ticks, epoch, last, lost, apic, fired, tests>>

\* ... LastRaw stored, ...
StoreRaw ==
    /\ reader.next = "store"
    /\ pmt' = [pmt EXCEPT !.raw = reader.raw, !.at = reader.at]
    /\ reader' = [reader EXCEPT !.next = "return"]
    /\ UNCHANGED <<step, sinks, tsc, source, ticks, epoch, last, lost, apic, fired, tests>>

\* ... and High read again for the value.
ReadReturns ==
    /\ reader.next = "return"
    /\ last' = [value |-> IF source = "pmtimer" THEN pmt.high + reader.raw ELSE reader.at, at |-> reader.at]
    /\ reader' = Idle
    /\ UNCHANGED <<step, sinks, tsc, source, ticks, pmt, epoch, lost, apic, fired, tests>>

-----------------------------------------------------------------------------

\* LapicDetectAndEnable and KeLapicClockEventSinkInit: the timer is masked and
\* stopped; the older interface needs a base address.
LapicUsable(hw, base) == hw.lapic # "none" /\ (hw.lapic = "x2apic" \/ base # 0)

\* LapicTimerConfigureOneShot and LapicTimerSetInitialCount.
Program(a, masked, count) == [a EXCEPT !.masked = masked, !.count = count]

KeLapicClockEventSinkInit(a) == Program(a, TRUE, 0)

\* The rate is measured from a full count, which is then stopped.
KeLapicClockEventSinkCalibrate(a) == Program(Program(a, FALSE, MaxCount), TRUE, 0)

\* KeClockEventPerCpuInit: masked and stopped once more.
KeClockEventPerCpuInit(a) == Program(a, TRUE, 0)

\* KeClockEventInit up to the self-test: sink, handlers, calibration, state
\* of the processor.
KeClockEventInit(hw, base) ==
    /\ step = "clock"
    /\ LapicUsable(hw, base) /\ hw.lapicHz # 0
    /\ apic' = KeClockEventPerCpuInit(KeLapicClockEventSinkCalibrate(KeLapicClockEventSinkInit(apic)))
    /\ fired' = 0
    /\ step' = "test"
    /\ UNCHANGED <<sinks, tsc, source, ticks, pmt, epoch, reader, last, lost, tests>>

\* No usable APIC, or a count that did not go down.
ClockEventInitFails(hw, base) ==
    /\ step = "clock"
    /\ ~LapicUsable(hw, base) \/ hw.lapicHz = 0
    /\ step' = "failed"
    /\ UNCHANGED <<sinks, tsc, source, ticks, pmt, epoch, reader, last, lost, apic, fired, tests>>

\* Mutant: a delay of less than a tick gives a count of 0, which stops the timer.
ClampAtMost(delta) == Min({delta, MaxCount})

\* LapicClockEventSetNextEventNs: a delta is at least one tick and at most
\* what the counter holds (deltas are counted in ticks here).
Clamp(delta) == Min({Max({delta, 1}), MaxCount})
KeClockEventSetNextEvent(delta) ==
    apic' = [Program(apic, FALSE, Clamp(delta)) EXCEPT !.request = "due"]

\* The timer counts down to its interrupt.
TimerExpires ==
    /\ apic.count # 0
    /\ fired + (IF apic.pending THEN 1 ELSE 0) < MaxInterrupts
    /\ apic' = [apic EXCEPT !.count = 0, !.pending = @ \/ ~apic.masked]
    /\ UNCHANGED <<step, sinks, tsc, source, ticks, pmt, epoch, reader, last, lost, fired, tests>>

\* LapicTimerInterruptHandler: the interrupt is counted, and the scheduler
\* behind it reads the time, wherever in its own read a thread is.
KeClockEventOnInterrupt ==
    /\ step \in {"test", "wait", "ready"}
    /\ apic.pending
    /\ apic' = [apic EXCEPT !.pending = FALSE, !.request = IF @ = "due" THEN "served" ELSE @]
    /\ fired' = fired + 1
    /\ IF step = "ready" THEN ReadCounter ELSE UNCHANGED <<pmt, last, lost>>
    /\ UNCHANGED <<step, sinks, tsc, source, ticks, epoch, reader, tests>>

\* ClockEventSelfTest arms the timer twice and waits for each interrupt,
\* reading the time all the while.
SelfTestArm ==
    /\ step = "test" /\ tests.round < 2
    /\ KeClockEventSetNextEvent(MaxCount)
    /\ tests' = [round |-> tests.round + 1, before |-> fired]
    /\ step' = "wait"
    /\ ReadCounter
    /\ UNCHANGED <<sinks, tsc, source, ticks, epoch, reader, fired>>

\* WaitForTickAdvance sees the interrupt ...
SelfTestSees ==
    /\ step = "wait" /\ fired > tests.before
    /\ step' = "test"
    /\ ReadCounter
    /\ UNCHANGED <<sinks, tsc, source, ticks, epoch, reader, apic, fired, tests>>

\* ... or gives up, though it may still come.
SelfTestTimesOut ==
    /\ step = "wait"
    /\ step' = "failed"
    /\ UNCHANGED <<sinks, tsc, source, ticks, pmt, epoch, reader, last, lost, apic, fired, tests>>

\* Two interrupts and no more make the device ready, with its count reset.
SelfTestEnds ==
    /\ step = "test" /\ tests.round = 2
    /\ step' = IF fired = 2 THEN "ready" ELSE "failed"
    /\ fired' = IF fired = 2 THEN 0 ELSE fired
    /\ apic' = [apic EXCEPT !.request = "none"]
    /\ UNCHANGED <<sinks, tsc, source, ticks, pmt, epoch, reader, last, lost, tests>>

\* A thread or the scheduler asks for the next event.
ArmTimer ==
    /\ step = "ready" /\ fired < MaxInterrupts
    /\ \E delta \in {0, MaxCount, MaxCount + 1} : KeClockEventSetNextEvent(delta)
    /\ UNCHANGED <<step, sinks, tsc, source, ticks, pmt, epoch, reader, last, lost, fired, tests>>

TimeStep ==
    \/ KeTscTimeSinkCalibrate \/ SelectSource
    \/ Tick
    \/ ReadRaw \/ CompareRaw \/ LoadHigh \/ StoreHigh \/ StoreRaw \/ ReadReturns
    \/ TimerExpires \/ KeClockEventOnInterrupt
    \/ SelfTestArm \/ SelfTestSees \/ SelfTestTimesOut \/ SelfTestEnds
    \/ ArmTimer

-----------------------------------------------------------------------------

\* KeGetSystemUpRealTime tells the time: the ticks since the epoch are exactly
\* the ones that passed, whatever wraps and interrupts came between the
\* accesses of a read, until a period of the ACPI timer went unread or an
\* interrupt came at one of the places that Torn names, where the code does
\* lose or gain a period; and they are divided by the true frequency when it
\* was measured and most of the five measurements were undisturbed.
UptimeIsTrue ==
    /\ ~lost => last.value - epoch.value = last.at - epoch.at
    /\ source = "tsc" /\ sinks # {"tsc"} /\ tsc.sound => tsc.freq = TrueFreq

\* A device that is declared ready is quiet until it is asked for an event: no
\* interrupt of the calibration or of the self-test is still to come, however
\* late the interrupts of the test were.  And an event that was asked for
\* is never lost: no delay, however short or long, leaves the timer stopped.
ClockEventIsQuiet ==
    /\ step = "ready" /\ apic.request = "none" => apic.count = 0 /\ ~apic.pending
    /\ apic.request = "due" => apic.count # 0 \/ apic.pending
=============================================================================
