-------------------------- MODULE KernelBootProofs --------------------------
(***************************************************************************)
(* Proofs about the boot of the kernel, in two parts that share nothing    *)
(* but the specification.                                                  *)
(*                                                                         *)
(* The clock: the uptime is true (UptimeAlwaysTrue) and the timer of the   *)
(* local APIC interrupts when it was asked to and only then                *)
(* (ClockEventAlwaysQuiet), for every period of the ACPI timer, every      *)
(* width of the APIC's count, every frequency and every set of disturbed   *)
(* measurements.  TimeInv adds to them how the two halves of the ACPI      *)
(* timer's sink and a thread inside a read relate to the last time that    *)
(* was read (ReadsAreTrue), that a counter which can be measured is        *)
(* measured before it is selected (Measured), and where the one interrupt  *)
(* of a request is (TimerObeys).                                           *)
(*                                                                         *)
(* The memory: the manifest is true and fits its estimate (ManifestIsTrue),*)
(* the probe of the direct map harms nothing (ProbeIsHarmless), the new    *)
(* page allocator uses only spare memory that it can write                 *)
(* (FreeMemoryIsSafe), and exactly that (FreeMemoryIsExact), for every     *)
(* machine, memory map, image and layout of the address space.  BootInv    *)
(* says of every stage of the loader what is in place and how many entries *)
(* it may have recorded (LoaderInv), that the steps come in order          *)
(* (OrderInv, TestOk), that the imported regions are the manifest's        *)
(* (RegionsOk), and where the descriptors, the span, the place and the     *)
(* pages of the bitmap come from (PmmInv).                                 *)
(***************************************************************************)
EXTENDS KernelBoot, FiniteSetTheorems, WellFoundedInduction, TLAPS

-----------------------------------------------------------------------------

\* The smaller of two numbers.
LEMMA MinOfTwo ==
    ASSUME NEW a \in Nat, NEW b \in Nat
    PROVE  Min({a, b}) = IF a <= b THEN a ELSE b
  BY DEF Min

\* The larger of two numbers.
LEMMA MaxOfTwo ==
    ASSUME NEW a \in Nat, NEW b \in Nat
    PROVE  Max({a, b}) = IF a <= b THEN b ELSE a
  BY DEF Max

\* LapicClockEventSetNextEventNs never programs a count of 0, which would stop
\* the timer: every delay is clamped to at least one tick.
LEMMA ClampRuns ==
    ASSUME NEW delta \in Nat
    PROVE  Clamp(delta) \in Nat \ {0}
  <1>1. MaxCount \in Nat \ {0}
    BY TimeAssumption
  <1>2. Max({delta, 1}) \in Nat \ {0}
    BY MaxOfTwo
  <1> QED
    BY <1>1, <1>2, MinOfTwo DEF Clamp

\* The arithmetic behind PmTimerSinkReadCounter: between two moments less than
\* a period apart, the start of the period moves, by exactly one period, when
\* the raw value has gone down, and does not move otherwise.
LEMMA Wraps ==
    ASSUME NEW R \in Nat \ {0}, NEW a \in Nat, NEW t \in Nat, a <= t, t - a < R
    PROVE  (t % R < a % R => t - (t % R) = (a - (a % R)) + R)
           /\ (~(t % R < a % R) => t - (t % R) = a - (a % R))
  <1> DEFINE q == a \div R
             r == a % R
             p == t \div R
             s == t % R
  <1>1. q \in Nat /\ p \in Nat /\ r \in 0 .. R - 1 /\ s \in 0 .. R - 1
    OBVIOUS
  <1>2. a = R * q + r /\ t = R * p + s
    OBVIOUS
  <1> HIDE DEF q, r, p, s
  <1>3. p >= q
    <2>1. SUFFICES ASSUME p + 1 <= q PROVE FALSE
      BY <1>1
    <2>2. R * (p + 1) <= R * q
      BY <2>1, <1>1
    <2>3. R * (p + 1) = R * p + R
      BY <1>1
    <2> QED
      BY <2>2, <2>3, <1>1, <1>2
  <1>4. p <= q + 1
    <2>1. SUFFICES ASSUME q + 2 <= p PROVE FALSE
      BY <1>1
    <2>2. R * (q + 2) <= R * p
      BY <2>1, <1>1
    <2>3. R * (q + 2) = R * q + R + R
      BY <1>1
    <2> QED
      BY <2>2, <2>3, <1>1, <1>2
  <1>5. R * (q + 1) = R * q + R
    BY <1>1
  <1>6. p = q \/ p = q + 1
    BY <1>1, <1>3, <1>4
  <1>7. CASE p = q
    <2>1. ~(s < r) /\ t - s = a - r
      BY <1>1, <1>2, <1>7
    <2> QED
      BY <2>1 DEF s, r
  <1>8. CASE p = q + 1
    <2>1. s < r /\ t - s = (a - r) + R
      BY <1>1, <1>2, <1>5, <1>8
    <2>2. t - s # a - r
      BY <2>1, <1>1, <1>2
    <2> QED
      BY <2>1 DEF s, r
  <1> QED
    BY <1>6, <1>7, <1>8

\* The average in KeTscTimeSinkCalibrate is over one place only, since two
\* results are dropped at either end.
LEMMA SumOfOne ==
    ASSUME NEW results, Ranked(results, 3) \in Nat
    PROVE  MapThenSumSet(LAMBDA i : Ranked(results, i), {3}) = Ranked(results, 3)
  <1> DEFINE v == Ranked(results, 3)
             body(g) == [s \in SUBSET {3} |-> IF s = {} THEN 0
                          ELSE Ranked(results, CHOOSE x \in s : TRUE) + g[s \ {CHOOSE x \in s : TRUE}]]
             sum == CHOOSE g : g = body(g)
             w == [s \in SUBSET {3} |-> IF s = {} THEN 0 ELSE v]
  <1>1. MapThenSumSet(LAMBDA i : Ranked(results, i), {3}) = sum[{3}]
    BY DEF MapThenSumSet, MapThenFoldSet
  <1>2. \A s \in SUBSET {3} : s = {} \/ s = {3}
    OBVIOUS
  <1>3. (CHOOSE x \in {3} : TRUE) = 3
    OBVIOUS
  <1>4. body(w) = w
    <2>1. w[{}] = 0 /\ w[{3}] = v
      OBVIOUS
    <2>2. {3} \ {CHOOSE x \in {3} : TRUE} = {}
      BY <1>3
    <2> HIDE DEF w
    <2>3. body(w)[{}] = 0 /\ body(w)[{3}] = v
      BY <1>3, <2>1, <2>2
    <2> HIDE DEF body
    <2>4. \A s \in SUBSET {3} : body(w)[s] = w[s]
      BY <1>2, <2>1, <2>3, Zenon
    <2> QED
      BY <2>4 DEF body, w
  <1>5. sum = body(sum)
    <2> HIDE DEF body, w
    <2> QED
      BY <1>4
  <1>6. sum[{}] = 0
    <2> HIDE DEF sum
    <2>1. body(sum)[{}] = 0
      OBVIOUS
    <2> HIDE DEF body
    <2> QED
      BY <1>5, <2>1, Zenon
  <1>7. sum[{3}] = v
    <2> HIDE DEF sum
    <2>1. body(sum)[{3}] = Ranked(results, 3) + sum[{3} \ {3}]
      BY <1>3
    <2>2. {3} \ {3} = {}
      OBVIOUS
    <2>3. body(sum)[{3}] = Ranked(results, 3)
      BY <1>6, <2>1, <2>2
    <2> HIDE DEF body
    <2> QED
      BY <1>5, <2>3, Zenon
  <1> QED
    BY <1>1, <1>7

\* KeTscTimeSinkCalibrate: when most of the five measurements are undisturbed,
\* whatever the others give, the frequency it stores is the true one.
LEMMA MedianIsTrue ==
    ASSUME NEW results \in [1 .. Samples -> Disturbed \cup {TrueFreq}],
           Cardinality(Good(results)) > Samples \div 2
    PROVE  Frequency(results) = TrueFreq
  <1>1. TrueFreq \in Nat /\ Disturbed \subseteq Nat
    BY TimeAssumption
  <1>2. DOMAIN results = 1 .. 5 /\ \A j \in 1 .. 5 : results[j] \in Nat
    BY <1>1 DEF Samples
  <1> DEFINE J == 1 .. 5
             G == {j \in J : results[j] = TrueFreq}
             Below(v) == {j \in J : results[j] < v}
             UpTo(v) == {j \in J : results[j] <= v}
             Third(v) == Cardinality(Below(v)) < 3 /\ 3 <= Cardinality(UpTo(v))
  <1>3. IsFiniteSet(J) /\ Cardinality(J) = 5
    <2>1. 1 \in Int /\ 5 \in Int
      OBVIOUS
    <2>2. IsFiniteSet(1 .. 5) /\ Cardinality(1 .. 5) = IF 1 > 5 THEN 0 ELSE 5 - 1 + 1
      BY <2>1, FS_Interval, Zenon
    <2> QED
      BY <2>2
  <1>4. \A S \in SUBSET J : IsFiniteSet(S) /\ Cardinality(S) \in Nat /\ Cardinality(S) <= 5
    <2> TAKE S \in SUBSET J
    <2> HIDE DEF J
    <2>1. IsFiniteSet(S) /\ Cardinality(S) <= Cardinality(J)
      BY <1>3, FS_Subset
    <2> QED
      BY <2>1, <1>3, FS_CardinalityType
  <1>5. G \subseteq J /\ Cardinality(G) > 2
    <2>1. Good(results) = G
      BY <1>2 DEF Good
    <2>2. Samples \div 2 = 2
      BY DEF Samples
    <2> QED
      BY <2>1, <2>2
  <1>6. \A S \in SUBSET J : S \cap G = {} => Cardinality(S) < 3
    <2> TAKE S \in SUBSET J
    <2> HAVE S \cap G = {}
    <2>1. Cardinality(S \cup G) = Cardinality(S) + Cardinality(G) - Cardinality(S \cap G)
      BY <1>4, <1>5, FS_Union
    <2>2. Cardinality(S \cap G) = 0
      BY FS_EmptySet
    <2>3. S \cup G \in SUBSET J
      OBVIOUS
    <2> HIDE DEF G, J
    <2> QED
      BY <2>1, <2>2, <2>3, <1>4, <1>5
  <1>7. \A S \in SUBSET J : G \subseteq S => 3 <= Cardinality(S)
    <2> TAKE S \in SUBSET J
    <2> HAVE G \subseteq S
    <2>1. Cardinality(G) <= Cardinality(S)
      BY <1>4, FS_Subset
    <2> HIDE DEF G, J
    <2> QED
      BY <2>1, <1>4, <1>5
  <1>8. Third(TrueFreq)
    <2>1. Below(TrueFreq) \in SUBSET J /\ Below(TrueFreq) \cap G = {}
      BY <1>1, <1>2
    <2>2. UpTo(TrueFreq) \in SUBSET J /\ G \subseteq UpTo(TrueFreq)
      BY <1>1, <1>2
    <2> HIDE DEF Below, UpTo, G, J
    <2> QED
      BY <2>1, <2>2, <1>6, <1>7
  <1>9. ASSUME NEW v \in Nat, Third(v)
        PROVE  v = TrueFreq
    <2>1. CASE v < TrueFreq
      <3>1. UpTo(v) \in SUBSET J /\ UpTo(v) \cap G = {}
        BY <1>1, <1>2, <2>1
      <3> HIDE DEF UpTo, Below, G, J
      <3>2. Cardinality(UpTo(v)) < 3 /\ Cardinality(UpTo(v)) \in Nat
        BY <3>1, <1>6, <1>4
      <3> QED
        BY <3>2, <1>9
    <2>2. CASE TrueFreq < v
      <3>1. Below(v) \in SUBSET J /\ G \subseteq Below(v)
        BY <1>1, <1>2, <2>2
      <3> HIDE DEF UpTo, Below, G, J
      <3>2. 3 <= Cardinality(Below(v)) /\ Cardinality(Below(v)) \in Nat
        BY <3>1, <1>7, <1>4
      <3> QED
        BY <3>2, <1>9
    <2> QED
      BY <1>1, <2>1, <2>2
  <1>10. TrueFreq \in Range(results)
    <2>1. G # {}
      BY <1>5, FS_EmptySet
    <2> QED
      BY <2>1, <1>2 DEF Range
  <1>11. Range(results) \subseteq Nat
    BY <1>2 DEF Range
  <1>12. Ranked(results, 3) = CHOOSE v \in Range(results) : Third(v)
    BY <1>2 DEF Ranked
  <1>13. Ranked(results, 3) = TrueFreq
    <2> HIDE DEF Third
    <2> QED
      BY <1>8, <1>9, <1>10, <1>11, <1>12
  <1>14. MapThenSumSet(LAMBDA i : Ranked(results, i), {3}) = TrueFreq
    BY <1>1, <1>13, SumOfOne
  <1>15. DiscardExtremes + 1 .. Samples - DiscardExtremes = {3} /\ Samples - 2 * DiscardExtremes = 1
    BY DEF DiscardExtremes, Samples
  <1>16. Frequency(results)
           = MapThenSumSet(LAMBDA i : Ranked(results, i), DiscardExtremes + 1 .. Samples - DiscardExtremes)
                 \div (Samples - 2 * DiscardExtremes)
    BY DEF Frequency
  <1>17. Frequency(results) = TrueFreq \div 1
    BY <1>14, <1>15, <1>16
  <1> QED
    BY <1>1, <1>17

-----------------------------------------------------------------------------

\* The steps of the initialization, a value with the time it was read at, the
\* accesses of a read, and the timer of the local APIC.
Steps == {"off", "calibrate", "select", "clock", "test", "wait", "ready", "failed"}
Stamp == [value : Nat, at : Nat]
Sink == [high : Nat, raw : Nat, at : Nat]
Read == [next : {"port", "compare", "load", "add", "store", "return"}, at : Nat, raw : Nat, high : Nat]
Timer == [count : Nat, masked : BOOLEAN, pending : BOOLEAN, request : {"none", "due", "served"}]

\* The types of the clock's variables.
TimeTypeOK ==
    /\ step \in Steps
    /\ ticks \in Nat
    /\ pmt \in Sink
    /\ epoch \in Stamp /\ last \in Stamp
    /\ reader \in Read
    /\ lost \in BOOLEAN
    /\ apic \in Timer
    /\ fired \in Nat
    /\ tests \in [round : Nat, before : Nat]

\* Until the source is selected nothing reads it, and the ACPI timer is where
\* its sink was set up.
NothingReadsYet ==
    /\ step # "ready" => reader = Idle
    /\ step \in {"off", "calibrate", "select"} => source = "none"
    /\ step \in {"calibrate", "select"} => pmt = [high |-> 0, raw |-> ticks, at |-> ticks] /\ ticks < RawSpan

\* A sink of a counter that can be measured has been measured.
Measured ==
    /\ step \notin {"off", "calibrate"} /\ "tsc" \in sinks /\ sinks # {"tsc"} /\ tsc.sound
         => tsc.freq = TrueFreq
    /\ source = "tsc" => "tsc" \in sinks /\ step \notin {"off", "calibrate", "select"}

\* The state of the sink is a time that passed, in two parts, but for a thread
\* that has changed one and not the other.
SinkIsTrue ==
    /\ pmt.raw = pmt.at % RawSpan /\ pmt.at <= ticks
    /\ reader.next # "store" => pmt.high = Base(pmt.at)

\* What a thread knows at each of its accesses: before the comparison no read is
\* newer than its own; then High is, or will be, the start of its period.
ReaderIsTrue ==
    reader.next # "port" =>
        /\ reader.at <= ticks /\ reader.raw = reader.at % RawSpan
        /\ reader.next = "compare" => pmt.at <= reader.at /\ reader.at - pmt.at < RawSpan
        /\ reader.next = "load" => pmt.high + RawSpan = Base(reader.at)
        /\ reader.next = "add" => reader.high + RawSpan = Base(reader.at)
        /\ reader.next \in {"store", "return"} => pmt.high = Base(reader.at)

\* Until a read is lost, every value read is the time it was read at.
ReadsAreTrue ==
    /\ epoch.value = epoch.at
    /\ ~lost => last.value = last.at
    /\ source # "pmtimer" => reader.next \in {"port", "return"}
    /\ ~lost /\ source = "pmtimer" => SinkIsTrue /\ ReaderIsTrue

\* One interrupt for every request, and none after it was seen.
TimerObeys ==
    /\ step \in {"off", "calibrate", "select", "clock"} =>
          apic.count = 0 /\ ~apic.pending /\ apic.request = "none"
    /\ step = "test" => apic.count = 0 /\ ~apic.pending
    /\ step = "wait" =>
          /\ apic.count # 0 => ~apic.pending
          /\ apic.count # 0 \/ apic.pending => fired = tests.before
    /\ step = "ready" /\ apic.request = "none" => apic.count = 0 /\ ~apic.pending
    /\ apic.request = "due" => ~apic.masked /\ (apic.count # 0 \/ apic.pending)

\* The inductive invariant.
TimeInv == TimeTypeOK /\ NothingReadsYet /\ Measured /\ ReadsAreTrue /\ TimerObeys

-----------------------------------------------------------------------------

\* The ACPI timer has a period.
LEMMA SpanIsPositive == RawSpan \in Nat \ {0}
  BY TimeAssumption

\* What the ACPI timer shows is a number.
LEMMA RawIsNat ==
    ASSUME NEW t \in Nat
    PROVE  t % RawSpan \in Nat
  BY SpanIsPositive

\* A time is the start of its period and what the ACPI timer shows.
LEMMA BaseAndRaw ==
    ASSUME NEW t \in Nat
    PROVE  Base(t) \in Int /\ Base(t) + (t % RawSpan) = t
  <1>1. PICK x \in Nat : x = t % RawSpan
    BY RawIsNat
  <1>2. Base(t) = t - x
    BY <1>1 DEF Base
  <1> QED
    BY <1>1, <1>2

\* PmTimerSinkReadCounter can tell from two raw values whether the counter has
\* wrapped in between, when the reads are less than a period apart.
LEMMA WrapIsSeen ==
    ASSUME NEW a \in Nat, NEW t \in Nat, a <= t, t - a < RawSpan
    PROVE  Base(t) = IF t % RawSpan < a % RawSpan THEN Base(a) + RawSpan ELSE Base(a)
  <1>1. /\ t % RawSpan < a % RawSpan => t - (t % RawSpan) = (a - (a % RawSpan)) + RawSpan
        /\ ~(t % RawSpan < a % RawSpan) => t - (t % RawSpan) = a - (a % RawSpan)
    BY SpanIsPositive, Wraps, ZenonT(60)
  <1> QED
    BY <1>1, Zenon DEF Base

\* An undivided read keeps the types of what it writes.
LEMMA ReadCounterTypes ==
    ASSUME TimeTypeOK, ReadCounter
    PROVE  pmt' \in Sink /\ last' \in Stamp /\ lost' \in BOOLEAN
  <1>1. PICK raw \in Nat : raw = ticks % RawSpan
    BY RawIsNat DEF TimeTypeOK
  <1>2. PICK above \in Nat : above = IF Wrapped(ticks % RawSpan) THEN pmt.high + RawSpan ELSE pmt.high
    BY SpanIsPositive DEF TimeTypeOK, Sink
  <1>3. pmt' = IF source = "pmtimer" THEN [high |-> above, raw |-> raw, at |-> ticks] ELSE pmt
    BY <1>1, <1>2 DEF ReadCounter
  <1>4. last' = [value |-> IF source = "pmtimer" THEN above + raw ELSE ticks, at |-> ticks]
    BY <1>1, <1>2 DEF ReadCounter
  <1>5. lost' \in BOOLEAN
    BY Zenon DEF ReadCounter
  <1>6. ticks \in Nat /\ pmt \in Sink /\ above + raw \in Nat
    BY DEF TimeTypeOK
  <1>7. pmt' \in Sink
    BY <1>3, <1>6 DEF Sink
  <1>8. last' \in Stamp
    BY <1>4, <1>6 DEF Stamp
  <1> QED
    BY <1>5, <1>7, <1>8

\* An undivided read that neither comes too late nor tears the read of a
\* thread tells the time, and leaves the thread what it relies on.
LEMMA ReadCounterIsTrue ==
    ASSUME TimeTypeOK, ReadsAreTrue, ReadCounter, UNCHANGED <<epoch, source, ticks, reader>>
    PROVE  ReadsAreTrue'
  <1>0. ticks \in Nat /\ pmt \in Sink /\ reader \in Read /\ pmt.at \in Nat /\ reader.at \in Nat
    BY DEF TimeTypeOK, Sink, Read
  <1>1. source # "pmtimer" => last'.value = last'.at
    BY DEF ReadCounter
  <1>2. ASSUME ~lost', source = "pmtimer"
        PROVE  last'.value = last'.at /\ SinkIsTrue' /\ ReaderIsTrue'
    <2>1. ~lost /\ ~Missed /\ ~Torn
      BY <1>2, Zenon DEF ReadCounter
    <2>2. SinkIsTrue /\ ReaderIsTrue
      BY <1>2, <2>1 DEF ReadsAreTrue
    <2>3. pmt.at <= ticks /\ ticks - pmt.at < RawSpan
      BY <1>0, <2>1, <2>2, SpanIsPositive DEF SinkIsTrue, Missed
    <2>4. /\ reader.next = "compare" => reader.at = ticks
          /\ reader.next # "load"
          /\ reader.next = "store" => Base(pmt.at) = Base(reader.at) /\ Base(ticks) = Base(reader.at)
          /\ reader.next = "return" => Base(ticks) = Base(reader.at)
      BY <2>1 DEF Torn
    <2>5. pmt.high = Base(pmt.at) /\ pmt.raw = pmt.at % RawSpan
      BY <2>2, <2>4 DEF SinkIsTrue, ReaderIsTrue
    <2>6. Base(ticks) = IF Wrapped(ticks % RawSpan) THEN pmt.high + RawSpan ELSE pmt.high
      BY <1>0, <2>3, <2>5, WrapIsSeen DEF Wrapped
    <2>7. /\ pmt' = [high |-> Base(ticks), raw |-> ticks % RawSpan, at |-> ticks]
          /\ last' = [value |-> Base(ticks) + (ticks % RawSpan), at |-> ticks]
      BY <1>2, <2>6 DEF ReadCounter
    <2>8. last'.value = last'.at
      BY <1>0, <2>7, BaseAndRaw
    <2>9. SinkIsTrue'
      BY <1>0, <2>7 DEF SinkIsTrue
    <2>10. ReaderIsTrue'
      <3>1. ticks - ticks = 0 /\ 0 < RawSpan /\ ticks <= ticks
        BY <1>0, SpanIsPositive
      <3> QED
        BY <2>2, <2>4, <2>7, <3>1 DEF ReaderIsTrue
    <2> QED
      BY <2>8, <2>9, <2>10
  <1>3. source' # "pmtimer" => reader'.next \in {"port", "return"}
    BY DEF ReadsAreTrue
  <1>4. (~lost' => last'.value = last'.at) /\ epoch'.value = epoch'.at
    BY <1>1, <1>2 DEF ReadsAreTrue
  <1> QED
    BY <1>2, <1>3, <1>4 DEF ReadsAreTrue

\* Steps that read nothing.
LEMMA TruthKept ==
    ASSUME TimeTypeOK, ReadsAreTrue, UNCHANGED <<epoch, source, pmt, last>>, UNCHANGED reader,
           ~lost' => ~lost, ticks' \in Nat, ticks <= ticks'
    PROVE  ReadsAreTrue'
  <1>1. ticks \in Nat /\ pmt.at \in Nat /\ reader.at \in Nat
    BY DEF TimeTypeOK, Sink, Read
  <1>2. SinkIsTrue => SinkIsTrue'
    BY <1>1 DEF SinkIsTrue
  <1>3. ReaderIsTrue => ReaderIsTrue'
    BY <1>1 DEF ReaderIsTrue
  <1> QED
    BY <1>2, <1>3 DEF ReadsAreTrue

-----------------------------------------------------------------------------

\* The kernel starts with the clock off.
LEMMA InitHasTimeInv ==
    ASSUME Init
    PROVE  TimeInv
  <1>1. TimeInit
    BY DEF Init
  <1>2. TimeTypeOK
    BY <1>1 DEF TimeInit, TimeTypeOK, Steps, Stamp, Timer, Sink, Read, Idle
  <1>3. NothingReadsYet /\ Measured /\ ReadsAreTrue
    BY <1>1 DEF TimeInit, NothingReadsYet, Measured, ReadsAreTrue, Idle
  <1>4. TimerObeys
    BY <1>1 DEF TimeInit, TimerObeys
  <1> QED
    BY <1>2, <1>3, <1>4 DEF TimeInv

\* The steps of the initialization before anything is read.
LEMMA SourceInitKeeps ==
    ASSUME TimeInv, NEW hw, NEW fadt, NEW table, KeTimeSourceInit(hw, fadt, table)
    PROVE  TimeInv'
  <1>1. ticks' \in Nat /\ ticks' < RawSpan
    BY SpanIsPositive DEF KeTimeSourceInit
  <1>2. source = "none" /\ reader = Idle
    BY DEF KeTimeSourceInit, TimeInv, NothingReadsYet
  <1>3. step' \in {"calibrate", "select"} /\ pmt' = [high |-> 0, raw |-> ticks', at |-> ticks']
    BY DEF KeTimeSourceInit
  <1>4. TimeTypeOK'
    BY <1>1, <1>3 DEF KeTimeSourceInit, TimeInv, TimeTypeOK, Steps, Sink
  <1>5. NothingReadsYet'
    BY <1>1, <1>2, <1>3 DEF KeTimeSourceInit, NothingReadsYet
  <1>6. Measured'
    <2>1. step' = "select" /\ "tsc" \in sinks' => sinks' = {"tsc"}
      BY DEF KeTimeSourceInit
    <2> QED
      BY <1>2, <1>3, <2>1 DEF KeTimeSourceInit, Measured
  <1>7. ReadsAreTrue'
    BY <1>2 DEF KeTimeSourceInit, TimeInv, ReadsAreTrue, Idle
  <1>8. TimerObeys'
    BY <1>3 DEF KeTimeSourceInit, TimeInv, TimerObeys
  <1> QED
    BY <1>4, <1>5, <1>6, <1>7, <1>8 DEF TimeInv

\* KeTscTimeSinkCalibrate leaves a frequency that its samples justify.
LEMMA CalibrateKeeps ==
    ASSUME TimeInv, KeTscTimeSinkCalibrate
    PROVE  TimeInv'
  <1>1. TimeTypeOK' /\ NothingReadsYet' /\ TimerObeys'
    BY DEF KeTscTimeSinkCalibrate, TimeInv, TimeTypeOK, NothingReadsYet, TimerObeys, Steps
  <1>2. ReadsAreTrue'
    BY DEF KeTscTimeSinkCalibrate, TimeInv, ReadsAreTrue, SinkIsTrue, ReaderIsTrue
  <1>3. tsc'.sound => tsc'.freq = TrueFreq
    <2>1. PICK results \in [1 .. Samples -> Disturbed \cup {TrueFreq}] :
              tsc' = [freq |-> Frequency(results), calibrated |-> TRUE,
                      sound |-> Cardinality(Good(results)) > Samples \div 2]
      BY DEF KeTscTimeSinkCalibrate
    <2>2. tsc'.sound = (Cardinality(Good(results)) > Samples \div 2) /\ tsc'.freq = Frequency(results)
      BY <2>1
    <2> QED
      BY <2>2, MedianIsTrue, Zenon
  <1>4. source' = "none"
    BY DEF KeTscTimeSinkCalibrate, TimeInv, NothingReadsYet
  <1>5. Measured'
    BY <1>3, <1>4 DEF Measured
  <1> QED
    BY <1>1, <1>2, <1>5 DEF TimeInv

\* The start of time is read from a sink that has not wrapped yet.
LEMMA SelectKeeps ==
    ASSUME TimeInv, SelectSource
    PROVE  TimeInv'
  <1>1. step = "select" /\ reader' = Idle /\ pmt' = [high |-> 0, raw |-> ticks, at |-> ticks]
        /\ ticks' = ticks /\ ticks \in Nat /\ ticks < RawSpan
        /\ last' = [value |-> ticks, at |-> ticks] /\ epoch' = [value |-> ticks, at |-> ticks]
    BY DEF SelectSource, TimeInv, NothingReadsYet, TimeTypeOK
  <1>2. step' \in {"failed", "clock"}
    BY DEF SelectSource
  <1>3. TimeTypeOK'
    BY <1>1, <1>2 DEF SelectSource, TimeInv, TimeTypeOK, Steps, Stamp, Sink
  <1>4. NothingReadsYet'
    BY <1>1, <1>2 DEF NothingReadsYet
  <1>5. Measured'
    <2>1. source' = "tsc" => "tsc" \in sinks'
      BY DEF SelectSource, Selected
    <2> QED
      BY <1>1, <1>2, <2>1 DEF SelectSource, TimeInv, Measured
  <1>6. SinkIsTrue' /\ ReaderIsTrue' /\ reader'.next = "port"
    <2>1. ticks % RawSpan = ticks
      BY <1>1, SpanIsPositive
    <2>2. Base(ticks) = 0
      BY <1>1, <2>1 DEF Base
    <2> QED
      BY <1>1, <2>1, <2>2 DEF SinkIsTrue, ReaderIsTrue, Idle
  <1>7. ReadsAreTrue'
    BY <1>1, <1>6 DEF ReadsAreTrue
  <1>8. TimerObeys'
    BY <1>1, <1>2 DEF SelectSource, TimeInv, TimerObeys
  <1> QED
    BY <1>3, <1>4, <1>5, <1>7, <1>8 DEF TimeInv

\* Steps that leave the sources and what was measured alone.
LEMMA SourcesKept ==
    ASSUME TimeInv, UNCHANGED <<sinks, tsc, source>>,
           step \notin {"off", "calibrate", "select"}, step' \notin {"off", "calibrate", "select"}
    PROVE  Measured'
  BY DEF TimeInv, Measured

\* Time passes without the sink's state changing.
LEMMA TickKeeps ==
    ASSUME TimeInv, Tick
    PROVE  TimeInv'
  <1>1. step \in {"test", "wait", "ready"} /\ ticks \in Nat /\ ticks' = ticks + 1
        /\ UNCHANGED <<step, sinks, tsc, source, pmt, epoch, reader, last, lost, apic, fired, tests>>
    BY DEF Tick, Passes, TimeInv, TimeTypeOK
  <1>2. TimeTypeOK' /\ NothingReadsYet' /\ TimerObeys'
    BY <1>1 DEF TimeInv, TimeTypeOK, NothingReadsYet, TimerObeys
  <1>3. Measured'
    BY <1>1, SourcesKept
  <1>4. ReadsAreTrue'
    <2>1. ticks' \in Nat /\ ticks <= ticks'
      BY <1>1
    <2> QED
      BY <1>1, <2>1, TruthKept DEF TimeInv
  <1> QED
    BY <1>2, <1>3, <1>4 DEF TimeInv

\* A thread that reads the port in time holds a value the sink can still
\* extend.
LEMMA ReadRawKeeps ==
    ASSUME TimeInv, ReadRaw
    PROVE  TimeInv'
  <1>1. /\ step = "ready" /\ ticks \in Nat /\ pmt.at \in Nat /\ reader = Idle
        /\ reader' = [next |-> IF source = "pmtimer" THEN "compare" ELSE "return",
                      at |-> ticks, raw |-> ticks % RawSpan, high |-> 0]
        /\ lost' = (lost \/ (source = "pmtimer" /\ Missed))
        /\ UNCHANGED <<step, sinks, tsc, source, ticks, pmt, epoch, last, apic, fired, tests>>
    BY DEF ReadRaw, TimeInv, TimeTypeOK, Sink
  <1>2. lost' \in BOOLEAN
    BY <1>1, Zenon
  <1>3. reader' \in Read
    BY <1>1, RawIsNat DEF Read
  <1>4. TimeTypeOK' /\ NothingReadsYet' /\ TimerObeys'
    BY <1>1, <1>2, <1>3 DEF TimeInv, TimeTypeOK, NothingReadsYet, TimerObeys
  <1>5. Measured'
    BY <1>1, SourcesKept
  <1>6. ASSUME ~lost', source = "pmtimer" PROVE SinkIsTrue' /\ ReaderIsTrue'
    <2>1. ~lost /\ ~Missed
      BY <1>1, <1>6, Zenon
    <2>2. SinkIsTrue
      BY <1>6, <2>1 DEF TimeInv, ReadsAreTrue
    <2>3. pmt.at <= ticks /\ ticks - pmt.at < RawSpan /\ ticks <= ticks
      BY <1>1, <2>1, <2>2, SpanIsPositive DEF SinkIsTrue, Missed
    <2>4. pmt.high = Base(pmt.at)
      BY <1>1, <2>2 DEF SinkIsTrue, Idle
    <2>5. SinkIsTrue'
      BY <1>1, <2>2, <2>4 DEF SinkIsTrue
    <2> QED
      BY <1>1, <1>6, <2>3, <2>5 DEF ReaderIsTrue
  <1>7. ~lost' => ~lost
    BY <1>1, Zenon
  <1>8. ReadsAreTrue'
    BY <1>1, <1>6, <1>7 DEF TimeInv, ReadsAreTrue
  <1> QED
    BY <1>4, <1>5, <1>8 DEF TimeInv

\* What is left to show of an access of the thread to the sink.
LEMMA AccessKeeps ==
    ASSUME TimeInv, reader # Idle, pmt' \in Sink, reader' \in Read, last' \in Stamp,
           UNCHANGED <<step, sinks, tsc, source, ticks, epoch, lost, apic, fired, tests>>,
           ReadsAreTrue'
    PROVE  TimeInv'
  <1>1. step = "ready"
    BY DEF TimeInv, NothingReadsYet
  <1>2. TimeTypeOK' /\ NothingReadsYet' /\ TimerObeys'
    BY <1>1 DEF TimeInv, TimeTypeOK, NothingReadsYet, TimerObeys
  <1>3. Measured'
    BY <1>1, SourcesKept
  <1> QED
    BY <1>2, <1>3 DEF TimeInv

\* The comparison finds a wrap exactly when there was one.
LEMMA CompareKeeps ==
    ASSUME TimeInv, CompareRaw
    PROVE  TimeInv'
  <1>1. /\ reader.next = "compare" /\ reader \in Read /\ pmt \in Sink /\ reader.at \in Nat /\ pmt.at \in Nat
        /\ last \in Stamp
        /\ reader' = [reader EXCEPT !.next = IF Wrapped(reader.raw) THEN "load" ELSE "store"]
        /\ UNCHANGED <<step, sinks, tsc, source, ticks, pmt, epoch, last, lost, apic, fired, tests>>
    BY DEF CompareRaw, TimeInv, TimeTypeOK, Read, Sink
  <1>2. /\ reader' \in Read /\ reader'.at = reader.at /\ reader'.raw = reader.raw
        /\ reader'.next = IF Wrapped(reader.raw) THEN "load" ELSE "store"
    BY <1>1 DEF Read
  <1>3. ASSUME ~lost, source = "pmtimer" PROVE SinkIsTrue' /\ ReaderIsTrue'
    <2>1. SinkIsTrue /\ ReaderIsTrue
      BY <1>3 DEF TimeInv, ReadsAreTrue
    <2>2. /\ reader.raw = reader.at % RawSpan /\ pmt.raw = pmt.at % RawSpan /\ pmt.high = Base(pmt.at)
          /\ pmt.at <= reader.at /\ reader.at - pmt.at < RawSpan /\ reader.at <= ticks
      BY <1>1, <2>1 DEF SinkIsTrue, ReaderIsTrue
    <2>3. Base(reader.at) = IF Wrapped(reader.raw) THEN pmt.high + RawSpan ELSE pmt.high
      BY <1>1, <2>2, WrapIsSeen DEF Wrapped
    <2>4. SinkIsTrue'
      BY <1>1, <2>1, <2>2 DEF SinkIsTrue
    <2>5. ReaderIsTrue'
      BY <1>1, <1>2, <2>2, <2>3 DEF ReaderIsTrue
    <2> QED
      BY <2>4, <2>5
  <1>4. source = "pmtimer"
    BY <1>1 DEF TimeInv, ReadsAreTrue
  <1>5. ReadsAreTrue'
    BY <1>1, <1>3, <1>4 DEF TimeInv, ReadsAreTrue
  <1>6. reader # Idle
    BY <1>1 DEF Idle
  <1> QED
    BY <1>1, <1>2, <1>5, <1>6, AccessKeeps

\* High is loaded and stored; what an interrupt has made of it meanwhile is
\* overwritten.
LEMMA HighKeeps ==
    ASSUME TimeInv, LoadHigh \/ StoreHigh
    PROVE  TimeInv'
  <1>1. /\ reader.next \in {"load", "add"} /\ reader \in Read /\ pmt \in Sink /\ reader.at \in Nat /\ pmt.at \in Nat
        /\ last \in Stamp
        /\ UNCHANGED <<step, sinks, tsc, source, ticks, epoch, last, lost, apic, fired, tests>>
    BY DEF LoadHigh, StoreHigh, TimeInv, TimeTypeOK, Read, Sink
  <1>2. source = "pmtimer"
    BY <1>1 DEF TimeInv, ReadsAreTrue
  <1>3. ~lost => SinkIsTrue /\ ReaderIsTrue
    BY <1>2 DEF TimeInv, ReadsAreTrue
  <1>4. reader # Idle
    BY <1>1 DEF Idle
  <1>5. CASE LoadHigh
    <2>1. reader.next = "load" /\ pmt' = pmt /\ reader' = [reader EXCEPT !.next = "add", !.high = pmt.high]
      BY <1>5 DEF LoadHigh
    <2>2. /\ reader' \in Read /\ reader'.at = reader.at /\ reader'.raw = reader.raw
          /\ reader'.next = "add" /\ reader'.high = pmt.high
      BY <1>1, <2>1 DEF Read, Sink
    <2>3. ~lost => SinkIsTrue'
      BY <1>1, <1>3, <2>1, <2>2 DEF SinkIsTrue
    <2>4. ~lost => ReaderIsTrue'
      BY <1>1, <1>3, <2>1, <2>2 DEF ReaderIsTrue
    <2>5. ReadsAreTrue'
      BY <1>1, <1>2, <2>3, <2>4 DEF TimeInv, ReadsAreTrue
    <2> QED
      BY <1>1, <1>4, <2>1, <2>2, <2>5, AccessKeeps
  <1>6. CASE StoreHigh
    <2>1. /\ reader.next = "add" /\ pmt' = [pmt EXCEPT !.high = reader.high + RawSpan]
          /\ reader' = [reader EXCEPT !.next = "store"]
      BY <1>6 DEF StoreHigh
    <2>2. /\ reader' \in Read /\ reader'.at = reader.at /\ reader'.raw = reader.raw /\ reader'.next = "store"
      BY <1>1, <2>1 DEF Read
    <2>3. reader.high + RawSpan \in Nat
      BY <1>1, SpanIsPositive DEF Read
    <2>4. pmt' \in Sink /\ pmt'.at = pmt.at /\ pmt'.raw = pmt.raw /\ pmt'.high = reader.high + RawSpan
      BY <1>1, <2>1, <2>3 DEF Sink
    <2>5. ~lost => SinkIsTrue'
      BY <1>1, <1>3, <2>2, <2>4 DEF SinkIsTrue
    <2>6. ~lost => ReaderIsTrue'
      BY <1>1, <1>3, <2>1, <2>2, <2>4 DEF ReaderIsTrue
    <2>7. ReadsAreTrue'
      BY <1>1, <1>2, <2>5, <2>6 DEF TimeInv, ReadsAreTrue
    <2> QED
      BY <1>1, <1>4, <2>2, <2>4, <2>7, AccessKeeps
  <1> QED
    BY <1>5, <1>6

\* LastRaw is stored, perhaps over a newer one, and goes with High again.
LEMMA StoreRawKeeps ==
    ASSUME TimeInv, StoreRaw
    PROVE  TimeInv'
  <1>1. /\ reader.next = "store" /\ reader \in Read /\ pmt \in Sink /\ reader.at \in Nat /\ reader.raw \in Nat
        /\ last \in Stamp
        /\ pmt' = [pmt EXCEPT !.raw = reader.raw, !.at = reader.at]
        /\ reader' = [reader EXCEPT !.next = "return"]
        /\ UNCHANGED <<step, sinks, tsc, source, ticks, epoch, last, lost, apic, fired, tests>>
    BY DEF StoreRaw, TimeInv, TimeTypeOK, Read, Sink
  <1>2. reader' \in Read /\ reader'.at = reader.at /\ reader'.raw = reader.raw /\ reader'.next = "return"
    BY <1>1 DEF Read
  <1>3. pmt' \in Sink /\ pmt'.at = reader.at /\ pmt'.raw = reader.raw /\ pmt'.high = pmt.high
    BY <1>1 DEF Sink
  <1>4. source = "pmtimer"
    BY <1>1 DEF TimeInv, ReadsAreTrue
  <1>5. ASSUME ~lost PROVE SinkIsTrue' /\ ReaderIsTrue'
    <2>1. reader.at <= ticks /\ reader.raw = reader.at % RawSpan /\ pmt.high = Base(reader.at)
      BY <1>1, <1>4, <1>5 DEF TimeInv, ReadsAreTrue, ReaderIsTrue
    <2> QED
      BY <1>1, <1>2, <1>3, <2>1 DEF SinkIsTrue, ReaderIsTrue
  <1>6. ReadsAreTrue'
    BY <1>1, <1>4, <1>5 DEF TimeInv, ReadsAreTrue
  <1>7. reader # Idle
    BY <1>1 DEF Idle
  <1> QED
    BY <1>1, <1>2, <1>3, <1>6, <1>7, AccessKeeps

\* The value returned is the time of the read.
LEMMA ReturnKeeps ==
    ASSUME TimeInv, ReadReturns
    PROVE  TimeInv'
  <1>1. /\ reader.next = "return" /\ reader \in Read /\ pmt \in Sink /\ reader.at \in Nat /\ reader.raw \in Nat
        /\ last' = [value |-> IF source = "pmtimer" THEN pmt.high + reader.raw ELSE reader.at, at |-> reader.at]
        /\ reader' = Idle
        /\ UNCHANGED <<step, sinks, tsc, source, ticks, pmt, epoch, lost, apic, fired, tests>>
    BY DEF ReadReturns, TimeInv, TimeTypeOK, Read
  <1>2. reader' \in Read /\ reader'.next = "port"
    BY <1>1 DEF Read, Idle
  <1>3. pmt.high + reader.raw \in Nat
    BY <1>1 DEF Sink
  <1>4. last' \in Stamp
    BY <1>1, <1>3 DEF Stamp
  <1>5. ASSUME ~lost, source = "pmtimer" PROVE last'.value = last'.at /\ SinkIsTrue' /\ ReaderIsTrue'
    <2>1. SinkIsTrue /\ reader.raw = reader.at % RawSpan /\ pmt.high = Base(reader.at)
      BY <1>1, <1>5 DEF TimeInv, ReadsAreTrue, ReaderIsTrue
    <2>2. last'.value = Base(reader.at) + (reader.at % RawSpan) /\ last'.at = reader.at
      BY <1>1, <1>5, <2>1
    <2>3. last'.value = last'.at
      BY <1>1, <2>2, BaseAndRaw
    <2>4. SinkIsTrue'
      BY <1>1, <1>2, <2>1 DEF SinkIsTrue
    <2> QED
      BY <1>2, <2>3, <2>4 DEF ReaderIsTrue
  <1>6. source # "pmtimer" => last'.value = last'.at
    BY <1>1
  <1>7. ReadsAreTrue'
    BY <1>1, <1>2, <1>5, <1>6 DEF TimeInv, ReadsAreTrue
  <1>8. reader # Idle
    BY <1>1 DEF Idle
  <1> QED
    BY <1>1, <1>2, <1>4, <1>7, <1>8, AccessKeeps

-----------------------------------------------------------------------------

\* KeClockEventInit leaves the timer masked and stopped, or fails.
LEMMA ClockInitKeeps ==
    ASSUME TimeInv, NEW hw, NEW base,
           KeClockEventInit(hw, base) \/ ClockEventInitFails(hw, base)
    PROVE  TimeInv'
  <1>1. step = "clock" /\ step' \in {"test", "failed"} /\ fired' \in {0, fired}
        /\ UNCHANGED <<sinks, tsc, source, ticks, pmt, epoch, reader, last, lost, tests>>
    BY DEF KeClockEventInit, ClockEventInitFails
  <1>2. apic \in Timer /\ apic.count = 0 /\ ~apic.pending /\ apic.request = "none"
    BY <1>1 DEF TimeInv, TimeTypeOK, TimerObeys
  <1>3. apic' \in Timer /\ apic'.count = 0 /\ apic'.pending = apic.pending /\ apic'.request = apic.request
    BY <1>2 DEF KeClockEventInit, ClockEventInitFails, KeLapicClockEventSinkCalibrate,
                KeLapicClockEventSinkInit, KeClockEventPerCpuInit, Program, Timer
  <1>4. TimeTypeOK'
    BY <1>1, <1>3 DEF TimeInv, TimeTypeOK, Steps
  <1>5. NothingReadsYet'
    BY <1>1 DEF TimeInv, NothingReadsYet
  <1>6. TimerObeys'
    BY <1>1, <1>2, <1>3 DEF TimerObeys
  <1>7. Measured'
    BY <1>1, SourcesKept
  <1>8. ReadsAreTrue'
    BY <1>1 DEF TimeInv, ReadsAreTrue, SinkIsTrue, ReaderIsTrue
  <1> QED
    BY <1>4, <1>5, <1>6, <1>7, <1>8 DEF TimeInv

\* A request starts the timer, whatever the delay.
LEMMA RequestRuns ==
    ASSUME apic \in Timer, NEW delta \in Nat, KeClockEventSetNextEvent(delta)
    PROVE  /\ apic' \in Timer
           /\ apic'.count # 0 /\ apic'.pending = apic.pending
           /\ apic'.request = "due" /\ ~apic'.masked
  <1>1. PICK n \in Nat \ {0} : n = Clamp(delta)
    BY ClampRuns
  <1> QED
    BY <1>1 DEF KeClockEventSetNextEvent, Program, Timer

\* The timer counts down to its interrupt, which is not masked when it was
\* asked for.
LEMMA ExpiresKeeps ==
    ASSUME TimeInv, TimerExpires
    PROVE  TimeInv'
  <1>1. apic.count # 0 /\ apic \in Timer
        /\ UNCHANGED <<step, sinks, tsc, source, ticks, pmt, epoch, reader, last, lost, fired, tests>>
    BY DEF TimerExpires, TimeInv, TimeTypeOK
  <1>2. apic' \in Timer /\ apic'.count = 0 /\ apic'.masked = apic.masked /\ apic'.request = apic.request
        /\ apic'.pending = (apic.pending \/ ~apic.masked)
    BY <1>1 DEF TimerExpires, Timer
  <1>3. step \notin {"off", "calibrate", "select", "clock", "test"}
    BY <1>1 DEF TimeInv, TimerObeys
  <1>4. TimeTypeOK' /\ NothingReadsYet'
    BY <1>1, <1>2 DEF TimeInv, TimeTypeOK, NothingReadsYet
  <1>5. TimerObeys'
    BY <1>1, <1>2, <1>3 DEF TimeInv, TimerObeys
  <1>6. Measured'
    BY <1>1, <1>3, SourcesKept
  <1>7. ReadsAreTrue'
    BY <1>1 DEF TimeInv, ReadsAreTrue, SinkIsTrue, ReaderIsTrue
  <1> QED
    BY <1>4, <1>5, <1>6, <1>7 DEF TimeInv

\* LapicTimerInterruptHandler takes the pending interrupt and, once the kernel
\* is up, reads the time in the middle of whatever a thread was doing.
LEMMA InterruptKeeps ==
    ASSUME TimeInv, KeClockEventOnInterrupt
    PROVE  TimeInv'
  <1>1. step \in {"test", "wait", "ready"} /\ apic.pending /\ apic \in Timer /\ fired \in Nat /\ fired' = fired + 1
        /\ UNCHANGED <<step, sinks, tsc, source, ticks, epoch, reader, tests>>
    BY DEF KeClockEventOnInterrupt, TimeInv, TimeTypeOK
  <1>2. apic' \in Timer /\ apic'.count = apic.count /\ apic'.masked = apic.masked /\ apic'.pending = FALSE
        /\ apic'.request # "due" /\ (apic'.request = "none" => apic.request = "none")
    BY <1>1 DEF KeClockEventOnInterrupt, Timer
  <1>3. pmt' \in Sink /\ last' \in Stamp /\ lost' \in BOOLEAN /\ ReadsAreTrue'
    <2>1. CASE step # "ready"
      <3>1. UNCHANGED <<pmt, last, lost>>
        BY <2>1 DEF KeClockEventOnInterrupt
      <3> QED
        BY <1>1, <3>1 DEF TimeInv, TimeTypeOK, ReadsAreTrue, SinkIsTrue, ReaderIsTrue
    <2>2. CASE step = "ready"
      <3>1. ReadCounter
        BY <2>2 DEF KeClockEventOnInterrupt
      <3> QED
        BY <1>1, <3>1, ReadCounterTypes, ReadCounterIsTrue DEF TimeInv
    <2> QED
      BY <2>1, <2>2
  <1>4. TimeTypeOK' /\ NothingReadsYet'
    BY <1>1, <1>2, <1>3 DEF TimeInv, TimeTypeOK, NothingReadsYet
  <1>5. TimerObeys'
    BY <1>1, <1>2 DEF TimeInv, TimerObeys
  <1>6. Measured'
    BY <1>1, SourcesKept
  <1> QED
    BY <1>3, <1>4, <1>5, <1>6 DEF TimeInv

\* The self-test reads the time in every step that waits.
LEMMA SelfTestReads ==
    ASSUME TimeInv, step # "ready", ReadCounter, UNCHANGED <<epoch, source, ticks, reader>>
    PROVE  /\ pmt' \in Sink /\ last' \in Stamp /\ lost' \in BOOLEAN
           /\ reader' = Idle /\ ReadsAreTrue'
  <1>1. reader = Idle
    BY DEF TimeInv, NothingReadsYet
  <1> QED
    BY <1>1, ReadCounterTypes, ReadCounterIsTrue DEF TimeInv

\* ClockEventSelfTest arms the timer and notes the count of interrupts.
LEMMA ArmKeeps ==
    ASSUME TimeInv, SelfTestArm
    PROVE  TimeInv'
  <1>1. step = "test" /\ step' = "wait" /\ apic \in Timer /\ fired \in Nat /\ MaxCount \in Nat
        /\ tests \in [round : Nat, before : Nat]
        /\ tests' = [round |-> tests.round + 1, before |-> fired]
        /\ UNCHANGED <<sinks, tsc, source, ticks, epoch, reader, fired>>
    BY TimeAssumption DEF SelfTestArm, TimeInv, TimeTypeOK
  <1>2. ReadCounter /\ KeClockEventSetNextEvent(MaxCount)
    BY DEF SelfTestArm
  <1>3. pmt' \in Sink /\ last' \in Stamp /\ lost' \in BOOLEAN /\ reader' = Idle /\ ReadsAreTrue'
    BY <1>1, <1>2, SelfTestReads
  <1>4. apic' \in Timer /\ apic'.count # 0 /\ apic'.pending = apic.pending
        /\ apic'.request = "due" /\ ~apic'.masked
    BY <1>1, <1>2, RequestRuns
  <1>5. ~apic.pending
    BY <1>1 DEF TimeInv, TimerObeys
  <1>6. TimeTypeOK' /\ NothingReadsYet'
    BY <1>1, <1>3, <1>4 DEF TimeInv, TimeTypeOK, NothingReadsYet, Steps
  <1>7. TimerObeys'
    BY <1>1, <1>4, <1>5 DEF TimerObeys
  <1>8. Measured'
    BY <1>1, SourcesKept
  <1> QED
    BY <1>3, <1>6, <1>7, <1>8 DEF TimeInv

\* WaitForTickAdvance sees the interrupt: then none is left.
LEMMA SeesKeeps ==
    ASSUME TimeInv, SelfTestSees
    PROVE  TimeInv'
  <1>1. step = "wait" /\ step' = "test" /\ fired \in Nat /\ tests.before \in Nat /\ fired > tests.before
        /\ UNCHANGED <<sinks, tsc, source, ticks, epoch, reader, apic, fired, tests>>
    BY DEF SelfTestSees, TimeInv, TimeTypeOK
  <1>2. ReadCounter
    BY DEF SelfTestSees
  <1>3. pmt' \in Sink /\ last' \in Stamp /\ lost' \in BOOLEAN /\ reader' = Idle /\ ReadsAreTrue'
    BY <1>1, <1>2, SelfTestReads
  <1>4. apic.count = 0 /\ ~apic.pending
    BY <1>1 DEF TimeInv, TimerObeys
  <1>5. TimeTypeOK' /\ NothingReadsYet'
    BY <1>1, <1>3 DEF TimeInv, TimeTypeOK, NothingReadsYet, Steps
  <1>6. TimerObeys'
    BY <1>1, <1>4 DEF TimeInv, TimerObeys
  <1>7. Measured'
    BY <1>1, SourcesKept
  <1> QED
    BY <1>3, <1>5, <1>6, <1>7 DEF TimeInv

\* The self-test gives up, fails, or declares the device ready.
LEMMA TestStopsKeeps ==
    ASSUME TimeInv, SelfTestTimesOut \/ SelfTestEnds
    PROVE  TimeInv'
  <1>1. step \in {"test", "wait"} /\ step' \in {"failed", "ready"} /\ apic \in Timer /\ fired' \in Nat
        /\ (step' = "ready" => step = "test")
        /\ UNCHANGED <<sinks, tsc, source, ticks, pmt, epoch, reader, last, lost, tests>>
    BY DEF SelfTestTimesOut, SelfTestEnds, TimeInv, TimeTypeOK
  <1>2. apic' \in Timer /\ apic'.count = apic.count /\ apic'.masked = apic.masked /\ apic'.pending = apic.pending
        /\ apic'.request \in {apic.request, "none"}
    BY <1>1 DEF SelfTestTimesOut, SelfTestEnds, Timer
  <1>3. TimeTypeOK' /\ NothingReadsYet'
    BY <1>1, <1>2 DEF TimeInv, TimeTypeOK, NothingReadsYet, Steps
  <1>4. TimerObeys'
    BY <1>1, <1>2 DEF TimeInv, TimerObeys
  <1>5. Measured'
    BY <1>1, SourcesKept
  <1>6. ReadsAreTrue'
    BY <1>1 DEF TimeInv, ReadsAreTrue, SinkIsTrue, ReaderIsTrue
  <1> QED
    BY <1>3, <1>4, <1>5, <1>6 DEF TimeInv

\* An event is asked for once the device is ready.
LEMMA ArmTimerKeeps ==
    ASSUME TimeInv, ArmTimer
    PROVE  TimeInv'
  <1>1. step = "ready" /\ apic \in Timer
        /\ UNCHANGED <<step, sinks, tsc, source, ticks, pmt, epoch, reader, last, lost, fired, tests>>
    BY DEF ArmTimer, TimeInv, TimeTypeOK
  <1>2. PICK delta \in Nat : KeClockEventSetNextEvent(delta)
    BY TimeAssumption DEF ArmTimer
  <1>3. apic' \in Timer /\ apic'.count # 0 /\ apic'.request = "due" /\ ~apic'.masked
    BY <1>1, <1>2, RequestRuns
  <1>4. TimeTypeOK' /\ NothingReadsYet'
    BY <1>1, <1>3 DEF TimeInv, TimeTypeOK, NothingReadsYet
  <1>5. TimerObeys'
    BY <1>1, <1>3 DEF TimerObeys
  <1>6. Measured'
    BY <1>1, SourcesKept
  <1>7. ReadsAreTrue'
    BY <1>1 DEF TimeInv, ReadsAreTrue, SinkIsTrue, ReaderIsTrue
  <1> QED
    BY <1>4, <1>5, <1>6, <1>7 DEF TimeInv

\* Nothing happens to the clock.
LEMMA TimeStutters ==
    ASSUME TimeInv, UNCHANGED timeVars
    PROVE  TimeInv'
  BY DEF timeVars, TimeInv, TimeTypeOK, NothingReadsYet, Measured, ReadsAreTrue,
         SinkIsTrue, ReaderIsTrue, TimerObeys

\* Every step of the clock keeps its invariant.
LEMMA TimeStepKeeps ==
    ASSUME TimeInv, TimeStep
    PROVE  TimeInv'
  BY CalibrateKeeps, SelectKeeps, TickKeeps, ReadRawKeeps, CompareKeeps, HighKeeps, StoreRawKeeps,
     ReturnKeeps, ExpiresKeeps, InterruptKeeps, ArmKeeps, SeesKeeps, TestStopsKeeps, ArmTimerKeeps, Zenon
  DEF TimeStep

\* Every other step of the boot leaves the clock alone.
LEMMA BootStepKeeps ==
    ASSUME TimeInv, [Next]_vars
    PROVE  TimeInv'
  <1>1. \/ UNCHANGED timeVars
        \/ TimeStep
        \/ \E hw, fadt, table : KeTimeSourceInit(hw, fadt, table)
        \/ \E hw, base : KeClockEventInit(hw, base) \/ ClockEventInitFails(hw, base)
    BY Zenon
    DEF Next, vars, Load, ValidateBootMappingManifest, VerifyHhdm, AssertRsdp, CallPmm, RunPmm,
        PmmFails, KeImportKernelAddressSpace, NoPageForRegions, KePtSelfTest, KePtSelfTestFails,
        CallTimeSource, TimeSourceFaults, CallClockEvent, RunTime, TimeEnds
  <1> QED
    BY <1>1, TimeStutters, TimeStepKeeps, SourceInitKeeps, ClockInitKeeps, Zenon

\* TimeInv, the inductive invariant of the clock, holds in every reachable
\* state of the boot and after it.
THEOREM ClockIsSound == Spec => []TimeInv
  <1>1. Init => TimeInv
    BY InitHasTimeInv
  <1>2. TimeInv /\ [Next]_vars => TimeInv'
    BY BootStepKeeps
  <1> QED
    BY <1>1, <1>2, PTL DEF Spec

\* KeGetSystemUpRealTime tells the time: the ticks since the epoch are the ones
\* that passed, for every period of the ACPI timer and every interrupt between
\* two accesses of a read to the sink, unless a whole period passed unread or
\* an interrupt tore a read at one of the places Torn names; and a measured
\* frequency is the true one when most samples are good.
THEOREM UptimeAlwaysTrue == Spec => []UptimeIsTrue
  <1>1. TimeInv => UptimeIsTrue
    <2> SUFFICES ASSUME TimeInv PROVE UptimeIsTrue
      OBVIOUS
    <2>1. last \in Stamp /\ epoch \in Stamp
      BY DEF TimeInv, TimeTypeOK
    <2>2. ~lost => last.value - epoch.value = last.at - epoch.at
      BY <2>1 DEF TimeInv, ReadsAreTrue, Stamp
    <2>3. source = "tsc" /\ sinks # {"tsc"} /\ tsc.sound => tsc.freq = TrueFreq
      BY DEF TimeInv, Measured
    <2> QED
      BY <2>2, <2>3 DEF UptimeIsTrue
  <1> QED
    BY <1>1, ClockIsSound, PTL

\* ClockEventSelfTest hands over a device with no interrupt still to come, and
\* KeClockEventSetNextEvent never loses an event, whatever delay it is given.
THEOREM ClockEventAlwaysQuiet == Spec => []ClockEventIsQuiet
  <1>1. TimeInv => ClockEventIsQuiet
    BY DEF TimeInv, TimerObeys, ClockEventIsQuiet
  <1> QED
    BY <1>1, ClockIsSound, PTL

-----------------------------------------------------------------------------
(* The memory: numbers, orders and places.                                 *)

\* A nonempty set of natural numbers has a least member.
LEMMA LeastNumber ==
  ASSUME NEW T \in SUBSET Nat, T # {}
  PROVE  \E n \in T : \A m \in T : n <= m
<1>1. PICK N \in T : TRUE
  OBVIOUS
<1> DEFINE I(k) == 1 .. k
           SS == {I(k) : k \in {j \in T : j <= N}}
<1>2. IsFiniteSet(1 .. N)
  BY <1>1, FS_Interval
<1>3. IsWellFoundedOn(StrictSubsetOrdering(1 .. N), FiniteSubsetsOf(1 .. N))
  BY <1>2, FS_StrictSubsetOrderingWellFounded
<1>4. FiniteSubsetsOf(1 .. N) = SUBSET (1 .. N)
  BY <1>2, FS_FiniteSubsetsOfFinite
<1>5. SS \subseteq SUBSET (1 .. N) /\ SS # {}
  BY <1>1
<1>6. PICK x \in SS : \A y \in SS : ~ (<<y, x>> \in StrictSubsetOrdering(1 .. N))
  <2>1. IsWellFoundedOn(StrictSubsetOrdering(1 .. N), SUBSET (1 .. N))
    BY <1>3, <1>4
  <2> DEFINE R == StrictSubsetOrdering(1 .. N)
             U == SUBSET (1 .. N)
  <2>2. IsWellFoundedOn(R, U) /\ SS \subseteq U /\ SS # {}
    BY <2>1, <1>5
  <2> HIDE DEF R, U, SS
  <2>3. \E z \in SS : \A y \in SS : ~ (<<y, z>> \in R)
    BY <2>2, WFMin, Zenon
  <2> QED BY <2>3 DEF R
<1>7. PICK n \in T : n <= N /\ x = 1 .. n
  BY <1>6
<1>8. ASSUME NEW m \in T, m < n PROVE FALSE
  <2>1. 1 .. m \in SS
    BY <1>7, <1>8
  <2>2. 1 .. m \subseteq 1 .. n
    BY <1>8
  <2>3. n \in 1 .. n /\ n \notin 1 .. m
    BY <1>8
  <2>4. <<1 .. m, x>> \in StrictSubsetOrdering(1 .. N)
    BY <2>1, <2>2, <2>3, <1>5, <1>7, <1>4 DEF StrictSubsetOrdering
  <2> QED BY <2>1, <2>4, <1>6
<1> QED BY <1>7, <1>8

\* The least of a nonempty set of numbers.
LEMMA MinFacts ==
    ASSUME NEW S \in SUBSET Nat, S # {}
    PROVE  Min(S) \in S /\ \A y \in S : Min(S) <= y
  <1>1. \E n \in S : \A m \in S : n <= m
    BY LeastNumber
  <1> QED
    BY <1>1 DEF Min

\* The least number of an interval.
LEMMA MinOfInterval ==
    ASSUME NEW a \in Nat, NEW b \in Nat, a <= b
    PROVE  Min(a .. b) = a
  <1>1. a .. b \in SUBSET Nat /\ a \in a .. b
    OBVIOUS
  <1>2. Min(a .. b) \in a .. b /\ Min(a .. b) <= a
    BY <1>1, MinFacts, Zenon
  <1> QED
    BY <1>2

\* A greatest number of a set that has a bound.
LEMMA MaxFacts ==
    ASSUME NEW S \in SUBSET Nat, S # {}, NEW n \in Nat, \A y \in S : y <= n
    PROVE  Max(S) \in S /\ \A y \in S : y <= Max(S)
  <1> DEFINE T == {n - y : y \in S}
  <1>1. T \in SUBSET Nat /\ T # {}
    <2>1. \A y \in S : n - y \in Nat
      OBVIOUS
    <2>2. PICK y \in S : TRUE
      OBVIOUS
    <2>3. n - y \in T
      OBVIOUS
    <2>4. \A t \in T : t \in Nat
      BY <2>1, Zenon
    <2> HIDE DEF T
    <2> QED BY <2>3, <2>4
  <1>2. PICK m \in T : \A k \in T : m <= k
    <2> HIDE DEF T
    <2> QED BY <1>1, LeastNumber
  <1>3. PICK x \in S : m = n - x
    BY <1>2
  <1>4. \A y \in S : y <= x
    <2> SUFFICES ASSUME NEW y \in S PROVE y <= x
      OBVIOUS
    <2>1. n - y \in T
      OBVIOUS
    <2>2. n - x <= n - y
      BY <2>1, <1>2, <1>3
    <2> QED BY <2>2
  <1> QED
    BY <1>3, <1>4 DEF Max

\* Multiples of a page compare as their page numbers do.
LEMMA Multiples ==
    ASSUME NEW U \in Nat \ {0}, NEW a \in Int, NEW b \in Int
    PROVE  /\ U * a <= U * b <=> a <= b
           /\ U * a < U * b <=> a < b
           /\ U * a \in Int
           /\ U * (a + b) = U * a + U * b
  <1>1. a <= b => U * a <= U * b
    <2> SUFFICES ASSUME a <= b PROVE U * a <= U * b
      OBVIOUS
    <2>1. PICK d \in Nat : d = b - a
      OBVIOUS
    <2>2. U * d >= 0
      OBVIOUS
    <2>3. U * b = U * a + U * d
      BY <2>1
    <2> QED BY <2>2, <2>3
  <1>2. a < b => U * a < U * b
    <2> SUFFICES ASSUME a < b PROVE U * a < U * b
      OBVIOUS
    <2>1. PICK d \in Nat : d + 1 = b - a
      OBVIOUS
    <2>2. U * d >= 0
      OBVIOUS
    <2>3. U * b = U * a + (U * d + U)
      BY <2>1
    <2> QED BY <2>2, <2>3
  <1>3. b <= a => U * b <= U * a
    <2> SUFFICES ASSUME b <= a PROVE U * b <= U * a
      OBVIOUS
    <2>1. PICK d \in Nat : d = a - b
      OBVIOUS
    <2>2. U * d >= 0
      OBVIOUS
    <2>3. U * a = U * b + U * d
      BY <2>1
    <2> QED BY <2>2, <2>3
  <1>4. b < a => U * b < U * a
    <2> SUFFICES ASSUME b < a PROVE U * b < U * a
      OBVIOUS
    <2>1. PICK d \in Nat : d + 1 = a - b
      OBVIOUS
    <2>2. U * d >= 0
      OBVIOUS
    <2>3. U * a = U * b + (U * d + U)
      BY <2>1
    <2> QED BY <2>2, <2>3
  <1>5. U * a \in Int /\ U * b \in Int /\ U * (a + b) = U * a + U * b
    OBVIOUS
  <1> QED
    BY <1>1, <1>2, <1>3, <1>4, <1>5

\* An aligned address is a page number times the size of a page.
LEMMA Aligned ==
    ASSUME NEW U \in Nat \ {0}, NEW a \in Nat, a % U = 0
    PROVE  a \div U \in Nat /\ a = U * (a \div U)
  OBVIOUS

\* The page of a multiple.
LEMMA PageOfMultiple ==
    ASSUME NEW U \in Nat \ {0}, NEW k \in Nat
    PROVE  (U * k) \div U = k /\ (U * k) % U = 0 /\ U * k \in Nat
  <1>1. U * k \in Nat
    OBVIOUS
  <1> DEFINE q == (U * k) \div U
             r == (U * k) % U
  <1>2. q \in Int /\ r \in 0 .. U - 1 /\ U * k = U * q + r
    BY <1>1
  <1> HIDE DEF q, r
  <1>3. ~(q < k)
    <2> SUFFICES ASSUME q < k PROVE FALSE
      OBVIOUS
    <2>1. q + 1 <= k
      BY <1>2
    <2>2. U * (q + 1) <= U * k
      BY <2>1, <1>2, Multiples
    <2>3. U * (q + 1) = U * q + U
      BY <1>2
    <2> QED BY <2>2, <2>3, <1>2
  <1>4. ~(k < q)
    <2> SUFFICES ASSUME k < q PROVE FALSE
      OBVIOUS
    <2>1. U * k < U * q
      BY <1>2, Multiples
    <2> QED BY <2>1, <1>2
  <1>5. q = k
    BY <1>2, <1>3, <1>4
  <1>6. r = 0
    BY <1>2, <1>5
  <1> QED
    BY <1>1, <1>5, <1>6 DEF q, r

\* R is a total order of S.
TotalOrder(R, S) ==
    /\ \A i \in S : <<i, i>> \in R
    /\ \A i, j \in S : <<i, j>> \in R \/ <<j, i>> \in R
    /\ \A i, j \in S : <<i, j>> \in R /\ <<j, i>> \in R => i = j
    /\ \A i, j, k \in S : <<i, j>> \in R /\ <<j, k>> \in R => <<i, k>> \in R

\* The place that a sort by the order R gives member i of S.
PlaceIn(R, S, i) == Cardinality({j \in S : <<j, i>> \in R})

\* A total order of a finite set gives every member a place of its own, and
\* every place a member.
LEMMA Places ==
    ASSUME NEW S, IsFiniteSet(S), NEW R, TotalOrder(R, S)
    PROVE  /\ Cardinality(S) \in Nat
           /\ \A i \in S : PlaceIn(R, S, i) \in 1 .. Cardinality(S)
           /\ \A i, j \in S : PlaceIn(R, S, i) = PlaceIn(R, S, j) => i = j
           /\ \A k \in 1 .. Cardinality(S) : \E i \in S : PlaceIn(R, S, i) = k
  <1> DEFINE Under(i) == {j \in S : <<j, i>> \in R}
             n == Cardinality(S)
             f == [i \in S |-> Cardinality(Under(i))]
  <1>1. n \in Nat
    BY FS_CardinalityType
  <1>2. \A i \in S : Under(i) \in SUBSET S /\ i \in Under(i)
    BY DEF TotalOrder
  <1>3. \A i \in S : IsFiniteSet(Under(i)) /\ Cardinality(Under(i)) <= n
    <2> SUFFICES ASSUME NEW i \in S PROVE IsFiniteSet(Under(i)) /\ Cardinality(Under(i)) <= n
      OBVIOUS
    <2>1. Under(i) \in SUBSET S
      BY <1>2
    <2> HIDE DEF Under
    <2> QED BY <2>1, FS_Subset
  <1>4. \A i \in S : Cardinality(Under(i)) \in 1 .. n
    <2> SUFFICES ASSUME NEW i \in S PROVE Cardinality(Under(i)) \in 1 .. n
      OBVIOUS
    <2>1. i \in Under(i) /\ IsFiniteSet(Under(i)) /\ Cardinality(Under(i)) <= n
      BY <1>2, <1>3
    <2> HIDE DEF Under, n
    <2>2. Cardinality(Under(i)) \in Nat /\ Cardinality(Under(i)) # 0
      BY <2>1, FS_CardinalityType, FS_EmptySet
    <2> QED BY <1>1, <2>1, <2>2
  <1>5. \A i, j \in S : <<i, j>> \in R /\ i # j => Cardinality(Under(i)) # Cardinality(Under(j))
    <2> SUFFICES ASSUME NEW i \in S, NEW j \in S, <<i, j>> \in R, i # j,
                        Cardinality(Under(i)) = Cardinality(Under(j))
                 PROVE  FALSE
      OBVIOUS
    <2>1. Under(i) \in SUBSET Under(j)
      BY DEF TotalOrder
    <2>2. j \in Under(j) /\ j \notin Under(i)
      BY DEF TotalOrder
    <2>3. IsFiniteSet(Under(j))
      BY <1>3
    <2> HIDE DEF Under
    <2>4. Under(j) = Under(i)
      BY <2>1, <2>3, FS_Subset
    <2> QED BY <2>2, <2>4
  <1>6. f \in Injection(S, 1 .. n)
    <2>1. f \in [S -> 1 .. n]
      BY <1>4
    <2>2. \A i, j \in S : f[i] = f[j] => i = j
      <3> SUFFICES ASSUME NEW i \in S, NEW j \in S, f[i] = f[j], i # j PROVE FALSE
        OBVIOUS
      <3>1. Cardinality(Under(i)) = Cardinality(Under(j))
        OBVIOUS
      <3>2. <<i, j>> \in R \/ <<j, i>> \in R
        BY DEF TotalOrder
      <3> HIDE DEF Under, f
      <3> QED BY <3>1, <3>2, <1>5
    <2> HIDE DEF f, n
    <2> QED BY <2>1, <2>2 DEF Injection, IsInjective
  <1>7. IsFiniteSet(1 .. n) /\ Cardinality(1 .. n) = n
    <2> HIDE DEF n
    <2>1. 1 \in Int /\ n \in Int
      BY <1>1
    <2>2. IsFiniteSet(1 .. n) /\ Cardinality(1 .. n) = IF 1 > n THEN 0 ELSE n - 1 + 1
      BY <2>1, FS_Interval, Zenon
    <2> QED BY <1>1, <2>2
  <1>8. f \in Surjection(S, 1 .. n)
    <2> HIDE DEF f
    <2> QED BY <1>6, <1>7, FS_Injection
  <1>9. \A k \in 1 .. n : \E i \in S : Cardinality(Under(i)) = k
    <2> SUFFICES ASSUME NEW k \in 1 .. n PROVE \E i \in S : Cardinality(Under(i)) = k
      OBVIOUS
    <2>1. \E i \in S : f[i] = k
      <3> HIDE DEF f
      <3> QED BY <1>8 DEF Surjection
    <2> QED BY <2>1
  <1>10. \A i, j \in S : PlaceIn(R, S, i) = PlaceIn(R, S, j) => i = j
    <2> SUFFICES ASSUME NEW i \in S, NEW j \in S, PlaceIn(R, S, i) = PlaceIn(R, S, j), i # j PROVE FALSE
      OBVIOUS
    <2>1. <<i, j>> \in R \/ <<j, i>> \in R
      BY DEF TotalOrder
    <2>2. Cardinality(Under(i)) = Cardinality(Under(j))
      BY DEF PlaceIn
    <2> HIDE DEF Under
    <2> QED BY <2>1, <2>2, <1>5
  <1> QED
    BY <1>1, <1>4, <1>9, <1>10 DEF PlaceIn

-----------------------------------------------------------------------------
(* Regions and the tables they are mapped in.                              *)

\* The names of the regions, and the attributes of a page.
RegionNames == {"identity", "hhdm", "page_tables", "staging", "handoff", "rsdp", "root", "table", "hpet", "code",
                "data", "stack", "ist1", "ist2", "framebuffer", "lapic"}
Attributes == {"W", "CD", "NX"}

\* A region, and an entry of the manifest.
Entry == [type : RegionNames, at : Nat, va : Nat, pages : Nat, flags : SUBSET Attributes]

\* The entry of page v of tables t is the one region e gives it.
DescribesIn(t, e, v) == t[v].at = e.at + (v - e.va) /\ t[v].flags = e.flags

\* The manifest m is true of the tables t, and complete.
EntriesMatch(t, m) ==
    /\ \A i \in DOMAIN m : \A v \in VirtualPages(m[i]) : v \in DOMAIN t /\ DescribesIn(t, m[i], v)
    /\ \A v \in DOMAIN t : \E i \in DOMAIN m : v \in VirtualPages(m[i])

\* What MapRegions does when every region agrees with the result.
LEMMA MapRegionsFacts ==
    ASSUME NEW t, NEW rs
    PROVE  /\ DOMAIN MapRegions(t, rs) = DOMAIN t \cup UNION {VirtualPages(rs[i]) : i \in DOMAIN rs}
           /\ \A v \in DOMAIN t : MapRegions(t, rs)[v] = t[v]
  BY DEF MapRegions, Merge

\* The entry a region has for one of its pages.
LEMMA LeafFacts ==
    ASSUME NEW r, NEW v \in VirtualPages(r)
    PROVE  Leaves(r)[v].at = r.at + (v - r.va) /\ Leaves(r)[v].flags = r.flags
  BY DEF Leaves

\* The pages of a region in the direct map.
LEMMA HhdmFacts ==
    ASSUME NEW type, NEW at \in Nat, NEW n \in Nat, NEW flags
    PROVE  LET r == Hhdm(type, at, n, flags) IN
           /\ r.at = at /\ r.pages = n /\ r.flags = flags /\ r.type = type
           /\ r.va = VirtualBase["hhdm"] + at
           /\ VirtualPages(r) = VirtualBase["hhdm"] + at .. VirtualBase["hhdm"] + at + n - 1
  BY DEF Hhdm, Region, VirtualPages

\* Regions that agree with the tables they were mapped in are described by them.
LEMMA AgreeingMaps ==
    ASSUME NEW t, NEW rs, \A i \in DOMAIN rs : Agrees(MapRegions(t, rs), rs[i])
    PROVE  \A i \in DOMAIN rs : \A v \in VirtualPages(rs[i]) :
              v \in DOMAIN MapRegions(t, rs) /\ DescribesIn(MapRegions(t, rs), rs[i], v)
  <1> SUFFICES ASSUME NEW i \in DOMAIN rs, NEW v \in VirtualPages(rs[i])
               PROVE  v \in DOMAIN MapRegions(t, rs) /\ DescribesIn(MapRegions(t, rs), rs[i], v)
    OBVIOUS
  <1>1. v \in DOMAIN MapRegions(t, rs)
    <2>1. DOMAIN MapRegions(t, rs) = DOMAIN t \cup UNION {VirtualPages(rs[k]) : k \in DOMAIN rs}
      BY MapRegionsFacts, Zenon
    <2>2. v \in UNION {VirtualPages(rs[k]) : k \in DOMAIN rs}
      BY Zenon
    <2> QED BY <2>1, <2>2, Zenon
  <1>2. MapRegions(t, rs)[v] = Leaves(rs[i])[v]
    BY DEF Agrees
  <1>3. Leaves(rs[i])[v].at = rs[i].at + (v - rs[i].va) /\ Leaves(rs[i])[v].flags = rs[i].flags
    BY LeafFacts
  <1> QED
    BY <1>1, <1>2, <1>3 DEF DescribesIn

\* The positions of a sequence are finite in number.
LEMMA PositionsFinite ==
    ASSUME NEW s, NEW T, s \in Seq(T)
    PROVE  IsFiniteSet(DOMAIN s) /\ Cardinality(DOMAIN s) = Len(s) /\ DOMAIN s = 1 .. Len(s) /\ Len(s) \in Nat
  <1>1. DOMAIN s = 1 .. Len(s) /\ Len(s) \in Nat
    OBVIOUS
  <1>2. 1 \in Int /\ Len(s) \in Int
    BY <1>1
  <1>3. IsFiniteSet(1 .. Len(s)) /\ Cardinality(1 .. Len(s)) = IF 1 > Len(s) THEN 0 ELSE Len(s) - 1 + 1
    BY <1>2, FS_Interval, Zenon
  <1> QED
    BY <1>1, <1>3

\* Recorded keeps exactly the entries that have pages.
LEMMA RecordedFacts ==
    ASSUME NEW rs \in Seq(Entry)
    PROVE  LET used == {i \in DOMAIN rs : rs[i].pages # 0} IN
           /\ IsFiniteSet(used) /\ Cardinality(used) \in Nat
           /\ Recorded(rs) \in Seq(Entry) /\ Len(Recorded(rs)) = Cardinality(used)
           /\ \A k \in DOMAIN Recorded(rs) : \E i \in used : Recorded(rs)[k] = rs[i]
           /\ \A i \in used : \E k \in DOMAIN Recorded(rs) : Recorded(rs)[k] = rs[i]
           /\ Cardinality(used) <= Len(rs)
  <1> DEFINE used == {i \in DOMAIN rs : rs[i].pages # 0}
             n == Cardinality(used)
             R == {x \in used \X used : x[1] <= x[2]}
             place(k) == CHOOSE i \in used : Cardinality({j \in used : j <= i}) = k
  <1>1. IsFiniteSet(DOMAIN rs) /\ Cardinality(DOMAIN rs) = Len(rs) /\ DOMAIN rs = 1 .. Len(rs) /\ Len(rs) \in Nat
    BY PositionsFinite
  <1>2. used \in SUBSET DOMAIN rs
    OBVIOUS
  <1>3. IsFiniteSet(used) /\ n <= Len(rs)
    <2> HIDE DEF used
    <2> QED BY <1>1, <1>2, FS_Subset
  <1>4. used \subseteq Nat
    BY <1>1
  <1>5. TotalOrder(R, used)
    <2> HIDE DEF used
    <2>1. \A i, j \in used : <<i, j>> \in R <=> i <= j
      OBVIOUS
    <2> HIDE DEF R
    <2> QED BY <1>4, <2>1 DEF TotalOrder
  <1>6. /\ n \in Nat
        /\ \A i \in used : PlaceIn(R, used, i) \in 1 .. n
        /\ \A i, j \in used : PlaceIn(R, used, i) = PlaceIn(R, used, j) => i = j
        /\ \A k \in 1 .. n : \E i \in used : PlaceIn(R, used, i) = k
    <2> HIDE DEF used, R
    <2> QED BY <1>3, <1>5, Places
  <1>7. \A i \in used : PlaceIn(R, used, i) = Cardinality({j \in used : j <= i})
    <2> SUFFICES ASSUME NEW i \in used
                 PROVE  PlaceIn(R, used, i) = Cardinality({j \in used : j <= i})
      OBVIOUS
    <2> HIDE DEF used
    <2>1. {j \in used : <<j, i>> \in R} = {j \in used : j <= i}
      OBVIOUS
    <2> QED BY <2>1 DEF PlaceIn
  <1>8. \A k \in 1 .. n : place(k) \in used /\ PlaceIn(R, used, place(k)) = k
    <2> SUFFICES ASSUME NEW k \in 1 .. n PROVE place(k) \in used /\ PlaceIn(R, used, place(k)) = k
      OBVIOUS
    <2> HIDE DEF used, R
    <2>1. \E i \in used : Cardinality({j \in used : j <= i}) = k
      BY <1>6, <1>7
    <2>2. place(k) \in used /\ Cardinality({j \in used : j <= place(k)}) = k
      BY <2>1
    <2> HIDE DEF place
    <2> QED BY <2>2, <1>7
  <1>9. Recorded(rs) = [k \in 1 .. n |-> rs[place(k)]]
    BY DEF Recorded
  <1>10. \A i \in used : rs[i] \in Entry
    OBVIOUS
  <1> HIDE DEF used, place, R
  <1>11. \A i \in used : \E k \in 1 .. n : rs[place(k)] = rs[i]
    <2> SUFFICES ASSUME NEW i \in used PROVE \E k \in 1 .. n : rs[place(k)] = rs[i]
      OBVIOUS
    <2>1. PICK k \in 1 .. n : k = PlaceIn(R, used, i)
      BY <1>6
    <2>2. place(k) \in used /\ PlaceIn(R, used, place(k)) = PlaceIn(R, used, i)
      BY <2>1, <1>8
    <2>3. place(k) = i
      BY <2>2, <1>6
    <2> QED BY <2>1, <2>3
  <1>12. Recorded(rs) \in Seq(Entry) /\ Len(Recorded(rs)) = n /\ DOMAIN Recorded(rs) = 1 .. n
    <2>1. [k \in 1 .. n |-> rs[place(k)]] \in [1 .. n -> Entry]
      BY <1>8, <1>10
    <2> HIDE DEF n
    <2>2. Recorded(rs) \in [1 .. n -> Entry]
      BY <2>1, <1>9
    <2> QED BY <2>2, <1>6
  <1>13. \A k \in DOMAIN Recorded(rs) : \E i \in used : Recorded(rs)[k] = rs[i]
    BY <1>12, <1>8, <1>9
  <1>14. \A i \in used : \E k \in DOMAIN Recorded(rs) : Recorded(rs)[k] = rs[i]
    <2> SUFFICES ASSUME NEW i \in used PROVE \E k \in DOMAIN Recorded(rs) : Recorded(rs)[k] = rs[i]
      OBVIOUS
    <2>1. PICK k \in 1 .. n : rs[place(k)] = rs[i]
      BY <1>11
    <2>2. Recorded(rs)[k] = rs[i]
      BY <2>1, <1>9
    <2> QED BY <2>1, <2>2, <1>12
  <1> QED
    BY <1>3, <1>6, <1>12, <1>13, <1>14 DEF used

\* A step that maps some regions and records some agrees with the tables, maps
\* nothing that it does not record, and records nothing that is not mapped, by
\* the step or before.
Faithful(t, maps, records) ==
    /\ maps \in Seq(Entry) /\ records \in Seq(Entry)
    /\ \A i \in DOMAIN maps : Agrees(MapRegions(t, maps), maps[i])
    /\ \A i \in DOMAIN maps : maps[i].pages # 0 => \E k \in DOMAIN records : records[k] = maps[i]
    /\ \A k \in DOMAIN records :
          \/ \E i \in DOMAIN maps : maps[i] = records[k]
          \/ \A v \in VirtualPages(records[k]) : v \in DOMAIN t /\ DescribesIn(t, records[k], v)

\* Such a step keeps the manifest true and complete.
LEMMA MatchKept ==
    ASSUME NEW t, NEW m, m \in Seq(Entry), EntriesMatch(t, m),
           NEW maps, NEW records, Faithful(t, maps, records)
    PROVE  /\ EntriesMatch(MapRegions(t, maps), m \o Recorded(records))
           /\ m \o Recorded(records) \in Seq(Entry)
           /\ Len(m \o Recorded(records)) = Len(m) + Len(Recorded(records))
  <1>a. maps \in Seq(Entry) /\ records \in Seq(Entry)
    BY DEF Faithful
  <1>b. \A i \in DOMAIN maps : Agrees(MapRegions(t, maps), maps[i])
    BY DEF Faithful
  <1>c. \A i \in DOMAIN maps : maps[i].pages # 0 => \E k \in DOMAIN records : records[k] = maps[i]
    BY DEF Faithful
  <1>d. \A k \in DOMAIN records :
          \/ \E i \in DOMAIN maps : maps[i] = records[k]
          \/ \A v \in VirtualPages(records[k]) : v \in DOMAIN t /\ DescribesIn(t, records[k], v)
    BY DEF Faithful
  <1> DEFINE T == MapRegions(t, maps)
             rec == Recorded(records)
             M == m \o rec
  <1>1. DOMAIN T = DOMAIN t \cup UNION {VirtualPages(maps[i]) : i \in DOMAIN maps}
    BY MapRegionsFacts, Zenon
  <1>2. \A v \in DOMAIN t : T[v] = t[v]
    BY MapRegionsFacts, Zenon
  <1>3. \A i \in DOMAIN maps : \A v \in VirtualPages(maps[i]) : v \in DOMAIN T /\ DescribesIn(T, maps[i], v)
    BY <1>b, AgreeingMaps, Zenon
  <1>4. /\ rec \in Seq(Entry)
        /\ \A k \in DOMAIN rec : \E i \in DOMAIN records : rec[k] = records[i]
        /\ \A i \in DOMAIN records : records[i].pages # 0 => \E k \in DOMAIN rec : rec[k] = records[i]
    BY <1>a, RecordedFacts
  <1> HIDE DEF T, rec
  <1>5. M \in Seq(Entry) /\ Len(M) = Len(m) + Len(rec)
    BY <1>4
  <1>6. /\ \A i \in DOMAIN M : (i \in DOMAIN m /\ M[i] = m[i]) \/ \E k \in DOMAIN rec : M[i] = rec[k]
        /\ \A i \in DOMAIN m : i \in DOMAIN M /\ M[i] = m[i]
        /\ \A k \in DOMAIN rec : \E i \in DOMAIN M : M[i] = rec[k]
    <2>1. \A i \in DOMAIN M : (i \in DOMAIN m /\ M[i] = m[i]) \/ \E k \in DOMAIN rec : M[i] = rec[k]
      <3> SUFFICES ASSUME NEW i \in DOMAIN M, ~(i \in DOMAIN m /\ M[i] = m[i])
                   PROVE  \E k \in DOMAIN rec : M[i] = rec[k]
        OBVIOUS
      <3>1. i - Len(m) \in DOMAIN rec /\ M[i] = rec[i - Len(m)]
        BY <1>4
      <3> QED BY <3>1
    <2>2. \A i \in DOMAIN m : i \in DOMAIN M /\ M[i] = m[i]
      BY <1>4
    <2>3. \A k \in DOMAIN rec : Len(m) + k \in DOMAIN M /\ M[Len(m) + k] = rec[k]
      BY <1>4
    <2> QED BY <2>1, <2>2, <2>3
  <1> HIDE DEF M
  <1>7. ASSUME NEW e, NEW v \in VirtualPages(e), v \in DOMAIN t, DescribesIn(t, e, v)
        PROVE  v \in DOMAIN T /\ DescribesIn(T, e, v)
    BY <1>1, <1>2, <1>7 DEF DescribesIn
  <1>8. \A i \in DOMAIN M : \A v \in VirtualPages(M[i]) : v \in DOMAIN T /\ DescribesIn(T, M[i], v)
    <2> SUFFICES ASSUME NEW i \in DOMAIN M, NEW v \in VirtualPages(M[i])
                 PROVE  v \in DOMAIN T /\ DescribesIn(T, M[i], v)
      OBVIOUS
    <2>1. CASE i \in DOMAIN m /\ M[i] = m[i]
      <3>1. v \in DOMAIN t /\ DescribesIn(t, M[i], v)
        BY <2>1 DEF EntriesMatch
      <3> QED BY <3>1, <1>7
    <2>2. CASE \E k \in DOMAIN rec : M[i] = rec[k]
      <3>1. PICK k \in DOMAIN records : M[i] = records[k]
        BY <2>2, <1>4
      <3>2. \/ \E j \in DOMAIN maps : maps[j] = records[k]
            \/ \A w \in VirtualPages(records[k]) : w \in DOMAIN t /\ DescribesIn(t, records[k], w)
        BY <1>d, Zenon
      <3>3. CASE \E j \in DOMAIN maps : maps[j] = records[k]
        BY <3>1, <3>3, <1>3
      <3>4. CASE \A w \in VirtualPages(records[k]) : w \in DOMAIN t /\ DescribesIn(t, records[k], w)
        <4>1. v \in DOMAIN t /\ DescribesIn(t, M[i], v)
          BY <3>1, <3>4
        <4> QED BY <4>1, <1>7
      <3> QED BY <3>2, <3>3, <3>4
    <2> QED BY <2>1, <2>2, <1>6
  <1>9. \A v \in DOMAIN T : \E i \in DOMAIN M : v \in VirtualPages(M[i])
    <2> SUFFICES ASSUME NEW v \in DOMAIN T PROVE \E i \in DOMAIN M : v \in VirtualPages(M[i])
      OBVIOUS
    <2>1. CASE v \in DOMAIN t
      <3>1. PICK i \in DOMAIN m : v \in VirtualPages(m[i])
        BY <2>1 DEF EntriesMatch
      <3> QED BY <3>1, <1>6
    <2>2. CASE v \in UNION {VirtualPages(maps[i]) : i \in DOMAIN maps}
      <3>1. PICK i \in DOMAIN maps : v \in VirtualPages(maps[i])
        BY <2>2
      <3>2. maps[i].pages # 0
        <4>1. maps[i] \in Entry
          BY <1>a
        <4>2. maps[i].pages \in Nat /\ maps[i].va \in Nat
          BY <4>1 DEF Entry
        <4> QED BY <4>2, <3>1 DEF VirtualPages
      <3>3. PICK k \in DOMAIN records : records[k] = maps[i]
        BY <3>2, <1>c
      <3>4. PICK j \in DOMAIN rec : rec[j] = records[k]
        BY <3>2, <3>3, <1>4
      <3>5. PICK l \in DOMAIN M : M[l] = rec[j]
        BY <1>6
      <3> QED BY <3>1, <3>3, <3>4, <3>5
    <2> QED BY <2>1, <2>2, <1>1
  <1> QED
    BY <1>5, <1>8, <1>9 DEF EntriesMatch, M, T, rec

-----------------------------------------------------------------------------
(* The machine.                                                            *)

\* A descriptor of the firmware's map.
Desc == [start : Nat, pages : Nat, type : STRING]

\* A segment of the kernel's image, and a table of the firmware.
Segment == [at : Nat, pages : Nat, exec : BOOLEAN]
AcpiTable == [at : 0 .. PhysPages - 1, hpet : 0 .. PhysPages - 1, whole : BOOLEAN, sig : STRING]

\* The members of a sequence.
LEMMA Member ==
    ASSUME NEW T, NEW s \in Seq(T), NEW i \in DOMAIN s
    PROVE  s[i] \in T
  OBVIOUS

\* The sizes of the layout are positive.
LEMMA LayoutFacts ==
    /\ PhysPages \in Nat \ {0} /\ Unit \in Nat \ {0} /\ LargePages \in Nat \ {0} /\ StackPages \in Nat \ {0}
    /\ PoolPages \in Nat \ {0} /\ HandoffPages \in Nat \ {0}
    /\ IdentityPages \in Nat /\ FixedBudget \in Nat /\ SlackEntries \in Nat
    /\ Unit = PageSize /\ AddressSpan = Unit * PhysPages
    /\ AddressSpan \in Nat \ {0} /\ LowReservedPages \in Nat \ {0}
  <1>1. /\ PhysPages \in Nat \ {0} /\ Unit \in Nat \ {0} /\ LargePages \in Nat \ {0} /\ StackPages \in Nat \ {0}
        /\ PoolPages \in Nat \ {0} /\ HandoffPages \in Nat \ {0}
        /\ IdentityPages \in Nat /\ FixedBudget \in Nat /\ SlackEntries \in Nat
    BY LoaderAssumption
  <1>2. Unit = PageSize /\ AddressSpan = Unit * PhysPages
    BY <1>1, KernelBootAssumption
  <1>3. Unit * PhysPages \in Nat \ {0}
    <2>1. Unit * 0 < Unit * PhysPages
      BY <1>1, Multiples
    <2> QED BY <1>1, <2>1
  <1> QED
    BY <1>1, <1>2, <1>3, BootAssumption

\* The windows of the virtual space.
LEMMA WindowFacts ==
    /\ VirtualBase["hhdm"] \in Nat /\ VirtualBase["mmio"] \in Nat /\ VirtualBase["kernel"] \in Nat
    /\ VirtualBase["stack"] \in Nat /\ VirtualBase["ist1"] \in Nat /\ VirtualBase["ist2"] \in Nat
    /\ LargePages <= IdentityPages /\ IdentityPages <= VirtualBase["hhdm"]
    /\ VirtualBase["hhdm"] + PhysPages <= VirtualBase["mmio"]
    /\ VirtualBase["mmio"] < VirtualBase["kernel"]
    /\ VirtualBase["kernel"] < VirtualBase["stack"] /\ VirtualBase["kernel"] < VirtualBase["ist1"]
    /\ VirtualBase["kernel"] < VirtualBase["ist2"]
  BY LoaderAssumption

\* Types of the machine.
LEMMA MachineFacts ==
    ASSUME machine \in Machines
    PROVE  /\ machine.map \in Seq(Desc)
           /\ machine.image.filePages \in Nat
           /\ machine.image.segs \in Seq(Segment)
           /\ machine.framebuffer \in Nat /\ machine.framebuffer + 1 < PhysPages
           /\ machine.lapic \in Nat /\ machine.lapic + 1 < PhysPages
           /\ FindAcpiRsdpPhys \in 0 .. PhysPages - 1 /\ RootTable \in 0 .. PhysPages - 1
           /\ AcpiTables \in Seq(AcpiTable)
  <1>1. /\ machine.map \in Seq(Desc) /\ machine.image.filePages \in Nat
        /\ machine.image.segs \in Seq(Segment)
    BY MachineAssumption DEF Desc, Segment
  <1>2. machine.framebuffer \in 0 .. PhysPages - 2 /\ machine.lapic \in 0 .. PhysPages - 2
    BY MachineAssumption
  <1>3. /\ machine.acpi.rsdp.v1 \in 0 .. PhysPages - 1 /\ machine.acpi.rsdp.v2 \in 0 .. PhysPages - 1
        /\ machine.acpi.xsdt \in 0 .. PhysPages - 1 /\ machine.acpi.rsdt \in 0 .. PhysPages - 1
    BY MachineAssumption
  <1>4. AcpiTables \in Seq(AcpiTable)
    BY MachineAssumption DEF AcpiTables, AcpiTable
  <1>5. machine.framebuffer + 1 < PhysPages /\ machine.lapic + 1 < PhysPages
    BY <1>2, LayoutFacts
  <1>6. FindAcpiRsdpPhys \in 0 .. PhysPages - 1 /\ RootTable \in 0 .. PhysPages - 1
    BY <1>3 DEF FindAcpiRsdpPhys, RootTable
  <1>7. machine.framebuffer \in Nat /\ machine.lapic \in Nat
    BY <1>2
  <1> QED
    BY <1>1, <1>4, <1>5, <1>6, <1>7, Zenon

\* The pages of the segments of one kind.
LEMMA SegmentsCounted ==
    ASSUME machine \in Machines, NEW exec
    PROVE  SegmentPages(exec) \in Nat
  <1> DEFINE S == {j \in DOMAIN machine.image.segs : machine.image.segs[j].exec = exec}
             f == [i \in S |-> {i} \X (1 .. machine.image.segs[i].pages)]
             T == {{i} \X (1 .. machine.image.segs[i].pages) : i \in S}
  <1>1. machine.image.segs \in Seq(Segment)
    BY MachineFacts
  <1>2. IsFiniteSet(DOMAIN machine.image.segs)
    BY <1>1, PositionsFinite
  <1>3. IsFiniteSet(S)
    <2>1. S \in SUBSET DOMAIN machine.image.segs
      OBVIOUS
    <2> HIDE DEF S
    <2> QED BY <2>1, <1>2, FS_Subset
  <1>4. f \in Surjection(S, T)
    <2>1. f \in [S -> T]
      <3> HIDE DEF S
      <3> QED OBVIOUS
    <2>2. \A t \in T : \E s \in S : f[s] = t
      <3> HIDE DEF S
      <3> QED BY Zenon
    <2> HIDE DEF f, T, S
    <2> QED BY <2>1, <2>2 DEF Surjection
  <1>5. IsFiniteSet(T)
    <2> HIDE DEF f, T, S
    <2> QED BY <1>3, <1>4, FS_Surjection
  <1>6. \A i \in S : IsFiniteSet({i} \X (1 .. machine.image.segs[i].pages))
    <2> SUFFICES ASSUME NEW i \in S PROVE IsFiniteSet({i} \X (1 .. machine.image.segs[i].pages))
      OBVIOUS
    <2>1. i \in DOMAIN machine.image.segs
      OBVIOUS
    <2>2. machine.image.segs[i] \in Segment
      BY <2>1, <1>1, Member, Zenon
    <2>3. PICK n \in Nat : n = machine.image.segs[i].pages
      BY <2>2 DEF Segment
    <2>4. 1 \in Int /\ n \in Int
      BY <2>3
    <2>5. IsFiniteSet(1 .. n)
      BY <2>4, FS_Interval, Zenon
    <2>6. IsFiniteSet({i})
      BY FS_Singleton
    <2>7. IsFiniteSet({i} \X (1 .. n))
      BY <2>5, <2>6, FS_Product
    <2> QED BY <2>3, <2>7
  <1>7. \A t \in T : IsFiniteSet(t)
    <2> HIDE DEF S, f
    <2> QED BY <1>6, Zenon
  <1>8. SegmentPages(exec) = Cardinality(UNION T)
    BY DEF SegmentPages
  <1> HIDE DEF T, S, f
  <1>9. IsFiniteSet(UNION T)
    BY <1>5, <1>7, FS_UNION
  <1> QED
    BY <1>8, <1>9, FS_CardinalityType

\* The pages of the kernel and of the capsule.
LEMMA CapsuleCounted ==
    ASSUME machine \in Machines
    PROVE  /\ CodePages \in Nat /\ DataPages \in Nat
           /\ KernelPages \in Nat /\ KernelPages = CodePages + DataPages
           /\ CapsulePages \in Nat \ {0} /\ CapsulePages = HandoffPages + KernelPages + 3 * StackPages
  <1>1. CodePages \in Nat /\ DataPages \in Nat
    BY SegmentsCounted DEF CodePages, DataPages
  <1>2. KernelPages \in Nat /\ KernelPages = CodePages + DataPages
    BY <1>1 DEF KernelPages
  <1>3. CapsulePages = HandoffPages + KernelPages + 3 * StackPages
    BY DEF CapsulePages
  <1> QED
    BY <1>1, <1>2, <1>3, LayoutFacts

-----------------------------------------------------------------------------
(* The regions of CreateInitialMapping.                                    *)

\* Where a region lies: its page attributes and places are well formed.
LEMMA RegionIsEntry ==
    ASSUME NEW type \in RegionNames, NEW at \in Nat, NEW va \in Nat, NEW n \in Nat, NEW flags \in SUBSET Attributes
    PROVE  /\ Region(type, at, va, n, flags) \in Entry
           /\ Hhdm(type, at, n, flags) \in Entry
  <1>1. VirtualBase["hhdm"] + at \in Nat
    BY WindowFacts
  <1> QED
    BY <1>1 DEF Region, Hhdm, Entry

\* The attributes of direct-map regions.
LEMMA FlagFacts ==
    ASSUME NEW type
    PROVE  /\ Nx \in SUBSET Attributes /\ GetHhdmMapFlags(type) \in SUBSET Attributes
           /\ {"W"} \cup Nx \in SUBSET Attributes /\ {"CD", "W"} \cup Nx \in SUBSET Attributes
           /\ type = "ram" => GetHhdmMapFlags(type) = {"W"} \cup Nx
  <1>1. "W" \in Attributes /\ "CD" \in Attributes /\ "NX" \in Attributes
    BY DEF Attributes
  <1>2. Nx = {"NX"} \/ Nx = {}
    BY DEF Nx
  <1>3. Nx \in SUBSET Attributes
    BY <1>1, <1>2
  <1>4. {"W"} \cup Nx \in SUBSET Attributes /\ {"CD", "W"} \cup Nx \in SUBSET Attributes
    BY <1>1, <1>3
  <1>5. GetHhdmMapFlags(type) \in {{"CD", "W"} \cup Nx, Nx, {"W"} \cup Nx}
    BY DEF GetHhdmMapFlags
  <1>6. type = "ram" => GetHhdmMapFlags(type) = {"W"} \cup Nx
    BY DEF GetHhdmMapFlags
  <1> QED
    BY <1>3, <1>4, <1>5, <1>6

\* A region below the kernel's window, and clear of page 0.
Low(r) == \A v \in VirtualPages(r) : v # 0 /\ v < VirtualBase["kernel"]

\* A region of the direct map is low.
LEMMA DirectIsLow ==
    ASSUME NEW type, NEW at \in Nat, NEW n \in Nat, NEW flags, n = 0 \/ at + n <= PhysPages
    PROVE  Low(Hhdm(type, at, n, flags))
  <1>1. VirtualPages(Hhdm(type, at, n, flags)) = VirtualBase["hhdm"] + at .. VirtualBase["hhdm"] + at + n - 1
    BY HhdmFacts
  <1>2. PhysPages \in Nat /\ LargePages \in Nat \ {0} /\ IdentityPages \in Nat
    BY LayoutFacts
  <1>3. VirtualBase["hhdm"] \in Nat \ {0} /\ VirtualBase["kernel"] \in Nat
    BY <1>2, WindowFacts
  <1>4. VirtualBase["hhdm"] + PhysPages < VirtualBase["kernel"]
    BY <1>2, WindowFacts
  <1>5. ASSUME NEW v \in VirtualBase["hhdm"] + at .. VirtualBase["hhdm"] + at + n - 1
        PROVE  v # 0 /\ v < VirtualBase["kernel"]
    BY <1>2, <1>3, <1>4, <1>5
  <1> QED
    BY <1>1, <1>5 DEF Low

\* The identity mapping.
LEMMA IdentityFacts ==
    ASSUME machine \in Machines
    PROVE  /\ IdentityRegions \in Seq(Entry) /\ Len(IdentityRegions) <= 2
           /\ \A i \in DOMAIN IdentityRegions : \A v \in VirtualPages(IdentityRegions[i]) :
                 v < VirtualBase["kernel"] /\ (machine.nullDetection => v # 0)
  <1> DEFINE a == Region("identity", 1, 1, LargePages - 1, {"W"})
             b == Region("identity", LargePages, LargePages, IdentityPages - LargePages, {"W"})
             c == Region("identity", 0, 0, IdentityPages, {"W"})
  <1>1. a \in Entry /\ b \in Entry /\ c \in Entry
    <2>1. LargePages - 1 \in Nat /\ IdentityPages - LargePages \in Nat /\ LargePages \in Nat /\ IdentityPages \in Nat
      BY LayoutFacts, WindowFacts
    <2>2. "identity" \in RegionNames /\ {"W"} \in SUBSET Attributes /\ 1 \in Nat /\ 0 \in Nat
      BY DEF Attributes, RegionNames
    <2> QED BY <2>1, <2>2, RegionIsEntry
  <1>2. /\ \A v \in VirtualPages(a) : v # 0 /\ v < IdentityPages
        /\ \A v \in VirtualPages(b) : v # 0 /\ v < IdentityPages
        /\ \A v \in VirtualPages(c) : v < IdentityPages
    BY LayoutFacts, WindowFacts DEF VirtualPages, Region
  <1>3. IdentityPages <= VirtualBase["kernel"] /\ IdentityPages \in Nat /\ VirtualBase["kernel"] \in Nat
    BY LayoutFacts, WindowFacts
  <1>4. \A x \in {a, b, c} : \A v \in VirtualPages(x) : v \in Int
    BY LayoutFacts, WindowFacts DEF VirtualPages, Region
  <1>5. IdentityRegions = IF machine.nullDetection THEN <<a, b>> ELSE <<c>>
    BY DEF IdentityRegions
  <1> HIDE DEF a, b, c
  <1>6. CASE machine.nullDetection
    BY <1>1, <1>2, <1>3, <1>4, <1>5, <1>6
  <1>7. CASE ~machine.nullDetection
    BY <1>1, <1>2, <1>3, <1>4, <1>5, <1>7
  <1> QED
    BY <1>6, <1>7

\* A descriptor that MapIsUsable accepts, in pages.
LEMMA UsableDesc ==
    ASSUME machine \in Machines, MapIsUsable, NEW i \in DOMAIN machine.map
    PROVE  LET d == machine.map[i] IN
           /\ d.start \in Nat /\ d.pages \in Nat /\ d.start \div Unit \in Nat
           /\ d.pages # 0 => /\ d.start = Unit * (d.start \div Unit)
                             /\ d.start \div Unit + d.pages < PhysPages
  <1>1. machine.map[i] \in Desc
    BY MachineFacts, Member, Zenon
  <1>2. PICK d \in Desc : d = machine.map[i]
    BY <1>1
  <1>3. d.start \in Nat /\ d.pages \in Nat
    BY DEF Desc
  <1>4. d.start \div Unit \in Nat
    BY <1>3, LayoutFacts
  <1>5. ASSUME d.pages # 0
        PROVE  d.start = Unit * (d.start \div Unit) /\ d.start \div Unit + d.pages < PhysPages
    <2>1. d.start % Unit = 0 /\ d.start + d.pages * Unit < PhysPages * Unit
      BY <1>2, <1>5 DEF MapIsUsable
    <2>2. d.start = Unit * (d.start \div Unit)
      BY <2>1, <1>3, LayoutFacts, Aligned
    <2>3. PICK s \in Nat : s = d.start \div Unit
      BY <1>4
    <2>4. PICK n \in Nat : n = d.pages
      BY <1>3
    <2>5. Unit * s + n * Unit < PhysPages * Unit
      BY <2>1, <2>2, <2>3, <2>4
    <2>6. Unit * (s + n) < Unit * PhysPages
      BY <2>5, LayoutFacts
    <2>7. s + n < PhysPages
      <3>1. s + n \in Int /\ PhysPages \in Int /\ Unit \in Nat \ {0}
        BY LayoutFacts
      <3> QED BY <2>6, <3>1, Multiples
    <2> QED BY <2>2, <2>3, <2>4, <2>7
  <1> QED
    BY <1>2, <1>3, <1>4, <1>5

\* The direct map of the firmware's map.
LEMMA HhdmRegionFacts ==
    ASSUME machine \in Machines
    PROVE  /\ HhdmRegions \in Seq(Entry) /\ Len(HhdmRegions) = Len(machine.map)
           /\ DOMAIN HhdmRegions = DOMAIN machine.map
           /\ \A i \in DOMAIN machine.map :
                 HhdmRegions[i] = Hhdm("hhdm", machine.map[i].start \div Unit, machine.map[i].pages,
                                       GetHhdmMapFlags(machine.map[i].type))
           /\ MapIsUsable => \A i \in DOMAIN HhdmRegions : Low(HhdmRegions[i])
  <1>1. machine.map \in Seq(Desc)
    BY MachineFacts
  <1>2. DOMAIN machine.map = 1 .. Len(machine.map) /\ Len(machine.map) \in Nat
    BY <1>1
  <1>3. \A i \in DOMAIN machine.map : machine.map[i].start \div Unit \in Nat /\ machine.map[i].pages \in Nat
    <2> SUFFICES ASSUME NEW i \in DOMAIN machine.map
                 PROVE  machine.map[i].start \div Unit \in Nat /\ machine.map[i].pages \in Nat
      OBVIOUS
    <2>1. machine.map[i] \in Desc
      BY <1>1, Member, Zenon
    <2>2. machine.map[i].start \in Nat /\ machine.map[i].pages \in Nat
      BY <2>1 DEF Desc
    <2> QED BY <2>2, LayoutFacts
  <1>4. \A i \in DOMAIN machine.map :
           Hhdm("hhdm", machine.map[i].start \div Unit, machine.map[i].pages,
                GetHhdmMapFlags(machine.map[i].type)) \in Entry
    <2> SUFFICES ASSUME NEW i \in DOMAIN machine.map
                 PROVE  Hhdm("hhdm", machine.map[i].start \div Unit, machine.map[i].pages,
                             GetHhdmMapFlags(machine.map[i].type)) \in Entry
      OBVIOUS
    <2>1. PICK s \in Nat : s = machine.map[i].start \div Unit
      BY <1>3
    <2>2. PICK n \in Nat : n = machine.map[i].pages
      BY <1>3
    <2>3. GetHhdmMapFlags(machine.map[i].type) \in SUBSET Attributes /\ "hhdm" \in RegionNames
      BY FlagFacts DEF RegionNames
    <2>4. Hhdm("hhdm", s, n, GetHhdmMapFlags(machine.map[i].type)) \in Entry
      BY <2>3, RegionIsEntry
    <2> QED BY <2>1, <2>2, <2>4
  <1>5. DOMAIN HhdmRegions = DOMAIN machine.map
    BY DEF HhdmRegions
  <1>6. \A i \in DOMAIN machine.map :
           HhdmRegions[i] = Hhdm("hhdm", machine.map[i].start \div Unit, machine.map[i].pages,
                                 GetHhdmMapFlags(machine.map[i].type))
    BY DEF HhdmRegions
  <1>7. HhdmRegions \in [1 .. Len(machine.map) -> Entry]
    <2>1. HhdmRegions = [i \in 1 .. Len(machine.map) |-> HhdmRegions[i]]
      BY <1>2 DEF HhdmRegions
    <2>2. \A i \in 1 .. Len(machine.map) : HhdmRegions[i] \in Entry
      BY <1>2, <1>4, <1>6
    <2> QED BY <2>1, <2>2
  <1>8. HhdmRegions \in Seq(Entry) /\ Len(HhdmRegions) = Len(machine.map)
    BY <1>2, <1>7
  <1>9. MapIsUsable => \A i \in DOMAIN HhdmRegions : Low(HhdmRegions[i])
    <2> SUFFICES ASSUME MapIsUsable, NEW i \in DOMAIN machine.map PROVE Low(HhdmRegions[i])
      BY <1>5
    <2>1. PICK s \in Nat : s = machine.map[i].start \div Unit
      BY <1>3
    <2>2. PICK n \in Nat : n = machine.map[i].pages
      BY <1>3
    <2>3. n = 0 \/ s + n <= PhysPages
      BY <2>1, <2>2, UsableDesc, LayoutFacts
    <2>4. Low(Hhdm("hhdm", s, n, GetHhdmMapFlags(machine.map[i].type)))
      BY <2>3, DirectIsLow
    <2> QED BY <2>1, <2>2, <2>4, <1>6
  <1> QED
    BY <1>5, <1>6, <1>8, <1>9

\* The members of two sequences that are joined.
LEMMA Joined ==
    ASSUME NEW T, NEW s \in Seq(T), NEW t \in Seq(T)
    PROVE  /\ \A i \in 1 .. Len(s) : (s \o t)[i] = s[i]
           /\ \A i \in 1 .. Len(t) : (s \o t)[Len(s) + i] = t[i]
  OBVIOUS

\* The tables of the firmware.
LEMMA AcpiFacts ==
    ASSUME machine \in Machines, NEW S
    PROVE  LET rs == AcpiRanges \o HpetRanges(S)
               n == Len(AcpiTables)
           IN  /\ rs \in Seq(Entry) /\ n \in Nat /\ DOMAIN AcpiTables = 1 .. n
               /\ DOMAIN rs = 1 .. 2 + n + n
               /\ \A i \in DOMAIN rs : Low(rs[i])
               /\ \A i \in 1 .. n : /\ rs[2 + i].pages # 0 => AcpiTables[i].at # 0
                                    /\ rs[2 + n + i].pages # 0 => i \in S
  <1> DEFINE n == Len(AcpiTables)
             table(i) == Hhdm("table", AcpiTables[i].at, IF AcpiTables[i].at # 0 /\ AcpiTables[i].whole THEN 1 ELSE 0, Nx)
             ts == [i \in DOMAIN AcpiTables |-> table(i)]
             hs == HpetRanges(S)
             p == Hhdm("rsdp", FindAcpiRsdpPhys, 1, Nx)
             q == Hhdm("root", RootTable, 1, Nx)
             none(i) == [HpetRegion(i) EXCEPT !.pages = 0]
  <1>1. AcpiTables \in Seq(AcpiTable)
    BY MachineFacts
  <1>2. n \in Nat /\ DOMAIN AcpiTables = 1 .. n
    BY <1>1
  <1>3. \A i \in 1 .. n : AcpiTables[i] \in AcpiTable
    BY <1>1, <1>2, Member, Zenon
  <1>4. \A i \in 1 .. n : /\ AcpiTables[i].at \in 0 .. PhysPages - 1
                          /\ AcpiTables[i].hpet \in 0 .. PhysPages - 1
    BY <1>3 DEF AcpiTable
  <1>5. 0 .. PhysPages - 1 \subseteq Nat /\ \A a \in 0 .. PhysPages - 1 : a + 1 <= PhysPages
    BY LayoutFacts
  <1>6. p \in Entry /\ q \in Entry /\ Low(p) /\ Low(q)
    <2>1. FindAcpiRsdpPhys \in 0 .. PhysPages - 1 /\ RootTable \in 0 .. PhysPages - 1
      BY MachineFacts
    <2>2. PICK a \in Nat : a = FindAcpiRsdpPhys /\ a + 1 <= PhysPages
      BY <2>1, <1>5
    <2>3. PICK b \in Nat : b = RootTable /\ b + 1 <= PhysPages
      BY <2>1, <1>5
    <2>4. Nx \in SUBSET Attributes /\ "rsdp" \in RegionNames /\ "root" \in RegionNames /\ 1 \in Nat
      BY FlagFacts DEF RegionNames
    <2>5. Hhdm("rsdp", a, 1, Nx) \in Entry /\ Hhdm("root", b, 1, Nx) \in Entry
      BY <2>4, RegionIsEntry
    <2>6. Low(Hhdm("rsdp", a, 1, Nx)) /\ Low(Hhdm("root", b, 1, Nx))
      BY <2>2, <2>3, DirectIsLow
    <2> QED BY <2>2, <2>3, <2>5, <2>6
  <1>7. \A i \in 1 .. n : table(i) \in Entry /\ Low(table(i)) /\ (table(i).pages # 0 => AcpiTables[i].at # 0)
    <2> SUFFICES ASSUME NEW i \in 1 .. n
                 PROVE  table(i) \in Entry /\ Low(table(i)) /\ (table(i).pages # 0 => AcpiTables[i].at # 0)
      OBVIOUS
    <2>1. PICK a \in 0 .. PhysPages - 1 : a = AcpiTables[i].at
      BY <1>4
    <2>2. PICK k \in {0, 1} : k = IF AcpiTables[i].at # 0 /\ AcpiTables[i].whole THEN 1 ELSE 0
      OBVIOUS
    <2>3. a \in Nat /\ k \in Nat /\ (k = 0 \/ a + k <= PhysPages)
      BY <1>5
    <2>4. Hhdm("table", a, k, Nx) \in Entry /\ Low(Hhdm("table", a, k, Nx)) /\ Hhdm("table", a, k, Nx).pages = k
      <3>1. Nx \in SUBSET Attributes /\ "table" \in RegionNames
        BY FlagFacts DEF RegionNames
      <3>2. Hhdm("table", a, k, Nx) \in Entry
        BY <3>1, <2>3, RegionIsEntry
      <3>3. Low(Hhdm("table", a, k, Nx))
        BY <2>3, DirectIsLow
      <3>4. Hhdm("table", a, k, Nx).pages = k
        BY <2>3, HhdmFacts
      <3> QED BY <3>2, <3>3, <3>4
    <2>5. k # 0 => a # 0
      BY <2>1, <2>2
    <2> QED BY <2>1, <2>2, <2>4, <2>5
  <1>8. \A i \in 1 .. n : HpetRegion(i) \in Entry /\ Low(HpetRegion(i))
    <2> SUFFICES ASSUME NEW i \in 1 .. n PROVE HpetRegion(i) \in Entry /\ Low(HpetRegion(i))
      OBVIOUS
    <2>1. PICK a \in 0 .. PhysPages - 1 : a = AcpiTables[i].hpet
      BY <1>4
    <2>2. a \in Nat /\ a + 1 <= PhysPages
      BY <1>5
    <2>3. HpetRegion(i) = Hhdm("hpet", a, 1, {"CD", "W"} \cup Nx)
      BY <2>1 DEF HpetRegion
    <2>4. Hhdm("hpet", a, 1, {"CD", "W"} \cup Nx) \in Entry /\ Low(Hhdm("hpet", a, 1, {"CD", "W"} \cup Nx))
      <3>1. {"CD", "W"} \cup Nx \in SUBSET Attributes /\ "hpet" \in RegionNames /\ 1 \in Nat
        BY FlagFacts DEF RegionNames
      <3>2. Hhdm("hpet", a, 1, {"CD", "W"} \cup Nx) \in Entry
        BY <3>1, <2>2, RegionIsEntry
      <3>3. Low(Hhdm("hpet", a, 1, {"CD", "W"} \cup Nx))
        BY <2>2, DirectIsLow
      <3> QED BY <3>2, <3>3
    <2> QED BY <2>3, <2>4
  <1>9. \A i \in 1 .. n : none(i) \in Entry /\ Low(none(i)) /\ none(i).pages = 0
    <2> SUFFICES ASSUME NEW i \in 1 .. n PROVE none(i) \in Entry /\ Low(none(i)) /\ none(i).pages = 0
      OBVIOUS
    <2>1. PICK e \in Entry : e = HpetRegion(i)
      BY <1>8
    <2>2. [e EXCEPT !.pages = 0] \in Entry /\ [e EXCEPT !.pages = 0].pages = 0 /\ [e EXCEPT !.pages = 0].va \in Nat
      BY DEF Entry
    <2>3. VirtualPages([e EXCEPT !.pages = 0]) = {}
      BY <2>2 DEF VirtualPages
    <2> QED BY <2>1, <2>2, <2>3 DEF Low
  <1>10. hs = [i \in 1 .. n |-> IF i \in S THEN HpetRegion(i) ELSE none(i)]
    BY <1>2 DEF HpetRanges
  <1>11. AcpiRanges = <<p, q>> \o ts
    BY DEF AcpiRanges
  <1> HIDE DEF p, q, table, none, hs
  <1>12. ts = [i \in 1 .. n |-> table(i)]
    BY <1>2
  <1>13. ts \in Seq(Entry) /\ Len(ts) = n /\ hs \in Seq(Entry) /\ Len(hs) = n
    <2>1. ts \in [1 .. n -> Entry]
      BY <1>7, <1>12
    <2>2. hs \in [1 .. n -> Entry]
      BY <1>8, <1>9, <1>10
    <2> HIDE DEF ts, n
    <2> QED BY <1>2, <2>1, <2>2
  <1>14. \A i \in 1 .. n : ts[i] = table(i) /\ hs[i] = IF i \in S THEN HpetRegion(i) ELSE none(i)
    BY <1>10, <1>12
  <1> HIDE DEF ts, n
  <1>15. <<p, q>> \in Seq(Entry) /\ Len(<<p, q>>) = 2
    BY <1>6
  <1> DEFINE rs == (<<p, q>> \o ts) \o hs
  <1>16. rs \in Seq(Entry) /\ Len(rs) = 2 + n + n
    BY <1>2, <1>13, <1>15
  <1>17. rs[1] = p /\ rs[2] = q /\ \A i \in 1 .. n : rs[2 + i] = ts[i] /\ rs[2 + n + i] = hs[i]
    <2> DEFINE us == <<p, q>> \o ts
    <2>1. us \in Seq(Entry) /\ Len(us) = 2 + n
      BY <1>2, <1>13, <1>15
    <2>2. us[1] = p /\ us[2] = q
      BY <1>2, <1>13, <1>15
    <2>3. \A i \in 1 .. n : us[2 + i] = ts[i]
      BY <1>2, <1>13, <1>15, Joined
    <2> HIDE DEF us
    <2>4. \A i \in 1 .. 2 + n : (us \o hs)[i] = us[i]
      BY <2>1, <1>2, <1>13, Joined
    <2>5. \A i \in 1 .. n : (us \o hs)[2 + n + i] = hs[i]
      <3>1. us \in Seq(Entry) /\ hs \in Seq(Entry)
        BY <2>1, <1>13
      <3>2. \A i \in 1 .. Len(hs) : (us \o hs)[Len(us) + i] = hs[i]
        BY <3>1, Joined
      <3> QED BY <3>2, <2>1, <1>13
    <2>6. \A i \in 1 .. n : 2 + i \in 1 .. 2 + n
      BY <1>2
    <2>7. 1 \in 1 .. 2 + n /\ 2 \in 1 .. 2 + n
      BY <1>2
    <2> QED BY <2>2, <2>3, <2>4, <2>5, <2>6, <2>7 DEF us
  <1> HIDE DEF rs
  <1>18. \A i \in 1 .. 2 + n + n : i = 1 \/ i = 2 \/ (\E k \in 1 .. n : i = 2 + k) \/ \E k \in 1 .. n : i = 2 + n + k
    <2> SUFFICES ASSUME NEW i \in 1 .. 2 + n + n, i # 1, i # 2, ~\E k \in 1 .. n : i = 2 + k
                 PROVE  \E k \in 1 .. n : i = 2 + n + k
      OBVIOUS
    <2>1. ~(i - 2 \in 1 .. n)
      BY <1>2
    <2>2. i - 2 - n \in 1 .. n /\ i = 2 + n + (i - 2 - n)
      BY <1>2, <2>1
    <2> QED BY <2>2
  <1>19. \A i \in 1 .. 2 + n + n : Low(rs[i])
    BY <1>6, <1>7, <1>8, <1>9, <1>14, <1>17, <1>18
  <1>20. \A i \in 1 .. n : /\ rs[2 + i].pages # 0 => AcpiTables[i].at # 0
                           /\ rs[2 + n + i].pages # 0 => i \in S
    BY <1>7, <1>9, <1>14, <1>17
  <1>21. AcpiRanges \o HpetRanges(S) = rs
    BY <1>11 DEF rs, hs
  <1>22. DOMAIN rs = 1 .. 2 + n + n
    BY <1>16
  <1> QED
    BY <1>2, <1>16, <1>19, <1>20, <1>21, <1>22 DEF n

-----------------------------------------------------------------------------
(* The invariant of the loader.                                            *)

\* The stages with a pool of page tables, those with a capsule, those behind
\* the direct map, and those behind the kernel's own windows.
MapStages == MappingStages \cup {"load", "exit", "kernel"}
CapsuleStages == MapStages \cup {"pool"}
EarlyStages == {"claim", "read", "map", "layout", "pool", "identity"}
DirectStages == {"staging", "acpi", "kernel_map", "devices", "load", "exit", "kernel"}
KernelStages == {"devices", "load", "exit", "kernel"}

\* The parts of the capsule, from its first page on.
Layout(b) ==
    [base |-> b, kernel |-> b + HandoffPages, stack |-> b + HandoffPages + KernelPages,
     ist1 |-> b + HandoffPages + KernelPages + StackPages, ist2 |-> b + HandoffPages + KernelPages + 2 * StackPages]

\* The capsule is laid out in memory of the map.
CapsuleOk ==
    stage \in CapsuleStages =>
        /\ capsule.base \in Nat /\ capsule = Layout(capsule.base)
        /\ held["capsule"] = capsule.base .. capsule.base + CapsulePages - 1
        /\ held["capsule"] \subseteq Conventional

\* So is the pool, apart from the capsule.
PoolOk ==
    stage \in MapStages =>
        \E b \in Nat : /\ held["pool"] = b .. b + PoolPages - 1
                       /\ held["pool"] \subseteq Conventional
                       /\ held["pool"] \cap held["capsule"] = {}

\* The manifest is true and complete at every step.
TablesOk ==
    /\ stage \in EarlyStages => tables = <<>> /\ manifest = <<>>
    /\ stage \in MapStages => EntriesMatch(tables, manifest)
    /\ stage \in MapStages /\ machine.nullDetection => 0 \notin DOMAIN tables

\* The direct map has every page of the firmware's map.
DirectOk ==
    stage \in DirectStages =>
        /\ MapIsUsable
        /\ \A i \in DOMAIN machine.map : \A f \in PagesOfDesc(machine.map[i]) :
              /\ VirtualBase["hhdm"] + f \in DOMAIN tables
              /\ tables[VirtualBase["hhdm"] + f].at = f
              /\ tables[VirtualBase["hhdm"] + f].flags = GetHhdmMapFlags(machine.map[i].type)

\* The windows of the kernel lead into the capsule.
WindowsOk ==
    stage \in MapStages => \A v \in DOMAIN tables : v >= VirtualBase["kernel"] =>
        stage \in KernelStages /\ tables[v].at \in held["capsule"]

\* The entries that the steps before a stage may have recorded.
Allowance ==
    CASE stage = "identity" -> 0
      [] stage = "hhdm" -> 2
      [] stage = "staging" -> 2 + Len(machine.map)
      [] stage = "acpi" -> 5 + Len(machine.map)
      [] stage = "kernel_map" -> 5 + Len(machine.map) + CountAcpiManifestEntries
      [] stage = "devices" -> 10 + Len(machine.map) + CountAcpiManifestEntries
      [] OTHER -> 12 + Len(machine.map) + CountAcpiManifestEntries

\* The manifest has room for what is recorded.
CountOk ==
    /\ manifest \in Seq(Entry) /\ capacity \in Nat
    /\ Len(manifest) <= capacity /\ why # "manifest_full"
    /\ stage \in CapsuleStages => capacity = EstimateBootMappingManifestSize
    /\ stage \in MapStages => Len(manifest) <= Allowance

LoaderInv ==
    /\ machine \in Machines /\ DOMAIN held = Purposes
    /\ CapsuleOk /\ PoolOk /\ TablesOk /\ DirectOk /\ WindowsOk /\ CountOk

\* The entries of the firmware's tables are numbers.
LEMMA AcpiCounted ==
    ASSUME machine \in Machines
    PROVE  CountAcpiManifestEntries \in Nat
  <1> DEFINE A == {i \in DOMAIN AcpiTables : AcpiTables[i].at # 0}
             B == {i \in DOMAIN AcpiTables : AcpiTables[i].at # 0 /\ AcpiTables[i].whole /\ AcpiTables[i].hpet # 0}
  <1>1. IsFiniteSet(DOMAIN AcpiTables)
    <2>1. AcpiTables \in Seq(AcpiTable)
      BY MachineFacts
    <2> QED BY <2>1, PositionsFinite
  <1>2. A \in SUBSET DOMAIN AcpiTables /\ B \in SUBSET DOMAIN AcpiTables
    OBVIOUS
  <1>3. CountAcpiManifestEntries \in {0, 5, 2 + Cardinality(A) + Cardinality(B)}
    BY DEF CountAcpiManifestEntries
  <1> HIDE DEF A, B
  <1>4. IsFiniteSet(A) /\ IsFiniteSet(B)
    BY <1>1, <1>2, FS_Subset
  <1>5. Cardinality(A) \in Nat /\ Cardinality(B) \in Nat
    BY <1>4, FS_CardinalityType
  <1> QED
    BY <1>3, <1>5

\* Memory of a usable map lies below the end of the physical address space,
\* in a descriptor of memory.
LEMMA ConventionalFacts ==
    ASSUME machine \in Machines, MapIsUsable, NEW f \in Conventional
    PROVE  /\ f \in Nat /\ f + 1 < PhysPages
           /\ \E i \in DOMAIN machine.map : machine.map[i].type = "ram" /\ f \in PagesOfDesc(machine.map[i])
  <1>1. PICK i \in DOMAIN machine.map : machine.map[i].type = "ram" /\ f \in PagesOfDesc(machine.map[i])
    BY DEF Conventional
  <1>2. PICK s \in Nat : s = machine.map[i].start \div Unit
    BY UsableDesc
  <1>3. PICK n \in Nat : n = machine.map[i].pages
    BY UsableDesc
  <1>4. f \in s .. s + n - 1
    BY <1>1, <1>2, <1>3 DEF PagesOfDesc
  <1>5. n # 0
    BY <1>4
  <1>6. s + n < PhysPages
    BY <1>2, <1>3, <1>5, UsableDesc
  <1> QED
    BY <1>1, <1>4, <1>6, LayoutFacts

\* Memory is numbered.
LEMMA ConventionalIsNat == Conventional \subseteq Nat /\ \A f \in Conventional : f < PhysPages
  <1>1. Conventional \subseteq 0 .. PhysPages - 1
    BY DEF Conventional
  <1> QED BY <1>1, LayoutFacts

\* A region of memory in the direct map is already there behind that map.
LEMMA MemoryIsMapped ==
    ASSUME LoaderInv, stage \in DirectStages, NEW f \in Conventional
    PROVE  /\ VirtualBase["hhdm"] + f \in DOMAIN tables
           /\ tables[VirtualBase["hhdm"] + f].at = f
           /\ tables[VirtualBase["hhdm"] + f].flags = {"W"} \cup Nx
  <1>1. MapIsUsable /\ machine \in Machines
    BY DEF LoaderInv, DirectOk
  <1>2. PICK i \in DOMAIN machine.map : machine.map[i].type = "ram" /\ f \in PagesOfDesc(machine.map[i])
    BY <1>1, ConventionalFacts
  <1>3. /\ VirtualBase["hhdm"] + f \in DOMAIN tables
        /\ tables[VirtualBase["hhdm"] + f].at = f
        /\ tables[VirtualBase["hhdm"] + f].flags = GetHhdmMapFlags(machine.map[i].type)
    BY <1>2 DEF LoaderInv, DirectOk
  <1> QED
    BY <1>2, <1>3, FlagFacts

\* ... and so a region over it needs no mapping and describes it.
LEMMA MemoryRegion ==
    ASSUME LoaderInv, stage \in DirectStages, NEW a \in Nat, NEW n \in Nat, a .. a + n - 1 \subseteq Conventional,
           NEW type
    PROVE  LET r == Hhdm(type, a, n, {"W"} \cup Nx) IN
           /\ IsVirtualRangeMapped(r)
           /\ \A v \in VirtualPages(r) : v \in DOMAIN tables /\ DescribesIn(tables, r, v)
  <1> DEFINE r == Hhdm(type, a, n, {"W"} \cup Nx)
             h == VirtualBase["hhdm"]
  <1>1. h \in Nat
    BY WindowFacts
  <1>2. /\ r.at = a /\ r.flags = {"W"} \cup Nx /\ r.va = h + a
        /\ VirtualPages(r) = h + a .. h + a + n - 1
    BY HhdmFacts
  <1> HIDE DEF r, h
  <1>3. ASSUME NEW v \in VirtualPages(r) PROVE v \in DOMAIN tables /\ DescribesIn(tables, r, v)
    <2>1. v - h \in a .. a + n - 1 /\ v = h + (v - h) /\ v - h = a + (v - (h + a))
      BY <1>1, <1>2
    <2>2. PICK f \in Conventional : f = v - h
      BY <2>1
    <2>3. h + f \in DOMAIN tables /\ tables[h + f].at = f /\ tables[h + f].flags = {"W"} \cup Nx
      BY MemoryIsMapped DEF h
    <2>4. v = h + f
      BY <2>1, <2>2
    <2> QED BY <2>1, <2>2, <2>3, <2>4, <1>2 DEF DescribesIn
  <1>4. IsVirtualRangeMapped(r)
    BY <1>3 DEF IsVirtualRangeMapped
  <1> QED
    BY <1>3, <1>4 DEF r

-----------------------------------------------------------------------------
(* The steps of CreateInitialMapping.                                      *)

\* Entries that the step that is next may record.
Room ==
    CASE stage = "identity" -> 2
      [] stage = "hhdm" -> Len(machine.map)
      [] stage = "staging" -> 3
      [] stage = "acpi" -> CountAcpiManifestEntries
      [] stage = "kernel_map" -> 5
      [] stage = "devices" -> 2

\* What it maps it records, what it records is mapped, and it maps neither the
\* page that NULL detection keeps out nor, in the windows of the kernel,
\* anything but the capsule.
Sound(maps, records, room) ==
    /\ maps \in Seq(Entry) /\ records \in Seq(Entry)
    /\ \A i \in DOMAIN maps : maps[i].pages # 0 => \E k \in DOMAIN records : records[k] = maps[i]
    /\ \A k \in DOMAIN records :
          \/ \E i \in DOMAIN maps : maps[i] = records[k]
          \/ \A v \in VirtualPages(records[k]) : v \in DOMAIN tables /\ DescribesIn(tables, records[k], v)
    /\ Len(Recorded(records)) <= room
    /\ \A i \in DOMAIN maps : \A v \in VirtualPages(maps[i]) :
          /\ machine.nullDetection => v # 0
          /\ v >= VirtualBase["kernel"] => stage = "kernel_map" /\ maps[i].at + (v - maps[i].va) \in held["capsule"]

\* A step that records what it maps.
LEMMA SoundPlan ==
    ASSUME NEW rs \in Seq(Entry), NEW room \in Nat, Len(Recorded(rs)) <= room,
           \A i \in DOMAIN rs : \A v \in VirtualPages(rs[i]) :
              /\ machine.nullDetection => v # 0
              /\ v >= VirtualBase["kernel"] => stage = "kernel_map" /\ rs[i].at + (v - rs[i].va) \in held["capsule"]
    PROVE  Sound(rs, rs, room)
  BY Zenon DEF Sound

\* A step that records no more than it lists.
LEMMA RecordsBounded ==
    ASSUME NEW rs \in Seq(Entry)
    PROVE  Len(Recorded(rs)) \in Nat /\ Len(Recorded(rs)) <= Len(rs) /\ Len(rs) \in Nat
  <1>1. Len(rs) \in Nat
    OBVIOUS
  <1> QED BY <1>1, RecordedFacts

\* The pages of a region are numbers.
LEMMA PagesAreNumbers ==
    ASSUME NEW e \in Entry, NEW v \in VirtualPages(e)
    PROVE  v \in Nat /\ v >= e.va /\ v < e.va + e.pages /\ e.va \in Nat /\ e.pages \in Nat /\ e.at \in Nat
  <1>1. e.va \in Nat /\ e.pages \in Nat /\ e.at \in Nat
    BY DEF Entry
  <1> QED BY <1>1 DEF VirtualPages

\* Low regions satisfy what is asked of every step.
LEMMA LowIsSafe ==
    ASSUME NEW rs \in Seq(Entry), \A i \in DOMAIN rs : Low(rs[i])
    PROVE  \A i \in DOMAIN rs : \A v \in VirtualPages(rs[i]) :
              /\ machine.nullDetection => v # 0
              /\ v >= VirtualBase["kernel"] => stage = "kernel_map" /\ rs[i].at + (v - rs[i].va) \in held["capsule"]
  <1> SUFFICES ASSUME NEW i \in DOMAIN rs, NEW v \in VirtualPages(rs[i])
               PROVE  v # 0 /\ ~(v >= VirtualBase["kernel"])
    OBVIOUS
  <1>1. rs[i] \in Entry
    BY Member, Zenon
  <1>2. v \in Nat
    BY <1>1, PagesAreNumbers
  <1>3. v # 0 /\ v < VirtualBase["kernel"]
    BY DEF Low
  <1> QED BY <1>2, <1>3, WindowFacts

\* The identity map.
LEMMA IdentityStep ==
    ASSUME LoaderInv, stage = "identity"
    PROVE  Sound(Plan.maps, Plan.records, Room)
  <1>1. machine \in Machines
    BY DEF LoaderInv
  <1>2. Plan.maps = IdentityRegions /\ Plan.records = IdentityRegions /\ Room = 2
    BY DEF Plan, Room
  <1>3. /\ IdentityRegions \in Seq(Entry) /\ Len(IdentityRegions) <= 2
        /\ \A i \in DOMAIN IdentityRegions : \A v \in VirtualPages(IdentityRegions[i]) :
              v < VirtualBase["kernel"] /\ (machine.nullDetection => v # 0)
    BY <1>1, IdentityFacts
  <1> DEFINE rs == IdentityRegions
  <1> HIDE DEF rs
  <1>4. rs \in Seq(Entry) /\ Len(rs) <= 2
    BY <1>3 DEF rs
  <1>5. Len(Recorded(rs)) <= 2
    BY <1>4, RecordsBounded
  <1>6. \A i \in DOMAIN rs : \A v \in VirtualPages(rs[i]) :
              /\ machine.nullDetection => v # 0
              /\ v >= VirtualBase["kernel"] => stage = "kernel_map" /\ rs[i].at + (v - rs[i].va) \in held["capsule"]
    <2> SUFFICES ASSUME NEW i \in DOMAIN rs, NEW v \in VirtualPages(rs[i])
                 PROVE  (machine.nullDetection => v # 0) /\ ~(v >= VirtualBase["kernel"])
      OBVIOUS
    <2>1. rs[i] \in Entry
      BY <1>4, Member, Zenon
    <2>2. v \in Nat
      BY <2>1, PagesAreNumbers
    <2>3. v < VirtualBase["kernel"] /\ (machine.nullDetection => v # 0)
      BY <1>3 DEF rs
    <2> QED BY <2>2, <2>3, WindowFacts
  <1>7. Sound(rs, rs, 2)
    BY <1>4, <1>5, <1>6, SoundPlan
  <1> QED
    BY <1>2, <1>7 DEF rs

\* The direct map.
LEMMA HhdmStep ==
    ASSUME LoaderInv, stage = "hhdm", Plan.valid
    PROVE  Sound(Plan.maps, Plan.records, Room) /\ MapIsUsable /\ Plan.maps = HhdmRegions
  <1>1. machine \in Machines
    BY DEF LoaderInv
  <1>2. Plan.maps = HhdmRegions /\ Plan.records = HhdmRegions /\ Room = Len(machine.map) /\ MapIsUsable
    BY DEF Plan, Room
  <1> DEFINE rs == HhdmRegions
  <1>3. rs \in Seq(Entry) /\ Len(rs) = Len(machine.map) /\ \A i \in DOMAIN rs : Low(rs[i])
    BY <1>1, <1>2, HhdmRegionFacts
  <1> HIDE DEF rs
  <1>4. Len(Recorded(rs)) <= Len(machine.map) /\ Len(machine.map) \in Nat
    BY <1>3, RecordsBounded
  <1>5. Sound(rs, rs, Len(machine.map))
    BY <1>3, <1>4, LowIsSafe, SoundPlan
  <1> QED
    BY <1>2, <1>5 DEF rs

\* The framebuffer and the local APIC.
LEMMA DevicesStep ==
    ASSUME LoaderInv, stage = "devices"
    PROVE  Sound(Plan.maps, Plan.records, Room)
  <1>1. machine \in Machines
    BY DEF LoaderInv
  <1> DEFINE n(a) == IF a = 0 THEN 0 ELSE 1
             f == machine.framebuffer
             l == machine.lapic
             x == Region("framebuffer", f, VirtualBase["mmio"], n(f), {"CD", "W"} \cup Nx)
             y == Hhdm("lapic", l, n(l), {"CD", "W"} \cup Nx)
             rs == <<x, y>>
  <1>2. Plan.maps = rs /\ Plan.records = rs /\ Room = 2
    <2>1. DeviceRegions = rs
      BY DEF DeviceRegions
    <2> HIDE DEF rs
    <2> QED BY <2>1 DEF Plan, Room
  <1>3. f \in Nat /\ l \in Nat /\ f + 1 < PhysPages /\ l + 1 < PhysPages
    BY <1>1, MachineFacts
  <1>4. n(f) \in {0, 1} /\ n(l) \in {0, 1}
    OBVIOUS
  <1> HIDE DEF n, f, l
  <1>5. {"CD", "W"} \cup Nx \in SUBSET Attributes /\ "framebuffer" \in RegionNames /\ "lapic" \in RegionNames
    BY FlagFacts DEF RegionNames
  <1>6. x \in Entry /\ y \in Entry
    <2>1. n(f) \in Nat /\ n(l) \in Nat /\ VirtualBase["mmio"] \in Nat
      BY <1>4, WindowFacts
    <2> QED BY <2>1, <1>3, <1>5, RegionIsEntry
  <1>7. Low(y)
    <2>1. n(l) \in Nat /\ (n(l) = 0 \/ l + n(l) <= PhysPages)
      BY <1>3, <1>4, LayoutFacts
    <2> QED BY <2>1, <1>3, DirectIsLow
  <1>8. Low(x)
    <2>1. VirtualPages(x) = VirtualBase["mmio"] .. VirtualBase["mmio"] + n(f) - 1
      BY DEF VirtualPages, Region
    <2>2. VirtualBase["mmio"] > 0 /\ VirtualBase["mmio"] + 1 <= VirtualBase["kernel"]
      BY WindowFacts, LayoutFacts
    <2> QED BY <2>1, <2>2, <1>4, WindowFacts DEF Low
  <1> HIDE DEF x, y
  <1>9. rs \in Seq(Entry) /\ Len(rs) = 2 /\ \A i \in DOMAIN rs : Low(rs[i])
    BY <1>6, <1>7, <1>8
  <1> HIDE DEF rs
  <1>10. Len(Recorded(rs)) <= 2
    BY <1>9, RecordsBounded
  <1>11. Sound(rs, rs, 2)
    BY <1>9, <1>10, LowIsSafe, SoundPlan
  <1> QED
    BY <1>2, <1>11

\* A region inside the capsule, in a window at or above the kernel's.
LEMMA WindowRegion ==
    ASSUME NEW b \in Nat, NEW c \in Nat, held["capsule"] = b .. b + c - 1,
           NEW type \in RegionNames, NEW at \in Nat, NEW va \in Nat, NEW n \in Nat, NEW flags \in SUBSET Attributes,
           b <= at, at + n <= b + c, va >= VirtualBase["kernel"]
    PROVE  LET r == Region(type, at, va, n, flags) IN
           /\ r \in Entry
           /\ \A v \in VirtualPages(r) : v # 0 /\ r.at + (v - r.va) \in held["capsule"]
  <1>1. Region(type, at, va, n, flags) \in Entry
    BY RegionIsEntry
  <1>2. VirtualPages(Region(type, at, va, n, flags)) = va .. va + n - 1
    BY DEF VirtualPages, Region
  <1>3. Region(type, at, va, n, flags).at = at /\ Region(type, at, va, n, flags).va = va
    BY DEF Region
  <1>4. va > 0
    BY WindowFacts, LayoutFacts
  <1>5. \A v \in va .. va + n - 1 : v # 0 /\ at + (v - va) \in b .. b + c - 1
    BY <1>4
  <1> QED
    BY <1>1, <1>2, <1>3, <1>5

\* The kernel's windows.
LEMMA KernelMapStep ==
    ASSUME LoaderInv, stage = "kernel_map"
    PROVE  Sound(Plan.maps, Plan.records, Room)
  <1>1. machine \in Machines
    BY DEF LoaderInv
  <1>2. PICK b \in Nat : capsule = Layout(b) /\ held["capsule"] = b .. b + CapsulePages - 1
    <2>1. stage \in CapsuleStages
      BY DEF CapsuleStages, MapStages, MappingStages
    <2> QED BY <2>1 DEF LoaderInv, CapsuleOk
  <1> DEFINE flags == {"W"} \cup Nx
             r1 == Region("code", b + HandoffPages, VirtualBase["kernel"], CodePages, {"W"})
             r2 == Region("data", b + HandoffPages + CodePages, VirtualBase["kernel"] + CodePages, DataPages, flags)
             r3 == Region("stack", b + HandoffPages + KernelPages, VirtualBase["stack"], StackPages, flags)
             r4 == Region("ist1", b + HandoffPages + KernelPages + StackPages, VirtualBase["ist1"], StackPages, flags)
             r5 == Region("ist2", b + HandoffPages + KernelPages + 2 * StackPages, VirtualBase["ist2"], StackPages, flags)
             rs == <<r1, r2, r3, r4, r5>>
             Safe(r) == r \in Entry /\ \A v \in VirtualPages(r) : v # 0 /\ r.at + (v - r.va) \in held["capsule"]
  <1>3. Plan.maps = rs /\ Plan.records = rs /\ Room = 5
    <2>1. /\ capsule.kernel = b + HandoffPages /\ capsule.stack = b + HandoffPages + KernelPages
          /\ capsule.ist1 = b + HandoffPages + KernelPages + StackPages
          /\ capsule.ist2 = b + HandoffPages + KernelPages + 2 * StackPages
      BY <1>2 DEF Layout
    <2>2. KernelRegions = rs
      BY <2>1 DEF KernelRegions
    <2> HIDE DEF rs
    <2> QED BY <2>2 DEF Plan, Room
  <1>4. /\ CodePages \in Nat /\ DataPages \in Nat /\ KernelPages \in Nat /\ KernelPages = CodePages + DataPages
        /\ CapsulePages \in Nat \ {0} /\ CapsulePages = HandoffPages + KernelPages + 3 * StackPages
    BY <1>1, CapsuleCounted
  <1>5. flags \in SUBSET Attributes /\ {"W"} \in SUBSET Attributes
    BY FlagFacts DEF Attributes
  <1>6. {"code", "data", "stack", "ist1", "ist2"} \subseteq RegionNames
    BY DEF RegionNames
  <1>7. HandoffPages \in Nat /\ StackPages \in Nat
    BY LayoutFacts
  <1> HIDE DEF flags, Safe
  <1>8. Safe(r1)
    <2>1. b <= b + HandoffPages /\ b + HandoffPages + CodePages <= b + CapsulePages /\ b + HandoffPages \in Nat
      BY <1>2, <1>4, <1>7
    <2>2. VirtualBase["kernel"] \in Nat /\ VirtualBase["kernel"] >= VirtualBase["kernel"] /\ "code" \in RegionNames
      BY WindowFacts, <1>6
    <2> QED BY <1>2, <1>4, <1>5, <2>1, <2>2, WindowRegion DEF Safe
  <1>9. Safe(r2)
    <2>1. /\ b <= b + HandoffPages + CodePages /\ b + HandoffPages + CodePages + DataPages <= b + CapsulePages
          /\ b + HandoffPages + CodePages \in Nat
      BY <1>2, <1>4, <1>7
    <2>2. /\ VirtualBase["kernel"] + CodePages \in Nat /\ VirtualBase["kernel"] + CodePages >= VirtualBase["kernel"]
          /\ "data" \in RegionNames
      BY WindowFacts, <1>4, <1>6
    <2> QED BY <1>2, <1>4, <1>5, <2>1, <2>2, WindowRegion DEF Safe
  <1>10. Safe(r3)
    <2>1. /\ b <= b + HandoffPages + KernelPages /\ b + HandoffPages + KernelPages + StackPages <= b + CapsulePages
          /\ b + HandoffPages + KernelPages \in Nat
      BY <1>2, <1>4, <1>7
    <2>2. VirtualBase["stack"] \in Nat /\ VirtualBase["stack"] >= VirtualBase["kernel"] /\ "stack" \in RegionNames
      BY WindowFacts, <1>6
    <2>3. PICK at \in Nat : at = b + HandoffPages + KernelPages
      BY <2>1
    <2>4. b <= at /\ at + StackPages <= b + CapsulePages
      BY <2>1, <2>3
    <2>5. Safe(Region("stack", at, VirtualBase["stack"], StackPages, flags))
      BY <1>2, <1>4, <1>5, <1>7, <2>2, <2>4, WindowRegion DEF Safe
    <2> QED BY <2>3, <2>5
  <1>11. Safe(r4)
    <2>1. /\ b <= b + HandoffPages + KernelPages + StackPages
          /\ b + HandoffPages + KernelPages + StackPages + StackPages <= b + CapsulePages
          /\ b + HandoffPages + KernelPages + StackPages \in Nat
      BY <1>2, <1>4, <1>7
    <2>2. VirtualBase["ist1"] \in Nat /\ VirtualBase["ist1"] >= VirtualBase["kernel"] /\ "ist1" \in RegionNames
      BY WindowFacts, <1>6
    <2>3. PICK at \in Nat : at = b + HandoffPages + KernelPages + StackPages
      BY <2>1
    <2>4. b <= at /\ at + StackPages <= b + CapsulePages
      BY <2>1, <2>3
    <2>5. Safe(Region("ist1", at, VirtualBase["ist1"], StackPages, flags))
      BY <1>2, <1>4, <1>5, <1>7, <2>2, <2>4, WindowRegion DEF Safe
    <2> QED BY <2>3, <2>5
  <1>12. Safe(r5)
    <2>1. /\ b <= b + HandoffPages + KernelPages + 2 * StackPages
          /\ b + HandoffPages + KernelPages + 2 * StackPages + StackPages <= b + CapsulePages
          /\ b + HandoffPages + KernelPages + 2 * StackPages \in Nat
      BY <1>2, <1>4, <1>7
    <2>2. VirtualBase["ist2"] \in Nat /\ VirtualBase["ist2"] >= VirtualBase["kernel"] /\ "ist2" \in RegionNames
      BY WindowFacts, <1>6
    <2>3. PICK at \in Nat : at = b + HandoffPages + KernelPages + 2 * StackPages
      BY <2>1
    <2>4. b <= at /\ at + StackPages <= b + CapsulePages
      BY <2>1, <2>3
    <2>5. Safe(Region("ist2", at, VirtualBase["ist2"], StackPages, flags))
      BY <1>2, <1>4, <1>5, <1>7, <2>2, <2>4, WindowRegion DEF Safe
    <2> QED BY <2>3, <2>5
  <1> HIDE DEF r1, r2, r3, r4, r5
  <1>13. rs \in Seq(Entry) /\ Len(rs) = 5
    BY <1>8, <1>9, <1>10, <1>11, <1>12 DEF Safe
  <1>14. \A i \in DOMAIN rs : Safe(rs[i])
    <2>1. \A i \in 1 .. 5 : rs[i] \in {r1, r2, r3, r4, r5}
      OBVIOUS
    <2>2. DOMAIN rs = 1 .. 5
      OBVIOUS
    <2> QED BY <2>1, <2>2, <1>8, <1>9, <1>10, <1>11, <1>12
  <1> HIDE DEF rs
  <1>15. Len(Recorded(rs)) <= 5
    BY <1>13, RecordsBounded
  <1>16. Sound(rs, rs, 5)
    BY <1>13, <1>14, <1>15, SoundPlan DEF Safe
  <1> QED
    BY <1>3, <1>16

\* The pool and the capsule lie in memory that the direct map has.
LEMMA StagingStep ==
    ASSUME LoaderInv, stage = "staging"
    PROVE  Sound(Plan.maps, Plan.records, Room)
  <1>1. machine \in Machines
    BY DEF LoaderInv
  <1>2. stage \in DirectStages /\ stage \in MapStages /\ stage \in CapsuleStages
    BY DEF DirectStages, MapStages, MappingStages, CapsuleStages
  <1>3. /\ capsule.base \in Nat /\ held["capsule"] = capsule.base .. capsule.base + CapsulePages - 1
        /\ held["capsule"] \subseteq Conventional
    BY <1>2 DEF LoaderInv, CapsuleOk
  <1>4. PICK p \in Nat : held["pool"] = p .. p + PoolPages - 1 /\ held["pool"] \subseteq Conventional
    BY <1>2 DEF LoaderInv, PoolOk
  <1>5. PICK c \in Nat : c = capsule.base
    BY <1>3
  <1>6. PICK n \in Nat : n = CapsulePages /\ HandoffPages <= n
    BY <1>1, CapsuleCounted, LayoutFacts
  <1>7. PoolPages \in Nat \ {0} /\ HandoffPages \in Nat
    BY LayoutFacts
  <1>8. Min(held["pool"]) = p
    <2>1. p + PoolPages - 1 \in Nat /\ p <= p + PoolPages - 1
      BY <1>7
    <2> QED BY <1>4, <2>1, MinOfInterval
  <1> DEFINE flags == {"W"} \cup Nx
             pool == Hhdm("page_tables", p, PoolPages, flags)
             staging == Hhdm("staging", c, n, flags)
             handoff == Hhdm("handoff", c, HandoffPages, flags)
             Known(r) == /\ IsVirtualRangeMapped(r)
                         /\ \A v \in VirtualPages(r) : v \in DOMAIN tables /\ DescribesIn(tables, r, v)
             maps == <<[pool EXCEPT !.pages = 0], [staging EXCEPT !.pages = 0]>>
             records == <<pool, staging, handoff>>
  <1>9. Known(pool) /\ Known(staging) /\ Known(handoff)
    <2>1. p .. p + PoolPages - 1 \subseteq Conventional
      BY <1>4
    <2>2. c .. c + n - 1 \subseteq Conventional
      BY <1>3, <1>5, <1>6
    <2>3. c .. c + HandoffPages - 1 \subseteq Conventional
      BY <2>2, <1>6, <1>7
    <2>4. Known(pool)
      BY <2>1, <1>2, <1>7, MemoryRegion
    <2>5. Known(staging)
      BY <2>2, <1>2, MemoryRegion
    <2>6. Known(handoff)
      BY <2>3, <1>2, <1>7, MemoryRegion
    <2> QED BY <2>4, <2>5, <2>6
  <1>10. pool \in Entry /\ staging \in Entry /\ handoff \in Entry
    <2>1. /\ flags \in SUBSET Attributes /\ "page_tables" \in RegionNames /\ "staging" \in RegionNames
          /\ "handoff" \in RegionNames
      BY FlagFacts DEF RegionNames
    <2> QED BY <2>1, <1>7, RegionIsEntry
  <1>11. PoolRegion = pool /\ StagingRegion = staging /\ HandoffRegion = handoff
    BY <1>5, <1>6, <1>8 DEF PoolRegion, StagingRegion, HandoffRegion
  <1> HIDE DEF pool, staging, handoff
  <1>12. Unmapped(PoolRegion) = [pool EXCEPT !.pages = 0] /\ Unmapped(StagingRegion) = [staging EXCEPT !.pages = 0]
    BY <1>9, <1>11 DEF Unmapped
  <1>13. Plan.maps = maps /\ Plan.records = records /\ Room = 3
    <2>1. <<Unmapped(PoolRegion), Unmapped(StagingRegion)>> = maps
      BY <1>12
    <2>2. <<PoolRegion, StagingRegion, HandoffRegion>> = records
      BY <1>11
    <2> HIDE DEF maps, records
    <2> QED BY <2>1, <2>2 DEF Plan, Room
  <1>14. \A r \in {pool, staging} : /\ [r EXCEPT !.pages = 0] \in Entry /\ [r EXCEPT !.pages = 0].pages = 0
                                    /\ VirtualPages([r EXCEPT !.pages = 0]) = {}
    <2> SUFFICES ASSUME NEW r \in Entry
                 PROVE  /\ [r EXCEPT !.pages = 0] \in Entry /\ [r EXCEPT !.pages = 0].pages = 0
                        /\ VirtualPages([r EXCEPT !.pages = 0]) = {}
      BY <1>10
    <2>1. /\ [r EXCEPT !.pages = 0] \in Entry /\ [r EXCEPT !.pages = 0].pages = 0
          /\ [r EXCEPT !.pages = 0].va \in Nat
      BY DEF Entry
    <2> QED BY <2>1 DEF VirtualPages
  <1>15. maps \in Seq(Entry) /\ \A i \in DOMAIN maps : maps[i].pages = 0 /\ VirtualPages(maps[i]) = {}
    <2> DEFINE x == [pool EXCEPT !.pages = 0]
               y == [staging EXCEPT !.pages = 0]
    <2>1. x \in Entry /\ y \in Entry /\ x.pages = 0 /\ y.pages = 0 /\ VirtualPages(x) = {} /\ VirtualPages(y) = {}
      BY <1>14
    <2>2. maps = <<x, y>>
      OBVIOUS
    <2> HIDE DEF x, y, maps
    <2> QED BY <2>1, <2>2
  <1>16. records \in Seq(Entry) /\ Len(records) = 3
    BY <1>10
  <1>17. \A k \in DOMAIN records : Known(records[k])
    <2> HIDE DEF Known
    <2> QED BY <1>9
  <1> HIDE DEF maps, records
  <1>18. Len(Recorded(records)) <= 3
    BY <1>16, RecordsBounded
  <1>19. Sound(maps, records, 3)
    BY <1>15, <1>16, <1>17, <1>18, Zenon DEF Sound
  <1> QED
    BY <1>13, <1>19

\* The members of an interval, moved down.
LEMMA Shifted ==
    ASSUME NEW U, NEW A, IsFiniteSet(A), NEW d \in Nat, U \subseteq Int, \A u \in U : u - d \in A
    PROVE  IsFiniteSet(U) /\ Cardinality(U) <= Cardinality(A) /\ Cardinality(U) \in Nat /\ Cardinality(A) \in Nat
  <1> DEFINE f == [u \in U |-> u - d]
  <1>1. f \in [U -> A]
    OBVIOUS
  <1>2. \A u, w \in U : f[u] = f[w] => u = w
    OBVIOUS
  <1> HIDE DEF f
  <1>3. f \in Injection(U, A)
    BY <1>1, <1>2 DEF Injection, IsInjective
  <1> QED
    BY <1>3, FS_Injection, FS_CardinalityType

\* The tables of the firmware are recorded as often as they were counted.
LEMMA AcpiRecorded ==
    ASSUME machine \in Machines, NEW S, S \subseteq Hpets, FindAcpiRsdpPhys # 0, RootTable # 0, machine.acpi.rootWhole
    PROVE  Len(Recorded(AcpiRanges \o HpetRanges(S))) <= CountAcpiManifestEntries
  <1> DEFINE rs == AcpiRanges \o HpetRanges(S)
             n == Len(AcpiTables)
             A == {i \in DOMAIN AcpiTables : AcpiTables[i].at # 0}
             used == {i \in DOMAIN rs : rs[i].pages # 0}
             U == {i \in used : i <= 2}
             V == {i \in used : 2 < i /\ i <= 2 + n}
             W == {i \in used : 2 + n < i}
  <1>1. /\ rs \in Seq(Entry) /\ n \in Nat /\ DOMAIN AcpiTables = 1 .. n
        /\ DOMAIN rs = 1 .. 2 + n + n
        /\ \A i \in 1 .. n : /\ rs[2 + i].pages # 0 => AcpiTables[i].at # 0
                             /\ rs[2 + n + i].pages # 0 => i \in S
    BY AcpiFacts
  <1>2. CountAcpiManifestEntries = 2 + Cardinality(A) + Cardinality(Hpets)
    BY DEF CountAcpiManifestEntries, Hpets
  <1>3. A \in SUBSET DOMAIN AcpiTables /\ Hpets \in SUBSET DOMAIN AcpiTables
    BY DEF Hpets
  <1>4. IsFiniteSet(DOMAIN AcpiTables)
    <2>1. AcpiTables \in Seq(AcpiTable)
      BY MachineFacts
    <2> QED BY <2>1, PositionsFinite
  <1>5. \A i \in 1 .. n : AcpiTables[i].at # 0 => i \in A
    BY <1>1
  <1> HIDE DEF A, rs, n
  <1>6. IsFiniteSet(A) /\ IsFiniteSet(Hpets)
    BY <1>3, <1>4, FS_Subset
  <1>7. IsFiniteSet(used) /\ Len(Recorded(rs)) = Cardinality(used)
    BY <1>1, RecordedFacts
  <1>8. used \subseteq 1 .. 2 + n + n
    BY <1>1
  <1>9. IsFiniteSet(V) /\ Cardinality(V) <= Cardinality(A) /\ Cardinality(V) \in Nat /\ Cardinality(A) \in Nat
    <2>1. V \subseteq Int
      BY <1>1, <1>8
    <2>2. \A u \in V : u - 2 \in A
      <3> SUFFICES ASSUME NEW u \in V PROVE u - 2 \in A
        OBVIOUS
      <3>1. u - 2 \in 1 .. n /\ u = 2 + (u - 2)
        BY <1>1
      <3>2. rs[2 + (u - 2)].pages # 0
        BY <3>1
      <3> QED BY <3>1, <3>2, <1>1, <1>5
    <2> HIDE DEF V
    <2> QED BY <2>1, <2>2, <1>6, Shifted
  <1>10. IsFiniteSet(W) /\ Cardinality(W) <= Cardinality(Hpets) /\ Cardinality(W) \in Nat /\ Cardinality(Hpets) \in Nat
    <2>1. W \subseteq Int
      BY <1>1, <1>8
    <2>2. \A u \in W : u - (2 + n) \in Hpets
      <3> SUFFICES ASSUME NEW u \in W PROVE u - (2 + n) \in Hpets
        OBVIOUS
      <3>1. u - (2 + n) \in 1 .. n /\ u = 2 + n + (u - (2 + n))
        BY <1>1
      <3>2. rs[2 + n + (u - (2 + n))].pages # 0
        BY <3>1
      <3> QED BY <3>1, <3>2, <1>1
    <2>3. 2 + n \in Nat
      BY <1>1
    <2> HIDE DEF W
    <2> QED BY <2>1, <2>2, <2>3, <1>6, Shifted
  <1>11. IsFiniteSet(U) /\ Cardinality(U) <= 2 /\ Cardinality(U) \in Nat
    <2>1. U \subseteq 1 .. 2
      BY <1>1, <1>8
    <2>2. U \in SUBSET (1 .. 2) /\ 1 \in Int /\ 2 \in Int
      BY <2>1
    <2>3. IsFiniteSet(1 .. 2) /\ Cardinality(1 .. 2) = IF 1 > 2 THEN 0 ELSE 2 - 1 + 1
      BY <2>2, FS_Interval, Zenon
    <2>4. Cardinality(1 .. 2) = 2
      BY <2>3
    <2> HIDE DEF U
    <2>5. IsFiniteSet(U) /\ Cardinality(U) <= Cardinality(1 .. 2)
      BY <2>2, <2>3, FS_Subset
    <2> QED BY <2>4, <2>5, FS_CardinalityType
  <1>12. used = (U \cup V) \cup W
    BY <1>1, <1>8
  <1> HIDE DEF used, U, V, W
  <1>13. /\ IsFiniteSet(U \cup V)
         /\ Cardinality(U \cup V) = Cardinality(U) + Cardinality(V) - Cardinality(U \cap V)
         /\ Cardinality(U \cap V) \in Nat
    <2>1. U \cap V \in SUBSET U
      OBVIOUS
    <2>2. IsFiniteSet(U \cap V)
      BY <2>1, <1>11, FS_Subset
    <2> QED BY <2>2, <1>9, <1>11, FS_Union, FS_CardinalityType
  <1>14. /\ Cardinality((U \cup V) \cup W) = Cardinality(U \cup V) + Cardinality(W) - Cardinality((U \cup V) \cap W)
         /\ Cardinality((U \cup V) \cap W) \in Nat
    <2>1. (U \cup V) \cap W \in SUBSET W
      OBVIOUS
    <2>2. IsFiniteSet((U \cup V) \cap W)
      BY <2>1, <1>10, FS_Subset
    <2>3. Cardinality((U \cup V) \cap W) \in Nat
      BY <2>2, FS_CardinalityType
    <2> QED BY <2>3, <1>10, <1>13, FS_Union
  <1>15. Len(Recorded(rs)) <= CountAcpiManifestEntries
    BY <1>2, <1>7, <1>9, <1>10, <1>11, <1>12, <1>13, <1>14
  <1> QED
    BY <1>15 DEF rs

\* The tables of the firmware.
LEMMA AcpiStep ==
    ASSUME LoaderInv, stage = "acpi", Plan.valid
    PROVE  Sound(Plan.maps, Plan.records, Room)
  <1>1. machine \in Machines
    BY DEF LoaderInv
  <1>2. Room = CountAcpiManifestEntries /\ CountAcpiManifestEntries \in Nat
    BY <1>1, AcpiCounted DEF Room
  <1>3. CASE FindAcpiRsdpPhys = 0
    <2>1. Plan.maps = <<>> /\ Plan.records = <<>>
      BY <1>3 DEF Plan
    <2> DEFINE rs == <<>>
    <2>2. rs \in Seq(Entry) /\ Len(rs) = 0 /\ \A i \in DOMAIN rs : Low(rs[i])
      OBVIOUS
    <2>3. Plan.maps = rs /\ Plan.records = rs
      BY <2>1
    <2> HIDE DEF rs
    <2>4. Len(Recorded(rs)) <= Room
      <3>1. Len(Recorded(rs)) \in Nat /\ Len(Recorded(rs)) <= 0
        BY <2>2, RecordsBounded
      <3> QED BY <3>1, <1>2
    <2>5. Sound(rs, rs, Room)
      BY <2>2, <2>4, <1>2, LowIsSafe, SoundPlan
    <2> QED BY <2>3, <2>5
  <1>4. CASE FindAcpiRsdpPhys # 0
    <2> DEFINE rs == AcpiRanges \o HpetRanges(HpetsMapped)
    <2>1. Plan.maps = rs /\ Plan.records = rs /\ RootTable # 0 /\ machine.acpi.rootWhole
      BY <1>4 DEF Plan, HpetsRecorded
    <2>2. rs \in Seq(Entry) /\ \A i \in DOMAIN rs : Low(rs[i])
      BY <1>1, AcpiFacts
    <2>3. HpetsMapped \subseteq Hpets
      BY DEF HpetsMapped
    <2>4. Len(Recorded(rs)) <= Room
      BY <2>1, <2>3, <1>1, <1>2, <1>4, AcpiRecorded
    <2> HIDE DEF rs
    <2>5. Sound(rs, rs, Room)
      BY <2>2, <2>4, <1>2, LowIsSafe, SoundPlan
    <2> QED BY <2>1, <2>5
  <1> QED
    BY <1>3, <1>4

\* Every step of CreateInitialMapping.
LEMMA PlanSound ==
    ASSUME LoaderInv, stage \in MappingStages, Plan.valid
    PROVE  Sound(Plan.maps, Plan.records, Room)
  <1>1. stage \in {"identity", "hhdm", "staging", "acpi", "kernel_map", "devices"}
    BY DEF MappingStages
  <1> QED
    BY <1>1, IdentityStep, HhdmStep, StagingStep, AcpiStep, KernelMapStep, DevicesStep

\* The steps follow one another.
NextStage ==
    CASE stage = "identity" -> "hhdm"
      [] stage = "hhdm" -> "staging"
      [] stage = "staging" -> "acpi"
      [] stage = "acpi" -> "kernel_map"
      [] stage = "kernel_map" -> "devices"
      [] stage = "devices" -> "load"

\* Every step of the mapping leads to the next stage of the loader.
LEMMA PlanNext ==
    ASSUME stage \in MappingStages
    PROVE  Plan.next = NextStage
  <1>1. stage \in {"identity", "hhdm", "staging", "acpi", "kernel_map", "devices"}
    BY DEF MappingStages
  <1>2. CASE stage = "acpi" /\ FindAcpiRsdpPhys = 0
    BY <1>2 DEF Plan, NextStage
  <1>3. CASE stage = "acpi" /\ FindAcpiRsdpPhys # 0
    BY <1>3 DEF Plan, NextStage
  <1>4. CASE stage = "identity"
    BY <1>4 DEF Plan, NextStage
  <1>5. CASE stage = "hhdm"
    BY <1>5 DEF Plan, NextStage
  <1>6. CASE stage = "staging"
    BY <1>6 DEF Plan, NextStage
  <1>7. CASE stage = "kernel_map"
    BY <1>7 DEF Plan, NextStage
  <1>8. CASE stage = "devices"
    BY <1>8 DEF Plan, NextStage
  <1> QED
    BY <1>1, <1>2, <1>3, <1>4, <1>5, <1>6, <1>7, <1>8

\* The manifest always has room for the entries of the next step.
LEMMA RoomLeft ==
    ASSUME LoaderInv, stage \in MappingStages
    PROVE  /\ Allowance \in Nat /\ Room \in Nat /\ Allowance + Room <= capacity /\ capacity \in Nat
           /\ Len(manifest) <= Allowance
  <1>1. machine \in Machines
    BY DEF LoaderInv
  <1>2. stage \in MapStages /\ stage \in CapsuleStages
    BY DEF MapStages, CapsuleStages
  <1>3. capacity = Len(machine.map) + CountAcpiManifestEntries + FixedBudget + SlackEntries /\ Len(manifest) <= Allowance
    BY <1>2 DEF LoaderInv, CountOk, EstimateBootMappingManifestSize
  <1>4. Len(machine.map) \in Nat /\ CountAcpiManifestEntries \in Nat
    <2>1. machine.map \in Seq(Desc)
      BY <1>1, MachineFacts
    <2> QED BY <2>1, <1>1, AcpiCounted
  <1>5. FixedBudget \in Nat /\ SlackEntries \in Nat /\ FixedBudget + SlackEntries >= 12
    BY LoaderAssumption
  <1>6. \/ Allowance = 0 /\ Room = 2
        \/ Allowance = 2 /\ Room = Len(machine.map)
        \/ Allowance = 2 + Len(machine.map) /\ Room = 3
        \/ Allowance = 5 + Len(machine.map) /\ Room = CountAcpiManifestEntries
        \/ Allowance = 5 + Len(machine.map) + CountAcpiManifestEntries /\ Room = 5
        \/ Allowance = 10 + Len(machine.map) + CountAcpiManifestEntries /\ Room = 2
    BY DEF MappingStages, Allowance, Room
  <1>7. PICK m \in Nat : m = Len(machine.map)
    BY <1>4
  <1>8. PICK a \in Nat : a = CountAcpiManifestEntries
    BY <1>4
  <1>9. PICK s \in Nat : s = FixedBudget + SlackEntries /\ s >= 12
    BY <1>5
  <1>10. capacity = m + a + s
    <2>1. capacity = m + a + FixedBudget + SlackEntries
      BY <1>3, <1>7, <1>8, Zenon
    <2> QED BY <2>1, <1>5, <1>9
  <1>11. Allowance \in Nat /\ Room \in Nat /\ Allowance + Room <= m + a + s
    BY <1>6, <1>7, <1>8, <1>9
  <1> QED
    BY <1>3, <1>10, <1>11

\* So the estimate never stops the boot.
LEMMA NeverFull ==
    ASSUME LoaderInv, stage \in MappingStages
    PROVE  MappingStatus # "manifest_full"
  <1>1. CASE Plan.valid
    <2>1. Sound(Plan.maps, Plan.records, Room)
      BY <1>1, PlanSound
    <2>2. Plan.records \in Seq(Entry) /\ Len(Recorded(Plan.records)) <= Room
      BY <2>1 DEF Sound
    <2>3. Len(Recorded(Plan.records)) \in Nat
      BY <2>2, RecordsBounded
    <2>4. Len(manifest) \in Nat
      BY DEF LoaderInv, CountOk
    <2>5. ~(Len(manifest) + Len(Recorded(Plan.records)) > capacity)
      BY <2>2, <2>3, <2>4, RoomLeft
    <2> QED BY <2>5 DEF MappingStatus
  <1>2. CASE ~Plan.valid
    BY <1>2 DEF MappingStatus
  <1> QED
    BY <1>1, <1>2

-----------------------------------------------------------------------------
(* The loader keeps its invariant.                                         *)

\* The machine is fixed, and with it the sizes that are computed from it.
LEMMA MachineKept ==
    ASSUME machine' = machine
    PROVE  /\ CapsulePages' = CapsulePages /\ KernelPages' = KernelPages
           /\ Conventional' = Conventional /\ Nx' = Nx
           /\ MapIsUsable' = MapIsUsable
           /\ CountAcpiManifestEntries' = CountAcpiManifestEntries
           /\ EstimateBootMappingManifestSize' = EstimateBootMappingManifestSize
  <1>1. KernelPages' = KernelPages
    BY DEF KernelPages, CodePages, DataPages, SegmentPages
  <1>2. CapsulePages' = CapsulePages
    BY <1>1 DEF CapsulePages
  <1>3. Conventional' = Conventional
    BY DEF Conventional, PagesOfDesc
  <1>4. Nx' = Nx
    BY DEF Nx
  <1>5. MapIsUsable' = MapIsUsable
    BY DEF MapIsUsable
  <1>6. CountAcpiManifestEntries' = CountAcpiManifestEntries
    BY DEF CountAcpiManifestEntries, FindAcpiRsdpPhys, RootTable, AcpiTables
  <1>7. EstimateBootMappingManifestSize' = EstimateBootMappingManifestSize
    BY <1>6 DEF EstimateBootMappingManifestSize
  <1> QED
    BY <1>1, <1>2, <1>3, <1>4, <1>5, <1>6, <1>7

\* The flags of a kind of memory and the parts of a capsule, too.
LEMMA ShapesKept ==
    ASSUME machine' = machine, NEW x
    PROVE  GetHhdmMapFlags(x)' = GetHhdmMapFlags(x) /\ Layout(x)' = Layout(x)
  BY MachineKept DEF GetHhdmMapFlags, Layout

\* A step that leaves the capsule alone.
LEMMA CapsuleKept ==
    ASSUME LoaderInv, machine' = machine, capsule' = capsule, held'["capsule"] = held["capsule"],
           stage' \in CapsuleStages => stage \in CapsuleStages
    PROVE  CapsuleOk'
  <1> SUFFICES ASSUME stage' \in CapsuleStages
               PROVE  /\ capsule'.base \in Nat /\ capsule' = Layout(capsule.base)'
                      /\ held'["capsule"] = capsule'.base .. capsule'.base + CapsulePages' - 1
                      /\ held'["capsule"] \subseteq Conventional'
    BY DEF CapsuleOk, CapsuleStages, MapStages, MappingStages
  <1>1. /\ capsule.base \in Nat /\ capsule = Layout(capsule.base)
        /\ held["capsule"] = capsule.base .. capsule.base + CapsulePages - 1
        /\ held["capsule"] \subseteq Conventional
    BY DEF LoaderInv, CapsuleOk
  <1>2. CapsulePages' = CapsulePages /\ Conventional' = Conventional /\ KernelPages' = KernelPages
    BY MachineKept
  <1>3. Layout(capsule.base)' = Layout(capsule.base)
    BY <1>2 DEF Layout
  <1> QED
    BY <1>1, <1>2, <1>3

\* A step that leaves the pool alone.
LEMMA PoolKept ==
    ASSUME LoaderInv, machine' = machine, held'["capsule"] = held["capsule"], held'["pool"] = held["pool"],
           stage' \in MapStages => stage \in MapStages
    PROVE  PoolOk'
  <1> SUFFICES ASSUME stage \in MapStages
               PROVE  \E b \in Nat : /\ held'["pool"] = b .. b + PoolPages - 1
                                     /\ held'["pool"] \subseteq Conventional'
                                     /\ held'["pool"] \cap held'["capsule"] = {}
    BY DEF PoolOk, MapStages, MappingStages
  <1>1. \E b \in Nat : /\ held["pool"] = b .. b + PoolPages - 1
                       /\ held["pool"] \subseteq Conventional
                       /\ held["pool"] \cap held["capsule"] = {}
    BY DEF LoaderInv, PoolOk
  <1>2. Conventional' = Conventional
    BY MachineKept
  <1> QED
    BY <1>1, <1>2

\* A step that leaves everything alone but the stage, if it moves on behind the
\* mapping.
LEMMA LateKept ==
    ASSUME LoaderInv, stage' = stage \/ (stage \in {"load", "exit"} /\ stage' \in {"exit", "kernel"}),
           UNCHANGED <<why, machine, held, capsule, tables, manifest, capacity>>
    PROVE  LoaderInv'
  <1>1. /\ stage' \in MapStages => stage \in MapStages
        /\ stage' \in CapsuleStages => stage \in CapsuleStages
        /\ stage' \in DirectStages => stage \in DirectStages
        /\ stage' \in EarlyStages => stage \in EarlyStages
        /\ stage \in KernelStages => stage' \in KernelStages
    BY DEF MapStages, CapsuleStages, DirectStages, KernelStages, EarlyStages, MappingStages
  <1>2. CapsuleOk'
    BY <1>1, CapsuleKept
  <1>3. PoolOk'
    BY <1>1, PoolKept
  <1>4. TablesOk'
    <2>1. /\ stage' \in EarlyStages => tables = <<>> /\ manifest = <<>>
          /\ stage' \in MapStages => EntriesMatch(tables, manifest)
          /\ stage' \in MapStages /\ machine.nullDetection => 0 \notin DOMAIN tables
      BY <1>1 DEF LoaderInv, TablesOk
    <2>2. EntriesMatch(tables, manifest)' = EntriesMatch(tables, manifest)
      BY DEF EntriesMatch, DescribesIn, VirtualPages
    <2> QED BY <2>1, <2>2 DEF TablesOk, MapStages, EarlyStages, MappingStages
  <1>5. DirectOk'
    <2> SUFFICES ASSUME stage' \in DirectStages PROVE DirectOk'
      BY DEF DirectOk, DirectStages
    <2>1. /\ MapIsUsable
          /\ \A i \in DOMAIN machine.map : \A f \in PagesOfDesc(machine.map[i]) :
                /\ VirtualBase["hhdm"] + f \in DOMAIN tables
                /\ tables[VirtualBase["hhdm"] + f].at = f
                /\ tables[VirtualBase["hhdm"] + f].flags = GetHhdmMapFlags(machine.map[i].type)
      BY <1>1 DEF LoaderInv, DirectOk
    <2>2. MapIsUsable'
      BY <2>1, MachineKept
    <2>3. \A i \in DOMAIN machine'.map : \A f \in PagesOfDesc(machine'.map[i]) :
                /\ VirtualBase["hhdm"] + f \in DOMAIN tables'
                /\ tables'[VirtualBase["hhdm"] + f].at = f
                /\ tables'[VirtualBase["hhdm"] + f].flags = GetHhdmMapFlags(machine.map[i].type)'
      <3> SUFFICES ASSUME NEW i \in DOMAIN machine.map, NEW f \in PagesOfDesc(machine.map[i])
                   PROVE  /\ VirtualBase["hhdm"] + f \in DOMAIN tables
                          /\ tables[VirtualBase["hhdm"] + f].at = f
                          /\ tables[VirtualBase["hhdm"] + f].flags = GetHhdmMapFlags(machine.map[i].type)'
        OBVIOUS
      <3>1. GetHhdmMapFlags(machine.map[i].type)' = GetHhdmMapFlags(machine.map[i].type)
        BY MachineKept DEF GetHhdmMapFlags
      <3> QED BY <3>1, <2>1
    <2> QED BY <2>2, <2>3 DEF DirectOk, PagesOfDesc
  <1>6. WindowsOk'
    <2>1. stage' \in MapStages => \A v \in DOMAIN tables : v >= VirtualBase["kernel"] =>
             stage' \in KernelStages /\ tables[v].at \in held["capsule"]
      BY <1>1 DEF LoaderInv, WindowsOk
    <2> QED BY <2>1 DEF WindowsOk, MapStages, KernelStages, MappingStages
  <1>7. CountOk'
    <2>1. Allowance' = Allowance
      BY MachineKept DEF Allowance
    <2>2. EstimateBootMappingManifestSize' = EstimateBootMappingManifestSize
      BY MachineKept
    <2>3. /\ manifest \in Seq(Entry) /\ capacity \in Nat /\ Len(manifest) <= capacity /\ why # "manifest_full"
          /\ stage' \in CapsuleStages => capacity = EstimateBootMappingManifestSize
          /\ stage' \in MapStages => Len(manifest) <= Allowance
      BY <1>1 DEF LoaderInv, CountOk
    <2> QED BY <2>1, <2>2, <2>3 DEF CountOk, CapsuleStages, MapStages, MappingStages
  <1> QED
    BY <1>2, <1>3, <1>4, <1>5, <1>6, <1>7 DEF LoaderInv

\* A step of an early stage, and a step that fails.
LEMMA EarlyKept ==
    ASSUME LoaderInv, machine' = machine, DOMAIN held' = Purposes,
           UNCHANGED <<tables, manifest, capacity>>, why' # "manifest_full",
           \/ stage' = "failed"
           \/ stage \in {"claim", "read", "map"} /\ stage' \in {"read", "map", "layout"}
    PROVE  LoaderInv'
  <1>1. stage' \notin MapStages /\ stage' \notin CapsuleStages /\ stage' \notin DirectStages
    BY DEF MapStages, CapsuleStages, DirectStages, MappingStages
  <1>2. stage' \in EarlyStages => stage \in EarlyStages
    BY DEF EarlyStages
  <1>3. CapsuleOk' /\ PoolOk' /\ DirectOk' /\ WindowsOk'
    BY <1>1 DEF CapsuleOk, PoolOk, DirectOk, WindowsOk, CapsuleStages, MapStages, DirectStages, MappingStages
  <1>4. TablesOk'
    BY <1>1, <1>2 DEF LoaderInv, TablesOk, EarlyStages, MapStages, MappingStages
  <1>5. CountOk'
    BY <1>1 DEF LoaderInv, CountOk, CapsuleStages, MapStages, MappingStages
  <1> QED
    BY <1>3, <1>4, <1>5 DEF LoaderInv

\* The error path keeps a record of the pages of every purpose.
LEMMA ErrorKept ==
    ASSUME LoaderInv, NEW status, NEW pool, HandleError(status, pool), status # "manifest_full",
           UNCHANGED <<machine, tables, manifest, capacity>>
    PROVE  LoaderInv'
  <1>1. DOMAIN held' = Purposes
    BY DEF HandleError, BootReleaseNullGuardPage, ReleasePages
  <1>2. stage' = "failed" /\ why' = status
    BY DEF HandleError
  <1> QED
    BY <1>1, <1>2, EarlyKept

\* What the firmware gives away is free memory.
LEMMA AllocatedRun ==
    ASSUME NEW n, NEW b \in AllocatePages(n)
    PROVE  b \in Nat /\ b .. b + n - 1 \subseteq FreeFrames
  <1> DEFINE R == Runs(n)
  <1>1. R \in SUBSET FreeFrames /\ \A r \in R : r .. r + n - 1 \subseteq FreeFrames
    BY DEF Runs
  <1>2. R # {} /\ b \in {Min(R), Max(R)}
    BY DEF AllocatePages
  <1> HIDE DEF R
  <1>3. FreeFrames \subseteq Conventional
    BY DEF FreeFrames
  <1>4. R \in SUBSET Nat /\ (\A y \in R : y <= PhysPages) /\ PhysPages \in Nat
    BY <1>1, <1>3, ConventionalIsNat, LayoutFacts
  <1>5. Min(R) \in R
    BY <1>2, <1>4, MinFacts
  <1>6. Max(R) \in R
    BY <1>2, <1>4, MaxFacts
  <1> QED
    BY <1>1, <1>2, <1>4, <1>5, <1>6

\* Free memory is memory, and nobody's.
LEMMA FreeFacts ==
    ASSUME NEW p \in Purposes
    PROVE  FreeFrames \subseteq Conventional /\ FreeFrames \cap held[p] = {}
  BY DEF FreeFrames

\* CreateCapsule lays the capsule out.
LEMMA CreateCapsuleKeeps ==
    ASSUME LoaderInv, CreateCapsule
    PROVE  LoaderInv'
  <1>1. PICK b \in AllocatePages(CapsulePages) :
           /\ held' = [held EXCEPT !["capsule"] = b .. b + CapsulePages - 1]
           /\ capsule' = [base |-> b, kernel |-> b + HandoffPages, stack |-> b + HandoffPages + KernelPages,
                          ist1 |-> b + HandoffPages + KernelPages + StackPages,
                          ist2 |-> b + HandoffPages + KernelPages + 2 * StackPages]
    BY DEF CreateCapsule
  <1>2. b \in Nat /\ b .. b + CapsulePages - 1 \subseteq FreeFrames
    BY AllocatedRun
  <1>3. /\ stage = "layout" /\ stage' = "pool" /\ machine' = machine /\ tables' = tables /\ manifest' = <<>>
        /\ capacity' = EstimateBootMappingManifestSize /\ why' = why
    BY DEF CreateCapsule, Goto, BootMappingManifestInitialize
  <1>4. machine \in Machines /\ DOMAIN held = Purposes /\ tables = <<>> /\ why # "manifest_full"
    BY <1>3 DEF LoaderInv, TablesOk, CountOk, EarlyStages
  <1>5. "capsule" \in Purposes
    BY DEF Purposes
  <1>6. stage' \notin MapStages /\ stage' \notin DirectStages
    BY <1>3 DEF MapStages, DirectStages, MappingStages
  <1>7. held'["capsule"] = b .. b + CapsulePages - 1 /\ DOMAIN held' = Purposes
    BY <1>1, <1>4, <1>5
  <1>8. CapsulePages' = CapsulePages /\ Conventional' = Conventional /\ KernelPages' = KernelPages
    BY <1>3, MachineKept
  <1>9. CapsuleOk'
    <2>1. capsule'.base = b
      BY <1>1
    <2>2. Layout(capsule.base)' = capsule'
      BY <2>1, <1>1, <1>8 DEF Layout
    <2>3. held'["capsule"] \subseteq Conventional'
      BY <1>2, <1>5, <1>7, <1>8, FreeFacts
    <2>4. held'["capsule"] = b .. b + CapsulePages' - 1
      BY <1>7, <1>8
    <2> QED BY <2>1, <2>2, <2>3, <2>4, <1>2 DEF CapsuleOk
  <1>10. PoolOk' /\ DirectOk' /\ WindowsOk'
    BY <1>6 DEF PoolOk, DirectOk, WindowsOk, MapStages, DirectStages, MappingStages
  <1>11. TablesOk'
    BY <1>3, <1>4, <1>6 DEF TablesOk, MapStages, MappingStages
  <1>12. CountOk'
    <2>1. EstimateBootMappingManifestSize' = EstimateBootMappingManifestSize
      BY <1>3, MachineKept
    <2>2. EstimateBootMappingManifestSize \in Nat
      <3>1. machine.map \in Seq(Desc)
        BY <1>4, MachineFacts
      <3> QED BY <3>1, <1>4, AcpiCounted, LayoutFacts DEF EstimateBootMappingManifestSize
    <2>3. manifest' \in Seq(Entry) /\ Len(manifest') = 0
      BY <1>3
    <2> QED BY <2>1, <2>2, <2>3, <1>3, <1>4, <1>6 DEF CountOk, MapStages, MappingStages
  <1> QED
    BY <1>3, <1>4, <1>7, <1>9, <1>10, <1>11, <1>12 DEF LoaderInv

\* AllocatePool finds pages apart from the capsule.
LEMMA AllocatePoolKeeps ==
    ASSUME LoaderInv, AllocatePool
    PROVE  LoaderInv'
  <1>1. PICK b \in AllocatePages(PoolPages) : held' = [held EXCEPT !["pool"] = b .. b + PoolPages - 1]
    BY DEF AllocatePool
  <1>2. b \in Nat /\ b .. b + PoolPages - 1 \subseteq FreeFrames
    BY AllocatedRun
  <1>3. /\ stage = "pool" /\ stage' = "identity" /\ machine' = machine /\ tables' = tables /\ manifest' = manifest
        /\ capacity' = capacity /\ why' = why /\ capsule' = capsule
    BY DEF AllocatePool, Goto
  <1>4. /\ machine \in Machines /\ DOMAIN held = Purposes /\ tables = <<>> /\ manifest = <<>>
        /\ why # "manifest_full" /\ capacity \in Nat /\ capacity = EstimateBootMappingManifestSize
    BY <1>3 DEF LoaderInv, TablesOk, CountOk, EarlyStages, CapsuleStages
  <1>5. "capsule" \in Purposes /\ "pool" \in Purposes
    BY DEF Purposes
  <1>6. stage' \notin DirectStages /\ stage \in CapsuleStages
    BY <1>3 DEF DirectStages, CapsuleStages
  <1>7. held'["capsule"] = held["capsule"] /\ held'["pool"] = b .. b + PoolPages - 1 /\ DOMAIN held' = Purposes
    BY <1>1, <1>4, <1>5
  <1>8. CapsuleOk'
    BY <1>3, <1>6, <1>7, CapsuleKept
  <1>9. PoolOk'
    <2>1. FreeFrames \subseteq Conventional /\ FreeFrames \cap held["capsule"] = {}
      BY <1>5, FreeFacts
    <2>2. Conventional' = Conventional
      BY <1>3, MachineKept
    <2> QED BY <2>1, <2>2, <1>2, <1>7 DEF PoolOk
  <1>10. DirectOk'
    BY <1>6 DEF DirectOk, DirectStages
  <1>11. TablesOk' /\ WindowsOk'
    <2>1. tables' = <<>> /\ manifest' = <<>> /\ DOMAIN tables' = {}
      BY <1>3, <1>4
    <2>2. DOMAIN manifest' = {}
      BY <2>1
    <2>3. EntriesMatch(tables, manifest)'
      BY <2>1, <2>2 DEF EntriesMatch
    <2> QED BY <2>1, <2>3 DEF TablesOk, WindowsOk
  <1>12. CountOk'
    <2>1. EstimateBootMappingManifestSize' = EstimateBootMappingManifestSize
      BY <1>3, MachineKept
    <2>2. manifest' \in Seq(Entry) /\ Len(manifest') = 0
      BY <1>3, <1>4
    <2>3. Allowance' = 0
      BY <1>3 DEF Allowance
    <2> QED BY <2>1, <2>2, <2>3, <1>3, <1>4 DEF CountOk
  <1> QED
    BY <1>3, <1>4, <1>7, <1>8, <1>9, <1>10, <1>11, <1>12 DEF LoaderInv

\* A step of CreateInitialMapping.
LEMMA MappingKeeps ==
    ASSUME LoaderInv, CreateInitialMapping
    PROVE  LoaderInv'
  <1> DEFINE T == MapRegions(tables, Plan.maps)
             M == manifest \o Recorded(Plan.records)
  <1>1. /\ stage \in MappingStages /\ MappingStatus = "EFI_SUCCESS" /\ tables' = T /\ manifest' = M
        /\ stage' = NextStage /\ why' = why
        /\ machine' = machine /\ held' = held /\ capsule' = capsule /\ capacity' = capacity
    BY PlanNext DEF CreateInitialMapping, Goto
  <1>2. Plan.valid /\ \A i \in DOMAIN Plan.maps : Agrees(T, Plan.maps[i])
    BY <1>1 DEF MappingStatus
  <1>3. Sound(Plan.maps, Plan.records, Room)
    BY <1>1, <1>2, PlanSound
  <1>4. PICK maps : maps = Plan.maps
    OBVIOUS
  <1>5. PICK records : records = Plan.records
    OBVIOUS
  <1>6. Sound(maps, records, Room) /\ (\A i \in DOMAIN maps : Agrees(MapRegions(tables, maps), maps[i]))
    BY <1>2, <1>3, <1>4, <1>5
  <1>7. T = MapRegions(tables, maps) /\ M = manifest \o Recorded(records)
    BY <1>4, <1>5
  <1> HIDE DEF T, M
  <1>8. /\ maps \in Seq(Entry) /\ records \in Seq(Entry)
        /\ \A i \in DOMAIN maps : maps[i].pages # 0 => \E k \in DOMAIN records : records[k] = maps[i]
        /\ \A k \in DOMAIN records :
              \/ \E i \in DOMAIN maps : maps[i] = records[k]
              \/ \A v \in VirtualPages(records[k]) : v \in DOMAIN tables /\ DescribesIn(tables, records[k], v)
        /\ Len(Recorded(records)) <= Room
        /\ \A i \in DOMAIN maps : \A v \in VirtualPages(maps[i]) :
              /\ machine.nullDetection => v # 0
              /\ v >= VirtualBase["kernel"] => stage = "kernel_map" /\ maps[i].at + (v - maps[i].va) \in held["capsule"]
    BY <1>6 DEF Sound
  <1>9. stage \in MapStages /\ stage \in CapsuleStages
    BY <1>1 DEF MapStages, CapsuleStages
  <1>10. /\ manifest \in Seq(Entry) /\ EntriesMatch(tables, manifest)
         /\ (machine.nullDetection => 0 \notin DOMAIN tables)
    BY <1>9 DEF LoaderInv, TablesOk, CountOk
  <1>11. EntriesMatch(T, M) /\ M \in Seq(Entry) /\ Len(M) = Len(manifest) + Len(Recorded(records))
    <2>1. Faithful(tables, maps, records)
      BY <1>6, <1>8 DEF Faithful
    <2>2. /\ EntriesMatch(MapRegions(tables, maps), manifest \o Recorded(records))
          /\ manifest \o Recorded(records) \in Seq(Entry)
          /\ Len(manifest \o Recorded(records)) = Len(manifest) + Len(Recorded(records))
      BY <2>1, <1>10, MatchKept
    <2> QED BY <2>2, <1>7, Zenon
  <1>12. /\ DOMAIN T = DOMAIN tables \cup UNION {VirtualPages(maps[i]) : i \in DOMAIN maps}
         /\ \A v \in DOMAIN tables : T[v] = tables[v]
    BY <1>7, MapRegionsFacts
  <1>13. \A i \in DOMAIN maps : \A v \in VirtualPages(maps[i]) : v \in DOMAIN T /\ DescribesIn(T, maps[i], v)
    BY <1>6, <1>7, AgreeingMaps
  <1>14. stage' \in {"hhdm", "staging", "acpi", "kernel_map", "devices", "load"} /\ stage' \in CapsuleStages
    BY <1>1 DEF NextStage, MappingStages, CapsuleStages, MapStages
  <1>15. CapsuleOk'
    BY <1>1, <1>9, CapsuleKept
  <1>16. PoolOk'
    BY <1>1, <1>9, PoolKept
  <1>17. TablesOk'
    <2>1. stage' \notin EarlyStages
      BY <1>14 DEF EarlyStages
    <2>2. EntriesMatch(tables, manifest)'
      <3>1. EntriesMatch(tables', manifest')
        BY <1>1, <1>11
      <3> QED BY <3>1 DEF EntriesMatch, DescribesIn, VirtualPages
    <2>3. machine.nullDetection => 0 \notin DOMAIN T
      BY <1>8, <1>10, <1>12
    <2> QED BY <2>1, <2>2, <2>3, <1>1 DEF TablesOk, EarlyStages
  <1>18. DirectOk'
    <2> SUFFICES ASSUME stage' \in DirectStages PROVE DirectOk'
      BY DEF DirectOk, DirectStages
    <2>1. stage = "hhdm" \/ stage \in DirectStages
      BY <1>1 DEF NextStage, DirectStages, MappingStages
    <2>2. /\ MapIsUsable
          /\ \A i \in DOMAIN machine.map : \A f \in PagesOfDesc(machine.map[i]) :
                /\ VirtualBase["hhdm"] + f \in DOMAIN T
                /\ T[VirtualBase["hhdm"] + f].at = f
                /\ T[VirtualBase["hhdm"] + f].flags = GetHhdmMapFlags(machine.map[i].type)
      <3>1. CASE stage \in DirectStages
        <4>1. /\ MapIsUsable
              /\ \A i \in DOMAIN machine.map : \A f \in PagesOfDesc(machine.map[i]) :
                    /\ VirtualBase["hhdm"] + f \in DOMAIN tables
                    /\ tables[VirtualBase["hhdm"] + f].at = f
                    /\ tables[VirtualBase["hhdm"] + f].flags = GetHhdmMapFlags(machine.map[i].type)
          BY <3>1 DEF LoaderInv, DirectOk
        <4> QED BY <4>1, <1>12
      <3>2. CASE stage = "hhdm"
        <4>1. MapIsUsable /\ Plan.maps = HhdmRegions /\ machine \in Machines
          BY <3>2, <1>2, HhdmStep DEF LoaderInv
        <4> SUFFICES ASSUME NEW i \in DOMAIN machine.map, NEW f \in PagesOfDesc(machine.map[i])
                     PROVE  /\ VirtualBase["hhdm"] + f \in DOMAIN T
                            /\ T[VirtualBase["hhdm"] + f].at = f
                            /\ T[VirtualBase["hhdm"] + f].flags = GetHhdmMapFlags(machine.map[i].type)
          BY <4>1
        <4>2. /\ i \in DOMAIN maps
              /\ maps[i] = Hhdm("hhdm", machine.map[i].start \div Unit, machine.map[i].pages,
                                GetHhdmMapFlags(machine.map[i].type))
          BY <4>1, <1>4, HhdmRegionFacts
        <4>3. PICK s \in Nat : s = machine.map[i].start \div Unit
          BY <4>1, UsableDesc
        <4>4. PICK n \in Nat : n = machine.map[i].pages
          BY <4>1, UsableDesc
        <4>5. PICK g : g = GetHhdmMapFlags(machine.map[i].type)
          OBVIOUS
        <4>6. f \in s .. s + n - 1
          BY <4>3, <4>4 DEF PagesOfDesc
        <4>7. maps[i] = Hhdm("hhdm", s, n, g)
          BY <4>2, <4>3, <4>4, <4>5
        <4>8. PICK h \in Nat : h = VirtualBase["hhdm"]
          BY WindowFacts
        <4>9. maps[i].at = s /\ maps[i].flags = g /\ maps[i].va = h + s /\ VirtualPages(maps[i]) = h + s .. h + s + n - 1
          BY <4>7, <4>8, HhdmFacts
        <4>10. h + f \in VirtualPages(maps[i])
          BY <4>6, <4>9
        <4>11. h + f \in DOMAIN T /\ T[h + f].at = maps[i].at + ((h + f) - maps[i].va) /\ T[h + f].flags = maps[i].flags
          BY <4>2, <4>10, <1>13 DEF DescribesIn
        <4>12. s + ((h + f) - (h + s)) = f
          BY <4>6
        <4> QED BY <4>5, <4>8, <4>9, <4>11, <4>12
      <3> QED BY <2>1, <3>1, <3>2
    <2>3. MapIsUsable'
      BY <2>2, <1>1, MachineKept
    <2>4. \A i \in DOMAIN machine'.map : \A f \in PagesOfDesc(machine'.map[i]) :
                /\ VirtualBase["hhdm"] + f \in DOMAIN tables'
                /\ tables'[VirtualBase["hhdm"] + f].at = f
                /\ tables'[VirtualBase["hhdm"] + f].flags = GetHhdmMapFlags(machine.map[i].type)'
      <3> SUFFICES ASSUME NEW i \in DOMAIN machine.map, NEW f \in PagesOfDesc(machine.map[i])
                   PROVE  /\ VirtualBase["hhdm"] + f \in DOMAIN T
                          /\ T[VirtualBase["hhdm"] + f].at = f
                          /\ T[VirtualBase["hhdm"] + f].flags = GetHhdmMapFlags(machine.map[i].type)'
        BY <1>1
      <3>1. GetHhdmMapFlags(machine.map[i].type)' = GetHhdmMapFlags(machine.map[i].type)
        BY <1>1, MachineKept DEF GetHhdmMapFlags
      <3> QED BY <3>1, <2>2
    <2> QED BY <2>3, <2>4 DEF DirectOk, PagesOfDesc
  <1>19. WindowsOk'
    <2> SUFFICES ASSUME NEW v \in DOMAIN T, v >= VirtualBase["kernel"]
                 PROVE  stage' \in KernelStages /\ T[v].at \in held["capsule"]
      BY <1>1 DEF WindowsOk, KernelStages, MapStages, MappingStages
    <2>1. CASE v \in DOMAIN tables
      <3>1. stage \in KernelStages /\ tables[v].at \in held["capsule"]
        BY <2>1, <1>9 DEF LoaderInv, WindowsOk
      <3>2. stage' \in KernelStages
        BY <3>1, <1>1 DEF KernelStages, NextStage, MappingStages
      <3> QED BY <2>1, <3>1, <3>2, <1>12
    <2>2. CASE v \notin DOMAIN tables
      <3>1. PICK i \in DOMAIN maps : v \in VirtualPages(maps[i])
        BY <2>2, <1>12
      <3>2. stage = "kernel_map" /\ maps[i].at + (v - maps[i].va) \in held["capsule"]
        BY <3>1, <1>8
      <3>3. T[v].at = maps[i].at + (v - maps[i].va)
        BY <3>1, <1>13 DEF DescribesIn
      <3>4. stage' \in KernelStages
        BY <3>2, <1>1 DEF KernelStages, NextStage
      <3> QED BY <3>2, <3>3, <3>4
    <2> QED BY <2>1, <2>2
  <1>20. CountOk'
    <2>1. /\ Allowance \in Nat /\ Room \in Nat /\ Allowance + Room <= capacity /\ capacity \in Nat
          /\ Len(manifest) <= Allowance
      BY <1>1, RoomLeft
    <2>2. Len(Recorded(records)) \in Nat /\ Len(manifest) \in Nat
      BY <1>8, <1>10, RecordsBounded
    <2>3. Len(M) <= Allowance + Room /\ Len(M) <= capacity
      BY <2>1, <2>2, <1>8, <1>11
    <2>4. Allowance' = Allowance + Room
      <3>1. Len(machine.map) \in Nat /\ CountAcpiManifestEntries \in Nat
        <4>1. machine.map \in Seq(Desc) /\ machine \in Machines
          BY MachineFacts DEF LoaderInv
        <4> QED BY <4>1, AcpiCounted
      <3>2. CountAcpiManifestEntries' = CountAcpiManifestEntries
        BY <1>1, MachineKept
      <3>3. \/ stage = "identity" /\ stage' = "hhdm"
            \/ stage = "hhdm" /\ stage' = "staging"
            \/ stage = "staging" /\ stage' = "acpi"
            \/ stage = "acpi" /\ stage' = "kernel_map"
            \/ stage = "kernel_map" /\ stage' = "devices"
            \/ stage = "devices" /\ stage' = "load"
        BY <1>1 DEF NextStage, MappingStages
      <3> QED BY <3>1, <3>2, <3>3, <1>1 DEF Allowance, Room
    <2>5. EstimateBootMappingManifestSize' = EstimateBootMappingManifestSize
      BY <1>1, MachineKept
    <2>6. why # "manifest_full" /\ capacity = EstimateBootMappingManifestSize
      BY <1>9 DEF LoaderInv, CountOk
    <2> QED BY <2>1, <2>3, <2>4, <2>5, <2>6, <1>1, <1>11 DEF CountOk
  <1> QED
    BY <1>1, <1>15, <1>16, <1>17, <1>18, <1>19, <1>20 DEF LoaderInv

\* Nothing is mapped or recorded at power-on.
LEMMA LoaderInvInit == Init => LoaderInv
  <1> SUFFICES ASSUME Init PROVE LoaderInv
    OBVIOUS
  <1>1. /\ stage = "claim" /\ why = "none" /\ machine \in Machines
        /\ tables = <<>> /\ manifest = <<>> /\ capacity = 0 /\ held = [p \in Purposes |-> {}]
    BY DEF Init, LoaderInit
  <1>2. stage \notin MapStages /\ stage \notin CapsuleStages /\ stage \notin DirectStages
    BY <1>1 DEF MapStages, CapsuleStages, DirectStages, MappingStages
  <1>3. CapsuleOk /\ PoolOk /\ DirectOk /\ WindowsOk /\ TablesOk
    BY <1>1, <1>2 DEF CapsuleOk, PoolOk, DirectOk, WindowsOk, TablesOk
  <1>4. manifest \in Seq(Entry) /\ Len(manifest) = 0
    BY <1>1
  <1>5. CountOk
    BY <1>1, <1>2, <1>4 DEF CountOk
  <1> QED
    BY <1>1, <1>3, <1>5 DEF LoaderInv

\* Every step of StagingKernel keeps the invariant of the loader.
LEMMA LoaderStepKeeps ==
    ASSUME LoaderInv, LoaderStep
    PROVE  LoaderInv'
  <1>1. DOMAIN held = Purposes /\ why # "manifest_full"
    BY DEF LoaderInv, CountOk
  <1>2. CASE BootClaimNullGuardPage
    <2>1. DOMAIN held' = Purposes
      BY <1>1, <1>2 DEF BootClaimNullGuardPage
    <2> QED BY <1>1, <1>2, <2>1, EarlyKept DEF BootClaimNullGuardPage, Goto
  <1>2a. CASE NullGuardPageRefused
    BY <1>2a, ErrorKept DEF NullGuardPageRefused
  <1>3. CASE ReadKernelImage
    <2>1. DOMAIN held' = Purposes
      BY <1>1, <1>3 DEF ReadKernelImage
    <2> QED BY <1>1, <1>3, <2>1, EarlyKept DEF ReadKernelImage, Goto
  <1>4. CASE ReadKernelImageFails
    BY <1>4, ErrorKept DEF ReadKernelImageFails
  <1>5. CASE GetLoaderRuntimeMemoryMap
    <2>1. DOMAIN held' = Purposes
      BY <1>1, <1>5 DEF GetLoaderRuntimeMemoryMap
    <2> QED BY <1>1, <1>5, <2>1, EarlyKept DEF GetLoaderRuntimeMemoryMap, Goto
  <1>6. CASE MapBufferTooSmall
    <2>1. DOMAIN held' = Purposes
      BY <1>1, <1>6 DEF MapBufferTooSmall
    <2>2. /\ stage = "map" /\ stage' = "map" /\ why' = why /\ machine' = machine
          /\ UNCHANGED <<tables, manifest, capacity>>
      BY <1>6 DEF MapBufferTooSmall
    <2> QED BY <1>1, <2>1, <2>2, EarlyKept
  <1>7. CASE NoMemoryMap
    BY <1>7, ErrorKept DEF NoMemoryMap
  <1>8. CASE CreateCapsule
    BY <1>8, CreateCapsuleKeeps
  <1>9. CASE NoCapsule
    BY <1>9, ErrorKept DEF NoCapsule
  <1>10. CASE AllocatePool
    BY <1>10, AllocatePoolKeeps
  <1>11. CASE NoPool
    BY <1>11, ErrorKept DEF NoPool
  <1>12. CASE CreateInitialMapping
    BY <1>12, MappingKeeps
  <1>13. CASE InitialMappingFails
    <2>1. MappingStatus # "manifest_full"
      BY <1>13, NeverFull DEF InitialMappingFails
    <2> QED BY <1>13, <2>1, ErrorKept DEF InitialMappingFails
  <1>14. CASE LoadKernel
    BY <1>14, LateKept DEF LoadKernel, Goto
  <1>15. CASE LoadKernelFails
    BY <1>15, ErrorKept DEF LoadKernelFails
  <1>16. CASE ExitBootServices
    BY <1>16, LateKept DEF ExitBootServices, Goto
  <1>17. CASE ExitBootServicesFails
    BY <1>17, ErrorKept DEF ExitBootServicesFails
  <1>18. CASE EnableNxeFails
    BY <1>1, <1>18, EarlyKept DEF EnableNxeFails
  <1> QED
    BY <1>2, <1>2a, <1>3, <1>4, <1>5, <1>6, <1>7, <1>8, <1>9, <1>10, <1>11, <1>12, <1>13, <1>14, <1>15, <1>16,
       <1>17, <1>18 DEF LoaderStep

\* Nothing but the loader changes its state.
LEMMA LoaderInvKept ==
    ASSUME LoaderInv, [Next]_vars
    PROVE  LoaderInv'
  <1>1. CASE Load
    BY <1>1, LoaderStepKeeps DEF Load
  <1>2. CASE ~Load
    <2>1. UNCHANGED loaderVars
      BY <1>2 DEF Next, vars, ValidateBootMappingManifest, VerifyHhdm, AssertRsdp, CallPmm, RunPmm, PmmFails,
                  KeImportKernelAddressSpace, NoPageForRegions, KePtSelfTest, KePtSelfTestFails, CallTimeSource,
                  TimeSourceFaults, CallClockEvent, RunTime, TimeEnds
    <2>2. stage' = stage /\ UNCHANGED <<why, machine, held, capsule, tables, manifest, capacity>>
      BY <2>1 DEF loaderVars
    <2> QED BY <2>2, LateKept
  <1> QED
    BY <1>1, <1>2

-----------------------------------------------------------------------------
(* The kernel behind the jump.                                             *)

\* What InitKernel does comes after the jump, and in order.
OrderInv ==
    /\ init # "validate" => stage = "kernel"
    /\ phase # "off" => init # "validate"
    /\ regions # <<>> => init # "validate"
    /\ probe # -1 => init # "validate"

\* The loader is gone after the jump.
LEMMA LoaderIsGone ==
    ASSUME stage = "kernel", [Next]_vars
    PROVE  UNCHANGED loaderVars
  <1>1. ~LoaderStep
    BY DEF LoaderStep, BootClaimNullGuardPage, NullGuardPageRefused, ReadKernelImage, ReadKernelImageFails,
           GetLoaderRuntimeMemoryMap, MapBufferTooSmall, NoMemoryMap, CreateCapsule, NoCapsule, AllocatePool, NoPool, CreateInitialMapping,
           InitialMappingFails, LoadKernel, LoadKernelFails, ExitBootServices, ExitBootServicesFails, EnableNxeFails,
           MappingStages
  <1> QED
    BY <1>1 DEF Load, Next, vars, ValidateBootMappingManifest, VerifyHhdm, AssertRsdp, CallPmm, RunPmm, PmmFails,
                KeImportKernelAddressSpace, NoPageForRegions, KePtSelfTest, KePtSelfTestFails, CallTimeSource,
                TimeSourceFaults, CallClockEvent, RunTime, TimeEnds

\* Nothing of the kernel has run at power-on.
LEMMA OrderInit == Init => OrderInv
  BY DEF Init, LoaderInit, PmmInit, OrderInv

\* Every step keeps the order.
LEMMA OrderKept ==
    ASSUME OrderInv, [Next]_vars
    PROVE  OrderInv'
  <1>1. CASE Load
    <2>1. UNCHANGED <<phase, init, probe, regions>>
      BY <1>1 DEF Load, pmmVars
    <2>2. stage = "kernel" => stage' = "kernel"
      BY LoaderIsGone DEF loaderVars
    <2> QED BY <2>1, <2>2 DEF OrderInv
  <1>2. CASE ValidateBootMappingManifest
    BY <1>2 DEF OrderInv, ValidateBootMappingManifest, loaderVars, pmmVars
  <1>3. CASE VerifyHhdm
    BY <1>3 DEF OrderInv, VerifyHhdm, loaderVars, pmmVars
  <1>4. CASE AssertRsdp
    BY <1>4 DEF OrderInv, AssertRsdp, loaderVars, pmmVars
  <1>5. CASE CallPmm
    BY <1>5 DEF OrderInv, CallPmm, loaderVars
  <1>6. CASE RunPmm
    <2>1. phase # "off"
      BY <1>6 DEF RunPmm, PmmStep, SortDescriptorsByPhysAddr, ValidateDescriptors, RejectMap, PlaceBitmap,
                  NoRoomForBitmap, MarkReclaimable, ReserveBootRanges
    <2> QED BY <1>6, <2>1 DEF OrderInv, RunPmm, loaderVars
  <1>7. CASE PmmFails
    BY <1>7 DEF OrderInv, PmmFails, loaderVars, pmmVars
  <1>8. CASE KeImportKernelAddressSpace
    BY <1>8 DEF OrderInv, KeImportKernelAddressSpace, loaderVars
  <1>9. CASE NoPageForRegions
    BY <1>9 DEF OrderInv, NoPageForRegions, loaderVars, pmmVars
  <1>10. CASE KePtSelfTest
    BY <1>10 DEF OrderInv, KePtSelfTest, loaderVars
  <1>11. CASE KePtSelfTestFails
    BY <1>11 DEF OrderInv, KePtSelfTestFails, loaderVars, pmmVars
  <1>12. CASE CallTimeSource
    BY <1>12 DEF OrderInv, CallTimeSource, loaderVars, pmmVars
  <1>13. CASE TimeSourceFaults
    BY <1>13 DEF OrderInv, TimeSourceFaults, loaderVars, pmmVars
  <1>14. CASE CallClockEvent
    BY <1>14 DEF OrderInv, CallClockEvent, loaderVars, pmmVars
  <1>15. CASE RunTime
    BY <1>15 DEF OrderInv, RunTime, loaderVars, pmmVars
  <1>16. CASE TimeEnds
    BY <1>16 DEF OrderInv, TimeEnds, loaderVars, pmmVars
  <1>17. CASE UNCHANGED vars
    BY <1>17 DEF OrderInv, vars, loaderVars, pmmVars
  <1> QED
    BY <1>1, <1>2, <1>3, <1>4, <1>5, <1>6, <1>7, <1>8, <1>9, <1>10, <1>11, <1>12, <1>13, <1>14, <1>15, <1>16, <1>17
       DEF Next

\* What the kernel finds: a capsule at page c and a pool at page p.
Handed(c, p) ==
    /\ c \in Nat /\ p \in Nat /\ capsule = Layout(c)
    /\ held["capsule"] = c .. c + CapsulePages - 1 /\ held["pool"] = p .. p + PoolPages - 1
    /\ held["capsule"] \subseteq Conventional /\ held["pool"] \subseteq Conventional
    /\ held["pool"] \cap held["capsule"] = {}

\* After the jump there are such a capsule and such a pool, in a usable map.
LEMMA HandedOver ==
    ASSUME LoaderInv, stage = "kernel"
    PROVE  /\ machine \in Machines /\ MapIsUsable /\ stage \in DirectStages
           /\ \E c, p \in Nat : Handed(c, p)
  <1>1. stage \in CapsuleStages /\ stage \in MapStages /\ stage \in DirectStages
    BY DEF CapsuleStages, MapStages, DirectStages
  <1>2. machine \in Machines /\ MapIsUsable
    BY <1>1 DEF LoaderInv, DirectOk
  <1>3. /\ capsule.base \in Nat /\ capsule = Layout(capsule.base)
        /\ held["capsule"] = capsule.base .. capsule.base + CapsulePages - 1
        /\ held["capsule"] \subseteq Conventional
    BY <1>1 DEF LoaderInv, CapsuleOk
  <1>4. PICK p \in Nat : /\ held["pool"] = p .. p + PoolPages - 1
                         /\ held["pool"] \subseteq Conventional
                         /\ held["pool"] \cap held["capsule"] = {}
    BY <1>1 DEF LoaderInv, PoolOk
  <1>5. PICK c \in Nat : c = capsule.base
    BY <1>3
  <1>6. Handed(c, p)
    BY <1>3, <1>4, <1>5 DEF Handed
  <1> QED
    BY <1>1, <1>2, <1>6

\* Both lie below the end of the physical address space, one below the other.
LEMMA HandedFacts ==
    ASSUME machine \in Machines, MapIsUsable, NEW c, NEW p, Handed(c, p)
    PROVE  /\ c \in Nat /\ p \in Nat /\ capsule.base = c /\ Min(held["pool"]) = p
           /\ CapsulePages \in Nat \ {0} /\ PoolPages \in Nat \ {0}
           /\ c + CapsulePages < PhysPages /\ p + PoolPages < PhysPages
           /\ c + CapsulePages <= p \/ p + PoolPages <= c
  <1>1. /\ c \in Nat /\ p \in Nat /\ capsule = Layout(c)
        /\ held["capsule"] = c .. c + CapsulePages - 1 /\ held["pool"] = p .. p + PoolPages - 1
        /\ held["capsule"] \subseteq Conventional /\ held["pool"] \subseteq Conventional
        /\ held["pool"] \cap held["capsule"] = {}
    BY DEF Handed
  <1>2. PICK n \in Nat \ {0} : n = CapsulePages
    BY CapsuleCounted
  <1>3. PICK m \in Nat \ {0} : m = PoolPages
    BY LayoutFacts
  <1>4. capsule.base = c
    BY <1>1 DEF Layout
  <1>5. Min(held["pool"]) = p
    <2>1. p + m - 1 \in Nat /\ p <= p + m - 1
      BY <1>1
    <2> QED BY <1>1, <1>3, <2>1, MinOfInterval
  <1>6. c + n - 1 \in held["capsule"] /\ p + m - 1 \in held["pool"]
    BY <1>1, <1>2, <1>3
  <1>7. c + n - 1 \in Conventional /\ p + m - 1 \in Conventional
    BY <1>1, <1>6
  <1>8. c + n - 1 + 1 < PhysPages /\ p + m - 1 + 1 < PhysPages
    BY <1>7, ConventionalFacts
  <1>9. c + n <= p \/ p + m <= c
    <2> SUFFICES ASSUME ~(c + n <= p), ~(p + m <= c) PROVE FALSE
      OBVIOUS
    <2>1. CASE c <= p
      <3>1. p \in c .. c + n - 1 /\ p \in p .. p + m - 1
        BY <2>1, <1>1
      <3> QED BY <3>1, <1>1, <1>2, <1>3
    <2>2. CASE p <= c
      <3>1. c \in c .. c + n - 1 /\ c \in p .. p + m - 1
        BY <2>2, <1>1
      <3> QED BY <3>1, <1>1, <1>2, <1>3
    <2> QED BY <2>1, <2>2, <1>1
  <1>10. c + n < PhysPages /\ p + m < PhysPages
    BY <1>1, <1>8, LayoutFacts
  <1> QED
    BY <1>1, <1>2, <1>3, <1>4, <1>5, <1>9, <1>10

\* The arithmetic of FindFirstSafeProbePage: of the pages s .. e - 1, one that
\* lies in neither of two ranges, a .. b - 1 and f .. g - 1, the first below the second.
ProbePage(s, e, a, b, f, g) ==
    LET c1 == IF b > s /\ a < e /\ s < b THEN b ELSE s
        c2 == IF g > s /\ f < e /\ c1 < g THEN g ELSE c1
    IN  IF b > s /\ a < e /\ s < a THEN s
        ELSE IF c1 >= e THEN e
        ELSE IF g > s /\ f < e /\ c1 < f THEN c1
        ELSE IF c2 <= e THEN c2 ELSE e

\* A page that is found lies in the descriptor and in neither range.
LEMMA ProbePageFacts ==
    ASSUME NEW s \in Nat, NEW e \in Nat, s < e, NEW a \in Nat, NEW b \in Nat, a < b, NEW f \in Nat, NEW g \in Nat,
           f < g, b <= f, ProbePage(s, e, a, b, f, g) < e
    PROVE  /\ ProbePage(s, e, a, b, f, g) \in s .. e - 1
           /\ ~(a <= ProbePage(s, e, a, b, f, g) /\ ProbePage(s, e, a, b, f, g) < b)
           /\ ~(f <= ProbePage(s, e, a, b, f, g) /\ ProbePage(s, e, a, b, f, g) < g)
  BY DEF ProbePage

\* FindFirstSafeProbePage, with the ranges in order.
LEMMA FindFirstFacts ==
    ASSUME NEW d, NEW s \in Nat, NEW n \in Nat, s = d.start \div Unit, n = d.pages,
           NEW a \in Nat, NEW b \in Nat, NEW f \in Nat, NEW g \in Nat,
           Excluded = <<[first |-> a, end |-> b], [first |-> f, end |-> g]>>
    PROVE  FindFirstSafeProbePage(d) = ProbePage(s, s + n, a, b, f, g)
  <1> DEFINE e == s + n
             Meets(r) == r.end > s /\ r.first < e
             Skip(c, r) == IF Meets(r) /\ c < r.end THEN r.end ELSE c
             r1 == [first |-> a, end |-> b]
             r2 == [first |-> f, end |-> g]
             c1 == Skip(s, r1)
             c2 == Skip(c1, r2)
  <1>1. FindFirstSafeProbePage(d) =
            IF Meets(r1) /\ s < r1.first THEN s
            ELSE IF c1 >= e THEN e
            ELSE IF Meets(r2) /\ c1 < r2.first THEN c1
            ELSE Min({c2, e})
    BY DEF FindFirstSafeProbePage
  <1>2. r1.first = a /\ r1.end = b /\ r2.first = f /\ r2.end = g
    OBVIOUS
  <1>3. c1 \in Nat /\ c2 \in Nat /\ e \in Nat
    BY <1>2
  <1>4. Min({c2, e}) = IF c2 <= e THEN c2 ELSE e
    <2> HIDE DEF c2, e
    <2> QED BY <1>3, MinOfTwo
  <1>5. c1 = IF b > s /\ a < e /\ s < b THEN b ELSE s
    BY <1>2
  <1>6. c2 = IF g > s /\ f < e /\ c1 < g THEN g ELSE c1
    BY <1>2
  <1>7. (Meets(r1) <=> b > s /\ a < e) /\ (Meets(r2) <=> g > s /\ f < e)
    BY <1>2
  <1> HIDE DEF c1, c2, Meets, r1, r2
  <1>8. FindFirstSafeProbePage(d) =
            IF b > s /\ a < e /\ s < a THEN s
            ELSE IF c1 >= e THEN e
            ELSE IF g > s /\ f < e /\ c1 < f THEN c1
            ELSE IF c2 <= e THEN c2 ELSE e
    BY <1>1, <1>2, <1>4, <1>7
  <1> QED
    BY <1>5, <1>6, <1>8 DEF ProbePage

\* The page that is probed is memory, and nobody's.
LEMMA ProbeSpare ==
    ASSUME LoaderInv, stage = "kernel", NEW i \in DOMAIN machine.map,
           machine.map[i].type = "ram", machine.map[i].pages # 0,
           FindFirstSafeProbePage(machine.map[i]) < machine.map[i].start \div Unit + machine.map[i].pages
    PROVE  LET f == FindFirstSafeProbePage(machine.map[i]) IN
           f \in Conventional /\ f \notin held["capsule"] \cup held["pool"]
  <1>1. machine \in Machines /\ MapIsUsable
    BY HandedOver
  <1>2. PICK c, p \in Nat : Handed(c, p)
    BY HandedOver
  <1>3. PICK n \in Nat \ {0} : n = CapsulePages
    BY <1>1, CapsuleCounted
  <1>4. PICK m \in Nat \ {0} : m = PoolPages
    BY LayoutFacts
  <1>5. /\ capsule.base = c /\ Min(held["pool"]) = p
        /\ c + n <= p \/ p + m <= c
    BY <1>1, <1>2, <1>3, <1>4, HandedFacts
  <1>6. held["capsule"] = c .. c + n - 1 /\ held["pool"] = p .. p + m - 1
    BY <1>2, <1>3, <1>4 DEF Handed
  <1>7. PICK s \in Nat : s = machine.map[i].start \div Unit
    BY <1>1, UsableDesc
  <1>8. PICK k \in Nat : k = machine.map[i].pages
    BY <1>1, UsableDesc
  <1>9. k # 0 /\ s + k < PhysPages
    BY <1>1, <1>7, <1>8, UsableDesc
  <1>10. PICK x : x = FindFirstSafeProbePage(machine.map[i])
    OBVIOUS
  <1>11. x < s + k
    BY <1>7, <1>8, <1>10
  <1>12. x \in s .. s + k - 1 /\ ~(c <= x /\ x < c + n) /\ ~(p <= x /\ x < p + m)
    <2>1. CASE p < c
      <3>1. Excluded = <<[first |-> p, end |-> p + m], [first |-> c, end |-> c + n]>>
        BY <2>1, <1>3, <1>4, <1>5 DEF Excluded
      <3>2. p + m \in Nat /\ c + n \in Nat /\ p + m <= c /\ p < p + m /\ c < c + n /\ s < s + k /\ s + k \in Nat
        BY <2>1, <1>5, <1>9
      <3>3. x = ProbePage(s, s + k, p, p + m, c, c + n)
        BY <3>1, <3>2, <1>7, <1>8, <1>10, FindFirstFacts
      <3> QED BY <3>2, <3>3, <1>11, ProbePageFacts
    <2>2. CASE ~(p < c)
      <3>1. Excluded = <<[first |-> c, end |-> c + n], [first |-> p, end |-> p + m]>>
        BY <2>2, <1>3, <1>4, <1>5 DEF Excluded
      <3>2. p + m \in Nat /\ c + n \in Nat /\ c + n <= p /\ p < p + m /\ c < c + n /\ s < s + k /\ s + k \in Nat
        BY <2>2, <1>5, <1>9
      <3>3. x = ProbePage(s, s + k, c, c + n, p, p + m)
        BY <3>1, <3>2, <1>7, <1>8, <1>10, FindFirstFacts
      <3> QED BY <3>2, <3>3, <1>11, ProbePageFacts
    <2> QED BY <2>1, <2>2
  <1>13. x \notin held["capsule"] \cup held["pool"]
    BY <1>6, <1>12
  <1>14. x \in Conventional
    <2>1. x \in 0 .. PhysPages - 1
      BY <1>9, <1>12, LayoutFacts
    <2>2. x \in PagesOfDesc(machine.map[i])
      BY <1>7, <1>8, <1>12 DEF PagesOfDesc
    <2> QED BY <2>1, <2>2 DEF Conventional
  <1> QED
    BY <1>10, <1>13, <1>14

\* Nothing is probed at power-on.
LEMMA ProbeInit == Init => ProbeIsSpare
  BY DEF Init, ProbeIsSpare

\* Only VerifyHhdm chooses a page, and the tables stay as they are after it.
LEMMA ProbeKept ==
    ASSUME LoaderInv, OrderInv, ProbeIsSpare, [Next]_vars
    PROVE  ProbeIsSpare'
  <1>1. CASE VerifyHhdm
    <2> DEFINE safe(i) == FindFirstSafeProbePage(machine.map[i])
               hosts == {i \in DOMAIN machine.map :
                           /\ IsReclaimable(machine.map[i]) /\ machine.map[i].pages # 0
                           /\ FindFirstSafeProbePage(machine.map[i]) < machine.map[i].start \div Unit + machine.map[i].pages}
               others == {i \in hosts : FindFirstSafeProbePage(machine.map[i]) # 0}
    <2>1. /\ init = "probe" /\ UNCHANGED loaderVars
          /\ probe' = IF others # {} THEN safe(Min(others))
                      ELSE IF hosts # {} /\ ~machine.nullDetection THEN 0
                      ELSE -1
      BY <1>1 DEF VerifyHhdm
    <2>2. stage = "kernel"
      BY <2>1 DEF OrderInv
    <2>3. \A i \in hosts : safe(i) \in Conventional /\ safe(i) \notin held["capsule"] \cup held["pool"]
      BY <2>2, ProbeSpare DEF IsReclaimable
    <2>4. hosts \subseteq DOMAIN machine.map /\ DOMAIN machine.map \subseteq Nat
      <3>1. machine.map \in Seq(Desc)
        BY <2>2, HandedOver, MachineFacts
      <3> QED BY <3>1
    <2>5. others \subseteq hosts /\ \A i \in hosts : i \in others \/ safe(i) = 0
      OBVIOUS
    <2> HIDE DEF hosts, others, safe
    <2>6. others # {} => Min(others) \in hosts
      <3>1. others \in SUBSET Nat
        BY <2>4, <2>5
      <3> QED BY <3>1, <2>5, MinFacts
    <2>7. probe' = -1 \/ \E i \in hosts : probe' = safe(i)
      <3>1. CASE others # {}
        BY <3>1, <2>1, <2>6
      <3>2. CASE others = {} /\ hosts # {} /\ ~machine.nullDetection
        BY <3>2, <2>1, <2>5
      <3>3. CASE others = {} /\ ~(hosts # {} /\ ~machine.nullDetection)
        BY <3>3, <2>1
      <3> QED BY <3>1, <3>2, <3>3
    <2>8. CASE probe' = -1
      BY <2>8 DEF ProbeIsSpare
    <2>9. CASE \E i \in hosts : probe' = safe(i)
      <3>1. PICK i \in hosts : probe' = safe(i)
        BY <2>9
      <3>2. PICK f \in Conventional : f = safe(i) /\ f \notin held["capsule"] \cup held["pool"]
        BY <2>3
      <3>3. /\ VirtualBase["hhdm"] + f \in DOMAIN tables
            /\ tables[VirtualBase["hhdm"] + f].at = f
            /\ tables[VirtualBase["hhdm"] + f].flags = {"W"} \cup Nx
        BY <2>2, HandedOver, MemoryIsMapped
      <3> QED BY <3>1, <3>2, <3>3, <2>1 DEF ProbeIsSpare, loaderVars
    <2> QED BY <2>7, <2>8, <2>9
  <1>2. CASE ~VerifyHhdm
    <2>1. UNCHANGED probe
      BY <1>2 DEF Next, vars, Load, ValidateBootMappingManifest, AssertRsdp, CallPmm, RunPmm, PmmFails,
                KeImportKernelAddressSpace, NoPageForRegions, KePtSelfTest, KePtSelfTestFails, CallTimeSource,
                TimeSourceFaults, CallClockEvent, RunTime, TimeEnds
    <2>2. CASE probe = -1
      BY <2>1, <2>2 DEF ProbeIsSpare
    <2>3. CASE probe # -1
      <3>1. UNCHANGED loaderVars
        BY <2>3, LoaderIsGone DEF OrderInv
      <3> QED BY <2>1, <3>1 DEF ProbeIsSpare, loaderVars
    <2> QED BY <2>2, <2>3
  <1> QED
    BY <1>1, <1>2

-----------------------------------------------------------------------------
(* The regions that the kernel imports.                                    *)

\* They are the entries of the manifest, in another order.
RegionsOk ==
    regions # <<>> =>
        /\ regions \in Seq(Entry)
        /\ \A k \in DOMAIN regions : \E i \in DOMAIN manifest : regions[k] = manifest[i]
        /\ \A i \in DOMAIN manifest : \E k \in DOMAIN regions : regions[k] = manifest[i]

\* The order of the regions, by address and size and then by place.
RegionOrder == {x \in (DOMAIN manifest) \X (DOMAIN manifest) : RegionsBefore(x[1], x[2])}

\* The order relates two places as the comparison does.
LEMMA RegionOrderFacts ==
    ASSUME NEW i \in DOMAIN manifest, NEW j \in DOMAIN manifest
    PROVE  <<i, j>> \in RegionOrder <=> RegionsBefore(i, j)
  <1> DEFINE x == <<i, j>>
  <1>1. x[1] = i /\ x[2] = j /\ x \in (DOMAIN manifest) \X (DOMAIN manifest)
    OBVIOUS
  <1> HIDE DEF x
  <1>2. x \in RegionOrder <=> RegionsBefore(x[1], x[2])
    BY <1>1, Zenon DEF RegionOrder
  <1>3. x \in RegionOrder <=> RegionsBefore(i, j)
    BY <1>1, <1>2
  <1> QED
    BY <1>3 DEF x

\* Address, size and place together order the regions totally.
LEMMA RegionsOrdered ==
    ASSUME manifest \in Seq(Entry)
    PROVE  TotalOrder(RegionOrder, DOMAIN manifest)
  <1> DEFINE D == DOMAIN manifest
             R == RegionOrder
  <1>1. D \subseteq Nat
    OBVIOUS
  <1>2. \A i \in D : manifest[i].va \in Nat /\ manifest[i].pages \in Nat
    <2> SUFFICES ASSUME NEW i \in D PROVE manifest[i].va \in Nat /\ manifest[i].pages \in Nat
      OBVIOUS
    <2>1. manifest[i] \in Entry
      BY Member, Zenon
    <2> QED BY <2>1 DEF Entry
  <1>3. \A i, j \in D : <<i, j>> \in R <=> RegionsBefore(i, j)
    BY RegionOrderFacts
  <1>4. \A i, j \in D : RegionsBefore(i, j) <=>
           \/ manifest[i].va < manifest[j].va
           \/ manifest[i].va = manifest[j].va /\ manifest[i].pages < manifest[j].pages
           \/ manifest[i].va = manifest[j].va /\ manifest[i].pages = manifest[j].pages /\ i <= j
    <2> HIDE DEF R
    <2> SUFFICES ASSUME NEW i \in D, NEW j \in D
                 PROVE  RegionsBefore(i, j) <=>
                           \/ manifest[i].va < manifest[j].va
                           \/ manifest[i].va = manifest[j].va /\ manifest[i].pages < manifest[j].pages
                           \/ manifest[i].va = manifest[j].va /\ manifest[i].pages = manifest[j].pages /\ i <= j
      OBVIOUS
    <2> QED BY <1>1, <1>2 DEF RegionsBefore, Before
  <1> DEFINE va == [i \in D |-> manifest[i].va]
             size == [i \in D |-> manifest[i].pages]
  <1>5. \A i \in D : va[i] \in Nat /\ size[i] \in Nat /\ i \in Nat
    BY <1>1, <1>2
  <1>6. \A i, j \in D : <<i, j>> \in R <=>
           \/ va[i] < va[j]
           \/ va[i] = va[j] /\ size[i] < size[j]
           \/ va[i] = va[j] /\ size[i] = size[j] /\ i <= j
    <2> HIDE DEF R
    <2> QED BY <1>3, <1>4
  <1> HIDE DEF R, va, size, D
  <1>7. \A i \in D : <<i, i>> \in R
    BY <1>5, <1>6
  <1>8. \A i, j \in D : <<i, j>> \in R \/ <<j, i>> \in R
    <2> SUFFICES ASSUME NEW i \in D, NEW j \in D PROVE <<i, j>> \in R \/ <<j, i>> \in R
      OBVIOUS
    <2> QED BY <1>5, <1>6
  <1>9. \A i, j \in D : <<i, j>> \in R /\ <<j, i>> \in R => i = j
    <2> SUFFICES ASSUME NEW i \in D, NEW j \in D, <<i, j>> \in R, <<j, i>> \in R PROVE i = j
      OBVIOUS
    <2> QED BY <1>5, <1>6
  <1>10. \A i, j, k \in D : <<i, j>> \in R /\ <<j, k>> \in R => <<i, k>> \in R
    <2> SUFFICES ASSUME NEW i \in D, NEW j \in D, NEW k \in D, <<i, j>> \in R, <<j, k>> \in R
                 PROVE  <<i, k>> \in R
      OBVIOUS
    <2>1. /\ va[i] < va[j] \/ (va[i] = va[j] /\ size[i] < size[j]) \/ (va[i] = va[j] /\ size[i] = size[j] /\ i <= j)
          /\ va[j] < va[k] \/ (va[j] = va[k] /\ size[j] < size[k]) \/ (va[j] = va[k] /\ size[j] = size[k] /\ j <= k)
      BY <1>6
    <2>2. va[i] < va[k] \/ (va[i] = va[k] /\ size[i] < size[k]) \/ (va[i] = va[k] /\ size[i] = size[k] /\ i <= k)
      BY <2>1, <1>5
    <2> QED BY <2>2, <1>6
  <1>11. TotalOrder(R, D)
    BY <1>7, <1>8, <1>9, <1>10, Zenon DEF TotalOrder
  <1> QED
    BY <1>11 DEF R, D

\* Nothing is imported at power-on.
LEMMA RegionsInit == Init => RegionsOk
  BY DEF Init, RegionsOk

\* The import is a rearrangement.
LEMMA Imported ==
    ASSUME LoaderInv, KeImportKernelAddressSpace
    PROVE  RegionsOk'
  <1> DEFINE D == DOMAIN manifest
             R == RegionOrder
             place(k) == CHOOSE i \in D : RegionPlace(i) = k
             n == Len(manifest)
  <1>1. regions' = [k \in D |-> manifest[place(k)]] /\ UNCHANGED loaderVars
    BY DEF KeImportKernelAddressSpace
  <1>2. manifest \in Seq(Entry)
    BY DEF LoaderInv, CountOk
  <1>3. IsFiniteSet(D) /\ Cardinality(D) = n /\ D = 1 .. n /\ n \in Nat
    BY <1>2, PositionsFinite
  <1>4. TotalOrder(R, D)
    BY <1>2, RegionsOrdered
  <1>5. \A i \in D : PlaceIn(R, D, i) = RegionPlace(i)
    <2> SUFFICES ASSUME NEW i \in D PROVE PlaceIn(R, D, i) = RegionPlace(i)
      OBVIOUS
    <2>1. {j \in D : <<j, i>> \in R} = {j \in DOMAIN manifest : RegionsBefore(j, i)}
      BY RegionOrderFacts
    <2> HIDE DEF R
    <2> QED BY <2>1 DEF PlaceIn, RegionPlace
  <1>6. \A i \in D : manifest[i] \in Entry
    BY <1>2, Member, Zenon
  <1> HIDE DEF R, D
  <1>7. /\ \A i \in D : PlaceIn(R, D, i) \in 1 .. n
        /\ \A i, j \in D : PlaceIn(R, D, i) = PlaceIn(R, D, j) => i = j
        /\ \A k \in 1 .. n : \E i \in D : PlaceIn(R, D, i) = k
    BY <1>3, <1>4, Places
  <1>8. /\ \A i \in D : RegionPlace(i) \in D
        /\ \A i, j \in D : RegionPlace(i) = RegionPlace(j) => i = j
        /\ \A k \in D : \E i \in D : RegionPlace(i) = k
    BY <1>3, <1>5, <1>7
  <1>9. \A k \in D : place(k) \in D /\ RegionPlace(place(k)) = k
    BY <1>8
  <1> HIDE DEF place
  <1>10. \A i \in D : place(RegionPlace(i)) = i
    BY <1>8, <1>9
  <1>11. DOMAIN regions' = D /\ \A k \in D : regions'[k] = manifest[place(k)]
    BY <1>1
  <1>12. regions' \in [1 .. n -> Entry]
    <2>1. \A k \in D : manifest[place(k)] \in Entry
      BY <1>6, <1>9
    <2> QED BY <2>1, <1>1, <1>3
  <1>13. regions' \in Seq(Entry)
    BY <1>12, <1>3
  <1>14. \A k \in DOMAIN regions' : \E i \in D : regions'[k] = manifest[i]
    BY <1>9, <1>11
  <1>15. \A i \in D : \E k \in DOMAIN regions' : regions'[k] = manifest[i]
    BY <1>8, <1>10, <1>11
  <1> QED
    BY <1>1, <1>13, <1>14, <1>15 DEF RegionsOk, D, loaderVars

\* The manifest does not change after the import.
LEMMA RegionsKept ==
    ASSUME LoaderInv, OrderInv, RegionsOk, [Next]_vars
    PROVE  RegionsOk'
  <1>1. CASE KeImportKernelAddressSpace
    BY <1>1, Imported
  <1>2. CASE ~KeImportKernelAddressSpace
    <2>1. UNCHANGED regions
      BY <1>2 DEF Next, vars, Load, ValidateBootMappingManifest, VerifyHhdm, AssertRsdp, CallPmm, RunPmm, PmmFails,
                NoPageForRegions, KePtSelfTest, KePtSelfTestFails, CallTimeSource,
                TimeSourceFaults, CallClockEvent, RunTime, TimeEnds
    <2>2. CASE regions = <<>>
      BY <2>1, <2>2 DEF RegionsOk
    <2>3. CASE regions # <<>>
      <3>1. UNCHANGED loaderVars
        BY <2>3, LoaderIsGone DEF OrderInv
      <3> QED BY <2>1, <3>1 DEF RegionsOk, loaderVars
    <2> QED BY <2>2, <2>3
  <1> QED
    BY <1>1, <1>2

\* A lookup finds a true description of every page that is mapped.
LEMMA LookupIsTrue ==
    ASSUME LoaderInv, RegionsOk, stage \in MapStages, regions # <<>>, NEW v \in DOMAIN tables
    PROVE  KeFindImportedRegion(v) # <<>> /\ Describes(KeFindImportedRegion(v), v)
  <1> DEFINE hits == {i \in DOMAIN regions : regions[i].va <= v /\ v < regions[i].va + regions[i].pages}
             sizes == {regions[i].pages : i \in hits}
             least == Min(sizes)
             best == {i \in hits : regions[i].pages = least}
  <1>1. EntriesMatch(tables, manifest) /\ manifest \in Seq(Entry)
    BY DEF LoaderInv, TablesOk, CountOk
  <1>2. /\ regions \in Seq(Entry)
        /\ \A k \in DOMAIN regions : \E i \in DOMAIN manifest : regions[k] = manifest[i]
        /\ \A i \in DOMAIN manifest : \E k \in DOMAIN regions : regions[k] = manifest[i]
    BY DEF RegionsOk
  <1>3. \A k \in DOMAIN regions : regions[k] \in Entry /\ k \in Nat
    BY <1>2
  <1>4. \A k \in DOMAIN regions : regions[k].va \in Nat /\ regions[k].pages \in Nat
    BY <1>3 DEF Entry
  <1>5. PICK i \in DOMAIN manifest : v \in VirtualPages(manifest[i])
    BY <1>1 DEF EntriesMatch
  <1>6. PICK k \in DOMAIN regions : regions[k] = manifest[i]
    BY <1>2
  <1>7. v \in Nat /\ k \in hits
    <2>1. regions[k] \in Entry /\ v \in VirtualPages(regions[k])
      BY <1>3, <1>5, <1>6
    <2>2. v \in Nat /\ v >= regions[k].va /\ v < regions[k].va + regions[k].pages
      BY <2>1, PagesAreNumbers
    <2> QED BY <2>2, <1>4
  <1>8. sizes \in SUBSET Nat /\ sizes # {}
    BY <1>4, <1>7
  <1>9. least \in sizes
    <2> HIDE DEF sizes
    <2> QED BY <1>8, MinFacts
  <1> HIDE DEF least
  <1>10. best \in SUBSET Nat /\ best # {}
    BY <1>3, <1>9
  <1>11. PICK j \in best : j = Min(best)
    <2> HIDE DEF best
    <2> QED BY <1>10, MinFacts
  <1>12. KeFindImportedRegion(v) = regions[j]
    <2>1. hits # {}
      BY <1>7
    <2>2. KeFindImportedRegion(v) = regions[Min(best)]
      BY <2>1 DEF KeFindImportedRegion, least
    <2> HIDE DEF best
    <2> QED BY <2>2, <1>11
  <1>13. j \in DOMAIN regions /\ regions[j].va <= v /\ v < regions[j].va + regions[j].pages
    OBVIOUS
  <1>14. PICK e \in Entry : e = regions[j]
    BY <1>3, <1>13
  <1>15. e # <<>>
    <2>1. e.type \in RegionNames /\ DOMAIN e = {"type", "at", "va", "pages", "flags"}
      BY DEF Entry
    <2>2. DOMAIN e # {}
      BY <2>1
    <2> QED BY <2>2
  <1>16. v \in VirtualPages(e)
    BY <1>4, <1>7, <1>13, <1>14 DEF VirtualPages
  <1>17. PICK l \in DOMAIN manifest : e = manifest[l]
    BY <1>2, <1>13, <1>14
  <1>18. DescribesIn(tables, e, v)
    BY <1>1, <1>16, <1>17 DEF EntriesMatch
  <1>19. Describes(e, v)
    BY <1>18 DEF DescribesIn, Describes
  <1> QED
    BY <1>12, <1>14, <1>15, <1>19

\* The property about the manifest, from the invariants.
LEMMA ManifestFromInvariants ==
    ASSUME LoaderInv, RegionsOk
    PROVE  ManifestMatchesTables
  <1>1. why # "manifest_full" /\ Len(manifest) <= capacity
    BY DEF LoaderInv, CountOk
  <1> SUFFICES ASSUME stage \in MapStages
               PROVE  /\ \A i \in DOMAIN manifest :
                            \A v \in manifest[i].va .. manifest[i].va + manifest[i].pages - 1 :
                               v \in DOMAIN tables /\ Describes(manifest[i], v)
                      /\ \A v \in DOMAIN tables : \E i \in DOMAIN manifest :
                            v \in manifest[i].va .. manifest[i].va + manifest[i].pages - 1
                      /\ regions # <<>> => \A v \in DOMAIN tables :
                            KeFindImportedRegion(v) # <<>> /\ Describes(KeFindImportedRegion(v), v)
                      /\ machine.nullDetection => 0 \notin DOMAIN tables
    BY <1>1 DEF ManifestMatchesTables, MapStages
  <1>2. EntriesMatch(tables, manifest) /\ (machine.nullDetection => 0 \notin DOMAIN tables)
    BY DEF LoaderInv, TablesOk
  <1>3. \A i \in DOMAIN manifest : \A v \in manifest[i].va .. manifest[i].va + manifest[i].pages - 1 :
           v \in DOMAIN tables /\ Describes(manifest[i], v)
    BY <1>2 DEF EntriesMatch, DescribesIn, Describes, VirtualPages
  <1>4. \A v \in DOMAIN tables : \E i \in DOMAIN manifest :
           v \in manifest[i].va .. manifest[i].va + manifest[i].pages - 1
    BY <1>2 DEF EntriesMatch, VirtualPages
  <1>5. regions # <<>> => \A v \in DOMAIN tables :
           KeFindImportedRegion(v) # <<>> /\ Describes(KeFindImportedRegion(v), v)
    BY LookupIsTrue
  <1> QED
    BY <1>2, <1>3, <1>4, <1>5

-----------------------------------------------------------------------------
(* The page bitmap: bytes and pages.                                       *)

\* A number below the modulus.
LEMMA ModSmall ==
    ASSUME NEW m \in Nat \ {0}, NEW a \in Nat, a < m
    PROVE  a % m = a
  <1> DEFINE q == a \div m
             r == a % m
  <1>1. q \in Nat /\ r \in Nat /\ a = m * q + r /\ r < m
    OBVIOUS
  <1> HIDE DEF q, r
  <1>2. q = 0
    <2> SUFFICES ASSUME q # 0 PROVE FALSE
      OBVIOUS
    <2>1. 1 <= q
      BY <1>1
    <2>2. m * 1 <= m * q
      BY <1>1, <2>1, Multiples
    <2>3. m * q \in Int
      BY <1>1, Multiples
    <2> QED BY <1>1, <2>2, <2>3
  <1>3. m * q = 0
    BY <1>2
  <1>4. r = a
    BY <1>1, <1>3
  <1> QED
    BY <1>4 DEF r

\* A range of n pages from page a on, in bytes.
InPages(r, a, n) ==
    /\ a \in Nat /\ n \in Nat /\ a + n < PhysPages
    /\ r.start = PageSize * a /\ r.pages = n

\* Its end, which does not wrap.
LEMMA PagesOfRange ==
    ASSUME NEW r, NEW a, NEW n, InPages(r, a, n)
    PROVE  End(r) = PageSize * (a + n) /\ PageSize * a + n * PageSize = PageSize * (a + n)
  <1>1. a \in Nat /\ n \in Nat /\ a + n \in Nat /\ a + n < PhysPages /\ r.start = PageSize * a /\ r.pages = n
    BY DEF InPages
  <1>2. PageSize \in Nat \ {0} /\ PhysPages \in Nat /\ AddressSpan = PageSize * PhysPages /\ AddressSpan \in Nat \ {0}
    BY LayoutFacts
  <1>3. PageSize * (a + n) = PageSize * a + PageSize * n /\ PageSize * n = n * PageSize
    BY <1>1, <1>2, Multiples
  <1>4. PageSize * (a + n) < PageSize * PhysPages
    BY <1>1, <1>2, Multiples
  <1>5. PageSize * (a + n) \in Nat
    BY <1>1, <1>2, PageOfMultiple
  <1>6. PageSize * (a + n) % AddressSpan = PageSize * (a + n)
    BY <1>2, <1>4, <1>5, ModSmall
  <1>7. End(r) = (PageSize * a + n * PageSize) % AddressSpan
    BY <1>1 DEF End
  <1>8. PageSize * a + n * PageSize = PageSize * (a + n)
    BY <1>3
  <1> QED
    BY <1>6, <1>7, <1>8

\* The bytes of page q, and the bytes of n pages from page a on.
LEMMA BytesOfPage ==
    ASSUME NEW U \in Nat \ {0}, NEW q \in Nat, NEW a \in Nat, NEW n \in Nat
    PROVE  LET page == U * q .. U * (q + 1) - 1
               range == U * a .. U * a + n * U - 1
           IN  /\ page \subseteq range <=> a <= q /\ q < a + n
               /\ (\A b \in page : b \notin range) <=> ~(a <= q /\ q < a + n)
               /\ (\A b \in page : b >= n * U) <=> q >= n
  <1>1. PICK A \in Int : A = U * a
    BY Multiples
  <1>2. PICK Q \in Int : Q = U * q
    BY Multiples
  <1>3. PICK N \in Int : N = U * n /\ n * U = N
    BY Multiples
  <1>4. U * (q + 1) = Q + U
    <2>1. U * (q + 1) = U * q + U * 1
      BY Multiples
    <2> QED BY <2>1, <1>2
  <1>5. U * (a + n) = A + N
    BY <1>1, <1>3, Multiples
  <1>6. A <= Q <=> a <= q
    BY <1>1, <1>2, Multiples
  <1>7. Q < A + N <=> q < a + n
    <2>1. U * q < U * (a + n) <=> q < a + n
      <3>1. a + n \in Int /\ q \in Int
        OBVIOUS
      <3> QED BY <3>1, Multiples
    <2> QED BY <2>1, <1>2, <1>5
  <1>8. Q + U <= A + N <=> q + 1 <= a + n
    <2>1. U * (q + 1) <= U * (a + n) <=> q + 1 <= a + n
      <3>1. a + n \in Int /\ q + 1 \in Int
        OBVIOUS
      <3> QED BY <3>1, Multiples
    <2> QED BY <2>1, <1>4, <1>5
  <1>9. N <= Q <=> n <= q
    BY <1>2, <1>3, Multiples
  <1>10. Q + U <= A <=> q + 1 <= a
    <2>1. U * (q + 1) <= U * a <=> q + 1 <= a
      <3>1. a \in Int /\ q + 1 \in Int
        OBVIOUS
      <3> QED BY <3>1, Multiples
    <2> QED BY <2>1, <1>1, <1>4
  <1> DEFINE page == Q .. Q + U - 1
             range == A .. A + N - 1
  <1>11. Q \in page
    OBVIOUS
  <1>12. Q + U - 1 \in page
    OBVIOUS
  <1>13. page \subseteq range <=> a <= q /\ q < a + n
    <2>1. ASSUME page \subseteq range PROVE a <= q /\ q < a + n
      <3>1. Q \in range
        BY <2>1, <1>11
      <3> QED BY <3>1, <1>6, <1>7
    <2>2. ASSUME a <= q, q < a + n PROVE page \subseteq range
      <3>1. A <= Q /\ Q + U <= A + N
        BY <2>2, <1>6, <1>8
      <3> QED BY <3>1
    <2> QED BY <2>1, <2>2
  <1>14. (\A b \in page : b \notin range) <=> ~(a <= q /\ q < a + n)
    <2>1. ASSUME \A b \in page : b \notin range PROVE ~(a <= q /\ q < a + n)
      <3>1. Q \notin range
        BY <2>1, <1>11
      <3> QED BY <3>1, <1>6, <1>7
    <2>2. ASSUME ~(a <= q /\ q < a + n), NEW b \in page PROVE b \notin range
      <3>1. CASE ~(a <= q)
        <4>1. Q + U <= A
          BY <3>1, <1>10
        <4> QED BY <4>1
      <3>2. CASE ~(q < a + n)
        <4>1. A + N <= Q
          BY <3>2, <1>7
        <4> QED BY <4>1
      <3> QED BY <2>2, <3>1, <3>2
    <2> QED BY <2>1, <2>2
  <1>15. (\A b \in page : b >= N) <=> q >= n
    <2>1. ASSUME \A b \in page : b >= N PROVE q >= n
      <3>1. Q >= N
        BY <2>1, <1>11
      <3> QED BY <3>1, <1>9
    <2>2. ASSUME q >= n, NEW b \in page PROVE b >= N
      <3>1. N <= Q
        BY <2>2, <1>9
      <3> QED BY <3>1
    <2> QED BY <2>1, <2>2
  <1> HIDE DEF page, range
  <1>16. page = U * q .. U * (q + 1) - 1 /\ range = U * a .. U * a + n * U - 1
    BY <1>1, <1>2, <1>3, <1>4 DEF page, range
  <1> QED
    BY <1>3, <1>13, <1>14, <1>15, <1>16

-----------------------------------------------------------------------------
(* The page bitmap: its invariant.                                         *)

\* Phases behind the checks of the map, and behind the choice of a place.
Spanned == {"place", "mark", "reserve", "ready"}
Placed == {"mark", "reserve", "ready"}

\* Pages of the reclaimable descriptors.
Freed == UNION {PagesOf(descs[i].start, End(descs[i])) : i \in Reclaimable}

\* The descriptors are the firmware's, in another order, and the boot ranges
\* the capsule's.
SourcesOk ==
    phase # "off" =>
        /\ boot = BootRanges
        /\ descs \in Seq(Desc)
        /\ \A k \in DOMAIN descs : \E i \in DOMAIN machine.map : descs[k] = machine.map[i]

SpanOk ==
    phase \in Spanned =>
        Reclaimable # {} /\ low = ManagedLowest /\ high = ManagedHighest /\ ManagedLowest < ManagedHighest

PlaceOk == phase \in Placed => \E i \in Reclaimable : meta \in Candidates(i)

\* The bitmap after each of its two passes.
BitmapOk ==
    /\ phase = "reserve" =>
          DOMAIN bitmap = Managed /\ \A p \in Managed : bitmap[p] = IF p \in Freed THEN "free" ELSE "reserved"
    /\ phase = "ready" =>
          DOMAIN bitmap = Managed /\ \A p \in Managed : bitmap[p] # "reserved" <=> p \in Freed /\ p \notin BootOwned

PmmInv == SourcesOk /\ SpanOk /\ PlaceOk /\ BitmapOk

\* A descriptor of memory, in pages.
LEMMA DescInPages ==
    ASSUME LoaderInv, OrderInv, SourcesOk, phase # "off", NEW k \in DOMAIN descs, descs[k].pages # 0
    PROVE  \E s, n \in Nat : /\ InPages(descs[k], s, n) /\ n # 0
                             /\ IsReclaimable(descs[k]) => s .. s + n - 1 \subseteq Conventional
  <1>1. stage = "kernel"
    BY DEF OrderInv
  <1>2. machine \in Machines /\ MapIsUsable
    BY <1>1, HandedOver
  <1>3. PICK i \in DOMAIN machine.map : descs[k] = machine.map[i]
    BY DEF SourcesOk
  <1>4. PICK s \in Nat : s = machine.map[i].start \div Unit
    BY <1>2, UsableDesc
  <1>5. PICK n \in Nat : n = machine.map[i].pages
    BY <1>2, UsableDesc
  <1>6. n # 0
    BY <1>3, <1>5
  <1>7. machine.map[i].start = Unit * s /\ s + n < PhysPages
    BY <1>2, <1>4, <1>5, <1>6, UsableDesc
  <1>8. InPages(descs[k], s, n)
    BY <1>3, <1>5, <1>7, LayoutFacts DEF InPages
  <1>9. IsReclaimable(descs[k]) => s .. s + n - 1 \subseteq Conventional
    <2> SUFFICES ASSUME machine.map[i].type = "ram", NEW f \in s .. s + n - 1 PROVE f \in Conventional
      BY <1>3 DEF IsReclaimable
    <2>1. f \in 0 .. PhysPages - 1
      BY <1>7, LayoutFacts
    <2>2. f \in PagesOfDesc(machine.map[i])
      BY <1>4, <1>5 DEF PagesOfDesc
    <2> QED BY <2>1, <2>2 DEF Conventional
  <1> QED
    BY <1>6, <1>8, <1>9

\* A range of the capsule, in pages.
LEMMA BytewiseInPages ==
    ASSUME NEW a \in Nat, NEW n \in Nat, a + n < PhysPages
    PROVE  InPages(Bytewise(a, n), a, n)
  <1>1. Unit \in Nat \ {0} /\ Unit = PageSize
    BY LayoutFacts
  <1>2. a * Unit = PageSize * a
    BY <1>1
  <1> QED
    BY <1>2 DEF Bytewise, InPages

\* The boot ranges, in pages, and what they cover.
LEMMA BootInPages ==
    ASSUME LoaderInv, OrderInv, SourcesOk, phase # "off"
    PROVE  /\ \A r \in boot : \E a, n \in Nat : InPages(r, a, n)
           /\ \A f \in held["pool"] \cup held["capsule"] :
                 \E r \in boot : \E a, n \in Nat : InPages(r, a, n) /\ a <= f /\ f < a + n
  <1>1. stage = "kernel"
    BY DEF OrderInv
  <1>2. machine \in Machines /\ MapIsUsable
    BY <1>1, HandedOver
  <1>3. PICK c, p \in Nat : Handed(c, p)
    BY <1>1, HandedOver
  <1>4. PICK m \in Nat \ {0} : m = PoolPages
    BY LayoutFacts
  <1>5. PICK k \in Nat : k = KernelPages
    BY <1>2, CapsuleCounted
  <1>6. PICK t \in Nat : t = StackPages
    BY LayoutFacts
  <1>7. PICK h \in Nat : h = HandoffPages
    BY LayoutFacts
  <1>8. PICK n \in Nat : n = CapsulePages /\ n = h + k + 3 * t
    BY <1>2, <1>5, <1>6, <1>7, CapsuleCounted
  <1>9. c + n < PhysPages /\ p + m < PhysPages /\ Min(held["pool"]) = p
    BY <1>2, <1>3, <1>4, <1>8, HandedFacts
  <1>10. PICK u \in Nat : u = machine.framebuffer /\ u + 1 < PhysPages
    BY <1>2, MachineFacts
  <1>11. PICK w \in {0, 1} : w = IF machine.framebuffer = 0 THEN 0 ELSE 1
    OBVIOUS
  <1>12. held["capsule"] = c .. c + n - 1 /\ held["pool"] = p .. p + m - 1 /\ capsule = Layout(c)
    BY <1>3, <1>4, <1>8 DEF Handed
  <1>13. /\ capsule.base = c /\ capsule.kernel = c + h /\ capsule.stack = c + h + k /\ capsule.ist1 = c + h + k + t
         /\ capsule.ist2 = c + h + k + 2 * t
    BY <1>5, <1>6, <1>7, <1>12 DEF Layout
  <1>14. boot = {Bytewise(c + h, k), Bytewise(c + h + k, t), Bytewise(c + h + k + t, t),
                 Bytewise(c + h + k + 2 * t, t), Bytewise(c, h), Bytewise(p, m), Bytewise(u, w)}
    <2>1. boot = BootRanges
      BY DEF SourcesOk
    <2> QED BY <2>1, <1>4, <1>5, <1>6, <1>7, <1>9, <1>10, <1>11, <1>13 DEF BootRanges
  <1>15. /\ InPages(Bytewise(c + h, k), c + h, k) /\ InPages(Bytewise(c + h + k, t), c + h + k, t)
         /\ InPages(Bytewise(c + h + k + t, t), c + h + k + t, t)
         /\ InPages(Bytewise(c + h + k + 2 * t, t), c + h + k + 2 * t, t)
         /\ InPages(Bytewise(c, h), c, h) /\ InPages(Bytewise(p, m), p, m) /\ InPages(Bytewise(u, w), u, w)
    <2>1. /\ c + h \in Nat /\ c + h + k \in Nat /\ c + h + k + t \in Nat /\ c + h + k + 2 * t \in Nat
          /\ c + h + k < PhysPages /\ c + h + k + t < PhysPages /\ c + h + k + t + t < PhysPages
          /\ c + h + k + 2 * t + t < PhysPages /\ c + h < PhysPages /\ u + w < PhysPages /\ w \in Nat
      BY <1>8, <1>9, <1>10, LayoutFacts
    <2> QED BY <2>1, <1>9, BytewiseInPages
  <1>16. \A r \in boot : \E a, l \in Nat : InPages(r, a, l)
    <2>1. \A r, a, l : InPages(r, a, l) => a \in Nat /\ l \in Nat
      BY DEF InPages
    <2> QED BY <2>1, <1>14, <1>15
  <1>17. ASSUME NEW f \in held["pool"] \cup held["capsule"]
         PROVE  \E r \in boot : \E a, l \in Nat : InPages(r, a, l) /\ a <= f /\ f < a + l
    <2>1. \/ p <= f /\ f < p + m
          \/ c <= f /\ f < c + h
          \/ c + h <= f /\ f < c + h + k
          \/ c + h + k <= f /\ f < c + h + k + t
          \/ c + h + k + t <= f /\ f < c + h + k + t + t
          \/ c + h + k + 2 * t <= f /\ f < c + h + k + 2 * t + t
      <3>1. CASE f \in p .. p + m - 1
        BY <3>1
      <3>2. CASE f \in c .. c + (h + k + 3 * t) - 1
        BY <3>2
      <3> QED BY <3>1, <3>2, <1>8, <1>12
    <2>2. /\ c + h \in Nat /\ c + h + k \in Nat /\ c + h + k + t \in Nat /\ c + h + k + 2 * t \in Nat
      OBVIOUS
    <2>3. /\ Bytewise(c + h, k) \in boot /\ Bytewise(c + h + k, t) \in boot /\ Bytewise(c + h + k + t, t) \in boot
          /\ Bytewise(c + h + k + 2 * t, t) \in boot /\ Bytewise(c, h) \in boot /\ Bytewise(p, m) \in boot
      BY <1>14
    <2>4. CASE p <= f /\ f < p + m
      BY <2>3, <2>4, <1>15
    <2>5. CASE c <= f /\ f < c + h
      BY <2>3, <2>5, <1>15
    <2>6. CASE c + h <= f /\ f < c + h + k
      BY <2>2, <2>3, <2>6, <1>15
    <2>7. CASE c + h + k <= f /\ f < c + h + k + t
      BY <2>2, <2>3, <2>7, <1>15
    <2>8. CASE c + h + k + t <= f /\ f < c + h + k + t + t
      BY <2>2, <2>3, <2>8, <1>15
    <2>9. CASE c + h + k + 2 * t <= f /\ f < c + h + k + 2 * t + t
      BY <2>2, <2>3, <2>9, <1>15
    <2> QED BY <2>1, <2>4, <2>5, <2>6, <2>7, <2>8, <2>9
  <1> QED
    BY <1>16, <1>17

\* The managed range, in pages.
Span(l, h) ==
    /\ l \in Nat /\ h \in Nat /\ l < h /\ low = PageSize * l /\ high = PageSize * h
    /\ TotalManagedPages = h - l /\ Managed = 0 .. h - l - 1

\* The managed range begins and ends at a page.
LEMMA SpanInPages ==
    ASSUME LoaderInv, OrderInv, SourcesOk, SpanOk, phase \in Spanned
    PROVE  \E l, h \in Nat : Span(l, h)
  <1>1. phase # "off"
    BY DEF Spanned
  <1>2. Reclaimable # {} /\ low = ManagedLowest /\ high = ManagedHighest /\ low < high
    BY DEF SpanOk
  <1>3. \A i \in Reclaimable : \E s, n \in Nat : InPages(descs[i], s, n)
    <2> SUFFICES ASSUME NEW i \in Reclaimable PROVE \E s, n \in Nat : InPages(descs[i], s, n)
      OBVIOUS
    <2>1. i \in DOMAIN descs /\ descs[i].pages # 0
      <3>1. i \in DOMAIN descs /\ descs[i].pages > 0
        BY DEF Reclaimable
      <3>2. descs[i] \in Desc
        BY <3>1, <1>1, Member, Zenon DEF SourcesOk
      <3>3. descs[i].pages \in Nat
        BY <3>2 DEF Desc
      <3> QED BY <3>1, <3>3
    <2> QED BY <2>1, <1>1, DescInPages
  <1>4. PageSize \in Nat \ {0} /\ PhysPages \in Nat /\ AddressSpan = PageSize * PhysPages /\ AddressSpan \in Nat
    BY LayoutFacts
  <1> DEFINE starts == {descs[i].start : i \in Reclaimable}
             ends == {End(descs[i]) : i \in Reclaimable}
  <1>5. \A x \in starts : \E s \in Nat : x = PageSize * s
    BY <1>3 DEF InPages
  <1>6. \A x \in ends : \E e \in Nat : x = PageSize * e /\ e < PhysPages
    <2> SUFFICES ASSUME NEW i \in Reclaimable PROVE \E e \in Nat : End(descs[i]) = PageSize * e /\ e < PhysPages
      OBVIOUS
    <2>1. PICK s, n \in Nat : InPages(descs[i], s, n)
      BY <1>3
    <2>2. End(descs[i]) = PageSize * (s + n)
      BY <2>1, PagesOfRange
    <2>3. s + n \in Nat /\ s + n < PhysPages
      BY <2>1 DEF InPages
    <2> QED BY <2>2, <2>3
  <1>7. starts \in SUBSET Nat /\ starts # {} /\ ends \in SUBSET Nat /\ ends # {}
    <2>1. \A e \in Nat : PageSize * e \in Nat
      BY <1>4, PageOfMultiple
    <2>2. starts # {} /\ ends # {}
      BY <1>2
    <2> HIDE DEF starts, ends
    <2> QED BY <2>1, <2>2, <1>5, <1>6
  <1>8. \A x \in ends : x <= AddressSpan
    <2> SUFFICES ASSUME NEW x \in ends PROVE x <= AddressSpan
      OBVIOUS
    <2> HIDE DEF ends
    <2>1. PICK e \in Nat : x = PageSize * e /\ e < PhysPages
      BY <1>6
    <2>2. PageSize * e <= PageSize * PhysPages
      BY <2>1, <1>4, Multiples
    <2> QED BY <2>1, <2>2, <1>4
  <1>9. low = Min(starts) /\ high = Max(ends)
    BY <1>2 DEF ManagedLowest, ManagedHighest
  <1> HIDE DEF starts, ends
  <1>10. low \in starts /\ high \in ends
    BY <1>4, <1>7, <1>8, <1>9, MinFacts, MaxFacts
  <1>11. PICK l \in Nat : low = PageSize * l
    BY <1>5, <1>10
  <1>12. PICK h \in Nat : high = PageSize * h
    BY <1>6, <1>10
  <1>13. l < h
    BY <1>2, <1>4, <1>11, <1>12, Multiples
  <1>14. TotalManagedPages = h - l
    <2>1. h - l \in Nat /\ l + (h - l) = h
      BY <1>13
    <2>2. PICK d \in Nat : d = h - l
      BY <2>1
    <2>3. PageSize * (l + d) = PageSize * l + PageSize * d
      BY <1>4, Multiples
    <2>4. PICK x \in Int : x = PageSize * l
      BY <1>4, Multiples
    <2>5. PICK y \in Int : y = PageSize * d
      BY <1>4, Multiples
    <2>6. PageSize * h = x + y
      BY <2>1, <2>2, <2>3, <2>4, <2>5
    <2>7. high - low = y
      BY <2>4, <2>6, <1>11, <1>12
    <2>8. (PageSize * d) \div PageSize = d
      BY <1>4, PageOfMultiple
    <2> QED BY <2>2, <2>5, <2>7, <2>8 DEF TotalManagedPages
  <1>15. Managed = 0 .. h - l - 1
    BY <1>14 DEF Managed
  <1> QED
    BY <1>11, <1>12, <1>13, <1>14, <1>15 DEF Span

\* Two bits per page are a whole number of pages.
LEMMA BitmapCounted ==
    ASSUME NEW l, NEW h, Span(l, h)
    PROVE  BitmapPages \in Nat
  <1>1. PICK t \in Nat : t = TotalManagedPages
    BY DEF Span
  <1>2. PICK q \in Nat : q = CeilDiv(t, 4)
    <2>1. t + 4 - 1 \in Nat
      OBVIOUS
    <2>2. (t + 4 - 1) \div 4 \in Nat
      BY <2>1
    <2> QED BY <2>2 DEF CeilDiv
  <1>3. PageSize \in Nat \ {0}
    BY LayoutFacts
  <1>4. q + PageSize - 1 \in Nat
    BY <1>3
  <1>5. (q + PageSize - 1) \div PageSize \in Nat
    BY <1>3, <1>4
  <1> QED
    BY <1>1, <1>2, <1>5 DEF BitmapPages, CeilDiv

\* The managed pages of a range of pages.
LEMMA PagesOfInPages ==
    ASSUME NEW l, NEW h, Span(l, h), NEW a \in Nat, NEW b \in Nat, NEW p
    PROVE  p \in PagesOf(PageSize * a, PageSize * b) <=> p \in Managed /\ a <= l + p /\ l + p < b
  <1>1. PageSize \in Nat \ {0}
    BY LayoutFacts
  <1>2. l \in Nat /\ low = PageSize * l
    BY DEF Span
  <1> SUFFICES ASSUME p \in Managed
               PROVE  PageSize * a <= low + p * PageSize /\ low + p * PageSize < PageSize * b <=> a <= l + p /\ l + p < b
    BY DEF PagesOf
  <1>3. p \in Nat
    BY DEF Span
  <1>4. PageSize * (l + p) = PageSize * l + PageSize * p /\ PageSize * p = p * PageSize
    BY <1>1, <1>2, <1>3, Multiples
  <1>5. low + p * PageSize = PageSize * (l + p)
    BY <1>2, <1>4
  <1>6. l + p \in Int
    BY <1>2, <1>3
  <1>7. /\ PageSize * a <= PageSize * (l + p) <=> a <= l + p
        /\ PageSize * (l + p) < PageSize * b <=> l + p < b
    BY <1>1, <1>6, Multiples
  <1> QED
    BY <1>5, <1>7

\* The same of a range of bytes that is one of pages.
LEMMA PagesOfRangeInPages ==
    ASSUME NEW l, NEW h, Span(l, h), NEW r, NEW a, NEW n, InPages(r, a, n), NEW p
    PROVE  p \in PagesOf(r.start, End(r)) <=> p \in Managed /\ a <= l + p /\ l + p < a + n
  <1>1. a \in Nat /\ a + n \in Nat /\ r.start = PageSize * a
    BY DEF InPages
  <1>2. End(r) = PageSize * (a + n)
    BY PagesOfRange
  <1> QED
    BY <1>1, <1>2, PagesOfInPages

\* The place of the bitmap, in pages.
MetaAt(m, n) ==
    /\ m \in Nat /\ n \in Nat /\ n = BitmapPages /\ meta = PageSize * m
    /\ m .. m + n - 1 \subseteq Conventional \ (held["pool"] \cup held["capsule"])

\* The bitmap begins at a page, in spare memory of the map.
LEMMA MetaInPages ==
    ASSUME LoaderInv, OrderInv, SourcesOk, SpanOk, PlaceOk, phase \in Placed
    PROVE  \E m, n \in Nat : MetaAt(m, n)
  <1>1. phase # "off" /\ phase \in Spanned
    BY DEF Placed, Spanned
  <1>2. PICK l, h \in Nat : Span(l, h)
    BY <1>1, SpanInPages
  <1>3. PICK n \in Nat : n = BitmapPages
    BY <1>2, BitmapCounted
  <1>4. PICK i \in Reclaimable : meta \in Candidates(i)
    BY DEF PlaceOk
  <1>5. /\ meta \in descs[i].start .. End(descs[i]) - n * PageSize
        /\ meta % PageSize = 0
        /\ \A r \in boot : ~Blocks(r, meta, meta + n * PageSize)
    BY <1>3, <1>4 DEF Candidates
  <1>6. i \in DOMAIN descs /\ descs[i].pages # 0 /\ IsReclaimable(descs[i])
    <2>1. i \in DOMAIN descs /\ descs[i].pages > 0 /\ IsReclaimable(descs[i])
      BY DEF Reclaimable
    <2>2. descs[i] \in Desc
      BY <2>1, <1>1, Member, Zenon DEF SourcesOk
    <2>3. descs[i].pages \in Nat
      BY <2>2 DEF Desc
    <2> QED BY <2>1, <2>3
  <1>7. PICK s, k \in Nat : InPages(descs[i], s, k) /\ s .. s + k - 1 \subseteq Conventional
    BY <1>1, <1>6, DescInPages
  <1>8. PageSize \in Nat \ {0}
    BY LayoutFacts
  <1>9. descs[i].start = PageSize * s /\ End(descs[i]) = PageSize * (s + k)
    BY <1>7, PagesOfRange DEF InPages
  <1>10. PICK x \in Int : x = PageSize * s
    BY <1>8, Multiples
  <1>11. PICK y \in Int : y = PageSize * (s + k)
    <2>1. s + k \in Int
      OBVIOUS
    <2> QED BY <2>1, <1>8, Multiples
  <1>12. PICK z \in Int : z = PageSize * n /\ z = n * PageSize
    BY <1>8, Multiples
  <1>13. meta \in Int /\ x <= meta /\ meta <= y - z
    BY <1>5, <1>9, <1>10, <1>11, <1>12
  <1>14. x \in Nat
    BY <1>8, <1>10, PageOfMultiple
  <1>15. meta \in Nat
    BY <1>13, <1>14
  <1>16. PICK m \in Nat : meta = PageSize * m
    <2>1. meta \div PageSize \in Nat /\ meta = PageSize * (meta \div PageSize)
      BY <1>5, <1>8, <1>15, Aligned
    <2> QED BY <2>1
  <1>17. PageSize * (m + n) = meta + z
    <2>1. PageSize * (m + n) = PageSize * m + PageSize * n
      BY <1>8, Multiples
    <2> QED BY <2>1, <1>12, <1>16
  <1>18. s <= m
    BY <1>8, <1>10, <1>13, <1>16, Multiples
  <1>19. m + n <= s + k
    <2>1. PageSize * (m + n) <= PageSize * (s + k)
      BY <1>11, <1>13, <1>17
    <2>2. m + n \in Int /\ s + k \in Int
      OBVIOUS
    <2> QED BY <2>1, <2>2, <1>8, Multiples
  <1>20. m .. m + n - 1 \subseteq Conventional
    BY <1>7, <1>18, <1>19
  <1>21. ASSUME NEW f \in m .. m + n - 1, f \in held["pool"] \cup held["capsule"]
         PROVE  FALSE
    <2>1. PICK r \in boot : \E a, j \in Nat : InPages(r, a, j) /\ a <= f /\ f < a + j
      BY <1>1, <1>21, BootInPages
    <2>2. PICK a, j \in Nat : InPages(r, a, j) /\ a <= f /\ f < a + j
      BY <2>1
    <2>3. r.start = PageSize * a /\ r.pages = j /\ End(r) = PageSize * (a + j)
      BY <2>2, PagesOfRange DEF InPages
    <2>4. j # 0
      BY <2>2
    <2>5. m < a + j /\ a < m + n
      BY <2>2
    <2>6. PageSize * m < PageSize * (a + j) /\ PageSize * a < PageSize * (m + n)
      <3>1. a + j \in Int /\ m + n \in Int
        OBVIOUS
      <3> QED BY <3>1, <2>5, <1>8, Multiples
    <2>7. Overlap(meta, meta + n * PageSize, r.start, End(r))
      BY <2>3, <2>6, <1>12, <1>16, <1>17 DEF Overlap
    <2>8. Blocks(r, meta, meta + n * PageSize)
      BY <2>3, <2>4, <2>7 DEF Blocks
    <2> QED BY <2>8, <1>5
  <1>22. m .. m + n - 1 \subseteq Conventional \ (held["pool"] \cup held["capsule"])
    BY <1>20, <1>21
  <1> QED
    BY <1>3, <1>16, <1>22 DEF MetaAt

-----------------------------------------------------------------------------
(* The page bitmap: its steps keep the invariant.                          *)

\* What the descriptors, the ranges and the span determine.
LEMMA GeometryKept ==
    ASSUME UNCHANGED <<descs, boot, low, high>>
    PROVE  /\ Reclaimable' = Reclaimable /\ Managed' = Managed /\ Freed' = Freed
           /\ ManagedLowest' = ManagedLowest /\ ManagedHighest' = ManagedHighest
           /\ \A i : Candidates(i)' = Candidates(i)
           /\ meta' = meta => BootOwned' = BootOwned
  <1>1. Reclaimable' = Reclaimable
    BY DEF Reclaimable
  <1>2. TotalManagedPages' = TotalManagedPages
    BY DEF TotalManagedPages
  <1>3. Managed' = Managed
    BY <1>2 DEF Managed
  <1>4. BitmapPages' = BitmapPages
    BY <1>2 DEF BitmapPages
  <1>5. Freed' = Freed
    BY <1>1, <1>3 DEF Freed, PagesOf
  <1>6. ManagedLowest' = ManagedLowest /\ ManagedHighest' = ManagedHighest
    BY <1>1 DEF ManagedLowest, ManagedHighest
  <1>7. \A i : Candidates(i)' = Candidates(i)
    BY <1>4 DEF Candidates
  <1>8. meta' = meta => BootOwned' = BootOwned
    BY <1>3, <1>4 DEF BootOwned, PagesOf
  <1> QED
    BY <1>1, <1>3, <1>5, <1>6, <1>7, <1>8

\* The ranges of the capsule stay what they are.
LEMMA BootRangesKept ==
    ASSUME UNCHANGED loaderVars
    PROVE  BootRanges' = BootRanges
  <1>1. machine' = machine /\ capsule' = capsule /\ held' = held
    BY DEF loaderVars
  <1>2. KernelPages' = KernelPages
    BY <1>1, MachineKept
  <1> QED
    BY <1>1, <1>2 DEF BootRanges

\* A step that leaves descriptors, ranges, span and bitmap alone.
LEMMA PmmUnchanged ==
    ASSUME PmmInv, UNCHANGED pmmVars, phase # "off" => UNCHANGED loaderVars
    PROVE  PmmInv'
  <1>1. UNCHANGED <<phase, descs, boot, low, high, meta, bitmap>>
    BY DEF pmmVars
  <1>2. SourcesOk'
    <2>1. CASE phase = "off"
      BY <1>1, <2>1 DEF SourcesOk
    <2>2. CASE phase # "off"
      <3>1. BootRanges' = BootRanges /\ machine' = machine
        BY <2>2, BootRangesKept DEF loaderVars
      <3> QED BY <1>1, <2>2, <3>1 DEF PmmInv, SourcesOk
    <2> QED BY <2>1, <2>2
  <1>3. SpanOk' /\ PlaceOk' /\ BitmapOk'
    BY <1>1, GeometryKept DEF PmmInv, SpanOk, PlaceOk, BitmapOk, Spanned, Placed
  <1> QED
    BY <1>2, <1>3 DEF PmmInv

\* The page allocator is off at power-on.
LEMMA PmmStarts == Init => PmmInv
  BY DEF Init, PmmInit, PmmInv, SourcesOk, SpanOk, PlaceOk, BitmapOk, Spanned, Placed

\* The firmware's descriptors come unsorted.
LEMMA Called ==
    ASSUME LoaderInv, CallPmm
    PROVE  PmmInv'
  <1>1. /\ phase' = "sort" /\ descs' = machine.map /\ boot' = BootRanges /\ UNCHANGED loaderVars
    BY DEF CallPmm, KePmmInitFromBootMemoryMap
  <1>2. BootRanges' = BootRanges /\ machine' = machine
    BY <1>1, BootRangesKept DEF loaderVars
  <1>3. machine.map \in Seq(Desc)
    BY MachineFacts DEF LoaderInv
  <1> QED
    BY <1>1, <1>2, <1>3 DEF PmmInv, SourcesOk, SpanOk, PlaceOk, BitmapOk, Spanned, Placed

\* The order of the descriptors, by address and then by place.
DescOrder == {x \in (DOMAIN descs) \X (DOMAIN descs) : SortsBefore(x[1], x[2])}

\* The order relates two places as the comparison of the sort does.
LEMMA DescOrderFacts ==
    ASSUME NEW i \in DOMAIN descs, NEW j \in DOMAIN descs
    PROVE  <<i, j>> \in DescOrder <=> SortsBefore(i, j)
  <1> DEFINE x == <<i, j>>
  <1>1. x[1] = i /\ x[2] = j /\ x \in (DOMAIN descs) \X (DOMAIN descs)
    OBVIOUS
  <1> HIDE DEF x
  <1>2. x \in DescOrder <=> SortsBefore(x[1], x[2])
    BY <1>1, Zenon DEF DescOrder
  <1>3. x \in DescOrder <=> SortsBefore(i, j)
    BY <1>1, <1>2
  <1> QED
    BY <1>3 DEF x

\* Address and place together order the descriptors totally.
LEMMA DescsOrdered ==
    ASSUME descs \in Seq(Desc)
    PROVE  TotalOrder(DescOrder, DOMAIN descs)
  <1> DEFINE D == DOMAIN descs
             R == DescOrder
             start == [i \in D |-> descs[i].start]
  <1>1. D \subseteq Nat
    OBVIOUS
  <1>2. \A i \in D : descs[i].start \in Nat
    <2> SUFFICES ASSUME NEW i \in D PROVE descs[i].start \in Nat
      OBVIOUS
    <2>1. descs[i] \in Desc
      BY Member, Zenon
    <2> QED BY <2>1 DEF Desc
  <1>3. \A i, j \in D : <<i, j>> \in R <=> SortsBefore(i, j)
    BY DescOrderFacts
  <1>4. \A i \in D : start[i] \in Nat /\ i \in Nat
    BY <1>1, <1>2
  <1>5. \A i, j \in D : <<i, j>> \in R <=> start[i] < start[j] \/ (start[i] = start[j] /\ i <= j)
    <2> HIDE DEF R
    <2> QED BY <1>3 DEF SortsBefore
  <1> HIDE DEF R, start, D
  <1>6. \A i \in D : <<i, i>> \in R
    BY <1>4, <1>5
  <1>7. \A i, j \in D : <<i, j>> \in R \/ <<j, i>> \in R
    <2> SUFFICES ASSUME NEW i \in D, NEW j \in D PROVE <<i, j>> \in R \/ <<j, i>> \in R
      OBVIOUS
    <2> QED BY <1>4, <1>5
  <1>8. \A i, j \in D : <<i, j>> \in R /\ <<j, i>> \in R => i = j
    <2> SUFFICES ASSUME NEW i \in D, NEW j \in D, <<i, j>> \in R, <<j, i>> \in R PROVE i = j
      OBVIOUS
    <2> QED BY <1>4, <1>5
  <1>9. \A i, j, k \in D : <<i, j>> \in R /\ <<j, k>> \in R => <<i, k>> \in R
    <2> SUFFICES ASSUME NEW i \in D, NEW j \in D, NEW k \in D, <<i, j>> \in R, <<j, k>> \in R
                 PROVE  <<i, k>> \in R
      OBVIOUS
    <2>1. /\ start[i] < start[j] \/ (start[i] = start[j] /\ i <= j)
          /\ start[j] < start[k] \/ (start[j] = start[k] /\ j <= k)
      BY <1>5
    <2>2. start[i] < start[k] \/ (start[i] = start[k] /\ i <= k)
      BY <2>1, <1>4
    <2> QED BY <2>2, <1>5
  <1>10. TotalOrder(R, D)
    BY <1>6, <1>7, <1>8, <1>9, Zenon DEF TotalOrder
  <1> QED
    BY <1>10 DEF R, D

\* Sorting rearranges them.
LEMMA Sorted ==
    ASSUME PmmInv, SortDescriptorsByPhysAddr, UNCHANGED loaderVars
    PROVE  PmmInv'
  <1> DEFINE D == DOMAIN descs
             R == DescOrder
             at(k) == CHOOSE i \in D : Place(i) = k
             n == Len(descs)
  <1>1. /\ phase = "sort" /\ phase' = "validate" /\ boot' = boot
        /\ descs' = [k \in D |-> descs[at(k)]]
    BY DEF SortDescriptorsByPhysAddr
  <1>2. /\ descs \in Seq(Desc) /\ boot = BootRanges
        /\ \A k \in DOMAIN descs : \E i \in DOMAIN machine.map : descs[k] = machine.map[i]
    BY <1>1 DEF PmmInv, SourcesOk
  <1>3. IsFiniteSet(D) /\ Cardinality(D) = n /\ D = 1 .. n /\ n \in Nat
    BY <1>2, PositionsFinite
  <1>4. TotalOrder(R, D)
    BY <1>2, DescsOrdered
  <1>5. \A i \in D : PlaceIn(R, D, i) = Place(i)
    <2> SUFFICES ASSUME NEW i \in D PROVE PlaceIn(R, D, i) = Place(i)
      OBVIOUS
    <2>1. {j \in D : <<j, i>> \in R} = {j \in DOMAIN descs : SortsBefore(j, i)}
      BY DescOrderFacts
    <2> HIDE DEF R
    <2> QED BY <2>1 DEF PlaceIn, Place
  <1>6. \A i \in D : descs[i] \in Desc
    BY <1>2, Member, Zenon
  <1>7. \A i \in D : \E j \in DOMAIN machine.map : descs[i] = machine.map[j]
    BY <1>2
  <1> HIDE DEF R, D
  <1>8. \A k \in 1 .. n : \E i \in D : PlaceIn(R, D, i) = k
    BY <1>3, <1>4, Places
  <1>9. \A k \in D : \E i \in D : Place(i) = k
    BY <1>3, <1>5, <1>8
  <1>10. \A k \in D : at(k) \in D
    BY <1>9
  <1> HIDE DEF at
  <1>11. descs' \in [1 .. n -> Desc]
    <2>1. \A k \in D : descs[at(k)] \in Desc
      BY <1>6, <1>10
    <2> QED BY <2>1, <1>1, <1>3
  <1>12. descs' \in Seq(Desc)
    BY <1>3, <1>11
  <1>13. \A k \in DOMAIN descs' : \E i \in DOMAIN machine.map : descs'[k] = machine.map[i]
    <2>1. DOMAIN descs' = D /\ \A k \in D : descs'[k] = descs[at(k)]
      BY <1>1
    <2> QED BY <2>1, <1>7, <1>10
  <1>14. BootRanges' = BootRanges /\ machine' = machine
    BY BootRangesKept DEF loaderVars
  <1>15. SourcesOk'
    BY <1>1, <1>2, <1>12, <1>13, <1>14 DEF SourcesOk
  <1> QED
    BY <1>1, <1>15 DEF PmmInv, SpanOk, PlaceOk, BitmapOk, Spanned, Placed

\* The steps after the sort leave descriptors and ranges alone.
LEMMA RangesKept ==
    ASSUME SourcesOk, phase # "off", UNCHANGED <<loaderVars, descs, boot>>
    PROVE  SourcesOk'
  <1>1. BootRanges' = BootRanges /\ machine' = machine
    BY BootRangesKept DEF loaderVars
  <1> QED
    BY <1>1 DEF SourcesOk

\* Validation fixes the managed range.
LEMMA Validated ==
    ASSUME PmmInv, ValidateDescriptors, UNCHANGED loaderVars
    PROVE  PmmInv'
  <1>1. /\ phase = "validate" /\ phase' = "place" /\ low' = ManagedLowest /\ high' = ManagedHighest
        /\ UNCHANGED <<descs, boot>> /\ Reclaimable # {} /\ ManagedLowest < ManagedHighest
    BY DEF ValidateDescriptors, Accepted
  <1>2. SourcesOk'
    BY <1>1, RangesKept DEF PmmInv
  <1>3. Reclaimable' = Reclaimable
    BY <1>1 DEF Reclaimable
  <1>4. ManagedLowest' = ManagedLowest /\ ManagedHighest' = ManagedHighest
    BY <1>1, <1>3 DEF ManagedLowest, ManagedHighest
  <1>5. SpanOk'
    BY <1>1, <1>3, <1>4 DEF SpanOk
  <1> QED
    BY <1>1, <1>2, <1>5 DEF PmmInv, PlaceOk, BitmapOk, Placed

\* A refused map, or one without room for the bitmap, ends the set-up.
LEMMA PmmFailed ==
    ASSUME PmmInv, RejectMap \/ NoRoomForBitmap, UNCHANGED loaderVars
    PROVE  PmmInv'
  <1>1. phase # "off" /\ phase' = "failed" /\ UNCHANGED <<descs, boot>>
    BY DEF RejectMap, NoRoomForBitmap
  <1>2. SourcesOk'
    BY <1>1, RangesKept DEF PmmInv
  <1> QED
    BY <1>1, <1>2 DEF PmmInv, SpanOk, PlaceOk, BitmapOk, Spanned, Placed

\* The bitmap goes where a candidate is.
LEMMA BitmapPlaced ==
    ASSUME PmmInv, PlaceBitmap, UNCHANGED loaderVars
    PROVE  PmmInv'
  <1>1. /\ phase = "place" /\ phase' = "mark" /\ Hosts # {} /\ meta' = Min(Candidates(Min(Hosts)))
        /\ UNCHANGED <<descs, boot, low, high>>
    BY DEF PlaceBitmap
  <1>2. SourcesOk'
    BY <1>1, RangesKept DEF PmmInv
  <1>3. SpanOk'
    BY <1>1, GeometryKept DEF PmmInv, SpanOk, Spanned
  <1>4. descs \in Seq(Desc)
    BY <1>1 DEF PmmInv, SourcesOk
  <1>5. Hosts \in SUBSET Nat
    BY <1>4 DEF Hosts, Reclaimable
  <1>6. PICK i \in Hosts : i = Min(Hosts)
    BY <1>1, <1>5, MinFacts
  <1>7. i \in Reclaimable /\ Candidates(i) # {}
    BY DEF Hosts
  <1>8. Candidates(i) \in SUBSET Nat
    <2>1. i \in DOMAIN descs
      BY <1>7 DEF Reclaimable
    <2>2. descs[i] \in Desc
      BY <2>1, <1>4, Member, Zenon
    <2>3. descs[i].start \in Nat
      BY <2>2 DEF Desc
    <2>4. PICK s \in Nat : s = descs[i].start
      BY <2>3
    <2>5. \A a \in Candidates(i) : a \in s .. End(descs[i]) - BitmapPages * PageSize
      BY <2>4 DEF Candidates
    <2>6. \A a \in Candidates(i) : a \in Nat
      BY <2>5
    <2> QED BY <2>6
  <1>9. meta' \in Candidates(i)
    BY <1>1, <1>6, <1>7, <1>8, MinFacts
  <1>10. PlaceOk'
    <2>1. i \in Reclaimable' /\ meta' \in Candidates(i)'
      BY <1>1, <1>7, <1>9, GeometryKept
    <2>2. (i \in Reclaimable /\ meta \in Candidates(i) => PlaceOk)'
      BY DEF PlaceOk
    <2> QED BY <2>1, <2>2
  <1> QED
    BY <1>1, <1>2, <1>3, <1>10 DEF PmmInv, BitmapOk

\* The first pass frees what the firmware gave.
LEMMA Marked ==
    ASSUME PmmInv, MarkReclaimable, UNCHANGED loaderVars
    PROVE  PmmInv'
  <1>1. /\ phase = "mark" /\ phase' = "reserve" /\ UNCHANGED <<descs, boot, low, high, meta>>
        /\ bitmap' = [p \in Managed |-> IF p \in Freed THEN "free" ELSE "reserved"]
    BY DEF MarkReclaimable, Freed
  <1>2. SourcesOk'
    BY <1>1, RangesKept DEF PmmInv
  <1>3. SpanOk' /\ PlaceOk'
    BY <1>1, GeometryKept DEF PmmInv, SpanOk, Spanned, PlaceOk, Placed
  <1>4. Managed' = Managed /\ Freed' = Freed
    BY <1>1, GeometryKept
  <1>5. BitmapOk'
    BY <1>1, <1>4 DEF BitmapOk
  <1> QED
    BY <1>2, <1>3, <1>5 DEF PmmInv

\* The second takes back what the boot still uses.
LEMMA Reserved ==
    ASSUME PmmInv, ReserveBootRanges, UNCHANGED loaderVars
    PROVE  PmmInv'
  <1> DEFINE taken == {p \in BootOwned : bitmap[p] = "free"}
  <1>1. /\ phase = "reserve" /\ phase' = "ready" /\ UNCHANGED <<descs, boot, low, high, meta>>
        /\ bitmap' = [p \in Managed |-> IF p \in taken THEN "reserved" ELSE bitmap[p]]
    BY DEF ReserveBootRanges
  <1>2. SourcesOk'
    BY <1>1, RangesKept DEF PmmInv
  <1>3. SpanOk' /\ PlaceOk'
    BY <1>1, GeometryKept DEF PmmInv, SpanOk, Spanned, PlaceOk, Placed
  <1>4. Managed' = Managed /\ Freed' = Freed /\ BootOwned' = BootOwned
    BY <1>1, GeometryKept
  <1>5. \A p \in Managed : bitmap[p] = IF p \in Freed THEN "free" ELSE "reserved"
    BY <1>1 DEF PmmInv, BitmapOk
  <1>6. \A p \in Managed : bitmap'[p] # "reserved" <=> p \in Freed /\ p \notin BootOwned
    BY <1>1, <1>5
  <1>7. DOMAIN bitmap' = Managed
    BY <1>1
  <1>8. BitmapOk'
    BY <1>1, <1>4, <1>6, <1>7 DEF BitmapOk
  <1> QED
    BY <1>2, <1>3, <1>8 DEF PmmInv

\* Taking free pages later on.
LEMMA PagesTaken ==
    ASSUME PmmInv, phase = "ready", UNCHANGED <<loaderVars, phase, descs, boot, low, high, meta>>,
           NEW T \in SUBSET FreeNow,
           bitmap' = [p \in DOMAIN bitmap |-> IF p \in T THEN "allocated" ELSE bitmap[p]]
    PROVE  PmmInv'
  <1>1. SourcesOk'
    BY RangesKept DEF PmmInv
  <1>2. SpanOk' /\ PlaceOk'
    BY GeometryKept DEF PmmInv, SpanOk, Spanned, PlaceOk, Placed
  <1>3. Managed' = Managed /\ Freed' = Freed /\ BootOwned' = BootOwned
    BY GeometryKept
  <1>4. DOMAIN bitmap = Managed /\ \A p \in Managed : bitmap[p] # "reserved" <=> p \in Freed /\ p \notin BootOwned
    BY DEF PmmInv, BitmapOk
  <1>5. \A p \in Managed : bitmap'[p] # "reserved" <=> p \in Freed /\ p \notin BootOwned
    BY <1>4 DEF FreeNow
  <1>6. DOMAIN bitmap' = Managed
    BY <1>4
  <1>7. BitmapOk'
    BY <1>3, <1>5, <1>6 DEF BitmapOk
  <1> QED
    BY <1>1, <1>2, <1>7 DEF PmmInv

\* The address space is tested after the page bitmap is ready.
TestOk == init = "self_test" => phase = "ready"

\* Nothing is tested at power-on.
LEMMA TestInit == Init => TestOk
  BY DEF Init, TestOk

\* A bitmap that is ready stays ready.
LEMMA TestKept ==
    ASSUME TestOk, [Next]_vars
    PROVE  TestOk'
  <1>1. CASE UNCHANGED <<init, phase>>
    BY <1>1 DEF TestOk
  <1>2. CASE init' # "self_test"
    BY <1>2 DEF TestOk
  <1>3. CASE KeImportKernelAddressSpace
    BY <1>3 DEF TestOk, KeImportKernelAddressSpace
  <1>4. CASE CallPmm
    BY <1>4 DEF TestOk, CallPmm
  <1>5. CASE RunPmm
    <2>1. phase # "ready" /\ init' = init
      BY <1>5 DEF RunPmm, PmmStep, SortDescriptorsByPhysAddr, ValidateDescriptors, RejectMap, PlaceBitmap,
                  NoRoomForBitmap, MarkReclaimable, ReserveBootRanges
    <2> QED BY <2>1 DEF TestOk
  <1>6. CASE Load \/ CallTimeSource \/ CallClockEvent \/ RunTime \/ UNCHANGED vars
    <2>1. UNCHANGED <<init, phase>>
      BY <1>6 DEF Load, CallTimeSource, CallClockEvent, RunTime, vars, pmmVars
    <2> QED BY <2>1, <1>1
  <1>7. CASE \/ ValidateBootMappingManifest \/ VerifyHhdm \/ AssertRsdp \/ PmmFails \/ NoPageForRegions
             \/ KePtSelfTest \/ KePtSelfTestFails \/ TimeSourceFaults \/ TimeEnds
    <2>1. init' # "self_test"
      BY <1>7 DEF ValidateBootMappingManifest, VerifyHhdm, AssertRsdp, PmmFails, NoPageForRegions, KePtSelfTest,
                  KePtSelfTestFails, TimeSourceFaults, TimeEnds
    <2> QED BY <2>1, <1>2
  <1> QED
    BY <1>3, <1>4, <1>5, <1>6, <1>7 DEF Next

\* Every step of the boot keeps the invariant of the page bitmap.
LEMMA PmmKept ==
    ASSUME LoaderInv, OrderInv, TestOk, PmmInv, [Next]_vars
    PROVE  PmmInv'
  <1>1. phase # "off" => UNCHANGED loaderVars
    BY LoaderIsGone DEF OrderInv
  <1>2. CASE CallPmm
    BY <1>2, Called
  <1>3. CASE RunPmm
    <2>1. UNCHANGED loaderVars /\ PmmStep
      BY <1>3 DEF RunPmm
    <2> QED
      BY <2>1, Sorted, Validated, PmmFailed, BitmapPlaced, Marked, Reserved DEF PmmStep
  <1>4. CASE KeImportKernelAddressSpace
    <2>1. /\ phase = "ready" /\ FreeNow # {} /\ bitmap' = [bitmap EXCEPT ![Min(FreeNow)] = "allocated"]
          /\ UNCHANGED <<loaderVars, phase, descs, boot, low, high, meta>>
      BY <1>4 DEF KeImportKernelAddressSpace
    <2>2. DOMAIN bitmap = Managed
      BY <2>1 DEF PmmInv, BitmapOk
    <2>3. FreeNow \in SUBSET Nat
      BY <2>2 DEF FreeNow, Managed
    <2>4. PICK f \in FreeNow : f = Min(FreeNow)
      BY <2>1, <2>3, MinFacts
    <2>5. bitmap' = [p \in DOMAIN bitmap |-> IF p \in {f} THEN "allocated" ELSE bitmap[p]]
      BY <2>1, <2>4
    <2>6. {f} \in SUBSET FreeNow
      OBVIOUS
    <2> QED BY <2>1, <2>5, <2>6, PagesTaken
  <1>5. CASE KePtSelfTest
    <2> DEFINE kept == {p \in FreeNow : Cardinality({q \in FreeNow : q < p}) \in 1 .. TablesAdded}
    <2>1. /\ phase = "ready"
          /\ bitmap' = [p \in DOMAIN bitmap |-> IF p \in kept THEN "allocated" ELSE bitmap[p]]
          /\ UNCHANGED <<loaderVars, phase, descs, boot, low, high, meta>>
      BY <1>5 DEF KePtSelfTest, TestOk
    <2>2. kept \in SUBSET FreeNow
      OBVIOUS
    <2> HIDE DEF kept
    <2> QED BY <2>1, <2>2, PagesTaken
  <1>6. CASE ~CallPmm /\ ~RunPmm /\ ~KeImportKernelAddressSpace /\ ~KePtSelfTest
    <2>1. UNCHANGED pmmVars
      BY <1>6 DEF Next, vars, Load, ValidateBootMappingManifest, VerifyHhdm, AssertRsdp, PmmFails,
                NoPageForRegions, KePtSelfTestFails, CallTimeSource,
                TimeSourceFaults, CallClockEvent, RunTime, TimeEnds
    <2> QED BY <2>1, <1>1, PmmUnchanged
  <1> QED
    BY <1>2, <1>3, <1>4, <1>5, <1>6

-----------------------------------------------------------------------------
(* What the invariant says of the memory that is handed out.               *)

\* A reclaimable descriptor, in pages.
LEMMA ReclaimableInPages ==
    ASSUME LoaderInv, OrderInv, SourcesOk, phase # "off", NEW i \in Reclaimable
    PROVE  \E s, n \in Nat : InPages(descs[i], s, n) /\ s .. s + n - 1 \subseteq Conventional
  <1>1. i \in DOMAIN descs /\ descs[i].pages > 0 /\ IsReclaimable(descs[i])
    BY DEF Reclaimable
  <1>2. descs[i] \in Desc
    BY <1>1, Member, Zenon DEF SourcesOk
  <1>3. descs[i].pages \in Nat
    BY <1>2 DEF Desc
  <1>4. descs[i].pages # 0
    BY <1>1, <1>3
  <1> QED
    BY <1>1, <1>4, DescInPages

\* A page of the first pass, in pages of the machine.
LEMMA FreedInPages ==
    ASSUME LoaderInv, OrderInv, PmmInv, phase \in Spanned, NEW l, NEW h, Span(l, h), NEW p
    PROVE  p \in Freed <=> /\ p \in Managed
                           /\ \E i \in Reclaimable : \E s, n \in Nat : InPages(descs[i], s, n) /\ s <= l + p /\ l + p < s + n
  <1>1. phase # "off" /\ SourcesOk
    BY DEF Spanned, PmmInv
  <1>2. \A i \in Reclaimable : \E s, n \in Nat : InPages(descs[i], s, n)
    BY <1>1, ReclaimableInPages
  <1>3. ASSUME NEW i \in Reclaimable, NEW s, NEW n, InPages(descs[i], s, n)
        PROVE  p \in PagesOf(descs[i].start, End(descs[i])) <=> p \in Managed /\ s <= l + p /\ l + p < s + n
    BY <1>3, PagesOfRangeInPages
  <1>4. p \in Freed <=> \E i \in Reclaimable : p \in PagesOf(descs[i].start, End(descs[i]))
    BY DEF Freed
  <1> QED
    BY <1>2, <1>3, <1>4

\* A page of the second pass.
LEMMA OwnedInPages ==
    ASSUME LoaderInv, OrderInv, PmmInv, phase \in Placed, NEW l, NEW h, Span(l, h), NEW m, NEW n, MetaAt(m, n), NEW p
    PROVE  p \in BootOwned <=>
              /\ p \in Managed
              /\ \/ m <= l + p /\ l + p < m + n
                 \/ l + p < LowReservedPages
                 \/ \E r \in boot : \E a, k \in Nat : InPages(r, a, k) /\ a <= l + p /\ l + p < a + k
  <1>1. phase # "off" /\ SourcesOk
    BY DEF Placed, PmmInv
  <1>2. PageSize \in Nat \ {0} /\ LowReservedPages \in Nat \ {0}
    BY LayoutFacts
  <1>3. m \in Nat /\ n \in Nat /\ n = BitmapPages /\ meta = PageSize * m
    BY DEF MetaAt
  <1>4. p \in PagesOf(meta, meta + BitmapPages * PageSize) <=> p \in Managed /\ m <= l + p /\ l + p < m + n
    <2>1. m + n \in Nat /\ PageSize * (m + n) = PageSize * m + PageSize * n /\ PageSize * n = n * PageSize
      BY <1>2, <1>3, Multiples
    <2>2. meta + BitmapPages * PageSize = PageSize * (m + n)
      BY <2>1, <1>3
    <2> QED BY <1>3, <2>1, <2>2, PagesOfInPages
  <1>5. \A q \in Nat : p \in PagesOf(0, q * PageSize) <=> p \in Managed /\ l + p < q
    <2> SUFFICES ASSUME NEW q \in Nat PROVE p \in PagesOf(0, q * PageSize) <=> p \in Managed /\ l + p < q
      OBVIOUS
    <2>1. 0 \in Nat /\ PageSize * 0 = 0 /\ q * PageSize = PageSize * q
      BY <1>2
    <2>2. p \in PagesOf(PageSize * 0, PageSize * q) <=> p \in Managed /\ 0 <= l + p /\ l + p < q
      BY <2>1, PagesOfInPages
    <2>3. p \in Managed => 0 <= l + p
      BY DEF Span
    <2> QED BY <2>1, <2>2, <2>3
  <1>6. p \in PagesOf(0, LowReservedPages * PageSize) \cup PagesOf(0, PageSize) <=> p \in Managed /\ l + p < LowReservedPages
    <2>1. 1 \in Nat /\ 1 * PageSize = PageSize
      BY <1>2
    <2>2. /\ p \in PagesOf(0, LowReservedPages * PageSize) <=> p \in Managed /\ l + p < LowReservedPages
          /\ p \in PagesOf(0, PageSize) <=> p \in Managed /\ l + p < 1
      BY <1>2, <1>5, <2>1
    <2>3. p \in Managed => l + p \in Nat
      BY DEF Span
    <2> QED BY <1>2, <2>2, <2>3
  <1>7. \A r \in boot : \E a, k \in Nat : InPages(r, a, k)
    BY <1>1, BootInPages
  <1>8. ASSUME NEW r, NEW a, NEW k, InPages(r, a, k)
        PROVE  p \in PagesOf(r.start, End(r)) <=> p \in Managed /\ a <= l + p /\ l + p < a + k
    BY <1>8, PagesOfRangeInPages
  <1>9. /\ p \in BootOwned <=> \/ p \in PagesOf(meta, meta + BitmapPages * PageSize)
                               \/ p \in PagesOf(0, LowReservedPages * PageSize) \cup PagesOf(0, PageSize)
                               \/ \E r \in boot : p \in PagesOf(r.start, End(r))
    BY DEF BootOwned
  <1>10. (\E r \in boot : p \in PagesOf(r.start, End(r))) <=>
            p \in Managed /\ \E r \in boot : \E a, k \in Nat : InPages(r, a, k) /\ a <= l + p /\ l + p < a + k
    BY <1>7, <1>8
  <1> QED
    BY <1>4, <1>6, <1>9, <1>10

\* The bitmap and the pages that may be handed out lie in memory of the map,
\* outside the page tables and the capsule.
LEMMA AllocatorIsSpare ==
    ASSUME LoaderInv, OrderInv, PmmInv, NEW f \in AllocatorPages
    PROVE  f \in Conventional /\ f \notin held["pool"] \cup held["capsule"]
  <1>1. phase \in Placed
    BY DEF AllocatorPages, Placed
  <1>2. phase # "off" /\ phase \in Spanned /\ SourcesOk /\ SpanOk /\ PlaceOk /\ BitmapOk
    BY <1>1 DEF Placed, Spanned, PmmInv
  <1>3. PICK l, h \in Nat : Span(l, h)
    BY <1>2, SpanInPages
  <1>4. PICK m, n \in Nat : MetaAt(m, n)
    BY <1>1, <1>2, MetaInPages
  <1>5. Unit \in Nat \ {0} /\ Unit = PageSize
    BY LayoutFacts
  <1>6. meta \div Unit = m /\ low \div Unit = l
    <2>1. meta = Unit * m /\ low = Unit * l
      BY <1>3, <1>4, <1>5 DEF MetaAt, Span
    <2>2. (Unit * m) \div Unit = m /\ (Unit * l) \div Unit = l
      BY <1>5, PageOfMultiple
    <2> QED BY <2>1, <2>2
  <1>7. CASE f \in meta \div Unit .. meta \div Unit + BitmapPages - 1
    BY <1>4, <1>6, <1>7 DEF MetaAt
  <1>8. CASE phase = "ready" /\ f \in {Frame(p) : p \in FreeNow}
    <2>1. PICK p \in FreeNow : f = Frame(p)
      BY <1>8
    <2>2. f = l + p
      BY <2>1, <1>6 DEF Frame
    <2>3. p \in DOMAIN bitmap /\ bitmap[p] = "free"
      BY DEF FreeNow
    <2>4. p \in Managed /\ p \in Freed /\ p \notin BootOwned
      BY <1>2, <1>8, <2>3 DEF BitmapOk
    <2>5. PICK i \in Reclaimable : \E s, k \in Nat : InPages(descs[i], s, k) /\ s <= l + p /\ l + p < s + k
      BY <1>2, <1>3, <2>4, FreedInPages
    <2>6. PICK s, k \in Nat : InPages(descs[i], s, k) /\ s <= l + p /\ l + p < s + k
      BY <2>5
    <2>7. PICK a, b \in Nat : InPages(descs[i], a, b) /\ a .. a + b - 1 \subseteq Conventional
      BY <1>2, ReclaimableInPages
    <2>8. a = s /\ b = k
      <3>1. PageSize * a = PageSize * s /\ b = k
        BY <2>6, <2>7 DEF InPages
      <3>2. (PageSize * a) \div PageSize = a /\ (PageSize * s) \div PageSize = s
        BY <1>5, PageOfMultiple
      <3> QED BY <3>1, <3>2
    <2>9. f \in s .. s + k - 1
      <3>1. p \in Nat
        BY <1>3, <2>4 DEF Span
      <3> QED BY <3>1, <2>2, <2>6
    <2>10. f \in Conventional
      BY <2>7, <2>8, <2>9
    <2>11. f \notin held["pool"] \cup held["capsule"]
      <3> SUFFICES ASSUME f \in held["pool"] \cup held["capsule"] PROVE FALSE
        OBVIOUS
      <3>1. \E r \in boot : \E c, j \in Nat : InPages(r, c, j) /\ c <= l + p /\ l + p < c + j
        BY <1>2, <2>2, BootInPages
      <3>2. p \in BootOwned
        BY <3>1, <1>1, <1>3, <1>4, <2>4, OwnedInPages
      <3> QED BY <3>2, <2>4
    <2> QED BY <2>10, <2>11
  <1> QED
    BY <1>7, <1>8 DEF AllocatorPages

\* Spare memory of the map is writable, and no window of the kernel leads to it.
LEMMA SafeFromInvariants ==
    ASSUME LoaderInv, OrderInv, PmmInv
    PROVE  FreeMemoryIsSafeToUse
  <1> SUFFICES ASSUME NEW f \in AllocatorPages
               PROVE  /\ VirtualBase["hhdm"] + f \in DOMAIN tables
                      /\ tables[VirtualBase["hhdm"] + f].at = f
                      /\ tables[VirtualBase["hhdm"] + f].flags = {"W"} \cup Nx
                      /\ f \notin held["pool"] \cup held["capsule"]
                      /\ \A v \in DOMAIN tables : v >= VirtualBase["kernel"] => tables[v].at # f
    BY DEF FreeMemoryIsSafeToUse
  <1>1. f \in Conventional /\ f \notin held["pool"] \cup held["capsule"]
    BY AllocatorIsSpare
  <1>2. stage = "kernel"
    <2>1. phase # "off"
      BY DEF AllocatorPages
    <2> QED BY <2>1 DEF OrderInv
  <1>3. stage \in DirectStages /\ stage \in MapStages
    BY <1>2 DEF DirectStages, MapStages
  <1>4. /\ VirtualBase["hhdm"] + f \in DOMAIN tables
        /\ tables[VirtualBase["hhdm"] + f].at = f
        /\ tables[VirtualBase["hhdm"] + f].flags = {"W"} \cup Nx
    BY <1>1, <1>3, MemoryIsMapped
  <1>5. \A v \in DOMAIN tables : v >= VirtualBase["kernel"] => tables[v].at \in held["capsule"]
    BY <1>3 DEF LoaderInv, WindowsOk
  <1> QED
    BY <1>1, <1>4, <1>5

\* The bytes of a managed page.
LEMMA PageBytesInPages ==
    ASSUME NEW l, NEW h, Span(l, h), NEW p \in Managed
    PROVE  PageBytes(p) = PageSize * (l + p) .. PageSize * ((l + p) + 1) - 1
  <1>1. PageSize \in Nat \ {0}
    BY LayoutFacts
  <1>2. p \in Nat /\ l \in Nat /\ low = PageSize * l
    BY DEF Span
  <1>3. PICK P \in Int : P = PageSize * p /\ p * PageSize = P
    BY <1>1, <1>2, Multiples
  <1>4. PICK L \in Int : L = PageSize * l
    BY <1>1, <1>2, Multiples
  <1>5. PageSize * (l + p) = L + P
    BY <1>1, <1>2, <1>3, <1>4, Multiples
  <1>6. (p + 1) * PageSize = P + PageSize
    <2>1. (p + 1) * PageSize = PageSize * (p + 1) /\ PageSize * (p + 1) = PageSize * p + PageSize * 1
      BY <1>1, <1>2, Multiples
    <2> QED BY <1>1, <1>3, <2>1
  <1>7. PageSize * ((l + p) + 1) = L + P + PageSize
    <2>1. l + p \in Int
      BY <1>2
    <2>2. PageSize * ((l + p) + 1) = PageSize * (l + p) + PageSize * 1
      BY <2>1, <1>1, Multiples
    <2> QED BY <2>2, <1>1, <1>5
  <1>8. PageBytes(p) = L + P .. L + (P + PageSize) - 1
    BY <1>2, <1>3, <1>4, <1>6 DEF PageBytes
  <1> QED
    BY <1>1, <1>5, <1>7, <1>8

\* The bytes of a managed page and of a range of pages.
LEMMA PageInRange ==
    ASSUME NEW l, NEW h, Span(l, h), NEW p \in Managed, NEW r, NEW a, NEW n, InPages(r, a, n)
    PROVE  /\ PageBytes(p) \subseteq Bytes(r) <=> a <= l + p /\ l + p < a + n
           /\ (\A b \in PageBytes(p) : b \notin Bytes(r)) <=> ~(a <= l + p /\ l + p < a + n)
  <1>1. PageSize \in Nat \ {0}
    BY LayoutFacts
  <1>2. p \in Nat /\ l \in Nat
    BY DEF Span
  <1>3. PICK q \in Nat : q = l + p
    BY <1>2
  <1>4. PageBytes(p) = PageSize * q .. PageSize * (q + 1) - 1
    BY <1>3, PageBytesInPages
  <1>5. a \in Nat /\ n \in Nat /\ Bytes(r) = PageSize * a .. PageSize * a + n * PageSize - 1
    BY DEF InPages, Bytes
  <1>6. /\ PageSize * q .. PageSize * (q + 1) - 1 \subseteq PageSize * a .. PageSize * a + n * PageSize - 1
              <=> a <= q /\ q < a + n
        /\ (\A b \in PageSize * q .. PageSize * (q + 1) - 1 : b \notin PageSize * a .. PageSize * a + n * PageSize - 1)
              <=> ~(a <= q /\ q < a + n)
    BY <1>1, <1>5, BytesOfPage
  <1> QED
    BY <1>3, <1>4, <1>5, <1>6, Zenon

\* The states of the pages, in terms of the bytes.
LEMMA ExactFromInvariants ==
    ASSUME LoaderInv, OrderInv, PmmInv
    PROVE  FreeMemoryIsExactlyUsable
  <1> SUFFICES ASSUME phase = "ready", NEW p \in Managed
               PROVE  bitmap[p] # "reserved" <=>
                        /\ \E i \in DOMAIN descs : IsReclaimable(descs[i]) /\ PageBytes(p) \subseteq Bytes(descs[i])
                        /\ \A b \in PageBytes(p) :
                              /\ b >= LowReservedPages * PageSize
                              /\ b \notin meta .. meta + BitmapPages * PageSize - 1
                              /\ \A r \in boot : b \notin Bytes(r)
    BY DEF FreeMemoryIsExactlyUsable
  <1>1. phase # "off" /\ phase \in Spanned /\ phase \in Placed /\ SourcesOk /\ SpanOk /\ PlaceOk /\ BitmapOk
    BY DEF Placed, Spanned, PmmInv
  <1>2. PICK l, h \in Nat : Span(l, h)
    BY <1>1, SpanInPages
  <1>3. PICK m, n \in Nat : MetaAt(m, n)
    BY <1>1, MetaInPages
  <1>4. PageSize \in Nat \ {0} /\ LowReservedPages \in Nat
    BY LayoutFacts
  <1>5. p \in Nat
    BY <1>2 DEF Span
  <1>6. PICK q \in Nat : q = l + p
    BY <1>5
  <1>7. PageBytes(p) = PageSize * q .. PageSize * (q + 1) - 1
    BY <1>2, <1>6, PageBytesInPages
  <1>8. bitmap[p] # "reserved" <=> p \in Freed /\ p \notin BootOwned
    BY <1>1 DEF BitmapOk
  <1>9. p \in Freed <=> \E i \in DOMAIN descs : IsReclaimable(descs[i]) /\ PageBytes(p) \subseteq Bytes(descs[i])
    <2>1. p \in Freed <=> \E i \in Reclaimable : \E s, k \in Nat : InPages(descs[i], s, k) /\ s <= l + p /\ l + p < s + k
      BY <1>1, <1>2, FreedInPages
    <2>2. ASSUME NEW i \in Reclaimable, NEW s \in Nat, NEW k \in Nat, InPages(descs[i], s, k)
          PROVE  PageBytes(p) \subseteq Bytes(descs[i]) <=> s <= l + p /\ l + p < s + k
      BY <2>2, <1>2, PageInRange
    <2>3. \A i \in Reclaimable : \E s, k \in Nat : InPages(descs[i], s, k)
      BY <1>1, ReclaimableInPages
    <2>4. p \in Freed <=> \E i \in Reclaimable : PageBytes(p) \subseteq Bytes(descs[i])
      BY <2>1, <2>2, <2>3
    <2>5. ASSUME NEW i \in DOMAIN descs, IsReclaimable(descs[i]), PageBytes(p) \subseteq Bytes(descs[i])
          PROVE  i \in Reclaimable
      <3>1. descs[i] \in Desc
        BY <1>1, Member, Zenon DEF SourcesOk
      <3>2. descs[i].pages \in Nat /\ descs[i].start \in Nat
        BY <3>1 DEF Desc
      <3>3. PICK z \in Nat : z = descs[i].start
        BY <3>2
      <3>4. descs[i].pages # 0
        <4> SUFFICES ASSUME descs[i].pages = 0 PROVE FALSE
          OBVIOUS
        <4>1. Bytes(descs[i]) = z .. z + 0 * PageSize - 1
          BY <3>3 DEF Bytes
        <4>2. 0 * PageSize = 0
          BY <1>4
        <4>3. Bytes(descs[i]) = {}
          BY <4>1, <4>2
        <4>4. PICK x \in Int : x = PageSize * q
          BY <1>4, Multiples
        <4>5. PageSize * (q + 1) = x + PageSize
          <5>1. PageSize * (q + 1) = PageSize * q + PageSize * 1
            BY <1>4, Multiples
          <5> QED BY <5>1, <1>4, <4>4
        <4>6. x \in PageBytes(p)
          BY <1>4, <1>7, <4>4, <4>5
        <4> QED BY <2>5, <4>3, <4>6
      <3> QED BY <2>5, <3>2, <3>4 DEF Reclaimable
    <2>6. \A i \in Reclaimable : i \in DOMAIN descs /\ IsReclaimable(descs[i])
      BY DEF Reclaimable
    <2> QED BY <2>4, <2>5, <2>6
  <1>10. (\A b \in PageBytes(p) : b >= LowReservedPages * PageSize) <=> ~(l + p < LowReservedPages)
    <2>1. (\A b \in PageSize * q .. PageSize * (q + 1) - 1 : b >= LowReservedPages * PageSize) <=> q >= LowReservedPages
      <3>1. 0 \in Nat
        OBVIOUS
      <3> QED BY <3>1, <1>4, BytesOfPage
    <2>2. q >= LowReservedPages <=> ~(l + p < LowReservedPages)
      BY <1>2, <1>4, <1>5, <1>6
    <2> QED BY <2>1, <2>2, <1>7, Zenon
  <1>11. (\A b \in PageBytes(p) : b \notin meta .. meta + BitmapPages * PageSize - 1) <=> ~(m <= l + p /\ l + p < m + n)
    <2>1. meta .. meta + BitmapPages * PageSize - 1 = PageSize * m .. PageSize * m + n * PageSize - 1
      BY <1>3 DEF MetaAt
    <2>2. (\A b \in PageSize * q .. PageSize * (q + 1) - 1 : b \notin PageSize * m .. PageSize * m + n * PageSize - 1)
              <=> ~(m <= q /\ q < m + n)
      BY <1>4, BytesOfPage
    <2> QED BY <2>1, <2>2, <1>6, <1>7
  <1>12. (\A b \in PageBytes(p) : \A r \in boot : b \notin Bytes(r)) <=>
            ~\E r \in boot : \E a, k \in Nat : InPages(r, a, k) /\ a <= l + p /\ l + p < a + k
    <2>1. ASSUME NEW r \in boot, NEW a \in Nat, NEW k \in Nat, InPages(r, a, k)
          PROVE  (\A b \in PageBytes(p) : b \notin Bytes(r)) <=> ~(a <= l + p /\ l + p < a + k)
      BY <2>1, <1>2, PageInRange
    <2>2. \A r \in boot : \E a, k \in Nat : InPages(r, a, k)
      BY <1>1, BootInPages
    <2> QED BY <2>1, <2>2
  <1>13. p \in BootOwned <=>
            \/ m <= l + p /\ l + p < m + n
            \/ l + p < LowReservedPages
            \/ \E r \in boot : \E a, k \in Nat : InPages(r, a, k) /\ a <= l + p /\ l + p < a + k
    BY <1>1, <1>2, <1>3, OwnedInPages
  <1> HIDE DEF Bytes, PageBytes
  <1>14. p \notin BootOwned <=> \A b \in PageBytes(p) :
                              /\ b >= LowReservedPages * PageSize
                              /\ b \notin meta .. meta + BitmapPages * PageSize - 1
                              /\ \A r \in boot : b \notin Bytes(r)
    BY <1>10, <1>11, <1>12, <1>13, Zenon
  <1> QED
    BY <1>8, <1>9, <1>14, Zenon

-----------------------------------------------------------------------------
(* The theorems about the boot.                                            *)

\* The loader, the order of the steps behind the jump, the probe, the imported
\* regions and the page bitmap.
BootInv == LoaderInv /\ OrderInv /\ TestOk /\ ProbeIsSpare /\ RegionsOk /\ PmmInv

\* The inductive invariant of the boot holds in every state.
THEOREM BootInvariant == Spec => []BootInv
  <1>1. Init => BootInv
    BY LoaderInvInit, OrderInit, TestInit, ProbeInit, RegionsInit, PmmStarts DEF BootInv
  <1>2. BootInv /\ [Next]_vars => BootInv'
    <2> SUFFICES ASSUME BootInv, [Next]_vars PROVE BootInv'
      OBVIOUS
    <2>1. LoaderInv /\ OrderInv /\ TestOk /\ ProbeIsSpare /\ RegionsOk /\ PmmInv
      BY DEF BootInv
    <2>2. LoaderInv' /\ OrderInv' /\ TestOk'
      BY <2>1, LoaderInvKept, OrderKept, TestKept
    <2>3. ProbeIsSpare' /\ RegionsOk' /\ PmmInv'
      BY <2>1, ProbeKept, RegionsKept, PmmKept
    <2> QED BY <2>2, <2>3 DEF BootInv
  <1> QED
    BY <1>1, <1>2, PTL DEF Spec

\* What the manifest says of the kernel's address space is what its page
\* tables say, at every step of the loader and after the import, and the
\* estimate of its size (EstimateBootMappingManifestSize) is never too small.
THEOREM ManifestIsTrue == Spec => []ManifestMatchesTables
  <1>1. BootInv => ManifestMatchesTables
    BY ManifestFromInvariants DEF BootInv
  <1> QED
    BY <1>1, BootInvariant, PTL

\* VerifyHhdm writes to no page of the capsule or of the page tables, and
\* only where the direct map is writable.
THEOREM ProbeIsHarmless == Spec => []ProbeIsSpare
  <1>1. BootInv => ProbeIsSpare
    BY DEF BootInv
  <1> QED
    BY <1>1, BootInvariant, PTL

\* The page bitmap and every page that the new allocator may hand out are
\* memory that the kernel can write and that holds no table and no page of
\* the capsule, whatever map the firmware gives.
THEOREM FreeMemoryIsSafe == Spec => []FreeMemoryIsSafeToUse
  <1>1. BootInv => FreeMemoryIsSafeToUse
    BY SafeFromInvariants DEF BootInv
  <1> QED
    BY <1>1, BootInvariant, PTL

\* KePmmInitFromBootMemoryMap leaves a page free if and only if a reclaimable
\* descriptor contains it and nothing that the boot left behind does.
THEOREM FreeMemoryIsExact == Spec => []FreeMemoryIsExactlyUsable
  <1>1. BootInv => FreeMemoryIsExactlyUsable
    BY ExactFromInvariants DEF BootInv
  <1> QED
    BY <1>1, BootInvariant, PTL
=============================================================================
