---------------------------- MODULE KeHeapProofs ----------------------------
(***************************************************************************)
(* Proofs about the kernel heap, for any number of threads, ranges and     *)
(* records, any classes that fit in a page and any width of size_t:        *)
(*                                                                         *)
(*   HeapAccounted   pages, blocks, free slots and counters agree, and the *)
(*                   diagnosis finds exactly what callers hold             *)
(*   BlocksDisjoint  kmalloc and kfree implement BlockAllocator            *)
(*                                                                         *)
(* Neither follows from the calls one by one: ranges are taken and given   *)
(* back between critical sections.  HeapInv adds what each call knows at   *)
(* each place (CallOk), the one use of each range (LinkedOk, RecordedOk,   *)
(* HeldOk, UsedOk) and whose each live block is (OwnedOk).  A step touches *)
(* one range and one call, so that most of the work is done once, in       *)
(* FrameStructure, and each action shows what it does to its own range.    *)
(***************************************************************************)
EXTENDS KeHeap, FiniteSetTheorems, SequenceTheorems, WellFoundedInduction, TLAPS

-----------------------------------------------------------------------------
(* The inductive invariant.                                                *)

\* The places of a call.
Places == {"out", "prepare", "fill", "link", "reserve", "record", "free", "release"}

\* The places where a call has a range in its hands.
Holding == {"fill", "link", "record", "release"}

\* What kmalloc returns.
Pointers == Ranges \X Nat

\* What a thread is doing.
Call == [at : Places, size : Nat, range : Ranges \cup {NULL}, pointer : Pointers \cup {NULL}]

\* An entry of gAllocatorLargeRecords.
Record == [pointer : Pointers \cup {NULL}, size : Nat, pages : Nat]

\* A block in the hands of a caller.
Block == [pointer : Pointers, size : Nat]

\* Types of the variables; a slab is typed by what its range is used for.
Types ==
  /\ pages \in [Ranges -> 0 .. WordValues]
  /\ lists \in [Classes -> Seq(Ranges)]
  /\ records \in [1 .. LargeRecords -> Record]
  /\ call \in [Threads -> Call]
  /\ owned \subseteq Block
  /\ slab = [r \in Ranges |-> slab[r]]

\* The slots of a slab of class c.
Slots(c) == 0 .. SlotsPerPage(c) - 1

\* A slab of class c: its list has exactly the free slots, each once.
SlabOk(s, c) ==
  /\ c \in Classes
  /\ s = [magic |-> "SLAB", class |-> c, free |-> s.free, used |-> s.used]
  /\ s.free \in Seq(Slots(c)) /\ s.used \in [Slots(c) -> 0 .. ClassSizes[c]]
  /\ \A k \in Slots(c) : s.used[k] = 0 <=> \E i \in DOMAIN s.free : s.free[i] = k
  /\ IsInjective(s.free)

\* What a range may be: a slab on the list of a class, the block of a record,
\* in the hands of a call.
In(r, c) == c \in Classes /\ \E i \in DOMAIN lists[c] : lists[c][i] = r

\* Range r is on the list of some class.
Linked(r) == \E c \in Classes : In(r, c)

\* Record i names range r.
Recorded(r, i) == i \in 1 .. LargeRecords /\ records[i] # NoRecord /\ records[i].pointer = <<r, 0>>

\* Range r is in the hands of the call of t.
Held(r, t) == t \in Threads /\ call[t].range = r

\* Slot k of range r is in use, and the block it is.
Live(r, k) == Linked(r) /\ k \in Slots(slab[r].class) /\ slab[r].used[k] # 0

\* The pointer the caller of slot k got.
SlotPointer(r, k) == <<r, UserOffset(slab[r].class, k)>>

\* The block of slot k.
SlotBlock(r, k) == [pointer |-> SlotPointer(r, k), size |-> slab[r].used[k]]

\* The block of record i.
RecordBlock(i) == [pointer |-> records[i].pointer, size |-> records[i].size]

\* Thread t frees p and has not yet found the slot.
Freeing(t, p) == t \in Threads /\ call[t].at = "free" /\ call[t].pointer = p

\* A linked range is one page with a well-formed slab of that class.
LinkedOk(r) == \A c \in Classes : In(r, c) => pages[r] = 1 /\ SlabOk(slab[r], c)

\* A recorded range backs its block, has no slab, and has one record.
RecordedOk(r) ==
  \A i \in 1 .. LargeRecords : Recorded(r, i) =>
     /\ pages[r] = records[i].pages /\ pages[r] # 0
     /\ records[i].size # 0 /\ records[i].size <= pages[r] * PageBytes
     /\ slab[r].magic # "SLAB"
     /\ \A j \in 1 .. LargeRecords : Recorded(r, j) => i = j

\* A range in the hands of a call has no other use.
HeldOk(r) ==
  \A t \in Threads : Held(r, t) =>
     /\ ~Linked(r) /\ \A i \in 1 .. LargeRecords : ~Recorded(r, i)
     /\ \A u \in Threads : Held(r, u) => u = t

\* A range in use has a use; a slab header is on a list or about to be linked.
UsedOk(r) ==
  /\ pages[r] # 0 => \/ Linked(r) \/ \E i \in 1 .. LargeRecords : Recorded(r, i)
                     \/ \E t \in Threads : Held(r, t)
  /\ slab[r].magic = "SLAB" => Linked(r) \/ \E t \in Threads : Held(r, t) /\ call[t].at = "link"

\* Live blocks are owned or being freed, and what is owned or being freed is live, once.
OwnedOk(r) ==
  /\ \A k \in Nat : Live(r, k) =>
        SlotBlock(r, k) \in owned \/ \E t \in Threads : Freeing(t, SlotPointer(r, k))
  /\ \A i \in 1 .. LargeRecords : Recorded(r, i) => RecordBlock(i) \in owned
  /\ \A b \in owned : b.pointer[1] = r =>
        \/ \E k \in Nat : Live(r, k) /\ b = SlotBlock(r, k)
        \/ \E i \in 1 .. LargeRecords : Recorded(r, i) /\ b = RecordBlock(i)
  /\ \A t \in Threads, p \in Pointers : Freeing(t, p) /\ p[1] = r =>
        /\ \E k \in Nat : Live(r, k) /\ p = SlotPointer(r, k)
        /\ \A b \in owned : b.pointer # p
        /\ \A u \in Threads : Freeing(u, p) => u = t

\* All that holds of one range.
RangeOk(r) == LinkedOk(r) /\ RecordedOk(r) /\ HeldOk(r) /\ UsedOk(r) /\ OwnedOk(r)

\* What a call knows at each place.
CallOk(t) ==
  LET c == call[t] IN
  /\ c.at \in Holding <=> c.range # NULL
  /\ c.at = "free" => c.pointer # NULL
  /\ c.at \in Holding => pages[c.range] # 0
  /\ c.at \in {"prepare", "fill", "link"} => c.size # 0 /\ SmallClass(c.size) # 0
  /\ c.at \in {"reserve", "record"} => c.size \in Sizes /\ PageCount(c.size) # 0
  /\ c.at \in {"fill", "link"} => pages[c.range] = 1
  /\ c.at = "record" => pages[c.range] = PageCount(c.size)
  /\ c.at = "link" => slab[c.range] = PreparedSlab(SmallClass(c.size))
  /\ c.at \in {"fill", "record", "release"} => slab[c.range].magic # "SLAB"

\* No slab is twice on a list.
ListsOk == \A c \in Classes : IsInjective(lists[c])

\* A record in use names a range.
RecordsOk == \A i \in 1 .. LargeRecords : records[i] # NoRecord => \E r \in Ranges : Recorded(r, i)

\* The calls are well formed.
CallsOk == \A t \in Threads : CallOk(t)

\* The ranges are well formed.
RangesOk == \A r \in Ranges : RangeOk(r)

\* The counters.
PagePairs == {x \in LiveRecords \X (1 .. WordValues) : x[2] <= records[x[1]].pages}

\* The counters agree with the live blocks and their pages.
CountsOk ==
  stats = [live |-> Cardinality(LiveSlots) + Cardinality(LiveRecords),
           small |-> Cardinality(LiveSlots), large |-> Cardinality(LiveRecords),
           backing |-> PageBytes * (Cardinality(Listed) + Cardinality(PagePairs))]

\* The inductive invariant without the counters.
Structure == Types /\ ListsOk /\ RecordsOk /\ CallsOk /\ RangesOk

\* The inductive invariant.
HeapInv == Structure /\ CountsOk

-----------------------------------------------------------------------------
(* Sizes and slots.                                                        *)

\* The assumptions on the sizes, as facts.
LEMMA ByteFacts ==
  /\ LargeRecords \in Nat /\ PageBytes \in Nat /\ PageBytes > 0
  /\ WordValues \in Nat /\ PageBytes <= WordValues
  /\ HeaderBytes \in Nat /\ HeaderBytes > 0 /\ SlotBytes \in Nat /\ SlotBytes > 0
  BY HeapAssumption

\* The sizes of one class.
LEMMA ClassFacts ==
  ASSUME NEW c \in Classes
  PROVE  /\ ClassSizes[c] \in Nat /\ ClassSizes[c] > 0
         /\ SlotStride(c) \in Nat /\ SlotStride(c) > ClassSizes[c] /\ SlotStride(c) > 0
         /\ SlotStride(c) = SlotBytes + ClassSizes[c]
         /\ HeaderBytes + SlotStride(c) <= PageBytes
  <1>1. ClassSizes \in Seq(Nat \ {0})
    BY HeapAssumption
  <1>2. ClassSizes[c] \in Nat \ {0}
    BY <1>1 DEF Classes
  <1>3. HeaderBytes + SlotBytes + ClassSizes[c] <= PageBytes
    BY HeapAssumption
  <1> QED
    BY <1>2, <1>3, ByteFacts DEF SlotStride

\* Division: where q * d lies, and what is less than a whole d beyond it.
LEMMA Quotient ==
  ASSUME NEW d \in Nat, d > 0, NEW q \in Nat, NEW x \in Nat, x < d
  PROVE  (q * d + x) \div d = q /\ (q * d + x) % d = x
  OBVIOUS

\* What division leaves.
LEMMA QuotientBound ==
  ASSUME NEW d \in Nat, d > 0, NEW n \in Nat
  PROVE  /\ n \div d \in Nat
         /\ (n \div d) * d <= n
         /\ n < (n \div d) * d + d
  OBVIOUS

\* One factor more.
LEMMA ProductGrows ==
  ASSUME NEW d \in Nat, NEW k \in Nat, NEW l \in Nat, k < l
  PROVE  k * d + d <= l * d
  <1>1. (k + 1) * d <= l * d
    OBVIOUS
  <1>2. (k + 1) * d = k * d + d
    OBVIOUS
  <1> QED
    BY <1>1, <1>2

\* A page has room for at least one slot, and for all that are counted.
LEMMA SlotCount ==
  ASSUME NEW c \in Classes
  PROVE  /\ SlotsPerPage(c) \in Nat /\ SlotsPerPage(c) > 0
         /\ SlotsPerPage(c) * SlotStride(c) <= PageBytes - HeaderBytes
  <1> DEFINE d == SlotStride(c)
             n == PageBytes - HeaderBytes
             q == n \div d
  <1>1. d \in Nat /\ d > 0 /\ n \in Nat /\ d <= n
    BY ClassFacts, ByteFacts
  <1>2. SlotsPerPage(c) = q
    BY DEF SlotsPerPage
  <1> HIDE DEF d, n
  <1>3. q \in Nat /\ q * d <= n /\ n < q * d + d
    BY <1>1, QuotientBound
  <1>4. q # 0
    BY <1>1, <1>3
  <1> QED
    BY <1>2, <1>3, <1>4 DEF d, n

\* Where a slot begins.
LEMMA OffsetFacts ==
  ASSUME NEW c \in Classes, NEW k \in Nat
  PROVE  /\ UserOffset(c, k) \in Nat /\ UserOffset(c, k) > 0
         /\ UserOffset(c, k) = k * SlotStride(c) + HeaderBytes + SlotBytes
         /\ UserOffset(c, k) >= HeaderBytes + SlotBytes
  <1>1. SlotStride(c) \in Nat
    BY ClassFacts
  <1>2. k * SlotStride(c) \in Nat
    BY <1>1
  <1> QED
    BY <1>1, <1>2, ByteFacts DEF UserOffset

\* Slots do not overlap, and all of them lie in the page.
LEMMA OffsetsApart ==
  ASSUME NEW c \in Classes, NEW k \in Nat, NEW l \in Nat, k < l
  PROVE  UserOffset(c, k) + SlotStride(c) <= UserOffset(c, l)
  <1>1. SlotStride(c) \in Nat
    BY ClassFacts
  <1>2. k * SlotStride(c) + SlotStride(c) <= l * SlotStride(c)
    BY <1>1, ProductGrows
  <1>3. k * SlotStride(c) \in Nat /\ l * SlotStride(c) \in Nat
    BY <1>1
  <1>4. UserOffset(c, k) = k * SlotStride(c) + HeaderBytes + SlotBytes
        /\ UserOffset(c, l) = l * SlotStride(c) + HeaderBytes + SlotBytes
    BY OffsetFacts
  <1> QED
    BY <1>1, <1>2, <1>3, <1>4, ByteFacts

\* Different slots begin at different bytes.
LEMMA OffsetsDiffer ==
  ASSUME NEW c \in Classes, NEW k \in Nat, NEW l \in Nat, UserOffset(c, k) = UserOffset(c, l)
  PROVE  k = l
  <1>1. UserOffset(c, k) \in Nat /\ UserOffset(c, l) \in Nat
    BY OffsetFacts
  <1>2. SlotStride(c) \in Nat /\ SlotStride(c) > 0
    BY ClassFacts
  <1>3. ~(k < l)
    BY <1>1, <1>2, OffsetsApart
  <1>4. ~(l < k)
    BY <1>1, <1>2, OffsetsApart
  <1> QED
    BY <1>3, <1>4

\* The bytes of a slot lie in the page.
LEMMA OffsetInPage ==
  ASSUME NEW c \in Classes, NEW k \in Slots(c)
  PROVE  k \in Nat /\ UserOffset(c, k) + ClassSizes[c] <= PageBytes
  <1>1. SlotsPerPage(c) \in Nat /\ k \in Nat /\ k < SlotsPerPage(c)
    BY SlotCount DEF Slots
  <1>2. SlotStride(c) \in Nat /\ SlotStride(c) = SlotBytes + ClassSizes[c] /\ ClassSizes[c] \in Nat
    BY ClassFacts
  <1>3. k * SlotStride(c) + SlotStride(c) <= SlotsPerPage(c) * SlotStride(c)
    BY <1>1, <1>2, ProductGrows
  <1>4. k * SlotStride(c) \in Nat /\ SlotsPerPage(c) * SlotStride(c) \in Nat
    BY <1>1, <1>2
  <1>5. UserOffset(c, k) = k * SlotStride(c) + HeaderBytes + SlotBytes
    BY <1>1, OffsetFacts
  <1> QED
    BY <1>1, <1>2, <1>3, <1>4, <1>5, SlotCount, ByteFacts

\* The slot that a byte of a slot's block belongs to.
LEMMA SlotOfByte ==
  ASSUME NEW c \in Classes, NEW k \in Nat, NEW x \in Nat, x < SlotStride(c)
  PROVE  /\ (UserOffset(c, k) + x - HeaderBytes - SlotBytes) \div SlotStride(c) = k
         /\ (UserOffset(c, k) + x - HeaderBytes - SlotBytes) % SlotStride(c) = x
         /\ UserOffset(c, k) + x - HeaderBytes - SlotBytes \in Nat
  <1>1. SlotStride(c) \in Nat /\ SlotStride(c) > 0
    BY ClassFacts
  <1>2. k * SlotStride(c) \in Nat
    BY <1>1
  <1>3. UserOffset(c, k) + x - HeaderBytes - SlotBytes = k * SlotStride(c) + x
    BY <1>2, OffsetFacts, ByteFacts
  <1>4. (k * SlotStride(c) + x) \div SlotStride(c) = k /\ (k * SlotStride(c) + x) % SlotStride(c) = x
    BY <1>1, Quotient
  <1> QED
    BY <1>2, <1>3, <1>4

\* Every set of naturals with a member has a least one.
LEMMA LeastOf ==
  ASSUME NEW T \in SUBSET Nat, T # {}
  PROVE  \E n \in T : \A m \in T : n <= m
<1>1. PICK N \in T : TRUE
  OBVIOUS
<1> DEFINE I(k) == 1 .. k
           SS == {I(k) : k \in {j \in T : j <= N}}
<1>2. IsFiniteSet(1 .. N)
  BY <1>1, FS_Interval
<1>3. IsWellFoundedOn(StrictSubsetOrdering(1 .. N), FiniteSubsetsOf(1 .. N))
  BY <1>2, FS_StrictSubsetOrderingWellFounded
<1>4. FiniteSubsetsOf(1 .. N) = SUBSET (1 .. N)
  BY <1>2, FS_FiniteSubsetsOfFinite
<1>5. SS \subseteq SUBSET (1 .. N) /\ SS # {}
  BY <1>1
<1>6. PICK x \in SS : \A y \in SS : ~ (<<y, x>> \in StrictSubsetOrdering(1 .. N))
  <2>1. IsWellFoundedOn(StrictSubsetOrdering(1 .. N), SUBSET (1 .. N))
    BY <1>3, <1>4
  <2> DEFINE R == StrictSubsetOrdering(1 .. N)
             U == SUBSET (1 .. N)
  <2>2. IsWellFoundedOn(R, U) /\ SS \subseteq U /\ SS # {}
    BY <2>1, <1>5
  <2> HIDE DEF R, U, SS
  <2>3. \E z \in SS : \A y \in SS : ~ (<<y, z>> \in R)
    BY <2>2, WFMin, Zenon
  <2> QED BY <2>3 DEF R
<1>7. PICK n \in T : n <= N /\ x = 1 .. n
  BY <1>6
<1>8. ASSUME NEW m \in T, m < n PROVE FALSE
  <2>1. 1 .. m \in SS
    BY <1>7, <1>8
  <2>2. 1 .. m \subseteq 1 .. n
    BY <1>8
  <2>3. n \in 1 .. n /\ n \notin 1 .. m
    BY <1>8
  <2>4. <<1 .. m, x>> \in StrictSubsetOrdering(1 .. N)
    BY <2>1, <2>2, <2>3, <1>5, <1>7, <1>4 DEF StrictSubsetOrdering
  <2> QED BY <2>1, <2>4, <1>6
<1> QED BY <1>7, <1>8

\* The class found has room for the size.
LEMMA SmallClassFacts ==
  ASSUME NEW size \in Nat, SmallClass(size) # 0
  PROVE  SmallClass(size) \in Classes /\ size <= ClassSizes[SmallClass(size)]
  <1> DEFINE fit == {c \in Classes : size <= ClassSizes[c]}
  <1>1. fit # {}
    BY DEF SmallClass
  <1>2. Len(ClassSizes) \in Nat
    BY HeapAssumption
  <1>3. \E c \in fit : \A d \in fit : c <= d
    <2>1. fit \subseteq Nat
      BY <1>2 DEF Classes
    <2> HIDE DEF fit
    <2> QED
      BY <1>1, <2>1, LeastOf
  <1>4. SmallClass(size) = CHOOSE c \in fit : \A d \in fit : c <= d
    BY <1>1 DEF SmallClass
  <1>5. SmallClass(size) \in fit
    <2> HIDE DEF fit
    <2> QED
      BY <1>3, <1>4
  <1> QED
    BY <1>5

\* The page count of a size: when it does not wrap to none, it covers the size.
LEMMA PageCountFacts ==
  ASSUME NEW size \in Sizes
  PROVE  /\ PageCount(size) \in 0 .. WordValues
         /\ PageCount(size) # 0 => size # 0 /\ size <= PageCount(size) * PageBytes
  <1> DEFINE sum == size + PageBytes - 1
             n == sum % WordValues
  <1>1. size \in Nat /\ size < WordValues /\ sum \in Nat
    BY HeapAssumption
  <1>2. PageCount(size) = n \div PageBytes
    BY DEF PageCount
  <1>3. sum < WordValues => n = sum
    BY <1>1, ByteFacts
  <1>4. ~(sum < WordValues) => n = sum - WordValues
    <2> SUFFICES ASSUME ~(sum < WordValues) PROVE n = sum - WordValues
      OBVIOUS
    <2>1. sum - WordValues \in Nat /\ sum - WordValues < WordValues
      BY <1>1, ByteFacts
    <2>2. sum = 1 * WordValues + (sum - WordValues)
      BY <1>1, ByteFacts
    <2> HIDE DEF sum
    <2>3. (1 * WordValues + (sum - WordValues)) % WordValues = sum - WordValues
      BY <2>1, ByteFacts, Quotient
    <2> QED
      BY <2>2, <2>3
  <1>5. n \in Nat /\ n < WordValues
    BY <1>1, ByteFacts
  <1>6. n \div PageBytes \in Nat /\ (n \div PageBytes) * PageBytes <= n
        /\ n < (n \div PageBytes) * PageBytes + PageBytes
    <2> HIDE DEF n
    <2> QED
      BY <1>5, ByteFacts, QuotientBound
  <1> HIDE DEF n
  <1> DEFINE q == n \div PageBytes
  <1>7. q \in 0 .. WordValues
    <2>1. q \in Nat /\ q * PageBytes < WordValues
      BY <1>5, <1>6, ByteFacts
    <2> HIDE DEF q
    <2>2. q <= q * PageBytes
      BY <2>1, ByteFacts
    <2>3. q * PageBytes \in Nat
      BY <2>1, ByteFacts
    <2> QED
      BY <2>1, <2>2, <2>3, ByteFacts
  <1>8. n < PageBytes => q = 0
    <2>1. q \in Nat /\ q * PageBytes <= n
      BY <1>6
    <2> HIDE DEF q
    <2>2. q # 0 => PageBytes <= q * PageBytes
      BY <2>1, ByteFacts
    <2>3. q * PageBytes \in Nat
      BY <2>1, ByteFacts
    <2> QED
      BY <2>1, <2>2, <2>3, <1>5, ByteFacts
  <1>9. ASSUME q # 0 PROVE size # 0 /\ size <= q * PageBytes
    <2>1. n >= PageBytes
      BY <1>8, <1>9, <1>5, ByteFacts
    <2>2. sum < WordValues
      BY <2>1, <1>1, <1>4, ByteFacts
    <2>3. n = size + PageBytes - 1
      BY <1>3, <2>2
    <2>4. q * PageBytes \in Nat /\ n < q * PageBytes + PageBytes
      BY <1>6, ByteFacts
    <2> HIDE DEF q
    <2> QED
      BY <2>1, <2>3, <2>4, <1>1, ByteFacts
  <1> QED
    BY <1>2, <1>7, <1>9

\* What stands in a list.
Member(x, q) == \E i \in DOMAIN q : q[i] = x

\* A new head.
LEMMA ConsFacts ==
  ASSUME NEW S, NEW q \in Seq(S), NEW x \in S
  PROVE  /\ <<x>> \o q \in Seq(S)
         /\ \A y : Member(y, <<x>> \o q) <=> y = x \/ Member(y, q)
         /\ IsInjective(q) /\ ~Member(x, q) => IsInjective(<<x>> \o q)
         /\ Len(<<x>> \o q) = Len(q) + 1
  <1> DEFINE p == <<x>> \o q
  <1>1. p \in Seq(S) /\ Len(p) = Len(q) + 1 /\ Len(q) \in Nat
    OBVIOUS
  <1>2. p[1] = x /\ \A i \in 1 .. Len(q) : p[i + 1] = q[i]
    OBVIOUS
  <1>3. DOMAIN p = 1 .. Len(q) + 1 /\ DOMAIN q = 1 .. Len(q)
    BY <1>1
  <1> HIDE DEF p
  <1>4. \A i \in 2 .. Len(q) + 1 : i - 1 \in 1 .. Len(q) /\ p[i] = q[i - 1]
    <2> TAKE i \in 2 .. Len(q) + 1
    <2>1. i - 1 \in 1 .. Len(q) /\ (i - 1) + 1 = i
      BY <1>1
    <2> QED
      BY <2>1, <1>2
  <1>5. \A i \in DOMAIN p : i = 1 \/ i \in 2 .. Len(q) + 1
    BY <1>1, <1>3
  <1>6. ASSUME NEW y PROVE Member(y, p) <=> y = x \/ Member(y, q)
    <2>1. ASSUME Member(y, p) PROVE y = x \/ Member(y, q)
      BY <2>1, <1>2, <1>3, <1>4, <1>5, SMTT(60) DEF Member
    <2>2. ASSUME y = x PROVE Member(y, p)
      <3>1. 1 \in DOMAIN p
        BY <1>1, <1>3
      <3> QED
        BY <3>1, <2>2, <1>2 DEF Member
    <2>3. ASSUME Member(y, q) PROVE Member(y, p)
      <3>1. PICK i \in 1 .. Len(q) : q[i] = y
        BY <2>3, <1>3 DEF Member
      <3>2. i + 1 \in DOMAIN p /\ p[i + 1] = y
        BY <3>1, <1>1, <1>2, <1>3
      <3> QED
        BY <3>2 DEF Member
    <2> QED
      BY <2>1, <2>2, <2>3
  <1>7. ASSUME IsInjective(q), ~Member(x, q) PROVE IsInjective(p)
    <2>1. SUFFICES ASSUME NEW i \in DOMAIN p, NEW j \in DOMAIN p, p[i] = p[j] PROVE i = j
      BY DEF IsInjective
    <2>2. CASE i = 1 /\ j = 1
      BY <2>2
    <2>3. CASE i = 1 /\ j \in 2 .. Len(q) + 1
      <3>1. j - 1 \in DOMAIN q /\ q[j - 1] = x
        BY <2>1, <2>3, <1>2, <1>3, <1>4
      <3> QED
        BY <3>1, <1>7 DEF Member
    <2>4. CASE i \in 2 .. Len(q) + 1 /\ j = 1
      <3>1. i - 1 \in DOMAIN q /\ q[i - 1] = x
        BY <2>1, <2>4, <1>2, <1>3, <1>4
      <3> QED
        BY <3>1, <1>7 DEF Member
    <2>5. CASE i \in 2 .. Len(q) + 1 /\ j \in 2 .. Len(q) + 1
      <3>1. i - 1 \in DOMAIN q /\ j - 1 \in DOMAIN q /\ q[i - 1] = q[j - 1]
        BY <2>1, <2>5, <1>3, <1>4
      <3>2. i - 1 = j - 1
        BY <3>1, <1>7 DEF IsInjective
      <3> QED
        BY <3>2, <2>5, <1>1
    <2> QED
      BY <1>5, <2>2, <2>3, <2>4, <2>5
  <1> QED
    BY <1>1, <1>6, <1>7 DEF p

\* An entry taken out.
LEMMA RemoveFacts ==
  ASSUME NEW S, NEW q \in Seq(S), IsInjective(q), NEW a \in DOMAIN q
  PROVE  /\ RemoveAt(q, a) \in Seq(S)
         /\ \A y : Member(y, RemoveAt(q, a)) <=> Member(y, q) /\ y # q[a]
         /\ IsInjective(RemoveAt(q, a))
         /\ Len(RemoveAt(q, a)) = Len(q) - 1
  <1> DEFINE p == RemoveAt(q, a)
             n == Len(q)
  <1>1. n \in Nat /\ a \in 1 .. n /\ DOMAIN q = 1 .. n
    OBVIOUS
  <1>2. SubSeq(q, 1, a - 1) \in Seq(S) /\ Len(SubSeq(q, 1, a - 1)) = a - 1
        /\ \A i \in 1 .. a - 1 : SubSeq(q, 1, a - 1)[i] = q[i]
    BY <1>1
  <1>3. SubSeq(q, a + 1, n) \in Seq(S) /\ Len(SubSeq(q, a + 1, n)) = n - a
        /\ \A i \in 1 .. n - a : SubSeq(q, a + 1, n)[i] = q[a + i]
    BY <1>1
  <1> DEFINE u == SubSeq(q, 1, a - 1)
             w == SubSeq(q, a + 1, n)
             at(i) == IF i < a THEN i ELSE i + 1
  <1>4. p = u \o w
    BY DEF RemoveAt
  <1>u. u \in Seq(S) /\ Len(u) = a - 1 /\ \A i \in 1 .. a - 1 : u[i] = q[i]
    BY <1>2
  <1>w. w \in Seq(S) /\ Len(w) = n - a /\ \A i \in 1 .. n - a : w[i] = q[a + i]
    BY <1>3
  <1> HIDE DEF p, n, u, w
  <1>5. p \in Seq(S) /\ Len(p) = n - 1
    <2>1. u \o w \in Seq(S) /\ Len(u \o w) = Len(u) + Len(w)
      BY <1>u, <1>w, ConcatProperties, Zenon
    <2>2. Len(u \o w) = n - 1
      <3>1. Len(u) + Len(w) = n - 1
        BY <1>1, <1>u, <1>w
      <3> QED
        BY <3>1, <2>1, Zenon
    <2> QED
      BY <2>1, <2>2, <1>4, Zenon
  <1>6. \A i \in 1 .. n - 1 : p[i] = q[at(i)]
    <2> TAKE i \in 1 .. n - 1
    <2>0. (u \o w)[i] = IF i <= Len(u) THEN u[i] ELSE w[i - Len(u)]
      BY <1>1, <1>u, <1>w
    <2>1. CASE i < a
      <3>1. i \in 1 .. a - 1 /\ i <= Len(u)
        BY <2>1, <1>1, <1>u
      <3> QED
        BY <3>1, <2>0, <2>1, <1>4, <1>u
    <2>2. CASE ~(i < a)
      <3>1. i - (a - 1) \in 1 .. n - a /\ a + (i - (a - 1)) = i + 1 /\ ~(i <= Len(u))
        BY <2>2, <1>1, <1>u
      <3>2. p[i] = w[i - (a - 1)]
        BY <3>1, <2>0, <1>4, <1>u
      <3>3. w[i - (a - 1)] = q[a + (i - (a - 1))]
        BY <3>1, <1>w
      <3> QED
        BY <3>1, <3>2, <3>3, <2>2
    <2> QED
      BY <2>1, <2>2
  <1>7. DOMAIN p = 1 .. n - 1
    BY <1>5
  <1>8. \A i \in 1 .. n - 1 : at(i) \in 1 .. n /\ at(i) # a
    BY <1>1
  <1>9. \A i, j \in 1 .. n - 1 : at(i) = at(j) => i = j
    BY <1>1
  <1>10. \A k \in 1 .. n : k # a => \E i \in 1 .. n - 1 : at(i) = k
    <2> TAKE k \in 1 .. n
    <2> HAVE k # a
    <2>1. CASE k < a
      <3>1. k \in 1 .. n - 1 /\ at(k) = k
        BY <2>1, <1>1
      <3> QED
        BY <3>1
    <2>2. CASE k > a
      <3>1. k - 1 \in 1 .. n - 1 /\ at(k - 1) = k
        BY <2>2, <1>1
      <3> QED
        BY <3>1
    <2> QED
      BY <1>1, <2>1, <2>2
  <1> HIDE DEF at
  <1>11. ASSUME NEW y PROVE Member(y, p) <=> Member(y, q) /\ y # q[a]
    <2>1. ASSUME Member(y, p) PROVE Member(y, q) /\ y # q[a]
      <3>1. PICK i \in 1 .. n - 1 : p[i] = y
        BY <2>1, <1>7 DEF Member
      <3>2. at(i) \in DOMAIN q /\ q[at(i)] = y /\ at(i) # a
        BY <3>1, <1>1, <1>6, <1>8
      <3> QED
        BY <3>2, <1>1 DEF Member, IsInjective
    <2>2. ASSUME Member(y, q), y # q[a] PROVE Member(y, p)
      <3>1. PICK k \in 1 .. n : q[k] = y
        BY <2>2, <1>1 DEF Member
      <3>2. PICK i \in 1 .. n - 1 : at(i) = k
        BY <3>1, <2>2, <1>10
      <3>3. i \in DOMAIN p /\ p[i] = y
        BY <3>1, <3>2, <1>6, <1>7
      <3> QED
        BY <3>3 DEF Member
    <2> QED
      BY <2>1, <2>2
  <1>12. IsInjective(p)
    <2>1. SUFFICES ASSUME NEW i \in 1 .. n - 1, NEW j \in 1 .. n - 1, p[i] = p[j] PROVE i = j
      BY <1>7 DEF IsInjective
    <2>2. q[at(i)] = q[at(j)] /\ at(i) \in DOMAIN q /\ at(j) \in DOMAIN q
      BY <2>1, <1>1, <1>6, <1>8
    <2>3. at(i) = at(j)
      BY <2>2 DEF IsInjective
    <2> QED
      BY <2>3, <1>9
  <1> QED
    BY <1>5, <1>11, <1>12 DEF p, n

\* The head taken off.
LEMMA TailFacts ==
  ASSUME NEW S, NEW q \in Seq(S), q # << >>
  PROVE  /\ Head(q) \in S /\ Member(Head(q), q)
         /\ Tail(q) \in Seq(S)
         /\ IsInjective(q) => /\ IsInjective(Tail(q))
                              /\ \A y : Member(y, Tail(q)) <=> Member(y, q) /\ y # Head(q)
  <1>1. Len(q) \in Nat /\ Len(q) # 0 /\ DOMAIN q = 1 .. Len(q) /\ Head(q) = q[1] /\ Head(q) \in S
        /\ Tail(q) \in Seq(S) /\ Len(Tail(q)) = Len(q) - 1
    OBVIOUS
  <1>2. DOMAIN Tail(q) = 1 .. Len(q) - 1 /\ \A i \in 1 .. Len(q) - 1 : Tail(q)[i] = q[i + 1]
    BY <1>1
  <1>3. Member(Head(q), q)
    <2>1. 1 \in DOMAIN q
      BY <1>1
    <2> QED
      BY <2>1, <1>1 DEF Member
  <1>4. \A i \in 1 .. Len(q) - 1 : i + 1 \in DOMAIN q /\ i + 1 # 1
    BY <1>1
  <1>5. ASSUME IsInjective(q)
        PROVE  /\ IsInjective(Tail(q))
               /\ \A y : Member(y, Tail(q)) <=> Member(y, q) /\ y # Head(q)
    <2>1. IsInjective(Tail(q))
      <3>1. SUFFICES ASSUME NEW i \in 1 .. Len(q) - 1, NEW j \in 1 .. Len(q) - 1, Tail(q)[i] = Tail(q)[j]
                     PROVE  i = j
        BY <1>2 DEF IsInjective
      <3>2. i + 1 = j + 1
        BY <3>1, <1>2, <1>4, <1>5 DEF IsInjective
      <3> QED
        BY <3>2, <1>1
    <2>2. ASSUME NEW y, Member(y, Tail(q)) PROVE Member(y, q) /\ y # Head(q)
      <3>1. PICK i \in 1 .. Len(q) - 1 : Tail(q)[i] = y
        BY <2>2, <1>2 DEF Member
      <3>2. i + 1 \in DOMAIN q /\ q[i + 1] = y /\ i + 1 # 1 /\ 1 \in DOMAIN q
        BY <3>1, <1>1, <1>2, <1>4
      <3> QED
        BY <3>2, <1>1, <1>5 DEF Member, IsInjective
    <2>3. ASSUME NEW y, Member(y, q), y # Head(q) PROVE Member(y, Tail(q))
      <3>1. PICK i \in 1 .. Len(q) : q[i] = y
        BY <2>3, <1>1 DEF Member
      <3>2. i - 1 \in 1 .. Len(q) - 1 /\ (i - 1) + 1 = i
        BY <3>1, <2>3, <1>1
      <3>3. i - 1 \in DOMAIN Tail(q) /\ Tail(q)[i - 1] = y
        BY <3>1, <3>2, <1>2
      <3> QED
        BY <3>3 DEF Member
    <2> QED
      BY <2>1, <2>2, <2>3
  <1> QED
    BY <1>1, <1>3, <1>5

-----------------------------------------------------------------------------
(* Slabs.                                                                  *)

\* A well-formed slab, with the members of its list.
LEMMA SlabFacts ==
  ASSUME NEW s, NEW c, SlabOk(s, c)
  PROVE  /\ c \in Classes /\ s.class = c /\ s.magic = "SLAB"
         /\ s.free \in Seq(Slots(c)) /\ s.used \in [Slots(c) -> 0 .. ClassSizes[c]]
         /\ \A k \in Slots(c) : s.used[k] = 0 <=> Member(k, s.free)
         /\ IsInjective(s.free)
  <1>1. s = [magic |-> "SLAB", class |-> c, free |-> s.free, used |-> s.used]
    BY DEF SlabOk
  <1>2. s.class = c /\ s.magic = "SLAB"
    BY <1>1
  <1> QED
    BY <1>2, Zenon DEF SlabOk, Member

\* A page as KiAllocatorPrepareSmallPage leaves it.
LEMMA PreparedIsOk ==
  ASSUME NEW c \in Classes
  PROVE  /\ SlabOk(PreparedSlab(c), c)
         /\ \A k \in Slots(c) : PreparedSlab(c).used[k] = 0
         /\ PreparedSlab(c).free # << >>
  <1> DEFINE n == SlotsPerPage(c)
             f == [i \in 1 .. n |-> n - i]
             u == [s \in 0 .. n - 1 |-> 0]
  <1>1. n \in Nat /\ n > 0
    BY SlotCount
  <1>2. PreparedSlab(c) = [magic |-> "SLAB", class |-> c, free |-> f, used |-> u]
    BY DEF PreparedSlab
  <1>3. Slots(c) = 0 .. n - 1
    BY DEF Slots
  <1> HIDE DEF n
  <1>4. f \in Seq(Slots(c)) /\ DOMAIN f = 1 .. n
    <2>1. \A i \in 1 .. n : n - i \in 0 .. n - 1
      BY <1>1
    <2>2. f \in [1 .. n -> Slots(c)]
      BY <2>1, <1>3
    <2> QED
      BY <2>2, <1>1
  <1>5. IsInjective(f)
    BY <1>1 DEF IsInjective
  <1>6. \A k \in Slots(c) : \E i \in DOMAIN f : f[i] = k
    <2> TAKE k \in Slots(c)
    <2>1. n - k \in 1 .. n /\ n - (n - k) = k
      BY <1>1, <1>3
    <2> QED
      BY <2>1, <1>4
  <1>7. u \in [Slots(c) -> 0 .. ClassSizes[c]] /\ \A k \in Slots(c) : u[k] = 0
    BY <1>3, ClassFacts
  <1>8. f # << >>
    BY <1>1, <1>4
  <1> HIDE DEF f, u
  <1>9. PreparedSlab(c).free = f /\ PreparedSlab(c).used = u
    BY <1>2
  <1> QED
    BY <1>2, <1>4, <1>5, <1>6, <1>7, <1>8, <1>9 DEF SlabOk

\* A slot taken: it was free, and it is the only one that changes.
LEMMA TakenIsOk ==
  ASSUME NEW s, NEW c, SlabOk(s, c), s.free # << >>,
         NEW size \in Nat, size # 0, size <= ClassSizes[c]
  PROVE  /\ Head(s.free) \in Slots(c) /\ s.used[Head(s.free)] = 0
         /\ SlabOk(SlotTaken(s, size), c)
         /\ SlotTaken(s, size).used = [s.used EXCEPT ![Head(s.free)] = size]
  <1> DEFINE h == Head(s.free)
             f == Tail(s.free)
             u == [s.used EXCEPT ![h] = size]
             n == SlotTaken(s, size)
  <1>1. /\ c \in Classes /\ s.class = c /\ s.magic = "SLAB"
        /\ s.free \in Seq(Slots(c)) /\ s.used \in [Slots(c) -> 0 .. ClassSizes[c]]
        /\ \A k \in Slots(c) : s.used[k] = 0 <=> Member(k, s.free)
        /\ IsInjective(s.free)
    BY SlabFacts
  <1>2. /\ h \in Slots(c) /\ Member(h, s.free) /\ f \in Seq(Slots(c)) /\ IsInjective(f)
        /\ \A y : Member(y, f) <=> Member(y, s.free) /\ y # h
    BY <1>1, TailFacts
  <1>3. n = [magic |-> "SLAB", class |-> c, free |-> f, used |-> u]
    <2>1. s = [magic |-> "SLAB", class |-> c, free |-> s.free, used |-> s.used]
      BY DEF SlabOk
    <2> DEFINE x == s.free
               y == s.used
    <2>2. n = [[magic |-> "SLAB", class |-> c, free |-> x, used |-> y]
                 EXCEPT !.free = f, !.used = u]
      BY <2>1 DEF SlotTaken
    <2> HIDE DEF x, y, f, u
    <2> QED
      BY <2>2
  <1>4. n.free = f /\ n.used = u
    BY <1>3
  <1>5. u \in [Slots(c) -> 0 .. ClassSizes[c]]
    <2>1. size \in 0 .. ClassSizes[c]
      BY <1>1, ClassFacts
    <2> QED
      BY <2>1, <1>1
  <1>6. \A k \in Slots(c) : u[k] = IF k = h THEN size ELSE s.used[k]
    BY <1>1
  <1>7. \A k \in Slots(c) : u[k] = 0 <=> Member(k, f)
    <2> HIDE DEF h, u, f
    <2> QED
      BY <1>1, <1>2, <1>6
  <1> HIDE DEF f, u, n, h
  <1>8. SlabOk(n, c)
    <2>1. \A k \in Slots(c) : n.used[k] = 0 <=> \E i \in DOMAIN n.free : n.free[i] = k
      BY <1>4, <1>7, Zenon DEF Member
    <2> QED
      BY <2>1, <1>1, <1>2, <1>3, <1>4, <1>5 DEF SlabOk
  <1>9. s.used[h] = 0
    BY <1>1, <1>2
  <1> QED
    BY <1>2, <1>4, <1>8, <1>9 DEF u, n, h

\* A slot given back.
LEMMA ReturnedIsOk ==
  ASSUME NEW s, NEW c, SlabOk(s, c), NEW k \in Slots(c), s.used[k] # 0
  PROVE  /\ SlabOk(SlotReturned(s, k), c)
         /\ SlotReturned(s, k).used = [s.used EXCEPT ![k] = 0]
         /\ SlotReturned(s, k).free = <<k>> \o s.free
  <1> DEFINE f == <<k>> \o s.free
             u == [s.used EXCEPT ![k] = 0]
             n == SlotReturned(s, k)
  <1>1. /\ c \in Classes /\ s.class = c /\ s.magic = "SLAB"
        /\ s.free \in Seq(Slots(c)) /\ s.used \in [Slots(c) -> 0 .. ClassSizes[c]]
        /\ \A j \in Slots(c) : s.used[j] = 0 <=> Member(j, s.free)
        /\ IsInjective(s.free)
    BY SlabFacts
  <1>2. ~Member(k, s.free)
    BY <1>1
  <1>2a. /\ f \in Seq(Slots(c)) /\ IsInjective(f)
         /\ \A y : Member(y, f) <=> y = k \/ Member(y, s.free)
    BY <1>1, <1>2, ConsFacts
  <1>3. n = [magic |-> "SLAB", class |-> c, free |-> f, used |-> u]
    <2>1. s = [magic |-> "SLAB", class |-> c, free |-> s.free, used |-> s.used]
      BY DEF SlabOk
    <2> DEFINE x == s.free
               y == s.used
    <2>2. n = [[magic |-> "SLAB", class |-> c, free |-> x, used |-> y]
                 EXCEPT !.free = f, !.used = u]
      BY <2>1 DEF SlotReturned
    <2> HIDE DEF x, y, f, u
    <2> QED
      BY <2>2
  <1>4. n.free = f /\ n.used = u
    BY <1>3
  <1>5. u \in [Slots(c) -> 0 .. ClassSizes[c]]
    BY <1>1, ClassFacts
  <1>6. \A j \in Slots(c) : u[j] = IF j = k THEN 0 ELSE s.used[j]
    BY <1>1
  <1>7. \A j \in Slots(c) : u[j] = 0 <=> Member(j, f)
    <2> HIDE DEF u, f
    <2> QED
      BY <1>1, <1>2a, <1>6
  <1> HIDE DEF f, u, n
  <1>8. SlabOk(n, c)
    <2>1. \A j \in Slots(c) : n.used[j] = 0 <=> \E i \in DOMAIN n.free : n.free[i] = j
      BY <1>4, <1>7, Zenon DEF Member
    <2> QED
      BY <2>1, <1>1, <1>2a, <1>3, <1>4, <1>5 DEF SlabOk
  <1> QED
    BY <1>4, <1>8 DEF u, n, f

\* A slab whose list is as long as it has slots has none in use.
LEMMA AllFree ==
  ASSUME NEW s, NEW c, SlabOk(s, c), Len(s.free) = SlotsPerPage(c), NEW k \in Slots(c)
  PROVE  s.used[k] = 0
  <1> DEFINE n == SlotsPerPage(c)
             D == DOMAIN s.free
             S == Slots(c)
             f == s.free
  <1>1. /\ c \in Classes /\ f \in Seq(S) /\ IsInjective(f)
        /\ \A j \in S : s.used[j] = 0 <=> Member(j, f)
    BY SlabFacts
  <1>2. n \in Nat /\ D = 1 .. n /\ S = 0 .. n - 1
    BY <1>1, SlotCount DEF Slots
  <1>3. IsFiniteSet(D) /\ Cardinality(D) = n
    <2> HIDE DEF n, D
    <2>0. 1 \in Int /\ n \in Int
      BY <1>2
    <2>1. IsFiniteSet(1 .. n) /\ Cardinality(1 .. n) = IF 1 > n THEN 0 ELSE n - 1 + 1
      BY <2>0, FS_Interval, Zenon
    <2> QED
      BY <2>1, <1>2
  <1>4. IsFiniteSet(S) /\ Cardinality(S) = n
    <2> HIDE DEF n, S
    <2>0. 0 \in Int /\ n - 1 \in Int
      BY <1>2
    <2>1. IsFiniteSet(0 .. n - 1) /\ Cardinality(0 .. n - 1) = IF 0 > n - 1 THEN 0 ELSE n - 1 - 0 + 1
      BY <2>0, FS_Interval, Zenon
    <2> QED
      BY <2>1, <1>2
  <1>5. f \in [D -> S]
    BY <1>1
  <1>6. \A i, j \in D : f[i] = f[j] => i = j
    BY <1>1 DEF IsInjective
  <1> HIDE DEF f, S, D, n
  <1>7. f \in Injection(D, S)
    BY <1>5, <1>6 DEF Injection, IsInjective
  <1>8. f \in Surjection(D, S)
    BY <1>3, <1>4, <1>7, FS_Injection, Zenon
  <1>9. \E i \in D : f[i] = k
    BY <1>8 DEF Surjection, S
  <1>10. Member(k, f)
    BY <1>9 DEF Member, D, f
  <1> QED
    BY <1>1, <1>10 DEF S

-----------------------------------------------------------------------------
(* What a range is.                                                        *)

\* Only ranges are linked.
LEMMA InRanges ==
  ASSUME Types, NEW r, Linked(r)
  PROVE  r \in Ranges
  <1>1. PICK c \in Classes : In(r, c)
    BY DEF Linked
  <1>2. PICK i \in DOMAIN lists[c] : lists[c][i] = r
    BY <1>1 DEF In
  <1>3. lists[c] \in Seq(Ranges)
    BY DEF Types
  <1> QED
    BY <1>2, <1>3

\* A linked range has no other use.
LEMMA LinkedFacts ==
  ASSUME Structure, NEW r, Linked(r)
  PROVE  /\ r \in Ranges /\ pages[r] = 1
         /\ slab[r].class \in Classes /\ SlabOk(slab[r], slab[r].class) /\ slab[r].magic = "SLAB"
         /\ \A c : In(r, c) <=> c = slab[r].class
         /\ \A i : ~Recorded(r, i)
         /\ \A t : ~Held(r, t)
  <1>1. r \in Ranges
    BY InRanges DEF Structure
  <1>2. RangeOk(r)
    BY <1>1 DEF Structure, RangesOk
  <1>3. \A c : In(r, c) => c \in Classes /\ pages[r] = 1 /\ SlabOk(slab[r], c)
    BY <1>2, Zenon DEF RangeOk, LinkedOk, In
  <1>4. \A c : In(r, c) => c = slab[r].class /\ slab[r].magic = "SLAB"
    BY <1>3, SlabFacts
  <1>5. PICK c \in Classes : In(r, c)
    BY DEF Linked
  <1>6. \A i : ~Recorded(r, i)
    <2> SUFFICES ASSUME NEW i, Recorded(r, i) PROVE FALSE
      OBVIOUS
    <2>1. i \in 1 .. LargeRecords
      BY DEF Recorded
    <2>2. slab[r].magic # "SLAB"
      BY <2>1, <1>2, Zenon DEF RangeOk, RecordedOk
    <2> QED
      BY <2>2, <1>4, <1>5
  <1>7. \A t : ~Held(r, t)
    BY <1>2, Zenon DEF RangeOk, HeldOk, Held
  <1> QED
    BY <1>1, <1>3, <1>4, <1>5, <1>6, <1>7

\* A record names a range of its own.
LEMMA RecordedFacts ==
  ASSUME Structure, NEW r \in Ranges, NEW i, Recorded(r, i)
  PROVE  /\ i \in 1 .. LargeRecords
         /\ pages[r] = records[i].pages /\ pages[r] # 0
         /\ records[i].size # 0 /\ records[i].size <= pages[r] * PageBytes
         /\ slab[r].magic # "SLAB" /\ ~Linked(r)
         /\ \A j : Recorded(r, j) => j = i
         /\ \A t : ~Held(r, t)
  <1>1. RangeOk(r)
    BY DEF Structure, RangesOk
  <1>2. i \in 1 .. LargeRecords /\ \A j : Recorded(r, j) => j \in 1 .. LargeRecords
    BY Zenon DEF Recorded
  <1>3. ~Linked(r)
    BY LinkedFacts
  <1>4. /\ pages[r] = records[i].pages /\ pages[r] # 0
        /\ records[i].size # 0 /\ records[i].size <= pages[r] * PageBytes
        /\ slab[r].magic # "SLAB" 
        /\ \A j \in 1 .. LargeRecords : Recorded(r, j) => i = j
    BY <1>1, <1>2, Zenon DEF RangeOk, RecordedOk
  <1>5. \A t : ~Held(r, t)
    BY <1>1, <1>2, Zenon DEF RangeOk, HeldOk, Held
  <1> QED
    BY <1>2, <1>3, <1>4, <1>5, Zenon

\* A range in the hands of a call has no other use.
LEMMA HeldFacts ==
  ASSUME Structure, NEW r \in Ranges, NEW t \in Threads, Held(r, t)
  PROVE  /\ pages[r] # 0 /\ call[t].at \in Holding /\ call[t].range = r
         /\ ~Linked(r) /\ \A i : ~Recorded(r, i)
         /\ \A u : Held(r, u) => u = t
  <1>1. RangeOk(r) /\ CallOk(t)
    BY DEF Structure, RangesOk, CallsOk
  <1>2. r # NULL
    BY HeapAssumption
  <1>3. call[t].range = r
    BY DEF Held
  <1>4. pages[r] # 0 /\ call[t].at \in Holding
    BY <1>1, <1>2, <1>3 DEF CallOk
  <1>5. /\ ~Linked(r) /\ \A i \in 1 .. LargeRecords : ~Recorded(r, i)
        /\ \A u \in Threads : Held(r, u) => u = t
    BY <1>1, Zenon DEF RangeOk, HeldOk
  <1>6. \A i : Recorded(r, i) => i \in 1 .. LargeRecords
    BY Zenon DEF Recorded
  <1>7. \A u : Held(r, u) => u \in Threads
    BY Zenon DEF Held
  <1> QED
    BY <1>3, <1>4, <1>5, <1>6, <1>7

\* A range that is not in use.
LEMMA IdleFacts ==
  ASSUME Structure, NEW r \in Ranges, pages[r] = 0
  PROVE  /\ ~Linked(r) /\ slab[r].magic # "SLAB"
         /\ \A i : ~Recorded(r, i)
         /\ \A t : ~Held(r, t)
  <1>1. ~Linked(r)
    BY LinkedFacts
  <1>2. \A i : ~Recorded(r, i)
    BY RecordedFacts
  <1>3. \A t : ~Held(r, t)
    <2>1. \A t : Held(r, t) => t \in Threads
      BY Zenon DEF Held
    <2> QED
      BY <2>1, HeldFacts
  <1>4. RangeOk(r)
    BY DEF Structure, RangesOk
  <1>5. slab[r].magic # "SLAB"
    BY <1>1, <1>3, <1>4, Zenon DEF RangeOk, UsedOk
  <1> QED
    BY <1>1, <1>2, <1>3, <1>5

\* A slot in use and its block.
LEMMA LiveFacts ==
  ASSUME Structure, NEW r, NEW k, Live(r, k)
  PROVE  /\ Linked(r) /\ r \in Ranges /\ k \in Nat /\ k \in Slots(slab[r].class)
         /\ slab[r].used[k] \in Nat /\ slab[r].used[k] # 0
         /\ slab[r].used[k] <= ClassSizes[slab[r].class]
         /\ UserOffset(slab[r].class, k) \in Nat /\ UserOffset(slab[r].class, k) > 0
         /\ SlotPointer(r, k) \in Pointers /\ SlotPointer(r, k)[1] = r
         /\ SlotPointer(r, k)[2] = UserOffset(slab[r].class, k)
         /\ SlotBlock(r, k) \in Block /\ SlotBlock(r, k).pointer = SlotPointer(r, k)
         /\ SlotBlock(r, k).size = slab[r].used[k]
  <1> DEFINE c == slab[r].class
             u == slab[r].used[k]
             o == UserOffset(c, k)
  <1>1. Linked(r) /\ k \in Slots(c) /\ u # 0
    BY DEF Live
  <1>2. r \in Ranges /\ c \in Classes /\ SlabOk(slab[r], c)
    BY <1>1, LinkedFacts
  <1>3. slab[r].used \in [Slots(c) -> 0 .. ClassSizes[c]]
    BY <1>2, SlabFacts
  <1>4. u \in 0 .. ClassSizes[c] /\ ClassSizes[c] \in Nat
    BY <1>1, <1>2, <1>3, ClassFacts
  <1>5. k \in Nat /\ o \in Nat /\ o > 0
    BY <1>1, <1>2, OffsetInPage, OffsetFacts
  <1>6. SlotPointer(r, k) = <<r, o>>
    BY DEF SlotPointer
  <1>7. SlotBlock(r, k) = [pointer |-> <<r, o>>, size |-> u]
    BY <1>6 DEF SlotBlock
  <1> HIDE DEF u, o
  <1>8. <<r, o>> \in Pointers /\ <<r, o>>[1] = r /\ <<r, o>>[2] = o
    BY <1>2, <1>5 DEF Pointers
  <1>9. u \in Nat /\ u <= ClassSizes[c]
    BY <1>4
  <1>10. SlotBlock(r, k) \in Block /\ SlotBlock(r, k).pointer = <<r, o>> /\ SlotBlock(r, k).size = u
    BY <1>7, <1>8, <1>9 DEF Block
  <1> QED
    BY <1>1, <1>2, <1>5, <1>6, <1>8, <1>9, <1>10 DEF u, o

\* Two live slots have different pointers.
LEMMA PointersDiffer ==
  ASSUME Structure, NEW r, NEW k, NEW s, NEW l, Live(r, k), Live(s, l), SlotPointer(r, k) = SlotPointer(s, l)
  PROVE  r = s /\ k = l
  <1>1. r = s /\ UserOffset(slab[r].class, k) = UserOffset(slab[s].class, l)
    BY LiveFacts
  <1>2. slab[r].class \in Classes /\ k \in Nat /\ l \in Nat
    BY LiveFacts, LinkedFacts
  <1> QED
    BY <1>1, <1>2, OffsetsDiffer

\* The block of a record.
LEMMA RecordBlockFacts ==
  ASSUME Structure, NEW r \in Ranges, NEW i, Recorded(r, i)
  PROVE  /\ RecordBlock(i) \in Block /\ RecordBlock(i).pointer = <<r, 0>>
         /\ RecordBlock(i).size = records[i].size /\ records[i] \in Record
         /\ <<r, 0>> \in Pointers /\ records[i].pointer = <<r, 0>>
  <1>1. records[i].pointer = <<r, 0>> /\ i \in 1 .. LargeRecords
    BY DEF Recorded
  <1>2. records[i] \in Record
    BY <1>1 DEF Structure, Types
  <1>3. <<r, 0>> \in Pointers /\ records[i].size \in Nat
    BY <1>2 DEF Pointers, Record
  <1>4. RecordBlock(i) = [pointer |-> <<r, 0>>, size |-> records[i].size]
    BY <1>1 DEF RecordBlock
  <1> QED
    BY <1>1, <1>2, <1>3, <1>4 DEF Block

-----------------------------------------------------------------------------
(* One range and one thread at a time.                                     *)

\* A step that concerns range r of thread t's call and no other.
Frame(t, r) ==
  /\ \A q \in Ranges : q # r => pages'[q] = pages[q] /\ slab'[q] = slab[q]
  /\ \A q \in Ranges, c \in Classes : q # r => (In(q, c)' <=> In(q, c))
  /\ \A q \in Ranges, i \in 1 .. LargeRecords : q # r =>
        (Recorded(q, i)' <=> Recorded(q, i)) /\ (Recorded(q, i) => records'[i] = records[i])
  /\ \A u \in Threads : u # t => call'[u] = call[u]
  /\ \A q \in Ranges : q # r => ~Held(q, t) /\ ~Held(q, t)'
  /\ \A p \in Pointers : p[1] # r => ~Freeing(t, p) /\ ~Freeing(t, p)'
  /\ \A b \in Block : b.pointer[1] # r => (b \in owned' <=> b \in owned)

\* The other calls stay well formed.
LEMMA FrameCalls ==
  ASSUME Structure, NEW t \in Threads, NEW r, Frame(t, r),
         r \in Ranges => \A u \in Threads : u # t => ~Held(r, u), CallOk(t)'
  PROVE  CallsOk'
  <1> SUFFICES ASSUME NEW u \in Threads, u # t PROVE CallOk(u)'
    BY DEF CallsOk
  <1>1. CallOk(u)
    BY DEF Structure, CallsOk
  <1>2. call'[u] = call[u] /\ (r \in Ranges => call[u].range # r)
    BY DEF Frame, Held
  <1>3. call[u].range # NULL => call[u].range \in Ranges
    BY DEF Structure, Types, Call
  <1>4. call[u].range # NULL => pages'[call[u].range] = pages[call[u].range]
                                /\ slab'[call[u].range] = slab[call[u].range]
    BY <1>2, <1>3 DEF Frame
  <1>5. CASE call[u].range = NULL
    <2>1. call[u].at \notin Holding
      BY <1>1, <1>5 DEF CallOk
    <2> QED
      BY <1>1, <1>2, <2>1, <1>5 DEF CallOk, Holding
  <1>6. CASE call[u].range # NULL
    BY <1>1, <1>2, <1>4, <1>6 DEF CallOk
  <1> QED
    BY <1>5, <1>6

\* The slots of other ranges stay.
LEMMA FrameLinked ==
  ASSUME NEW t, NEW r, Frame(t, r), NEW q \in Ranges, q # r
  PROVE  /\ Linked(q)' <=> Linked(q)
         /\ \A k : Live(q, k)' <=> Live(q, k)
         /\ \A k : SlotPointer(q, k)' = SlotPointer(q, k)
         /\ \A k : SlotBlock(q, k)' = SlotBlock(q, k)
  <1>1. slab'[q] = slab[q]
    BY DEF Frame
  <1>2. Linked(q)' <=> Linked(q)
    BY Zenon DEF Linked, Frame
  <1>3. \A k : Live(q, k)' <=> Live(q, k)
    BY <1>1, <1>2 DEF Live
  <1>4. \A k : SlotPointer(q, k)' = SlotPointer(q, k)
    BY <1>1 DEF SlotPointer
  <1> QED
    BY <1>1, <1>2, <1>3, <1>4 DEF SlotBlock

\* The holders of other ranges stay.
LEMMA FrameHeld ==
  ASSUME NEW t \in Threads, NEW r, Frame(t, r), NEW q \in Ranges, q # r, NEW u \in Threads
  PROVE  /\ Held(q, u)' <=> Held(q, u)
         /\ Held(q, u) => call'[u].at = call[u].at
         /\ \A p \in Pointers : p[1] = q => (Freeing(u, p)' <=> Freeing(u, p))
  <1>1. CASE u = t
    BY <1>1 DEF Frame
  <1>2. CASE u # t
    <2>1. call'[u] = call[u]
      BY <1>2 DEF Frame
    <2> QED
      BY <2>1 DEF Held, Freeing
  <1> QED
    BY <1>1, <1>2

\* The other ranges stay well formed.
LEMMA FrameRanges ==
  ASSUME Structure, owned' \subseteq Block, NEW t \in Threads, NEW r, Frame(t, r),
         r \in Ranges => RangeOk(r)'
  PROVE  RangesOk'
  <1> SUFFICES ASSUME NEW q \in Ranges, q # r PROVE RangeOk(q)'
    BY DEF RangesOk
  <1>1. RangeOk(q)
    BY DEF Structure, RangesOk
  <1>2. pages'[q] = pages[q] /\ slab'[q] = slab[q]
    BY DEF Frame
  <1>3. \A c \in Classes : In(q, c)' <=> In(q, c)
    BY Zenon DEF Frame
  <1>4. \A i \in 1 .. LargeRecords : (Recorded(q, i)' <=> Recorded(q, i)) /\ (Recorded(q, i) => records'[i] = records[i])
    BY Zenon DEF Frame
  <1>5. Linked(q)' <=> Linked(q)
    BY FrameLinked
  <1>6. \A u \in Threads : (Held(q, u)' <=> Held(q, u)) /\ (Held(q, u) => call'[u].at = call[u].at)
    BY FrameHeld
  <1>7. LinkedOk(q)'
    <2>1. LinkedOk(q)
      BY <1>1 DEF RangeOk
    <2> QED
      BY <2>1, <1>2, <1>3, Zenon DEF LinkedOk
  <1>8. RecordedOk(q)'
    <2>1. RecordedOk(q)
      BY <1>1 DEF RangeOk
    <2> QED
      BY <2>1, <1>2, <1>4 DEF RecordedOk
  <1>9. HeldOk(q)'
    <2>1. HeldOk(q)
      BY <1>1 DEF RangeOk
    <2> QED
      BY <2>1, <1>4, <1>5, <1>6, Zenon DEF HeldOk
  <1>10. UsedOk(q)'
    <2>1. UsedOk(q)
      BY <1>1 DEF RangeOk
    <2>2. ASSUME pages'[q] # 0 PROVE Linked(q)' \/ (\E i \in 1 .. LargeRecords : Recorded(q, i)')
                                     \/ \E u \in Threads : Held(q, u)'
      BY <2>1, <2>2, <1>2, <1>4, <1>5, <1>6, Zenon DEF UsedOk
    <2>3. ASSUME slab'[q].magic = "SLAB"
          PROVE  Linked(q)' \/ \E u \in Threads : Held(q, u)' /\ call'[u].at = "link"
      <3>1. slab[q].magic = "SLAB"
        BY <2>3, <1>2
      <3>2. Linked(q) \/ \E u \in Threads : Held(q, u) /\ call[u].at = "link"
        BY <2>1, <3>1, Zenon DEF UsedOk
      <3> QED
        BY <3>2, <1>5, <1>6
    <2> QED
      BY <2>2, <2>3, Zenon DEF UsedOk
  <1>11. OwnedOk(q)'
    <2>1. OwnedOk(q)
      BY <1>1 DEF RangeOk
    <2>2. \A k : (Live(q, k)' <=> Live(q, k)) /\ SlotPointer(q, k)' = SlotPointer(q, k) /\ SlotBlock(q, k)' = SlotBlock(q, k)
      BY FrameLinked
    <2>3. \A u \in Threads, p \in Pointers : p[1] = q => (Freeing(u, p)' <=> Freeing(u, p))
      BY FrameHeld
    <2>4. \A b \in Block : b.pointer[1] = q => (b \in owned' <=> b \in owned)
      BY DEF Frame
    <2>5. \A k : Live(q, k) => SlotBlock(q, k) \in Block /\ SlotBlock(q, k).pointer = SlotPointer(q, k)
                               /\ SlotPointer(q, k) \in Pointers /\ SlotPointer(q, k)[1] = q
      BY LiveFacts
    <2>6. \A i \in 1 .. LargeRecords : Recorded(q, i) => RecordBlock(i)' = RecordBlock(i)
      BY <1>4 DEF RecordBlock
    <2>7. \A i \in 1 .. LargeRecords : Recorded(q, i) => RecordBlock(i) \in Block /\ RecordBlock(i).pointer = <<q, 0>>
      BY RecordBlockFacts
    <2>8. owned \subseteq Block
      BY DEF Structure, Types
    <2>9. \A k \in Nat : Live(q, k)' =>
             SlotBlock(q, k)' \in owned' \/ \E u \in Threads : Freeing(u, SlotPointer(q, k))'
      <3> SUFFICES ASSUME NEW k \in Nat, Live(q, k)'
                   PROVE  SlotBlock(q, k)' \in owned' \/ \E u \in Threads : Freeing(u, SlotPointer(q, k))'
        OBVIOUS
      <3>1. Live(q, k) /\ SlotBlock(q, k) \in Block /\ SlotBlock(q, k).pointer[1] = q
            /\ SlotPointer(q, k) \in Pointers /\ SlotPointer(q, k)[1] = q
        BY <2>2, <2>5, Zenon
      <3>2. SlotBlock(q, k) \in owned \/ \E u \in Threads : Freeing(u, SlotPointer(q, k))
        BY <2>1, <3>1, Zenon DEF OwnedOk
      <3>3. CASE SlotBlock(q, k) \in owned
        BY <3>1, <3>3, <2>2, <2>4, Zenon
      <3>4. ASSUME NEW u \in Threads, Freeing(u, SlotPointer(q, k))
            PROVE  Freeing(u, SlotPointer(q, k))'
        <4>1. SlotPointer(q, k)' = SlotPointer(q, k)
          BY <2>2
        <4>2. call[u].at = "free" /\ call[u].pointer = SlotPointer(q, k)
          BY <3>4 DEF Freeing
        <4>3. PICK p \in Pointers : p = SlotPointer(q, k)
          BY <3>1
        <4>4. p[1] = q /\ Freeing(u, p)
          BY <4>2, <4>3, <3>1 DEF Freeing
        <4>5. Freeing(u, p)'
          BY <4>4, <2>3, Zenon
        <4> QED
          BY <4>1, <4>3, <4>5 DEF Freeing
      <3> QED
        BY <3>2, <3>3, <3>4
    <2>10. \A i \in 1 .. LargeRecords : Recorded(q, i)' => RecordBlock(i)' \in owned'
      <3> SUFFICES ASSUME NEW i \in 1 .. LargeRecords, Recorded(q, i)' PROVE RecordBlock(i)' \in owned'
        OBVIOUS
      <3>1. Recorded(q, i)
        BY <1>4
      <3>2. RecordBlock(i) \in owned
        BY <2>1, <3>1, Zenon DEF OwnedOk
      <3>3. RecordBlock(i) \in Block /\ RecordBlock(i).pointer[1] = q /\ RecordBlock(i)' = RecordBlock(i)
        BY <3>1, <2>6, <2>7
      <3> QED
        BY <3>2, <3>3, <2>4
    <2>11. \A b \in owned' : b.pointer[1] = q =>
             \/ \E k \in Nat : Live(q, k)' /\ b = SlotBlock(q, k)'
             \/ \E i \in 1 .. LargeRecords : Recorded(q, i)' /\ b = RecordBlock(i)'
      <3> SUFFICES ASSUME NEW b \in owned', b.pointer[1] = q
                   PROVE  \/ \E k \in Nat : Live(q, k)' /\ b = SlotBlock(q, k)'
                          \/ \E i \in 1 .. LargeRecords : Recorded(q, i)' /\ b = RecordBlock(i)'
        OBVIOUS
      <3>1. b \in owned
        BY <2>4
      <3>2. \/ \E k \in Nat : Live(q, k) /\ b = SlotBlock(q, k)
            \/ \E i \in 1 .. LargeRecords : Recorded(q, i) /\ b = RecordBlock(i)
        BY <2>1, <3>1, Zenon DEF OwnedOk
      <3> QED
        BY <3>2, <2>2, <2>6, <1>4, Zenon
    <2>12. \A u \in Threads, p \in Pointers : Freeing(u, p)' /\ p[1] = q =>
             /\ \E k \in Nat : Live(q, k)' /\ p = SlotPointer(q, k)'
             /\ \A b \in owned' : b.pointer # p
             /\ \A v \in Threads : Freeing(v, p)' => v = u
      <3> SUFFICES ASSUME NEW u \in Threads, NEW p \in Pointers, Freeing(u, p)', p[1] = q
                   PROVE  /\ \E k \in Nat : Live(q, k)' /\ p = SlotPointer(q, k)'
                          /\ \A b \in owned' : b.pointer # p
                          /\ \A v \in Threads : Freeing(v, p)' => v = u
        OBVIOUS
      <3>1. Freeing(u, p)
        BY <2>3
      <3>2. /\ \E k \in Nat : Live(q, k) /\ p = SlotPointer(q, k)
            /\ \A b \in owned : b.pointer # p
            /\ \A v \in Threads : Freeing(v, p) => v = u
        BY <2>1, <3>1, Zenon DEF OwnedOk
      <3>3. \E k \in Nat : Live(q, k)' /\ p = SlotPointer(q, k)'
        BY <3>2, <2>2, Zenon
      <3>4. \A b \in owned' : b.pointer # p
        <4> SUFFICES ASSUME NEW b \in owned', b.pointer = p PROVE FALSE
          OBVIOUS
        <4>1. b \in owned
          BY <2>4
        <4> QED
          BY <4>1, <3>2
      <3>5. \A v \in Threads : Freeing(v, p)' => v = u
        BY <3>2, <2>3, Zenon
      <3> QED
        BY <3>3, <3>4, <3>5
    <2> QED
      BY <2>9, <2>10, <2>11, <2>12, Zenon DEF OwnedOk
  <1> QED
    BY <1>7, <1>8, <1>9, <1>10, <1>11 DEF RangeOk

\* A step at one range and one thread: what must be shown of it.
LEMMA FrameStructure ==
  ASSUME Structure, NEW t \in Threads, NEW r, Frame(t, r), Types', ListsOk', RecordsOk', CallOk(t)',
         r \in Ranges => RangeOk(r)' /\ \A u \in Threads : u # t => ~Held(r, u)
  PROVE  Structure'
  <1>1. CallsOk'
    BY FrameCalls
  <1>2. owned' \subseteq Block
    BY DEF Types
  <1>3. RangesOk'
    BY <1>2, FrameRanges
  <1> QED
    BY <1>1, <1>3 DEF Structure

-----------------------------------------------------------------------------
(* Calls.                                                                  *)

\* NULL is neither a range nor a pointer.
LEMMA NullFacts == NULL \notin Ranges /\ NULL \notin Pointers
  BY HeapAssumption DEF Pointers

\* A thread outside the allocator.
LEMMA RestingFacts ==
  /\ Resting \in Call /\ Resting.at = "out" /\ Resting.size = 0
  /\ Resting.range = NULL /\ Resting.pointer = NULL
  BY DEF Resting, Call, Places

\* A call put in a new state.
LEMMA CallSet ==
  ASSUME Types, NEW t \in Threads, NEW v, call' = [call EXCEPT ![t] = v]
  PROVE  /\ call'[t] = v
         /\ \A u \in Threads : u # t => call'[u] = call[u]
         /\ v \in Call => call' \in [Threads -> Call]
  BY DEF Types

\* The fields of a call.
LEMMA CallFacts ==
  ASSUME Types, NEW t \in Threads
  PROVE  /\ call[t] \in Call /\ call[t].at \in Places /\ call[t].size \in Nat
         /\ call[t].range \in Ranges \cup {NULL} /\ call[t].pointer \in Pointers \cup {NULL}
         /\ call[t] = [at |-> call[t].at, size |-> call[t].size, range |-> call[t].range,
                       pointer |-> call[t].pointer]
  <1>1. call[t] \in Call
    BY DEF Types
  <1> QED
    BY <1>1 DEF Call

\* A call with two of its fields changed.
LEMMA AtSize ==
  ASSUME NEW v \in Call, NEW a \in Places, NEW z \in Nat
  PROVE  LET w == [v EXCEPT !.at = a, !.size = z]
         IN  w \in Call /\ w.at = a /\ w.size = z /\ w.range = v.range /\ w.pointer = v.pointer
  BY DEF Call

\* A call moves on.
LEMMA DoFacts ==
  ASSUME Types, NEW t \in Threads, NEW at \in Places, NEW r \in Ranges \cup {NULL}, Do(t, at, r)
  PROVE  /\ call'[t].at = at /\ call'[t].range = r
         /\ call'[t].size = call[t].size /\ call'[t].pointer = call[t].pointer
         /\ \A u \in Threads : u # t => call'[u] = call[u]
         /\ call' \in [Threads -> Call]
  <1> DEFINE v == [call[t] EXCEPT !.at = at, !.range = r]
  <1>1. call[t] \in Call
    BY CallFacts
  <1>2. v \in Call /\ v.at = at /\ v.size = call[t].size /\ v.range = r /\ v.pointer = call[t].pointer
    <2>1. ASSUME NEW x \in Call
          PROVE  LET y == [x EXCEPT !.at = at, !.range = r]
                 IN  y \in Call /\ y.at = at /\ y.size = x.size /\ y.range = r /\ y.pointer = x.pointer
      BY DEF Call
    <2> QED
      BY <1>1, <2>1
  <1>3. call' = [call EXCEPT ![t] = v]
    BY DEF Do, Types
  <1> HIDE DEF v
  <1>4. call'[t] = v /\ (\A u \in Threads : u # t => call'[u] = call[u]) /\ call' \in [Threads -> Call]
    BY <1>2, <1>3, CallSet
  <1> QED
    BY <1>2, <1>4, Zenon

\* A call ends.
LEMMA FinishFacts ==
  ASSUME Types, NEW t \in Threads, Finish(t)
  PROVE  /\ call'[t] = Resting
         /\ \A u \in Threads : u # t => call'[u] = call[u]
         /\ call' \in [Threads -> Call]
         /\ CallOk(t)'
         /\ \A r \in Ranges : ~Held(r, t)'
         /\ \A p : ~Freeing(t, p)'
  <1>1. /\ call'[t] = Resting /\ call' \in [Threads -> Call]
        /\ \A u \in Threads : u # t => call'[u] = call[u]
    BY CallSet, RestingFacts DEF Finish
  <1>2. CallOk(t)'
    BY <1>1, RestingFacts DEF CallOk, Holding
  <1>3. \A r \in Ranges : ~Held(r, t)'
    BY <1>1, RestingFacts, NullFacts DEF Held
  <1>4. \A p : ~Freeing(t, p)'
    BY <1>1, RestingFacts DEF Freeing
  <1> QED
    BY <1>1, <1>2, <1>3, <1>4

\* A call that has no range.
LEMMA OutFacts ==
  ASSUME Structure, NEW t \in Threads, call[t].at \notin Holding
  PROVE  call[t].range = NULL /\ \A r \in Ranges : ~Held(r, t)
  <1>1. CallOk(t)
    BY DEF Structure, CallsOk
  <1>2. call[t].range = NULL
    BY <1>1 DEF CallOk
  <1> QED
    BY <1>2, NullFacts DEF Held

\* The range in the hands of a call.
LEMMA HoldingFacts ==
  ASSUME Structure, NEW t \in Threads, call[t].at \in Holding
  PROVE  /\ call[t].range \in Ranges /\ Held(call[t].range, t)
         /\ \A r \in Ranges : Held(r, t) => r = call[t].range
         /\ \A p : ~Freeing(t, p)
         /\ CallOk(t)
  <1>1. CallOk(t)
    BY DEF Structure, CallsOk
  <1>2. call[t].range # NULL
    BY <1>1 DEF CallOk
  <1>3. call[t].range \in Ranges
    BY <1>2, CallFacts DEF Structure
  <1>4. \A p : ~Freeing(t, p)
    BY DEF Freeing, Holding
  <1> QED
    BY <1>1, <1>3, <1>4 DEF Held

\* The relations whose variables a step leaves alone.
LEMMA SameLists ==
  ASSUME lists' = lists
  PROVE  (\A q, c : In(q, c)' <=> In(q, c)) /\ (\A q : Linked(q)' <=> Linked(q)) /\ (ListsOk' <=> ListsOk)
  <1>1. \A q, c : In(q, c)' <=> In(q, c)
    BY DEF In
  <1>2. \A q : Linked(q)' <=> Linked(q)
    BY <1>1 DEF Linked
  <1> QED
    BY <1>1, <1>2 DEF ListsOk

\* The records stay.
LEMMA SameRecords ==
  ASSUME records' = records
  PROVE  (\A q, i : Recorded(q, i)' <=> Recorded(q, i)) /\ (RecordsOk' <=> RecordsOk)
  <1>1. \A q, i : Recorded(q, i)' <=> Recorded(q, i)
    BY DEF Recorded
  <1> QED
    BY <1>1 DEF RecordsOk

-----------------------------------------------------------------------------
(* A range that holds no block.                                            *)

\* A range that is neither linked nor recorded has no blocks.
LEMMA Vacant ==
  ASSUME Structure, NEW r \in Ranges, ~Linked(r), \A i : ~Recorded(r, i)
  PROVE  /\ \A b \in owned : b.pointer[1] # r
         /\ \A u \in Threads, p \in Pointers : Freeing(u, p) => p[1] # r
         /\ \A k : ~Live(r, k)
  <1>1. OwnedOk(r)
    BY DEF Structure, RangesOk, RangeOk
  <1>2. \A k : ~Live(r, k)
    BY DEF Live
  <1>3. \A b \in owned : b.pointer[1] # r
    BY <1>1, <1>2, Zenon DEF OwnedOk
  <1>4. \A u \in Threads, p \in Pointers : Freeing(u, p) => p[1] # r
    BY <1>1, <1>2, Zenon DEF OwnedOk
  <1> QED
    BY <1>2, <1>3, <1>4

\* What makes such a range well formed after a step.
LEMMA VacantOk ==
  ASSUME NEW r \in Ranges, NEW t \in Threads, ~Linked(r)', \A i : ~Recorded(r, i)',
         \A b \in owned' : b.pointer[1] # r,
         \A u \in Threads, p \in Pointers : Freeing(u, p)' => p[1] # r,
         \A u \in Threads : Held(r, u)' => u = t,
         pages'[r] # 0 => Held(r, t)',
         slab'[r].magic = "SLAB" => Held(r, t)' /\ call'[t].at = "link"
  PROVE  RangeOk(r)'
  <1>1. \A c \in Classes : ~In(r, c)'
    BY Zenon DEF Linked
  <1>2. LinkedOk(r)'
    BY <1>1, Zenon DEF LinkedOk
  <1>3. RecordedOk(r)'
    BY Zenon DEF RecordedOk
  <1>4. HeldOk(r)'
    BY Zenon DEF HeldOk
  <1>5. UsedOk(r)'
    BY Zenon DEF UsedOk
  <1>6. \A k : ~Live(r, k)'
    BY DEF Live
  <1>7. OwnedOk(r)'
    BY <1>6, Zenon DEF OwnedOk
  <1> QED
    BY <1>2, <1>3, <1>4, <1>5, <1>7 DEF RangeOk

-----------------------------------------------------------------------------
(* Steps that only change a call.                                          *)

\* A call without a range moves on.
LEMMA IdleStep ==
  ASSUME Structure, NEW t \in Threads, UNCHANGED <<pages, slab, lists, records, owned>>,
         call' \in [Threads -> Call], \A u \in Threads : u # t => call'[u] = call[u],
         call[t].at \notin Holding \cup {"free"}, call'[t].range = NULL, call'[t].at # "free",
         CallOk(t)'
  PROVE  Structure'
  <1>1. Types'
    BY DEF Types, Structure
  <1>2. ListsOk' /\ RecordsOk'
    BY SameLists, SameRecords DEF Structure
  <1>3. \A q \in Ranges : ~Held(q, t) /\ ~Held(q, t)'
    <2>1. \A q \in Ranges : ~Held(q, t)
      BY OutFacts
    <2>2. \A q \in Ranges : ~Held(q, t)'
      BY NullFacts DEF Held
    <2> QED
      BY <2>1, <2>2
  <1>4. \A p : ~Freeing(t, p) /\ ~Freeing(t, p)'
    BY DEF Freeing
  <1>5. Frame(t, NULL)
    BY <1>3, <1>4, SameLists, SameRecords DEF Frame
  <1> QED
    BY <1>1, <1>2, <1>5, NullFacts, FrameStructure

\* kmalloc leaves its first section with nothing found.
LEMMA AllocWait ==
  ASSUME Structure, NEW t \in Threads, NEW size \in Sizes, NEW at \in {"prepare", "reserve"},
         call[t].at = "out",
         at = "prepare" => size # 0 /\ SmallClass(size) # 0,
         at = "reserve" => PageCount(size) # 0,
         call' = [call EXCEPT ![t] = [Resting EXCEPT !.at = at, !.size = size]],
         UNCHANGED <<pages, slab, lists, records, owned>>
  PROVE  Structure'
  <1> DEFINE v == [Resting EXCEPT !.at = at, !.size = size]
  <1>1. size \in Nat
    BY HeapAssumption
  <1>3. v \in Call /\ v.at = at /\ v.size = size /\ v.range = NULL
    <2>1. at \in Places
      BY DEF Places
    <2> QED
      BY <1>1, <2>1, RestingFacts, AtSize, ZenonT(60)
  <1> HIDE DEF v
  <1>4. Types /\ call' = [call EXCEPT ![t] = v]
    BY Zenon DEF Structure, v
  <1>5. call'[t] = v /\ call' \in [Threads -> Call] /\ \A u \in Threads : u # t => call'[u] = call[u]
    BY <1>3, <1>4, CallSet
  <1>6. call'[t].at = at /\ call'[t].size = size /\ call'[t].range = NULL
    BY <1>3, <1>5, Zenon
  <1>7. CallOk(t)'
    BY <1>6 DEF CallOk, Holding
  <1>8. call[t].at \notin Holding \cup {"free"}
    BY DEF Holding
  <1> QED
    BY <1>5, <1>6, <1>7, <1>8, IdleStep

\* KeHeapAllocPages fails.
LEMMA GetFails ==
  ASSUME Structure, NEW t \in Threads, call[t].at \in {"prepare", "reserve"}, Finish(t),
         UNCHANGED <<pages, slab, lists, records, owned>>
  PROVE  Structure'
  <1>1. Types
    BY DEF Structure
  <1>2. call'[t] = Resting /\ call' \in [Threads -> Call] /\ CallOk(t)'
        /\ \A u \in Threads : u # t => call'[u] = call[u]
    BY <1>1, FinishFacts
  <1>3. call'[t].range = NULL /\ call'[t].at # "free"
    BY <1>2, RestingFacts
  <1>4. call[t].at \notin Holding \cup {"free"}
    BY DEF Holding
  <1> QED
    BY <1>2, <1>3, <1>4, IdleStep

-----------------------------------------------------------------------------
(* Steps of the call that holds a range.                                   *)

\* The range stays in the caller's hands, comes into them or leaves them for
\* the KVA layer: it holds no block before or after.
LEMMA HandStep ==
  ASSUME Structure, NEW t \in Threads, NEW r \in Ranges,
         UNCHANGED <<lists, records, owned>>,
         ~Linked(r), \A i : ~Recorded(r, i), \A u \in Threads : u # t => ~Held(r, u),
         \A q \in Ranges : Held(q, t) => q = r,
         \A p : ~Freeing(t, p),
         call' \in [Threads -> Call], \A u \in Threads : u # t => call'[u] = call[u],
         call'[t].at # "free", \A q \in Ranges : Held(q, t)' => q = r,
         pages' \in [Ranges -> 0 .. WordValues], slab' = [q \in Ranges |-> slab'[q]],
         \A q \in Ranges : q # r => pages'[q] = pages[q] /\ slab'[q] = slab[q],
         pages'[r] # 0 => Held(r, t)',
         slab'[r].magic = "SLAB" => Held(r, t)' /\ call'[t].at = "link",
         CallOk(t)'
  PROVE  Structure'
  <1>1. Types'
    BY DEF Types, Structure
  <1>2. ListsOk' /\ RecordsOk'
    BY SameLists, SameRecords DEF Structure
  <1>3. \A p : ~Freeing(t, p)'
    BY DEF Freeing
  <1>4. Frame(t, r)
    <2>1. \A q, c : In(q, c)' <=> In(q, c)
      BY SameLists
    <2>2. \A q, i : Recorded(q, i)' <=> Recorded(q, i)
      BY SameRecords
    <2>3. \A q \in Ranges : q # r => ~Held(q, t) /\ ~Held(q, t)'
      OBVIOUS
    <2> QED
      BY <1>3, <2>1, <2>2, <2>3 DEF Frame
  <1>5. ~Linked(r)' /\ \A i : ~Recorded(r, i)'
    BY SameLists, SameRecords
  <1>6. \A b \in owned' : b.pointer[1] # r
    BY Vacant
  <1>7. \A u \in Threads, p \in Pointers : Freeing(u, p)' => p[1] # r
    <2> SUFFICES ASSUME NEW u \in Threads, NEW p \in Pointers, Freeing(u, p)' PROVE p[1] # r
      OBVIOUS
    <2>1. u # t
      BY <1>3
    <2>2. Freeing(u, p)
      BY <2>1 DEF Freeing
    <2> QED
      BY <2>2, Vacant
  <1>8. \A u \in Threads : Held(r, u)' => u = t
    <2> SUFFICES ASSUME NEW u \in Threads, Held(r, u)', u # t PROVE FALSE
      OBVIOUS
    <2>1. Held(r, u)
      BY DEF Held
    <2> QED
      BY <2>1
  <1>9. RangeOk(r)'
    BY <1>5, <1>6, <1>7, <1>8, VacantOk
  <1> QED
    BY <1>1, <1>2, <1>4, <1>9, FrameStructure

\* KeHeapAllocPages gives a range.
LEMMA GetRangeStep ==
  ASSUME Structure, NEW t \in Threads, NEW n \in 0 .. WordValues, n # 0, NEW next, NEW r \in Ranges,
         \/ call[t].at = "prepare" /\ next = "fill" /\ n = 1
         \/ call[t].at = "reserve" /\ next = "record" /\ n = PageCount(call[t].size),
         pages[r] = 0, pages' = [pages EXCEPT ![r] = n], Do(t, next, r),
         UNCHANGED <<slab, lists, records, owned>>
  PROVE  Structure'
  <1>1. Types /\ CallOk(t)
    BY DEF Structure, CallsOk
  <1>2. next \in Places /\ next \in Holding
    BY DEF Places, Holding
  <1>3. /\ call'[t].at = next /\ call'[t].range = r /\ call'[t].size = call[t].size
        /\ \A u \in Threads : u # t => call'[u] = call[u]
        /\ call' \in [Threads -> Call]
    BY <1>1, <1>2, DoFacts
  <1>4. /\ ~Linked(r) /\ slab[r].magic # "SLAB" /\ (\A i : ~Recorded(r, i)) /\ \A u : ~Held(r, u)
    BY IdleFacts
  <1>5. call[t].at \notin Holding /\ \A p : ~Freeing(t, p)
    BY DEF Holding, Freeing
  <1>6. \A q \in Ranges : ~Held(q, t)
    BY <1>5, OutFacts
  <1>7. pages' \in [Ranges -> 0 .. WordValues] /\ pages'[r] = n
        /\ \A q \in Ranges : q # r => pages'[q] = pages[q]
    BY <1>1 DEF Types
  <1>8. slab' = [q \in Ranges |-> slab'[q]]
    BY <1>1 DEF Types
  <1>9. Held(r, t)' /\ \A q \in Ranges : Held(q, t)' => q = r
    BY <1>3 DEF Held
  <1>10. CallOk(t)'
    <2>1. /\ call[t].at \in {"prepare", "fill", "link"} => call[t].size # 0 /\ SmallClass(call[t].size) # 0
          /\ call[t].at \in {"reserve", "record"} => call[t].size \in Sizes /\ PageCount(call[t].size) # 0
      BY <1>1 DEF CallOk
    <2>2. r # NULL
      BY NullFacts
    <2>3. CASE call[t].at = "prepare" /\ next = "fill" /\ n = 1
      BY <2>1, <2>2, <2>3, <1>3, <1>4, <1>7 DEF CallOk, Holding
    <2>4. CASE call[t].at = "reserve" /\ next = "record" /\ n = PageCount(call[t].size)
      BY <2>1, <2>2, <2>4, <1>3, <1>4, <1>7 DEF CallOk, Holding
    <2> QED
      BY <2>3, <2>4
  <1>11. call'[t].at # "free"
    BY <1>3
  <1> QED
    BY <1>3, <1>4, <1>5, <1>6, <1>7, <1>8, <1>9, <1>10, <1>11, HandStep

\* The new slab is filled in.
LEMMA FillSlabStep ==
  ASSUME Structure, NEW t \in Threads, FillSlab(t)
  PROVE  Structure'
  <1>0. call[t].at = "fill" /\ call[t].at \in Holding
    BY DEF FillSlab, Holding
  <1>r. PICK r \in Ranges : r = call[t].range
    BY <1>0, HoldingFacts
  <1>1. Types /\ CallOk(t) /\ r \in Ranges /\ Held(r, t) /\ (\A q \in Ranges : Held(q, t) => q = r)
        /\ \A p : ~Freeing(t, p)
    BY <1>0, <1>r, HoldingFacts DEF Structure
  <1>2. ~Linked(r) /\ (\A i : ~Recorded(r, i)) /\ \A u : Held(r, u) => u = t
    BY <1>1, HeldFacts
  <1>3. Do(t, "link", r) /\ slab' = [slab EXCEPT ![r] = PreparedSlab(SmallClass(call[t].size))]
        /\ UNCHANGED <<pages, lists, records, owned>>
    BY <1>r DEF FillSlab
  <1>4. pages[r] = 1 /\ call[t].size # 0 /\ SmallClass(call[t].size) # 0
    BY <1>0, <1>1, <1>r DEF CallOk
  <1>5. /\ call'[t].at = "link" /\ call'[t].range = r /\ call'[t].size = call[t].size
        /\ \A u \in Threads : u # t => call'[u] = call[u]
        /\ call' \in [Threads -> Call]
    <2>1. "link" \in Places /\ r \in Ranges \cup {NULL}
      BY <1>1 DEF Places
    <2> QED
      BY <2>1, <1>1, <1>3, DoFacts
  <1>6. slab' = [q \in Ranges |-> slab'[q]] /\ slab'[r] = PreparedSlab(SmallClass(call[t].size))
        /\ \A q \in Ranges : q # r => slab'[q] = slab[q]
    BY <1>1, <1>3 DEF Types
  <1>7. Held(r, t)' /\ \A q \in Ranges : Held(q, t)' => q = r
    BY <1>5 DEF Held
  <1>8. CallOk(t)'
    <2>1. r # NULL
      BY <1>1, NullFacts
    <2>2. slab'[r] = PreparedSlab(SmallClass(call'[t].size)) /\ SmallClass(call'[t].size) # 0
          /\ pages'[r] = 1
      BY <1>3, <1>4, <1>5, <1>6
    <2> QED
      BY <2>1, <2>2, <1>4, <1>5 DEF CallOk, Holding
  <1>9. pages' \in [Ranges -> 0 .. WordValues] /\ \A q \in Ranges : pages'[q] = pages[q]
    BY <1>1, <1>3 DEF Types
  <1>10. call'[t].at # "free"
    BY <1>5
  <1> QED
    BY <1>1, <1>2, <1>3, <1>5, <1>6, <1>7, <1>8, <1>9, <1>10, HandStep

\* With every record in use the caller gives the range back.
LEMMA RecordFullStep ==
  ASSUME Structure, NEW t \in Threads, call[t].at = "record", Do(t, "release", call[t].range),
         UNCHANGED <<pages, slab, lists, records, owned>>
  PROVE  Structure'
  <1>0. call[t].at \in Holding
    BY DEF Holding
  <1>r. PICK r \in Ranges : r = call[t].range
    BY <1>0, HoldingFacts
  <1>1. Types /\ CallOk(t) /\ r \in Ranges /\ Held(r, t) /\ (\A q \in Ranges : Held(q, t) => q = r)
        /\ \A p : ~Freeing(t, p)
    BY <1>0, <1>r, HoldingFacts DEF Structure
  <1>2. ~Linked(r) /\ (\A i : ~Recorded(r, i)) /\ \A u : Held(r, u) => u = t
    BY <1>1, HeldFacts
  <1>3. Do(t, "release", r)
    BY <1>r
  <1>4. pages[r] # 0 /\ slab[r].magic # "SLAB"
    BY <1>0, <1>1, <1>r DEF CallOk
  <1>5. /\ call'[t].at = "release" /\ call'[t].range = r
        /\ \A u \in Threads : u # t => call'[u] = call[u]
        /\ call' \in [Threads -> Call]
    <2>1. "release" \in Places /\ r \in Ranges \cup {NULL}
      BY <1>1 DEF Places
    <2> QED
      BY <2>1, <1>1, <1>3, DoFacts
  <1>6. slab' = [q \in Ranges |-> slab'[q]] /\ slab'[r] = slab[r]
        /\ \A q \in Ranges : q # r => slab'[q] = slab[q]
    BY <1>1, <1>3 DEF Types
  <1>7. Held(r, t)' /\ \A q \in Ranges : Held(q, t)' => q = r
    BY <1>5 DEF Held
  <1>8. CallOk(t)'
    <2>1. r # NULL
      BY <1>1, NullFacts
    <2> QED
      BY <2>1, <1>4, <1>5 DEF CallOk, Holding
  <1>9. pages' \in [Ranges -> 0 .. WordValues] /\ \A q \in Ranges : pages'[q] = pages[q]
    BY <1>1 DEF Types
  <1>10. call'[t].at # "free" /\ slab'[r].magic # "SLAB"
    BY <1>4, <1>5
  <1> QED
    BY <1>1, <1>2, <1>3, <1>5, <1>6, <1>7, <1>8, <1>9, <1>10, HandStep

\* The range goes back to the KVA layer.
LEMMA ReleaseRangeStep ==
  ASSUME Structure, NEW t \in Threads, ReleaseRange(t)
  PROVE  Structure'
  <1>0. call[t].at = "release" /\ call[t].at \in Holding
    BY DEF ReleaseRange, Holding
  <1>r. PICK r \in Ranges : r = call[t].range
    BY <1>0, HoldingFacts
  <1>1. Types /\ CallOk(t) /\ r \in Ranges /\ Held(r, t) /\ (\A q \in Ranges : Held(q, t) => q = r)
        /\ \A p : ~Freeing(t, p)
    BY <1>0, <1>r, HoldingFacts DEF Structure
  <1>2. ~Linked(r) /\ (\A i : ~Recorded(r, i)) /\ \A u : Held(r, u) => u = t
    BY <1>1, HeldFacts
  <1>3. Finish(t) /\ pages' = [pages EXCEPT ![r] = 0]
        /\ UNCHANGED <<slab, lists, records, owned>>
    BY <1>r DEF ReleaseRange
  <1>4. slab[r].magic # "SLAB"
    BY <1>0, <1>1, <1>r DEF CallOk
  <1>5. /\ call'[t] = Resting /\ CallOk(t)' /\ \A q \in Ranges : ~Held(q, t)'
        /\ \A u \in Threads : u # t => call'[u] = call[u]
        /\ call' \in [Threads -> Call]
    BY <1>1, <1>3, FinishFacts
  <1>6. slab' = [q \in Ranges |-> slab'[q]] /\ slab'[r] = slab[r]
        /\ \A q \in Ranges : q # r => slab'[q] = slab[q]
    BY <1>1, <1>3 DEF Types
  <1>9. pages' \in [Ranges -> 0 .. WordValues] /\ pages'[r] = 0 /\ \A q \in Ranges : q # r => pages'[q] = pages[q]
    <2>1. 0 \in 0 .. WordValues
      BY ByteFacts
    <2> QED
      BY <2>1, <1>1, <1>3 DEF Types
  <1>10. call'[t].at # "free" /\ slab'[r].magic # "SLAB"
    BY <1>4, <1>5, <1>6, RestingFacts
  <1> QED
    BY <1>1, <1>2, <1>3, <1>5, <1>6, <1>9, <1>10, HandStep

-----------------------------------------------------------------------------
(* A slot leaves for the caller.                                           *)

\* A slot of range r leaves for the caller, from a linked slab or a new one.
LEMMA Served ==
  ASSUME Structure, NEW t \in Threads, NEW r \in Ranges, NEW c, NEW size \in Nat, size # 0,
         size <= ClassSizes[c], SlabOk(slab[r], c), slab[r].free # << >>,
         slab' = [slab EXCEPT ![r] = SlotTaken(slab[r], size)],
         owned' = owned \cup {[pointer |-> <<r, UserOffset(c, Head(slab[r].free))>>, size |-> size]},
         UNCHANGED <<pages, records>>, pages[r] = 1, Finish(t), \A p : ~Freeing(t, p),
         \A i : ~Recorded(r, i), \A u \in Threads : u # t => ~Held(r, u),
         \A q \in Ranges : Held(q, t) => q = r,
         lists' \in [Classes -> Seq(Ranges)], ListsOk',
         \A q, d : In(q, d)' <=> In(q, d) \/ (q = r /\ d = c),
         \A k \in Slots(c) : slab[r].used[k] # 0 => Linked(r)
  PROVE  Structure'
  <1>a. PICK k0 : k0 = Head(slab[r].free)
    OBVIOUS
  <1>b. PICK o : o = UserOffset(c, k0)
    OBVIOUS
  <1> DEFINE b0 == [pointer |-> <<r, o>>, size |-> size]
  <1>1. /\ k0 \in Slots(c) /\ slab[r].used[k0] = 0 /\ SlabOk(SlotTaken(slab[r], size), c)
        /\ SlotTaken(slab[r], size).used = [slab[r].used EXCEPT ![k0] = size]
    BY <1>a, TakenIsOk
  <1>2. c \in Classes /\ slab[r].class = c /\ slab[r].used \in [Slots(c) -> 0 .. ClassSizes[c]]
    BY SlabFacts
  <1>3. Types
    BY DEF Structure
  <1>4. slab'[r] = SlotTaken(slab[r], size) /\ slab' = [q \in Ranges |-> slab'[q]]
        /\ \A q \in Ranges : q # r => slab'[q] = slab[q]
    BY <1>3 DEF Types
  <1>5. SlabOk(slab'[r], c) /\ slab'[r].used = [slab[r].used EXCEPT ![k0] = size]
    BY <1>1, <1>4
  <1>6. slab'[r].class = c /\ slab'[r].magic = "SLAB"
    BY <1>5, SlabFacts
  <1>7. k0 \in Nat /\ o \in Nat
    BY <1>1, <1>2, <1>b, OffsetInPage, OffsetFacts
  <1>8. <<r, o>> \in Pointers /\ b0 \in Block /\ b0.pointer = <<r, o>> /\ <<r, o>>[1] = r /\ b0.size = size
    BY <1>7 DEF Pointers, Block
  <1>9. owned' = owned \cup {b0}
    BY <1>a, <1>b
  <1> HIDE DEF b0
  <1>10. /\ call'[t] = Resting /\ CallOk(t)' /\ (\A q \in Ranges : ~Held(q, t)')
         /\ (\A u \in Threads : u # t => call'[u] = call[u])
         /\ call' \in [Threads -> Call] /\ \A p : ~Freeing(t, p)'
    BY <1>3, FinishFacts
  <1>11. owned \subseteq Block
    BY <1>3 DEF Types
  <1>12. Types'
    BY <1>3, <1>4, <1>8, <1>9, <1>10, <1>11 DEF Types
  <1>13. \A q, i : Recorded(q, i)' <=> Recorded(q, i)
    BY SameRecords
  <1>14. RecordsOk'
    BY SameRecords DEF Structure
  <1>15. Frame(t, r)
    <2>1. \A b \in Block : b.pointer[1] # r => (b \in owned' <=> b \in owned)
      BY <1>8, <1>9
    <2>2. \A q \in Ranges, d \in Classes : q # r => (In(q, d)' <=> In(q, d))
      OBVIOUS
    <2>3. \A q \in Ranges : q # r => ~Held(q, t) /\ ~Held(q, t)'
      BY <1>10
    <2> QED
      BY <2>1, <2>2, <2>3, <1>4, <1>10, <1>13 DEF Frame
  <1>16. \A d : In(r, d)' <=> d = c
    <2>1. \A d : In(r, d) => d = c
      <3> SUFFICES ASSUME NEW d, In(r, d) PROVE d = c
        OBVIOUS
      <3>1. Linked(r)
        BY DEF Linked, In
      <3> QED
        BY <3>1, <1>2, LinkedFacts
    <2> QED
      BY <2>1
  <1>17. Linked(r)'
    BY <1>2, <1>16 DEF Linked
  <1>18. \A u \in Threads : ~Held(r, u)'
    <2> SUFFICES ASSUME NEW u \in Threads, Held(r, u)' PROVE FALSE
      OBVIOUS
    <2>1. u # t
      BY <1>10
    <2>2. Held(r, u)
      BY <2>1, <1>10 DEF Held
    <2> QED
      BY <2>1, <2>2
  <1>19. LinkedOk(r)'
    BY <1>5, <1>16 DEF LinkedOk
  <1>20. RecordedOk(r)'
    BY <1>13, Zenon DEF RecordedOk
  <1>21. HeldOk(r)'
    BY <1>18, Zenon DEF HeldOk
  <1>22. UsedOk(r)'
    BY <1>17, Zenon DEF UsedOk
  <1>23. OwnedOk(r)'
    <2>1. OwnedOk(r)
      BY DEF Structure, RangesOk, RangeOk
    <2>2. \A k : Live(r, k) <=> k \in Slots(c) /\ slab[r].used[k] # 0
      BY <1>2 DEF Live
    <2>3. \A k \in Slots(c) : slab'[r].used[k] = IF k = k0 THEN size ELSE slab[r].used[k]
      BY <1>1, <1>2, <1>5
    <2>4. \A k : Live(r, k)' <=> Live(r, k) \/ k = k0
      BY <2>2, <2>3, <1>1, <1>6, <1>17 DEF Live
    <2>5. \A k : SlotPointer(r, k)' = SlotPointer(r, k)
      BY <1>2, <1>6 DEF SlotPointer
    <2>6. \A k : Live(r, k) => k # k0 /\ SlotBlock(r, k)' = SlotBlock(r, k)
      BY <2>2, <2>3, <2>5, <1>1 DEF SlotBlock
    <2>7. SlotBlock(r, k0)' = b0 /\ SlotPointer(r, k0) = <<r, o>>
      <3>1. slab'[r].used[k0] = size
        BY <2>3, <1>1
      <3>2. SlotPointer(r, k0) = <<r, o>>
        BY <1>2, <1>b DEF SlotPointer
      <3>3. SlotBlock(r, k0)' = [pointer |-> SlotPointer(r, k0)', size |-> slab'[r].used[k0]]
        BY DEF SlotBlock
      <3> QED
        BY <3>1, <3>2, <3>3, <2>5 DEF b0
    <2>8. \A u \in Threads : \A p : Freeing(u, p)' <=> Freeing(u, p)
      <3> SUFFICES ASSUME NEW u \in Threads, NEW p PROVE Freeing(u, p)' <=> Freeing(u, p)
        OBVIOUS
      <3>1. CASE u = t
        BY <3>1, <1>10
      <3>2. CASE u # t
        BY <3>2, <1>10 DEF Freeing
      <3> QED
        BY <3>1, <3>2
    <2>9. \A k \in Nat : Live(r, k)' =>
             SlotBlock(r, k)' \in owned' \/ \E u \in Threads : Freeing(u, SlotPointer(r, k))'
      <3> SUFFICES ASSUME NEW k \in Nat, Live(r, k)', k # k0
                   PROVE  SlotBlock(r, k)' \in owned' \/ \E u \in Threads : Freeing(u, SlotPointer(r, k))'
        BY <2>7, <1>9
      <3>1. Live(r, k)
        BY <2>4
      <3>2. SlotBlock(r, k) \in owned \/ \E u \in Threads : Freeing(u, SlotPointer(r, k))
        BY <2>1, <3>1, Zenon DEF OwnedOk
      <3>3. CASE SlotBlock(r, k) \in owned
        BY <3>1, <3>3, <2>6, <1>9
      <3>4. ASSUME NEW u \in Threads, Freeing(u, SlotPointer(r, k))
            PROVE  Freeing(u, SlotPointer(r, k))'
        <4>1. u # t
          BY <3>4
        <4> QED
          BY <4>1, <3>4, <2>5, <1>10 DEF Freeing
      <3> QED
        BY <3>2, <3>3, <3>4
    <2>10. \A i : ~Recorded(r, i)'
      BY <1>13
    <2>11. \A b \in owned' : b.pointer[1] = r => \E k \in Nat : Live(r, k)' /\ b = SlotBlock(r, k)'
      <3> SUFFICES ASSUME NEW b \in owned', b.pointer[1] = r
                   PROVE  \E k \in Nat : Live(r, k)' /\ b = SlotBlock(r, k)'
        OBVIOUS
      <3>1. CASE b = b0
        BY <3>1, <2>4, <2>7, <1>7
      <3>2. CASE b \in owned
        <4>1. PICK k \in Nat : Live(r, k) /\ b = SlotBlock(r, k)
          BY <3>2, <2>1, Zenon DEF OwnedOk
        <4> QED
          BY <4>1, <2>4, <2>6
      <3> QED
        BY <3>1, <3>2, <1>9
    <2>12. \A u \in Threads, p \in Pointers : Freeing(u, p)' /\ p[1] = r =>
             /\ \E k \in Nat : Live(r, k)' /\ p = SlotPointer(r, k)'
             /\ \A b \in owned' : b.pointer # p
             /\ \A v \in Threads : Freeing(v, p)' => v = u
      <3> SUFFICES ASSUME NEW u \in Threads, NEW p \in Pointers, Freeing(u, p)', p[1] = r
                   PROVE  /\ \E k \in Nat : Live(r, k)' /\ p = SlotPointer(r, k)'
                          /\ \A b \in owned' : b.pointer # p
                          /\ \A v \in Threads : Freeing(v, p)' => v = u
        OBVIOUS
      <3>1. Freeing(u, p)
        BY <2>8
      <3>2. /\ \E k \in Nat : Live(r, k) /\ p = SlotPointer(r, k)
            /\ \A b \in owned : b.pointer # p
            /\ \A v \in Threads : Freeing(v, p) => v = u
        BY <2>1, <3>1, Zenon DEF OwnedOk
      <3>3. PICK k \in Nat : Live(r, k) /\ p = SlotPointer(r, k)
        BY <3>2
      <3>4. p # <<r, o>>
        <4>1. UserOffset(c, k) # o
          BY <3>3, <2>6, <1>2, <1>7, <1>b, OffsetsDiffer
        <4>2. p = <<r, UserOffset(c, k)>>
          BY <3>3, <1>2 DEF SlotPointer
        <4> QED
          BY <4>1, <4>2
      <3>5. \A b \in owned' : b.pointer # p
        BY <3>2, <3>4, <1>8, <1>9
      <3> QED
        BY <3>2, <3>3, <3>5, <2>4, <2>5, <2>8
    <2> QED
      BY <2>9, <2>10, <2>11, <2>12, Zenon DEF OwnedOk
  <1>24. RangeOk(r)'
    BY <1>19, <1>20, <1>21, <1>22, <1>23 DEF RangeOk
  <1> QED
    BY <1>12, <1>14, <1>15, <1>10, <1>24, FrameStructure

-----------------------------------------------------------------------------
(* What each action does, by its cases.                                    *)

\* A slot of slab r of class c leaves for the caller.
Takes(t, r, c, size) ==
  /\ size \in Nat /\ size # 0 /\ size <= ClassSizes[c]
  /\ SlabOk(slab[r], c) /\ slab[r].free # << >> /\ pages[r] = 1
  /\ slab' = [slab EXCEPT ![r] = SlotTaken(slab[r], size)]
  /\ owned' = owned \cup {[pointer |-> <<r, UserOffset(c, Head(slab[r].free))>>, size |-> size]}
  /\ UNCHANGED <<pages, records>> /\ Finish(t)

\* No slab has a free slot.
Waits(t, at, size) ==
  /\ call' = [call EXCEPT ![t] = [Resting EXCEPT !.at = at, !.size = size]]
  /\ UNCHANGED <<pages, slab, lists, records, stats, owned>>

\* The two ways kmalloc of a small size goes on.
LEMMA AllocSmallCases ==
  ASSUME Structure, NEW t \in Threads, NEW size \in Sizes, AllocSmall(t, size)
  PROVE  /\ call[t].at = "out" /\ size # 0 /\ SmallClass(size) \in Classes
         /\ \/ \E r \in Ranges : /\ In(r, SmallClass(size)) /\ Takes(t, r, SmallClass(size), size)
                                 /\ lists' = lists /\ stats' = SmallCounted(stats, 1)
            \/ Waits(t, "prepare", size)
  <1>0. PICK c : c = SmallClass(size)
    OBVIOUS
  <1>1. size \in Nat /\ call[t].at = "out" /\ size # 0 /\ c # 0
    BY <1>0, HeapAssumption DEF AllocSmall
  <1>2. c \in Classes /\ size <= ClassSizes[c]
    BY <1>0, <1>1, SmallClassFacts
  <1> DEFINE ready == {i \in DOMAIN lists[c] : slab[lists[c][i]].free # << >>}
             first == lists[c][CHOOSE i \in ready : \A j \in ready : i <= j]
  <1>3. CASE ready = {}
    BY <1>0, <1>1, <1>2, <1>3 DEF AllocSmall, Waits
  <1>4. CASE ready # {}
    <2>1. lists[c] \in Seq(Ranges)
      BY <1>2 DEF Structure, Types
    <2>2. ready \subseteq Nat
      BY <2>1
    <2>3. Serve(t, first, slab[first], size, stats) /\ UNCHANGED <<pages, lists, records>>
      BY <1>0, <1>4 DEF AllocSmall
    <2>4. \E i \in ready : first = lists[c][i]
      <3> DEFINE a == CHOOSE i \in ready : \A j \in ready : i <= j
      <3> HIDE DEF ready
      <3>1. \E i \in ready : \A j \in ready : i <= j
        BY <1>4, <2>2, LeastOf
      <3>2. a \in ready
        BY <3>1
      <3>3. first = lists[c][a]
        OBVIOUS
      <3> QED
        BY <3>2, <3>3, Zenon
    <2>5. PICK i \in DOMAIN lists[c] : slab[lists[c][i]].free # << >> /\ first = lists[c][i]
      BY <2>4
    <2> HIDE DEF first
    <2>6. PICK r : r = first
      OBVIOUS
    <2>7. In(r, c) /\ slab[r].free # << >> /\ Serve(t, r, slab[r], size, stats)
      BY <2>3, <2>5, <2>6, <1>2 DEF In
    <2>8. Linked(r)
      BY <2>7, <1>2 DEF Linked
    <2>9. r \in Ranges /\ pages[r] = 1 /\ slab[r].class = c /\ SlabOk(slab[r], c)
      BY <2>7, <2>8, LinkedFacts
    <2>10. /\ slab' = [slab EXCEPT ![r] = SlotTaken(slab[r], size)]
           /\ stats' = SmallCounted(stats, 1)
           /\ owned' = owned \cup {[pointer |-> <<r, UserOffset(c, Head(slab[r].free))>>, size |-> size]}
           /\ Finish(t)
      BY <2>7, <2>9 DEF Serve
    <2>11. Takes(t, r, c, size)
      BY <2>3, <2>7, <2>9, <2>10, <1>1, <1>2 DEF Takes
    <2> QED
      BY <1>0, <1>1, <1>2, <2>3, <2>7, <2>9, <2>10, <2>11
  <1> QED
    BY <1>3, <1>4

\* What linking a new slab does.
LEMMA LinkSlabCases ==
  ASSUME Structure, NEW t \in Threads, LinkSlab(t)
  PROVE  \E r \in Ranges, c \in Classes :
            /\ call[t].at = "link" /\ Held(r, t) /\ slab[r] = PreparedSlab(c)
            /\ Takes(t, r, c, call[t].size)
            /\ lists' = [lists EXCEPT ![c] = <<r>> \o @]
            /\ stats' = SmallCounted([stats EXCEPT !.backing = @ + PageBytes], 1)
  <1>0. call[t].at = "link" /\ call[t].at \in Holding
    BY DEF LinkSlab, Holding
  <1>1. PICK r \in Ranges : r = call[t].range
    BY <1>0, HoldingFacts
  <1>2. PICK size : size = call[t].size
    OBVIOUS
  <1>3. Held(r, t) /\ CallOk(t) /\ size \in Nat
    BY <1>0, <1>1, <1>2, HoldingFacts, CallFacts DEF Structure
  <1>4. PICK c : c = SmallClass(size)
    OBVIOUS
  <1>5. size # 0 /\ c # 0 /\ pages[r] = 1 /\ slab[r] = PreparedSlab(c)
    BY <1>0, <1>1, <1>2, <1>3, <1>4 DEF CallOk
  <1>6. c \in Classes /\ size <= ClassSizes[c]
    BY <1>3, <1>4, <1>5, SmallClassFacts
  <1>7. SlabOk(slab[r], c) /\ slab[r].free # << >>
    BY <1>5, <1>6, PreparedIsOk
  <1>8. slab[r].class = c
    BY <1>7, SlabFacts
  <1>9. /\ lists' = [lists EXCEPT ![c] = <<r>> \o @]
        /\ Serve(t, r, slab[r], size, [stats EXCEPT !.backing = @ + pages[r] * PageBytes])
        /\ UNCHANGED <<pages, records>>
    BY <1>1, <1>2, <1>8 DEF LinkSlab
  <1>10. pages[r] * PageBytes = PageBytes
    BY <1>5, ByteFacts
  <1>11. /\ slab' = [slab EXCEPT ![r] = SlotTaken(slab[r], size)]
         /\ stats' = SmallCounted([stats EXCEPT !.backing = @ + PageBytes], 1)
         /\ owned' = owned \cup {[pointer |-> <<r, UserOffset(c, Head(slab[r].free))>>, size |-> size]}
         /\ Finish(t)
    BY <1>8, <1>9, <1>10 DEF Serve
  <1>12. Takes(t, r, c, size)
    BY <1>3, <1>5, <1>6, <1>7, <1>9, <1>11 DEF Takes
  <1> QED
    BY <1>0, <1>2, <1>3, <1>5, <1>6, <1>9, <1>11, <1>12

\* Record i takes range r.
Records(t, r, i) ==
  /\ call[t].at = "record" /\ Held(r, t) /\ records[i] = NoRecord
  /\ records' = [records EXCEPT ![i] = [pointer |-> <<r, 0>>, size |-> call[t].size, pages |-> pages[r]]]
  /\ stats' = [LargeCounted(stats, 1) EXCEPT !.backing = @ + pages[r] * PageBytes]
  /\ owned' = owned \cup {[pointer |-> <<r, 0>>, size |-> call[t].size]}
  /\ Finish(t) /\ UNCHANGED <<pages, slab, lists>>

\* The two ways recording a large block goes on.
LEMMA RecordLargeCases ==
  ASSUME Structure, NEW t \in Threads, RecordLarge(t)
  PROVE  \/ /\ call[t].at = "record" /\ Do(t, "release", call[t].range)
            /\ UNCHANGED <<pages, slab, lists, records, stats, owned>>
         \/ \E r \in Ranges, i \in 1 .. LargeRecords : Records(t, r, i)
  <1> DEFINE free == {i \in DOMAIN records : records[i] = NoRecord}
             first == CHOOSE i \in free : \A j \in free : i <= j
  <1>0. call[t].at = "record" /\ call[t].at \in Holding
    BY DEF RecordLarge, Holding
  <1>1. PICK r \in Ranges : r = call[t].range /\ Held(r, t)
    BY <1>0, HoldingFacts
  <1>2. CASE free = {}
    BY <1>0, <1>2 DEF RecordLarge
  <1>3. CASE free # {}
    <2>1. /\ records' = [records EXCEPT ![first] =
                 [pointer |-> <<r, 0>>, size |-> call[t].size, pages |-> pages[r]]]
          /\ stats' = [LargeCounted(stats, 1) EXCEPT !.backing = @ + pages[r] * PageBytes]
          /\ owned' = owned \cup {[pointer |-> <<r, 0>>, size |-> call[t].size]}
          /\ Finish(t) /\ UNCHANGED <<pages, slab, lists>>
      BY <1>1, <1>3 DEF RecordLarge
    <2>2. DOMAIN records = 1 .. LargeRecords
      BY DEF Structure, Types
    <2>3. free \subseteq Nat
      BY <2>2, ByteFacts
    <2>4. first \in free
      <3> HIDE DEF free
      <3> QED
        BY <1>3, <2>3, LeastOf
    <2>5. PICK i \in 1 .. LargeRecords : i = first /\ records[i] = NoRecord
      BY <2>2, <2>4
    <2> HIDE DEF first
    <2>6. Records(t, r, i)
      BY <2>1, <2>5, <1>0, <1>1 DEF Records
    <2> QED
      BY <2>6
  <1> QED
    BY <1>2, <1>3

\* The caller of kfree gives up a slot: the search of the records finds none.
GivesSlot(t, r, k) ==
  /\ call[t].at = "out" /\ Live(r, k) /\ SlotBlock(r, k) \in owned
  /\ call' = [call EXCEPT ![t] = [Resting EXCEPT !.at = "free", !.pointer = SlotPointer(r, k)]]
  /\ owned' = owned \ {SlotBlock(r, k)}
  /\ UNCHANGED <<pages, slab, lists, records, stats>>

\* kfree finds record i.
GivesRecord(t, r, i) ==
  /\ call[t].at = "out" /\ Recorded(r, i) /\ RecordBlock(i) \in owned
  /\ records' = [records EXCEPT ![i] = NoRecord]
  /\ stats' = [LargeCounted(stats, -1) EXCEPT !.backing = @ - records[i].pages * PageBytes]
  /\ owned' = owned \ {RecordBlock(i)}
  /\ Do(t, "release", r) /\ UNCHANGED <<pages, slab, lists>>

\* The first section of kfree finds a record, or the block is a slot.
LEMMA FreeLargeCases ==
  ASSUME Structure, NEW t \in Threads, NEW b \in owned, FreeLarge(t, b)
  PROVE  \/ \E r \in Ranges, k \in Nat : GivesSlot(t, r, k)
         \/ \E r \in Ranges, i \in 1 .. LargeRecords : GivesRecord(t, r, i)
  <1> DEFINE match == {i \in DOMAIN records : records[i].pointer = b.pointer}
  <1>0. b \in Block /\ DOMAIN records = 1 .. LargeRecords /\ call[t].at = "out"
    BY DEF Structure, Types, FreeLarge
  <1>1. b.pointer \in Pointers
    BY <1>0 DEF Block
  <1>2. PICK r \in Ranges : r = b.pointer[1]
    BY <1>1 DEF Pointers
  <1>3. OwnedOk(r)
    BY DEF Structure, RangesOk, RangeOk
  <1>4. \A i \in 1 .. LargeRecords : records[i].pointer = b.pointer => records[i] # NoRecord
    BY <1>1, NullFacts DEF NoRecord
  <1>5. ASSUME NEW k \in Nat, Live(r, k), b = SlotBlock(r, k)
        PROVE  GivesSlot(t, r, k)
    <2>1. b.pointer = SlotPointer(r, k) /\ b.pointer[2] > 0
      BY <1>5, LiveFacts
    <2>2. match = {}
      <3> SUFFICES ASSUME NEW i \in 1 .. LargeRecords, records[i].pointer = b.pointer PROVE FALSE
        BY <1>0
      <3>1. PICK q \in Ranges : Recorded(q, i)
        BY <1>4 DEF Structure, RecordsOk
      <3>2. b.pointer = <<q, 0>>
        BY <3>1 DEF Recorded
      <3> QED
        BY <3>2, <2>1
    <2> HIDE DEF match
    <2>3. /\ owned' = owned \ {b}
          /\ call' = [call EXCEPT ![t] = [Resting EXCEPT !.at = "free", !.pointer = b.pointer]]
          /\ UNCHANGED <<records, stats, pages, slab, lists>>
      BY <2>2 DEF FreeLarge, match
    <2> QED
      BY <2>1, <2>3, <1>0, <1>5 DEF GivesSlot
  <1>6. ASSUME NEW i \in 1 .. LargeRecords, Recorded(r, i), b = RecordBlock(i)
        PROVE  GivesRecord(t, r, i)
    <2>1. b.pointer = <<r, 0>> /\ records[i].pointer = <<r, 0>>
      BY <1>6, RecordBlockFacts
    <2>2. match = {i}
      <3>1. i \in match
        BY <2>1, <1>0
      <3>2. ASSUME NEW j \in match PROVE j = i
        <4>1. j \in 1 .. LargeRecords /\ records[j].pointer = <<r, 0>> /\ records[j] # NoRecord
          BY <3>2, <2>1, <1>0, <1>4
        <4>2. Recorded(r, j)
          BY <4>1 DEF Recorded
        <4> QED
          BY <4>2, <1>6, RecordedFacts
      <3> QED
        BY <3>1, <3>2
    <2>3. (CHOOSE j \in match : \A k \in match : j <= k) = i
      <3> HIDE DEF match
      <3>1. i <= i
        OBVIOUS
      <3> QED
        BY <2>2, <3>1
    <2> DEFINE m == CHOOSE j \in match : \A k \in match : j <= k
    <2>4. match # {}
      BY <2>2
    <2>5. /\ owned' = owned \ {b}
          /\ records' = [records EXCEPT ![m] = NoRecord]
          /\ stats' = [LargeCounted(stats, -1) EXCEPT !.backing = @ - records[m].pages * PageBytes]
          /\ Do(t, "release", b.pointer[1])
          /\ UNCHANGED <<pages, slab, lists>>
      BY <2>4 DEF FreeLarge
    <2>6. m = i
      BY <2>3
    <2> HIDE DEF m
    <2> QED
      BY <2>5, <2>6, <1>0, <1>2, <1>6 DEF GivesRecord
  <1>7. \/ \E k \in Nat : Live(r, k) /\ b = SlotBlock(r, k)
        \/ \E i \in 1 .. LargeRecords : Recorded(r, i) /\ b = RecordBlock(i)
    BY <1>2, <1>3, Zenon DEF OwnedOk
  <1> QED
    BY <1>5, <1>6, <1>7

\* The slot goes back to its slab, which stays on its list or retires.
Returns(t, r, k) ==
  /\ Live(r, k) /\ Freeing(t, SlotPointer(r, k))
  /\ UNCHANGED <<pages, records, owned>>

\* The slab stays on its list.
Stays(t, r, k) ==
  /\ slab' = [slab EXCEPT ![r] = SlotReturned(slab[r], k)]
  /\ lists' = lists /\ stats' = SmallCounted(stats, -1) /\ Finish(t)

\* The slab leaves its list.
Retires(t, r, k) ==
  LET c == slab[r].class IN
  /\ Len(SlotReturned(slab[r], k).free) = SlotsPerPage(c)
  /\ slab' = [slab EXCEPT ![r] = [SlotReturned(slab[r], k) EXCEPT !.magic = "RETIRED"]]
  /\ \E i \in DOMAIN lists[c] : lists[c][i] = r /\ lists' = [lists EXCEPT ![c] = RemoveAt(lists[c], i)]
  /\ stats' = [SmallCounted(stats, -1) EXCEPT !.backing = @ - PageBytes]
  /\ Do(t, "release", r)

\* A pointer of a slot in use names that slot.
LEMMA SlotOfPointer ==
  ASSUME Structure, NEW r, NEW k, Live(r, k)
  PROVE  SlotOf(r, UserOffset(slab[r].class, k)) = k
  <1>0. PICK c : c = slab[r].class
    OBVIOUS
  <1> DEFINE o == UserOffset(c, k)
             n == o - HeaderBytes - SlotBytes
             d == SlotStride(c)
  <1>1. Linked(r) /\ k \in Nat /\ k \in Slots(c) /\ slab[r].used[k] # 0
    BY <1>0, LiveFacts
  <1>2. c \in Classes /\ pages[r] = 1 /\ slab[r].magic = "SLAB" /\ SlabOk(slab[r], c)
    BY <1>0, <1>1, LinkedFacts
  <1>3. DOMAIN slab[r].used = Slots(c)
    BY <1>2, SlabFacts
  <1>4. 0 \in Nat /\ 0 < d /\ o \in Nat
    BY <1>1, <1>2, ClassFacts, OffsetFacts
  <1>5. (o + 0 - HeaderBytes - SlotBytes) \div d = k /\ (o + 0 - HeaderBytes - SlotBytes) % d = 0
        /\ o + 0 - HeaderBytes - SlotBytes \in Nat
    BY <1>1, <1>2, <1>4, SlotOfByte
  <1>6. n = o + 0 - HeaderBytes - SlotBytes
    BY <1>4, ByteFacts
  <1>7. n \div d = k /\ n % d = 0 /\ n \in Nat
    <2> HIDE DEF n, d, o
    <2> QED
      BY <1>5, <1>6, Zenon
  <1> HIDE DEF n, d
  <1>8. ~(n < 0)
    BY <1>7
  <1>9. SlotOf(r, o) = IF \/ pages[r] # 1 \/ slab[r].magic # "SLAB" \/ n < 0 \/ n % d # 0
                       THEN -1
                       ELSE IF n \div d \in DOMAIN slab[r].used /\ slab[r].used[n \div d] # 0
                            THEN n \div d ELSE -1
    BY <1>0, Zenon DEF SlotOf, n, d
  <1> HIDE DEF o
  <1>10. SlotOf(r, o) = k
    BY <1>1, <1>2, <1>3, <1>7, <1>8, <1>9, Zenon
  <1> QED
    BY <1>0, <1>10 DEF o

\* The second section of kfree always finds the slot.
LEMMA FreeSmallCases ==
  ASSUME Structure, NEW t \in Threads, FreeSmall(t)
  PROVE  \E r \in Ranges, k \in Nat : Returns(t, r, k) /\ (Stays(t, r, k) \/ Retires(t, r, k))
  <1>0. call[t].at = "free" /\ CallOk(t) /\ call[t].pointer \in Pointers \cup {NULL}
    BY CallFacts DEF FreeSmall, Structure, CallsOk
  <1>1. PICK p \in Pointers : p = call[t].pointer
    BY <1>0 DEF CallOk
  <1>2. Freeing(t, p)
    BY <1>0, <1>1 DEF Freeing
  <1>3. PICK r \in Ranges : r = p[1]
    BY DEF Pointers
  <1>4. OwnedOk(r)
    BY DEF Structure, RangesOk, RangeOk
  <1>5. PICK k \in Nat : Live(r, k) /\ p = SlotPointer(r, k)
    BY <1>2, <1>3, <1>4, Zenon DEF OwnedOk
  <1>6. PICK c : c = slab[r].class
    OBVIOUS
  <1>7. Linked(r) /\ k \in Slots(c) /\ slab[r].used[k] # 0 /\ p[2] = UserOffset(slab[r].class, k)
    BY <1>5, <1>6, LiveFacts
  <1>8. c \in Classes /\ pages[r] = 1 /\ SlabOk(slab[r], c) /\ In(r, c)
    BY <1>6, <1>7, LinkedFacts
  <1>9. SlotOf(call[t].pointer[1], call[t].pointer[2]) = k
    BY <1>1, <1>3, <1>5, <1>7, SlotOfPointer
  <1>9a. call[t].pointer[1] = r /\ k # -1
    BY <1>1, <1>3
  <1>9b. ReturnSlot(t, r, k) /\ UNCHANGED <<pages, records, owned>>
    BY <1>9, <1>9a, Zenon DEF FreeSmall
  <1> DEFINE s == SlotReturned(slab[r], k)
             e == s.class
             found == {i \in DOMAIN lists[e] : lists[e][i] = r}
             retires == Len(s.free) = SlotsPerPage(e) /\ found # {}
             place == CHOOSE i \in found : \A j \in found : i <= j
  <1>10. e = c
    <2>1. SlabOk(s, c)
      BY <1>7, <1>8, ReturnedIsOk
    <2> HIDE DEF s
    <2> QED
      BY <2>1, SlabFacts
  <1>12. UNCHANGED <<pages, records, owned>>
         /\ slab' = [slab EXCEPT ![r] = IF retires THEN [s EXCEPT !.magic = "RETIRED"] ELSE s]
         /\ IF retires
            THEN /\ lists' = [lists EXCEPT ![e] = RemoveAt(@, place)]
                 /\ stats' = [SmallCounted(stats, -1) EXCEPT !.backing = @ - pages[r] * PageBytes]
                 /\ Do(t, "release", r)
            ELSE /\ stats' = SmallCounted(stats, -1)
                 /\ Finish(t) /\ UNCHANGED lists
    BY <1>9b, Zenon DEF ReturnSlot
  <1> HIDE DEF e
  <1>13. Returns(t, r, k)
    BY <1>2, <1>5, <1>12 DEF Returns
  <1>14. CASE ~retires
    <2>1. Stays(t, r, k)
      BY <1>12, <1>14 DEF Stays
    <2> QED
      BY <2>1, <1>13
  <1>15. CASE retires
    <2>1. lists[c] \in Seq(Ranges)
      BY <1>8 DEF Structure, Types
    <2>2. found \subseteq Nat /\ found # {}
      BY <1>15, <2>1, <1>10
    <2>3. place \in found
      <3> HIDE DEF found
      <3> QED
        BY <2>2, LeastOf
    <2>4. PICK i \in DOMAIN lists[c] : lists[c][i] = r /\ i = place
      BY <2>3, <1>10
    <2>5. pages[r] * PageBytes = PageBytes
      BY <1>8, ByteFacts
    <2>6. Len(s.free) = SlotsPerPage(c)
      BY <1>15, <1>10
    <2>7. /\ slab' = [slab EXCEPT ![r] = [s EXCEPT !.magic = "RETIRED"]]
          /\ lists' = [lists EXCEPT ![c] = RemoveAt(lists[c], i)]
          /\ stats' = [SmallCounted(stats, -1) EXCEPT !.backing = @ - PageBytes]
          /\ Do(t, "release", r)
      <3> HIDE DEF retires, place, s
      <3> QED
        BY <1>12, <1>15, <1>10, <2>4, <2>5
    <2> HIDE DEF retires, place, found
    <2>8. Retires(t, r, k)
      BY <2>4, <2>6, <2>7, <1>6 DEF Retires
    <2> QED
      BY <2>8, <1>13
  <1> QED
    BY <1>14, <1>15

-----------------------------------------------------------------------------
(* Each case keeps the structure.                                          *)

\* A linked slab serves kmalloc.
LEMMA AllocServes ==
  ASSUME Structure, NEW t \in Threads, NEW r \in Ranges, NEW c \in Classes, NEW size,
         call[t].at = "out", In(r, c), Takes(t, r, c, size), lists' = lists
  PROVE  Structure'
  <1>1. Linked(r)
    BY DEF Linked
  <1>2. (\A i : ~Recorded(r, i)) /\ \A u : ~Held(r, u)
    BY <1>1, LinkedFacts
  <1>3. call[t].at \notin Holding /\ \A p : ~Freeing(t, p)
    BY DEF Holding, Freeing
  <1>4. \A q \in Ranges : ~Held(q, t)
    BY <1>3, OutFacts
  <1>5. lists' \in [Classes -> Seq(Ranges)] /\ ListsOk'
    BY SameLists DEF Structure, Types
  <1>6. \A q, d : In(q, d)' <=> In(q, d) \/ (q = r /\ d = c)
    BY SameLists
  <1>7. /\ size \in Nat /\ size # 0 /\ size <= ClassSizes[c]
        /\ SlabOk(slab[r], c) /\ slab[r].free # << >> /\ pages[r] = 1
        /\ slab' = [slab EXCEPT ![r] = SlotTaken(slab[r], size)]
        /\ owned' = owned \cup {[pointer |-> <<r, UserOffset(c, Head(slab[r].free))>>, size |-> size]}
        /\ UNCHANGED <<pages, records>> /\ Finish(t)
    BY Zenon DEF Takes
  <1> QED
    BY <1>1, <1>2, <1>3, <1>4, <1>5, <1>6, <1>7, Served

\* The new slab is linked and serves kmalloc.
LEMMA LinkServes ==
  ASSUME Structure, NEW t \in Threads, NEW r \in Ranges, NEW c \in Classes, NEW size,
         call[t].at = "link", Held(r, t), slab[r] = PreparedSlab(c), Takes(t, r, c, size),
         lists' = [lists EXCEPT ![c] = <<r>> \o @]
  PROVE  /\ Structure'
         /\ \A q, d : In(q, d)' <=> In(q, d) \/ (q = r /\ d = c)
  <1>1. /\ ~Linked(r) /\ (\A i : ~Recorded(r, i)) /\ \A u : Held(r, u) => u = t
    BY HeldFacts
  <1>2. call[t].at \in Holding
    BY DEF Holding
  <1>3. (\A p : ~Freeing(t, p)) /\ \A q \in Ranges : Held(q, t) => q = r
    BY <1>2, HoldingFacts
  <1>4. lists \in [Classes -> Seq(Ranges)] /\ lists[c] \in Seq(Ranges) /\ IsInjective(lists[c])
    BY DEF Structure, Types, ListsOk
  <1>5. ~Member(r, lists[c])
    BY <1>1 DEF Linked, In, Member
  <1>6. /\ <<r>> \o lists[c] \in Seq(Ranges) /\ IsInjective(<<r>> \o lists[c])
        /\ \A y : Member(y, <<r>> \o lists[c]) <=> y = r \/ Member(y, lists[c])
    BY <1>4, <1>5, ConsFacts
  <1> DEFINE n == <<r>> \o lists[c]
  <1>7. lists' = [lists EXCEPT ![c] = n]
    OBVIOUS
  <1> HIDE DEF n
  <1>8. lists' \in [Classes -> Seq(Ranges)] /\ lists'[c] = n /\ \A d \in Classes : d # c => lists'[d] = lists[d]
    BY <1>4, <1>6, <1>7 DEF n
  <1>9. ListsOk'
    BY <1>6, <1>8 DEF ListsOk, n, Structure
  <1>10. \A q, d : In(q, d) <=> d \in Classes /\ Member(q, lists[d])
    BY Zenon DEF In, Member
  <1>11. \A q, d : In(q, d)' <=> d \in Classes /\ Member(q, lists'[d])
    BY Zenon DEF In, Member
  <1>12. \A q, d : In(q, d)' <=> In(q, d) \/ (q = r /\ d = c)
    <2> SUFFICES ASSUME NEW q, NEW d PROVE In(q, d)' <=> In(q, d) \/ (q = r /\ d = c)
      OBVIOUS
    <2>1. CASE d = c
      BY <2>1, <1>6, <1>8, <1>10, <1>11 DEF n
    <2>2. CASE d # c
      BY <2>2, <1>8, <1>10, <1>11
    <2> QED
      BY <2>1, <2>2
  <1>13. /\ size \in Nat /\ size # 0 /\ size <= ClassSizes[c]
         /\ SlabOk(slab[r], c) /\ slab[r].free # << >> /\ pages[r] = 1
         /\ slab' = [slab EXCEPT ![r] = SlotTaken(slab[r], size)]
         /\ owned' = owned \cup {[pointer |-> <<r, UserOffset(c, Head(slab[r].free))>>, size |-> size]}
         /\ UNCHANGED <<pages, records>> /\ Finish(t)
    BY Zenon DEF Takes
  <1>14. \A k \in Slots(c) : slab[r].used[k] = 0
    BY PreparedIsOk
  <1>15. /\ \A u \in Threads : u # t => ~Held(r, u)
         /\ \A k \in Slots(c) : slab[r].used[k] # 0 => Linked(r)
         /\ lists' \in [Classes -> Seq(Ranges)]
         /\ \A i : ~Recorded(r, i)
    BY <1>1, <1>8, <1>14
  <1>16. Structure'
    BY <1>3, <1>9, <1>12, <1>13, <1>15, Served
  <1> QED
    BY <1>12, <1>16

\* A record takes the range.
LEMMA RecordsStep ==
  ASSUME Structure, NEW t \in Threads, NEW r \in Ranges, NEW i \in 1 .. LargeRecords, Records(t, r, i)
  PROVE  /\ Structure'
         /\ records'[i] # NoRecord /\ records'[i].pages = pages[r]
         /\ \A j \in 1 .. LargeRecords : j # i => records'[j] = records[j]
         /\ RecordBlock(i)' = [pointer |-> <<r, 0>>, size |-> call[t].size]
  <1>0. PICK size : size = call[t].size
    OBVIOUS
  <1>1. PICK n : n = pages[r]
    OBVIOUS
  <1> DEFINE x == [pointer |-> <<r, 0>>, size |-> size, pages |-> n]
             b0 == [pointer |-> <<r, 0>>, size |-> size]
  <1>2. /\ call[t].at = "record" /\ Held(r, t) /\ records[i] = NoRecord
        /\ records' = [records EXCEPT ![i] = x]
        /\ owned' = owned \cup {b0}
        /\ Finish(t) /\ UNCHANGED <<pages, slab, lists>>
    BY <1>0, <1>1 DEF Records
  <1>3. Types /\ CallOk(t) /\ call[t].range = r
    BY <1>2 DEF Structure, CallsOk, Held
  <1>4. size \in Nat /\ n \in Nat /\ n # 0 /\ n = PageCount(size) /\ size \in Sizes /\ slab[r].magic # "SLAB"
    <2>1. call[t].size \in Nat
      BY <1>3, CallFacts
    <2>2. pages[r] \in Nat
      BY <1>3, ByteFacts DEF Types
    <2> QED
      BY <1>0, <1>1, <1>2, <1>3, <2>1, <2>2 DEF CallOk, Holding
  <1>5. size # 0 /\ size <= n * PageBytes
    BY <1>4, PageCountFacts
  <1>6. <<r, 0>> \in Pointers /\ <<r, 0>> # NULL /\ <<r, 0>>[1] = r
    BY NullFacts DEF Pointers
  <1>7. x \in Record /\ x # NoRecord /\ x.pointer = <<r, 0>> /\ x.size = size /\ x.pages = n
    BY <1>4, <1>6 DEF Record, NoRecord
  <1>8. b0 \in Block /\ b0.pointer = <<r, 0>>
    BY <1>4, <1>6 DEF Block
  <1> HIDE DEF x, b0
  <1>9. records' \in [1 .. LargeRecords -> Record] /\ records'[i] = x
        /\ \A j \in 1 .. LargeRecords : j # i => records'[j] = records[j]
    BY <1>2, <1>3, <1>7 DEF Types
  <1>10. /\ ~Linked(r) /\ (\A j : ~Recorded(r, j)) /\ \A u : Held(r, u) => u = t
    BY <1>2, HeldFacts
  <1>11. (\A p : ~Freeing(t, p)) /\ \A q \in Ranges : Held(q, t) => q = r
    <2>1. call[t].at \in Holding
      BY <1>2 DEF Holding
    <2> QED
      BY <2>1, <1>3, HoldingFacts
  <1>12. /\ CallOk(t)' /\ (\A q \in Ranges : ~Held(q, t)')
         /\ (\A u \in Threads : u # t => call'[u] = call[u])
         /\ call' \in [Threads -> Call] /\ \A p : ~Freeing(t, p)'
    BY <1>2, <1>3, FinishFacts
  <1>13. Types'
    BY <1>2, <1>3, <1>8, <1>9, <1>12 DEF Types
  <1>14. \A q \in Ranges, j \in 1 .. LargeRecords :
            /\ q # r => (Recorded(q, j)' <=> Recorded(q, j)) /\ (Recorded(q, j) => records'[j] = records[j])
            /\ Recorded(r, j)' <=> j = i
    <2> SUFFICES ASSUME NEW q \in Ranges, NEW j \in 1 .. LargeRecords
                 PROVE  /\ q # r => (Recorded(q, j)' <=> Recorded(q, j)) /\ (Recorded(q, j) => records'[j] = records[j])
                        /\ Recorded(r, j)' <=> j = i
      OBVIOUS
    <2>1. CASE j = i
      BY <2>1, <1>2, <1>7, <1>9 DEF Recorded
    <2>2. CASE j # i
      BY <2>2, <1>9, <1>10 DEF Recorded
    <2> QED
      BY <2>1, <2>2
  <1>15. RecordsOk'
    <2> SUFFICES ASSUME NEW j \in 1 .. LargeRecords, records'[j] # NoRecord PROVE \E q \in Ranges : Recorded(q, j)'
      BY DEF RecordsOk
    <2>1. CASE j = i
      BY <2>1, <1>14
    <2>2. CASE j # i
      <3>1. PICK q \in Ranges : Recorded(q, j)
        BY <2>2, <1>9 DEF Structure, RecordsOk
      <3>2. q # r
        BY <3>1, <1>10
      <3> QED
        BY <3>1, <3>2, <1>14
    <2> QED
      BY <2>1, <2>2
  <1>16. ListsOk' /\ (\A q, c : In(q, c)' <=> In(q, c)) /\ ~Linked(r)'
    BY <1>2, <1>10, SameLists DEF Structure
  <1>17. Frame(t, r)
    <2>1. \A b \in Block : b.pointer[1] # r => (b \in owned' <=> b \in owned)
      BY <1>2, <1>6, <1>8
    <2>2. \A q \in Ranges : q # r => ~Held(q, t) /\ ~Held(q, t)'
      BY <1>11, <1>12
    <2> QED
      BY <2>1, <2>2, <1>2, <1>11, <1>12, <1>14, <1>16 DEF Frame
  <1>18. \A u \in Threads : ~Held(r, u)'
    <2> SUFFICES ASSUME NEW u \in Threads, Held(r, u)' PROVE FALSE
      OBVIOUS
    <2>1. u # t
      BY <1>12
    <2>2. Held(r, u)
      BY <2>1, <1>12 DEF Held
    <2> QED
      BY <2>1, <2>2, <1>10
  <1>19. RecordBlock(i)' = b0
    BY <1>7, <1>9 DEF RecordBlock, b0
  <1>20. RangeOk(r)'
    <2>1. LinkedOk(r)'
      <3>1. \A c \in Classes : ~In(r, c)'
        BY <1>16, Zenon DEF Linked
      <3> QED
        BY <3>1, Zenon DEF LinkedOk
    <2>2. RecordedOk(r)'
      <3>1. pages'[r] = n /\ slab'[r].magic # "SLAB"
        BY <1>1, <1>2, <1>4
      <3> QED
        BY <3>1, <1>4, <1>5, <1>7, <1>9, <1>14 DEF RecordedOk
    <2>3. HeldOk(r)'
      BY <1>18, Zenon DEF HeldOk
    <2>4. UsedOk(r)'
      <3>1. slab'[r].magic # "SLAB" /\ Recorded(r, i)'
        BY <1>2, <1>4, <1>14
      <3> QED
        BY <3>1, Zenon DEF UsedOk
    <2>5. OwnedOk(r)'
      <3>1. /\ \A b \in owned : b.pointer[1] # r
            /\ \A u \in Threads, p \in Pointers : Freeing(u, p) => p[1] # r
        BY <1>10, Vacant
      <3>2. \A k : ~Live(r, k)'
        BY <1>16 DEF Live
      <3>3. \A j \in 1 .. LargeRecords : Recorded(r, j)' => RecordBlock(j)' \in owned'
        BY <1>2, <1>14, <1>19
      <3>4. \A b \in owned' : b.pointer[1] = r => Recorded(r, i)' /\ b = RecordBlock(i)'
        BY <3>1, <1>2, <1>14, <1>19
      <3>5. \A u \in Threads, p \in Pointers : Freeing(u, p)' => p[1] # r
        <4> SUFFICES ASSUME NEW u \in Threads, NEW p \in Pointers, Freeing(u, p)' PROVE p[1] # r
          OBVIOUS
        <4>1. u # t
          BY <1>12
        <4>2. Freeing(u, p)
          BY <4>1, <1>12 DEF Freeing
        <4> QED
          BY <4>2, <3>1
      <3> QED
        BY <3>2, <3>3, <3>4, <3>5, Zenon DEF OwnedOk
    <2> QED
      BY <2>1, <2>2, <2>3, <2>4, <2>5 DEF RangeOk
  <1>21. \A u \in Threads : u # t => ~Held(r, u)
    BY <1>10
  <1>22. Structure'
    BY <1>12, <1>13, <1>15, <1>16, <1>17, <1>20, <1>21, FrameStructure
  <1> QED
    BY <1>0, <1>1, <1>7, <1>9, <1>19, <1>22 DEF b0

\* The owner gives up a slot.
LEMMA GivesSlotStep ==
  ASSUME Structure, NEW t \in Threads, NEW r \in Ranges, NEW k \in Nat, GivesSlot(t, r, k)
  PROVE  Structure'
  <1>0. PICK p0 : p0 = SlotPointer(r, k)
    OBVIOUS
  <1>1. PICK b0 : b0 = SlotBlock(r, k)
    OBVIOUS
  <1>2. /\ call[t].at = "out" /\ Live(r, k) /\ b0 \in owned
        /\ call' = [call EXCEPT ![t] = [Resting EXCEPT !.at = "free", !.pointer = p0]]
        /\ owned' = owned \ {b0}
        /\ UNCHANGED <<pages, slab, lists, records>>
    BY <1>0, <1>1 DEF GivesSlot
  <1>3. Types
    BY DEF Structure
  <1>4. Linked(r) /\ p0 \in Pointers /\ p0[1] = r /\ b0 \in Block /\ b0.pointer = p0
    BY <1>0, <1>1, <1>2, LiveFacts
  <1>5. (\A i : ~Recorded(r, i)) /\ \A u : ~Held(r, u)
    BY <1>4, LinkedFacts
  <1>6. (\A q \in Ranges : ~Held(q, t)) /\ \A p : ~Freeing(t, p)
    <2>1. call[t].at \notin Holding
      BY <1>2 DEF Holding
    <2> QED
      BY <2>1, <1>2, OutFacts DEF Freeing
  <1> DEFINE v == [Resting EXCEPT !.at = "free", !.pointer = p0]
  <1>7. v \in Call /\ v.at = "free" /\ v.range = NULL /\ v.pointer = p0
    <2>1. "free" \in Places
      BY DEF Places
    <2>2. ASSUME NEW x \in Call
          PROVE  LET w == [x EXCEPT !.at = "free", !.pointer = p0]
                 IN  w \in Call /\ w.at = "free" /\ w.range = x.range /\ w.pointer = p0
      BY <1>4, <2>1 DEF Call
    <2> QED
      BY <2>2, RestingFacts
  <1>7a. call' = [call EXCEPT ![t] = v]
    BY <1>2
  <1> HIDE DEF v
  <1>8. /\ call'[t] = v /\ call' \in [Threads -> Call]
        /\ \A u \in Threads : u # t => call'[u] = call[u]
    BY <1>3, <1>7, <1>7a, CallSet
  <1>9. call'[t].at = "free" /\ call'[t].range = NULL /\ call'[t].pointer = p0
    BY <1>7, <1>8
  <1>10. CallOk(t)'
    <2>1. p0 # NULL
      BY <1>4, NullFacts
    <2> QED
      BY <2>1, <1>9 DEF CallOk, Holding
  <1>11. \A q \in Ranges : ~Held(q, t)'
    BY <1>9, NullFacts DEF Held
  <1>12. \A p : Freeing(t, p)' <=> p = p0
    BY <1>9 DEF Freeing
  <1>13. Types'
    BY <1>2, <1>3, <1>8 DEF Types
  <1>14. /\ ListsOk' /\ RecordsOk' /\ (\A q, c : In(q, c)' <=> In(q, c))
         /\ (\A q : Linked(q)' <=> Linked(q)) /\ \A q, i : Recorded(q, i)' <=> Recorded(q, i)
    BY <1>2, SameLists, SameRecords DEF Structure
  <1>15. Frame(t, r)
    <2>1. \A b \in Block : b.pointer[1] # r => (b \in owned' <=> b \in owned)
      BY <1>2, <1>4
    <2>2. \A p \in Pointers : p[1] # r => ~Freeing(t, p) /\ ~Freeing(t, p)'
      BY <1>4, <1>6, <1>12
    <2> QED
      BY <2>1, <2>2, <1>2, <1>6, <1>8, <1>11, <1>14 DEF Frame
  <1>16. OwnedOk(r)
    BY DEF Structure, RangesOk, RangeOk
  <1>17. \A u \in Threads : \A p : u # t => (Freeing(u, p)' <=> Freeing(u, p))
    BY <1>8 DEF Freeing
  <1>18. \A u \in Threads : ~Freeing(u, p0)
    BY <1>2, <1>4, <1>16, Zenon DEF OwnedOk
  <1>19. \A l : (Live(r, l)' <=> Live(r, l)) /\ SlotPointer(r, l)' = SlotPointer(r, l) /\ SlotBlock(r, l)' = SlotBlock(r, l)
    BY <1>2, <1>14 DEF Live, SlotPointer, SlotBlock
  <1>20. OwnedOk(r)'
    <2>1. \A l \in Nat : Live(r, l)' =>
             SlotBlock(r, l)' \in owned' \/ \E u \in Threads : Freeing(u, SlotPointer(r, l))'
      <3> SUFFICES ASSUME NEW l \in Nat, Live(r, l)
                   PROVE  SlotBlock(r, l)' \in owned' \/ \E u \in Threads : Freeing(u, SlotPointer(r, l))'
        BY <1>19
      <3>1. CASE l = k
        <4>1. SlotPointer(r, l)' = p0
          BY <3>1, <1>0, <1>19
        <4>2. Freeing(t, SlotPointer(r, l))'
          BY <4>1, <1>9 DEF Freeing
        <4> QED
          BY <4>2
      <3>2. CASE l # k
        <4>1. SlotBlock(r, l) # b0
          BY <3>2, <1>0, <1>1, <1>2, <1>4, LiveFacts, PointersDiffer
        <4>2. SlotBlock(r, l) \in owned \/ \E u \in Threads : Freeing(u, SlotPointer(r, l))
          BY <1>16, Zenon DEF OwnedOk
        <4>3. ASSUME NEW u \in Threads, Freeing(u, SlotPointer(r, l))
              PROVE  Freeing(u, SlotPointer(r, l))'
          <5>1. u # t
            BY <4>3, <1>6
          <5> QED
            BY <5>1, <4>3, <1>8, <1>19 DEF Freeing
        <4> QED
          BY <4>1, <4>2, <4>3, <1>2, <1>19
      <3> QED
        BY <3>1, <3>2
    <2>2. \A i : ~Recorded(r, i)'
      BY <1>5, <1>14
    <2>3. \A b \in owned' : b.pointer[1] = r => \E l \in Nat : Live(r, l)' /\ b = SlotBlock(r, l)'
      <3> SUFFICES ASSUME NEW b \in owned', b.pointer[1] = r PROVE \E l \in Nat : Live(r, l)' /\ b = SlotBlock(r, l)'
        OBVIOUS
      <3>1. b \in owned
        BY <1>2
      <3>2. \E l \in Nat : Live(r, l) /\ b = SlotBlock(r, l)
        BY <3>1, <1>5, <1>16, Zenon DEF OwnedOk
      <3> QED
        BY <3>2, <1>19
    <2>4. \A u \in Threads, p \in Pointers : Freeing(u, p)' /\ p[1] = r =>
             /\ \E l \in Nat : Live(r, l)' /\ p = SlotPointer(r, l)'
             /\ \A b \in owned' : b.pointer # p
             /\ \A w \in Threads : Freeing(w, p)' => w = u
      <3> SUFFICES ASSUME NEW u \in Threads, NEW p \in Pointers, Freeing(u, p)', p[1] = r
                   PROVE  /\ \E l \in Nat : Live(r, l)' /\ p = SlotPointer(r, l)'
                          /\ \A b \in owned' : b.pointer # p
                          /\ \A w \in Threads : Freeing(w, p)' => w = u
        OBVIOUS
      <3>1. CASE u = t
        <4>1. p = p0
          BY <3>1, <1>12
        <4>2. Live(r, k)' /\ p = SlotPointer(r, k)'
          BY <4>1, <1>0, <1>2, <1>19
        <4>3. \A b \in owned' : b.pointer # p
          <5> SUFFICES ASSUME NEW b \in owned', b.pointer = p0 PROVE FALSE
            BY <4>1
          <5>1. b \in owned /\ b # b0
            BY <1>2
          <5>2. PICK l \in Nat : Live(r, l) /\ b = SlotBlock(r, l)
            BY <5>1, <1>4, <1>5, <1>16, Zenon DEF OwnedOk
          <5>3. SlotPointer(r, l) = SlotPointer(r, k)
            BY <5>2, <1>0, LiveFacts
          <5>4. l = k
            BY <5>2, <5>3, <1>2, PointersDiffer
          <5> QED
            BY <5>1, <5>2, <5>4, <1>1
        <4>4. \A w \in Threads : Freeing(w, p)' => w = u
          BY <3>1, <4>1, <1>17, <1>18
        <4> QED
          BY <4>2, <4>3, <4>4
      <3>2. CASE u # t
        <4>1. Freeing(u, p)
          BY <3>2, <1>17
        <4>2. /\ \E l \in Nat : Live(r, l) /\ p = SlotPointer(r, l)
              /\ \A b \in owned : b.pointer # p
              /\ \A w \in Threads : Freeing(w, p) => w = u
          BY <4>1, <1>16, Zenon DEF OwnedOk
        <4>3. p # p0
          BY <4>1, <1>18
        <4>4. \A w \in Threads : Freeing(w, p)' => w = u
          BY <4>2, <4>3, <1>12, <1>17
        <4> QED
          BY <4>2, <4>4, <1>2, <1>19
      <3> QED
        BY <3>1, <3>2
    <2> QED
      BY <2>1, <2>2, <2>3, <2>4, Zenon DEF OwnedOk
  <1>21. RangeOk(r)'
    <2>1. RangeOk(r)
      BY DEF Structure, RangesOk
    <2>2. \A u \in Threads : ~Held(r, u)'
      <3> SUFFICES ASSUME NEW u \in Threads, Held(r, u)' PROVE FALSE
        OBVIOUS
      <3>1. u # t
        BY <1>11
      <3> QED
        BY <3>1, <1>5, <1>8 DEF Held
    <2>3. LinkedOk(r)'
      BY <2>1, <1>2, <1>14, Zenon DEF RangeOk, LinkedOk
    <2>4. RecordedOk(r)'
      BY <1>5, <1>14, Zenon DEF RecordedOk
    <2>5. HeldOk(r)'
      BY <2>2, Zenon DEF HeldOk
    <2>6. UsedOk(r)'
      BY <1>4, <1>14, Zenon DEF UsedOk
    <2> QED
      BY <2>3, <2>4, <2>5, <2>6, <1>20 DEF RangeOk
  <1>22. \A u \in Threads : u # t => ~Held(r, u)
    BY <1>5
  <1> QED
    BY <1>10, <1>13, <1>14, <1>15, <1>21, <1>22, FrameStructure

\* The owner gives up a large block.
LEMMA GivesRecordStep ==
  ASSUME Structure, NEW t \in Threads, NEW r \in Ranges, NEW i \in 1 .. LargeRecords, GivesRecord(t, r, i)
  PROVE  /\ Structure'
         /\ records'[i] = NoRecord
         /\ \A j \in 1 .. LargeRecords : j # i => records'[j] = records[j]
  <1>1. PICK b0 : b0 = RecordBlock(i)
    OBVIOUS
  <1>2. /\ call[t].at = "out" /\ Recorded(r, i) /\ b0 \in owned
        /\ records' = [records EXCEPT ![i] = NoRecord]
        /\ owned' = owned \ {b0}
        /\ Do(t, "release", r) /\ UNCHANGED <<pages, slab, lists>>
    BY <1>1 DEF GivesRecord
  <1>3. Types
    BY DEF Structure
  <1>4. b0 \in Block /\ b0.pointer = <<r, 0>> /\ <<r, 0>>[1] = r
    BY <1>1, <1>2, RecordBlockFacts
  <1>5. /\ pages[r] # 0 /\ slab[r].magic # "SLAB" /\ ~Linked(r)
        /\ (\A j : Recorded(r, j) => j = i) /\ \A u : ~Held(r, u)
    BY <1>2, RecordedFacts
  <1>6. (\A q \in Ranges : ~Held(q, t)) /\ \A p : ~Freeing(t, p)
    <2>1. call[t].at \notin Holding
      BY <1>2 DEF Holding
    <2> QED
      BY <2>1, <1>2, OutFacts DEF Freeing
  <1>7. /\ call'[t].at = "release" /\ call'[t].range = r
        /\ \A u \in Threads : u # t => call'[u] = call[u]
        /\ call' \in [Threads -> Call]
    <2>1. "release" \in Places /\ r \in Ranges \cup {NULL}
      BY DEF Places
    <2> QED
      BY <2>1, <1>2, <1>3, DoFacts
  <1>8. NoRecord \in Record
    BY DEF NoRecord, Record
  <1>9. records' \in [1 .. LargeRecords -> Record] /\ records'[i] = NoRecord
        /\ \A j \in 1 .. LargeRecords : j # i => records'[j] = records[j]
    BY <1>2, <1>3, <1>8 DEF Types
  <1>10. Types'
    BY <1>2, <1>3, <1>7, <1>9 DEF Types
  <1>11. CallOk(t)'
    <2>1. r # NULL
      BY NullFacts
    <2> QED
      BY <2>1, <1>2, <1>5, <1>7 DEF CallOk, Holding
  <1>12. (\A p : ~Freeing(t, p)') /\ Held(r, t)' /\ \A q \in Ranges : Held(q, t)' => q = r
    BY <1>7 DEF Freeing, Held
  <1>13. \A q \in Ranges, j \in 1 .. LargeRecords :
            /\ q # r => (Recorded(q, j)' <=> Recorded(q, j)) /\ (Recorded(q, j) => records'[j] = records[j])
            /\ ~Recorded(r, j)'
    <2> SUFFICES ASSUME NEW q \in Ranges, NEW j \in 1 .. LargeRecords
                 PROVE  /\ q # r => (Recorded(q, j)' <=> Recorded(q, j)) /\ (Recorded(q, j) => records'[j] = records[j])
                        /\ ~Recorded(r, j)'
      OBVIOUS
    <2>1. CASE j = i
      <3>1. ~Recorded(q, j)' /\ ~Recorded(r, j)'
        BY <2>1, <1>9 DEF Recorded
      <3>2. q # r => ~Recorded(q, j)
        BY <2>1, <1>2 DEF Recorded
      <3> QED
        BY <3>1, <3>2
    <2>2. CASE j # i
      BY <2>2, <1>5, <1>9 DEF Recorded
    <2> QED
      BY <2>1, <2>2
  <1>14. RecordsOk'
    <2> SUFFICES ASSUME NEW j \in 1 .. LargeRecords, records'[j] # NoRecord PROVE \E q \in Ranges : Recorded(q, j)'
      BY DEF RecordsOk
    <2>1. j # i
      BY <1>9
    <2>2. PICK q \in Ranges : Recorded(q, j)
      BY <2>1, <1>9 DEF Structure, RecordsOk
    <2>3. q # r
      BY <2>1, <2>2, <1>5
    <2> QED
      BY <2>2, <2>3, <1>13
  <1>15. ListsOk' /\ (\A q, c : In(q, c)' <=> In(q, c)) /\ ~Linked(r)'
    BY <1>2, <1>5, SameLists DEF Structure
  <1>16. Frame(t, r)
    <2>1. \A b \in Block : b.pointer[1] # r => (b \in owned' <=> b \in owned)
      BY <1>2, <1>4
    <2>2. \A q \in Ranges : q # r => ~Held(q, t) /\ ~Held(q, t)'
      BY <1>6, <1>12
    <2> QED
      BY <2>1, <2>2, <1>2, <1>6, <1>7, <1>12, <1>13, <1>15 DEF Frame
  <1>17. OwnedOk(r)
    BY DEF Structure, RangesOk, RangeOk
  <1>18. \A k : ~Live(r, k)
    BY <1>5 DEF Live
  <1>19. \A b \in owned' : b.pointer[1] # r
    <2> SUFFICES ASSUME NEW b \in owned', b.pointer[1] = r PROVE FALSE
      OBVIOUS
    <2>1. b \in owned /\ b # b0
      BY <1>2
    <2>2. PICK j \in 1 .. LargeRecords : Recorded(r, j) /\ b = RecordBlock(j)
      BY <2>1, <1>17, <1>18, Zenon DEF OwnedOk
    <2> QED
      BY <2>1, <2>2, <1>1, <1>5
  <1>20. \A u \in Threads, p \in Pointers : Freeing(u, p)' => p[1] # r
    <2> SUFFICES ASSUME NEW u \in Threads, NEW p \in Pointers, Freeing(u, p)', p[1] = r PROVE FALSE
      OBVIOUS
    <2>1. u # t
      BY <1>12
    <2>2. Freeing(u, p)
      BY <2>1, <1>7 DEF Freeing
    <2> QED
      BY <2>2, <1>17, <1>18, Zenon DEF OwnedOk
  <1>21. \A u \in Threads : Held(r, u)' => u = t
    <2> SUFFICES ASSUME NEW u \in Threads, Held(r, u)', u # t PROVE FALSE
      OBVIOUS
    <2> QED
      BY <1>5, <1>7 DEF Held
  <1>22. \A j : ~Recorded(r, j)'
    <2>1. \A j : Recorded(r, j)' => j \in 1 .. LargeRecords
      BY DEF Recorded
    <2> QED
      BY <2>1, <1>13
  <1>23. slab'[r].magic # "SLAB"
    BY <1>2, <1>5
  <1>24. RangeOk(r)'
    BY <1>12, <1>15, <1>19, <1>20, <1>21, <1>22, <1>23, VacantOk
  <1>25. \A u \in Threads : u # t => ~Held(r, u)
    BY <1>5
  <1>26. Structure'
    BY <1>10, <1>11, <1>14, <1>15, <1>16, <1>24, <1>25, FrameStructure
  <1> QED
    BY <1>9, <1>26

\* A slot goes back, the slab stays.
LEMMA StaysStep ==
  ASSUME Structure, NEW t \in Threads, NEW r \in Ranges, NEW k \in Nat, Returns(t, r, k), Stays(t, r, k)
  PROVE  /\ Structure'
         /\ slab'[r].class = slab[r].class /\ Linked(r)'
         /\ \A l \in Slots(slab[r].class) : slab'[r].used[l] = IF l = k THEN 0 ELSE slab[r].used[l]
         /\ \A q \in Ranges : q # r => slab'[q] = slab[q]
  <1>0. PICK p0 : p0 = SlotPointer(r, k)
    OBVIOUS
  <1>1. PICK c : c = slab[r].class
    OBVIOUS
  <1>2. /\ Live(r, k) /\ Freeing(t, p0) /\ UNCHANGED <<pages, records, owned, lists>>
        /\ slab' = [slab EXCEPT ![r] = SlotReturned(slab[r], k)]
        /\ Finish(t)
    BY <1>0 DEF Returns, Stays
  <1>3. Types
    BY DEF Structure
  <1>4. Linked(r) /\ p0 \in Pointers /\ p0[1] = r /\ k \in Slots(c) /\ slab[r].used[k] # 0
    BY <1>0, <1>1, <1>2, LiveFacts
  <1>5. /\ (\A i : ~Recorded(r, i)) /\ (\A u : ~Held(r, u)) /\ SlabOk(slab[r], c) /\ c \in Classes
        /\ (\A d : In(r, d) <=> d = c) /\ pages[r] = 1
    BY <1>1, <1>4, LinkedFacts
  <1>6. /\ SlabOk(SlotReturned(slab[r], k), c)
        /\ SlotReturned(slab[r], k).used = [slab[r].used EXCEPT ![k] = 0]
    BY <1>4, <1>5, ReturnedIsOk, ZenonT(60)
  <1>7. slab'[r] = SlotReturned(slab[r], k) /\ slab' = [q \in Ranges |-> slab'[q]]
        /\ \A q \in Ranges : q # r => slab'[q] = slab[q]
    BY <1>2, <1>3 DEF Types
  <1>8. SlabOk(slab'[r], c) /\ slab'[r].used = [slab[r].used EXCEPT ![k] = 0]
    BY <1>6, <1>7
  <1>9. slab'[r].class = c
    BY <1>8, SlabFacts
  <1>10. \A l \in Slots(c) : slab'[r].used[l] = IF l = k THEN 0 ELSE slab[r].used[l]
    <2>1. slab[r].used \in [Slots(c) -> 0 .. ClassSizes[c]]
      BY <1>5, SlabFacts
    <2> QED
      BY <2>1, <1>4, <1>8
  <1>11. call[t].at = "free" /\ \A p : Freeing(t, p) <=> p = p0
    BY <1>2 DEF Freeing
  <1>12. \A q \in Ranges : ~Held(q, t)
    <2>1. call[t].at \notin Holding
      BY <1>11 DEF Holding
    <2> QED
      BY <2>1, OutFacts
  <1>13. /\ CallOk(t)' /\ (\A q \in Ranges : ~Held(q, t)')
         /\ (\A u \in Threads : u # t => call'[u] = call[u])
         /\ call' \in [Threads -> Call] /\ \A p : ~Freeing(t, p)'
    BY <1>2, <1>3, FinishFacts
  <1>14. Types'
    BY <1>2, <1>3, <1>7, <1>13 DEF Types
  <1>15. /\ ListsOk' /\ RecordsOk' /\ (\A q, d : In(q, d)' <=> In(q, d))
         /\ (\A q : Linked(q)' <=> Linked(q)) /\ \A q, i : Recorded(q, i)' <=> Recorded(q, i)
    BY <1>2, SameLists, SameRecords DEF Structure
  <1>16. Frame(t, r)
    <2>1. \A p \in Pointers : p[1] # r => ~Freeing(t, p) /\ ~Freeing(t, p)'
      BY <1>4, <1>11, <1>13
    <2> QED
      BY <2>1, <1>2, <1>7, <1>12, <1>13, <1>15 DEF Frame
  <1>17. OwnedOk(r)
    BY DEF Structure, RangesOk, RangeOk
  <1>18. (\A b \in owned : b.pointer # p0) /\ \A u \in Threads : Freeing(u, p0) => u = t
    BY <1>2, <1>4, <1>17, Zenon DEF OwnedOk
  <1>19. \A l : (Live(r, l)' <=> Live(r, l) /\ l # k) /\ SlotPointer(r, l)' = SlotPointer(r, l)
                /\ (Live(r, l)' => SlotBlock(r, l)' = SlotBlock(r, l))
    <2>1. \A l : SlotPointer(r, l)' = SlotPointer(r, l)
      BY <1>1, <1>9 DEF SlotPointer
    <2>2. \A l : Live(r, l)' <=> Live(r, l) /\ l # k
      BY <1>1, <1>4, <1>9, <1>10, <1>15 DEF Live
    <2>3. \A l : Live(r, l)' => slab'[r].used[l] = slab[r].used[l]
      BY <2>2, <1>1, <1>10 DEF Live
    <2> QED
      BY <2>1, <2>2, <2>3 DEF SlotBlock
  <1>20. OwnedOk(r)'
    <2>1. \A l \in Nat : Live(r, l)' =>
             SlotBlock(r, l)' \in owned' \/ \E u \in Threads : Freeing(u, SlotPointer(r, l))'
      <3> SUFFICES ASSUME NEW l \in Nat, Live(r, l)'
                   PROVE  SlotBlock(r, l)' \in owned' \/ \E u \in Threads : Freeing(u, SlotPointer(r, l))'
        OBVIOUS
      <3>1. Live(r, l) /\ l # k
        BY <1>19
      <3>2. SlotPointer(r, l) # p0
        BY <3>1, <1>0, <1>2, PointersDiffer
      <3>3. SlotBlock(r, l) \in owned \/ \E u \in Threads : Freeing(u, SlotPointer(r, l))
        BY <3>1, <1>17, Zenon DEF OwnedOk
      <3>4. ASSUME NEW u \in Threads, Freeing(u, SlotPointer(r, l))
            PROVE  Freeing(u, SlotPointer(r, l))'
        <4>1. u # t
          BY <3>2, <3>4, <1>11
        <4> QED
          BY <4>1, <3>4, <1>13, <1>19 DEF Freeing
      <3> QED
        BY <3>3, <3>4, <1>2, <1>19
    <2>2. \A i : ~Recorded(r, i)'
      BY <1>5, <1>15
    <2>3. \A b \in owned' : b.pointer[1] = r => \E l \in Nat : Live(r, l)' /\ b = SlotBlock(r, l)'
      <3> SUFFICES ASSUME NEW b \in owned, b.pointer[1] = r PROVE \E l \in Nat : Live(r, l)' /\ b = SlotBlock(r, l)'
        BY <1>2
      <3>1. PICK l \in Nat : Live(r, l) /\ b = SlotBlock(r, l)
        BY <1>5, <1>17, Zenon DEF OwnedOk
      <3>2. l # k
        BY <3>1, <1>0, <1>18, LiveFacts
      <3> QED
        BY <3>1, <3>2, <1>19
    <2>4. \A u \in Threads, p \in Pointers : Freeing(u, p)' /\ p[1] = r =>
             /\ \E l \in Nat : Live(r, l)' /\ p = SlotPointer(r, l)'
             /\ \A b \in owned' : b.pointer # p
             /\ \A w \in Threads : Freeing(w, p)' => w = u
      <3> SUFFICES ASSUME NEW u \in Threads, NEW p \in Pointers, Freeing(u, p)', p[1] = r
                   PROVE  /\ \E l \in Nat : Live(r, l)' /\ p = SlotPointer(r, l)'
                          /\ \A b \in owned' : b.pointer # p
                          /\ \A w \in Threads : Freeing(w, p)' => w = u
        OBVIOUS
      <3>1. u # t
        BY <1>13
      <3>2. Freeing(u, p)
        BY <3>1, <1>13 DEF Freeing
      <3>3. /\ \E l \in Nat : Live(r, l) /\ p = SlotPointer(r, l)
            /\ \A b \in owned : b.pointer # p
            /\ \A w \in Threads : Freeing(w, p) => w = u
        BY <3>2, <1>17, Zenon DEF OwnedOk
      <3>4. PICK l \in Nat : Live(r, l) /\ p = SlotPointer(r, l)
        BY <3>3
      <3>5. l # k
        BY <3>1, <3>2, <3>4, <1>0, <1>18
      <3>6. \A w \in Threads : Freeing(w, p)' => w = u
        <4> SUFFICES ASSUME NEW w \in Threads, Freeing(w, p)' PROVE w = u
          OBVIOUS
        <4>1. w # t
          BY <1>13
        <4>2. Freeing(w, p)
          BY <4>1, <1>13 DEF Freeing
        <4> QED
          BY <4>2, <3>3
      <3> QED
        BY <3>3, <3>4, <3>5, <3>6, <1>2, <1>19
    <2> QED
      BY <2>1, <2>2, <2>3, <2>4, Zenon DEF OwnedOk
  <1>21. RangeOk(r)'
    <2>2. \A u \in Threads : ~Held(r, u)'
      <3> SUFFICES ASSUME NEW u \in Threads, Held(r, u)' PROVE FALSE
        OBVIOUS
      <3>1. u # t
        BY <1>13
      <3> QED
        BY <3>1, <1>5, <1>13 DEF Held
    <2>3. LinkedOk(r)'
      BY <1>2, <1>5, <1>8, <1>15 DEF LinkedOk
    <2>4. RecordedOk(r)'
      BY <1>5, <1>15, Zenon DEF RecordedOk
    <2>5. HeldOk(r)'
      BY <2>2, Zenon DEF HeldOk
    <2>6. UsedOk(r)'
      BY <1>4, <1>15, Zenon DEF UsedOk
    <2> QED
      BY <2>3, <2>4, <2>5, <2>6, <1>20 DEF RangeOk
  <1>22. \A u \in Threads : u # t => ~Held(r, u)
    BY <1>5
  <1>23. Structure'
    BY <1>13, <1>14, <1>15, <1>16, <1>21, <1>22, FrameStructure
  <1> QED
    BY <1>1, <1>4, <1>7, <1>9, <1>10, <1>15, <1>23

\* The last slot goes back, the slab retires.
LEMMA RetiresStep ==
  ASSUME Structure, NEW t \in Threads, NEW r \in Ranges, NEW k \in Nat, Returns(t, r, k), Retires(t, r, k)
  PROVE  /\ Structure'
         /\ \A l : Live(r, l) <=> l = k
         /\ \A q, d : In(q, d)' <=> In(q, d) /\ q # r
         /\ \A q \in Ranges : q # r => slab'[q] = slab[q]
  <1>0. PICK p0 : p0 = SlotPointer(r, k)
    OBVIOUS
  <1>1. PICK c : c = slab[r].class
    OBVIOUS
  <1> DEFINE s == SlotReturned(slab[r], k)
  <1>2. /\ Live(r, k) /\ Freeing(t, p0) /\ UNCHANGED <<pages, records, owned>>
        /\ Len(s.free) = SlotsPerPage(c)
        /\ slab' = [slab EXCEPT ![r] = [s EXCEPT !.magic = "RETIRED"]]
        /\ \E i \in DOMAIN lists[c] : lists[c][i] = r /\ lists' = [lists EXCEPT ![c] = RemoveAt(lists[c], i)]
        /\ Do(t, "release", r)
    BY <1>0, <1>1 DEF Returns, Retires
  <1>3. Types
    BY DEF Structure
  <1>4. Linked(r) /\ p0 \in Pointers /\ p0[1] = r /\ k \in Slots(c) /\ slab[r].used[k] # 0
    BY <1>0, <1>1, <1>2, LiveFacts
  <1>5. /\ (\A i : ~Recorded(r, i)) /\ (\A u : ~Held(r, u)) /\ SlabOk(slab[r], c) /\ c \in Classes
        /\ (\A d : In(r, d) <=> d = c) /\ pages[r] = 1
    BY <1>1, <1>4, LinkedFacts
  <1>6. SlabOk(s, c) /\ s.used = [slab[r].used EXCEPT ![k] = 0]
    BY <1>4, <1>5, ReturnedIsOk, ZenonT(60)
  <1> HIDE DEF s
  <1>7. \A l \in Slots(c) : s.used[l] = 0
    BY <1>2, <1>6, AllFree
  <1>8. \A l : Live(r, l) <=> l = k
    <2>1. slab[r].used \in [Slots(c) -> 0 .. ClassSizes[c]]
      BY <1>5, SlabFacts
    <2>2. \A l \in Slots(c) : l # k => slab[r].used[l] = 0
      BY <2>1, <1>6, <1>7
    <2> QED
      BY <2>2, <1>1, <1>2 DEF Live
  <1>9. slab' = [q \in Ranges |-> slab'[q]] /\ slab'[r] = [s EXCEPT !.magic = "RETIRED"]
        /\ \A q \in Ranges : q # r => slab'[q] = slab[q]
    BY <1>2, <1>3 DEF Types
  <1>10. slab'[r].magic # "SLAB"
    <2>1. PICK x, y : s = [magic |-> "SLAB", class |-> c, free |-> x, used |-> y]
      BY <1>6 DEF SlabOk
    <2>2. [s EXCEPT !.magic = "RETIRED"].magic = "RETIRED"
      BY <2>1
    <2> QED
      BY <2>2, <1>9
  <1>11. PICK i \in DOMAIN lists[c] : lists[c][i] = r /\ lists' = [lists EXCEPT ![c] = RemoveAt(lists[c], i)]
    BY <1>2
  <1>12. lists \in [Classes -> Seq(Ranges)] /\ lists[c] \in Seq(Ranges) /\ IsInjective(lists[c])
    BY <1>3, <1>5 DEF Structure, Types, ListsOk
  <1> DEFINE n == RemoveAt(lists[c], i)
  <1>13. n \in Seq(Ranges) /\ IsInjective(n) /\ \A y : Member(y, n) <=> Member(y, lists[c]) /\ y # r
    BY <1>11, <1>12, RemoveFacts
  <1>14. lists' = [lists EXCEPT ![c] = n]
    BY <1>11
  <1> HIDE DEF n
  <1>15. lists' \in [Classes -> Seq(Ranges)] /\ lists'[c] = n /\ \A d \in Classes : d # c => lists'[d] = lists[d]
    BY <1>5, <1>12, <1>13, <1>14
  <1>16. ListsOk'
    BY <1>13, <1>15 DEF ListsOk, Structure
  <1>17. \A q, d : In(q, d)' <=> In(q, d) /\ q # r
    <2>1. \A q, d : In(q, d) <=> d \in Classes /\ Member(q, lists[d])
      BY Zenon DEF In, Member
    <2>2. \A q, d : In(q, d)' <=> d \in Classes /\ Member(q, lists'[d])
      BY Zenon DEF In, Member
    <2> SUFFICES ASSUME NEW q, NEW d PROVE In(q, d)' <=> In(q, d) /\ q # r
      OBVIOUS
    <2>3. CASE d = c
      BY <2>1, <2>2, <2>3, <1>13, <1>15
    <2>4. CASE d # c
      BY <2>1, <2>2, <2>4, <1>5, <1>15
    <2> QED
      BY <2>3, <2>4
  <1>18. ~Linked(r)'
    BY <1>17 DEF Linked
  <1>19. call[t].at = "free" /\ \A p : Freeing(t, p) <=> p = p0
    BY <1>2 DEF Freeing
  <1>20. \A q \in Ranges : ~Held(q, t)
    <2>1. call[t].at \notin Holding
      BY <1>19 DEF Holding
    <2> QED
      BY <2>1, OutFacts
  <1>21. /\ call'[t].at = "release" /\ call'[t].range = r
         /\ \A u \in Threads : u # t => call'[u] = call[u]
         /\ call' \in [Threads -> Call]
    <2>1. "release" \in Places /\ r \in Ranges \cup {NULL}
      BY DEF Places
    <2> QED
      BY <2>1, <1>2, <1>3, DoFacts
  <1>22. (\A p : ~Freeing(t, p)') /\ Held(r, t)' /\ \A q \in Ranges : Held(q, t)' => q = r
    BY <1>21 DEF Freeing, Held
  <1>23. CallOk(t)'
    <2>1. r # NULL
      BY NullFacts
    <2>2. pages'[r] # 0
      BY <1>2, <1>5
    <2> QED
      BY <2>1, <2>2, <1>10, <1>21 DEF CallOk, Holding
  <1>24. Types'
    BY <1>2, <1>3, <1>9, <1>15, <1>21 DEF Types
  <1>25. RecordsOk' /\ \A q, j : Recorded(q, j)' <=> Recorded(q, j)
    BY <1>2, SameRecords DEF Structure
  <1>26. Frame(t, r)
    <2>1. \A p \in Pointers : p[1] # r => ~Freeing(t, p) /\ ~Freeing(t, p)'
      BY <1>4, <1>19, <1>22
    <2>2. \A q \in Ranges, d \in Classes : q # r => (In(q, d)' <=> In(q, d))
      BY <1>17
    <2>3. \A q \in Ranges : q # r => ~Held(q, t) /\ ~Held(q, t)'
      BY <1>20, <1>22
    <2> QED
      BY <2>1, <2>2, <2>3, <1>2, <1>9, <1>21, <1>25 DEF Frame
  <1>27. OwnedOk(r)
    BY DEF Structure, RangesOk, RangeOk
  <1>28. (\A b \in owned : b.pointer # p0) /\ \A u \in Threads : Freeing(u, p0) => u = t
    BY <1>2, <1>4, <1>27, Zenon DEF OwnedOk
  <1>29. \A b \in owned' : b.pointer[1] # r
    <2> SUFFICES ASSUME NEW b \in owned, b.pointer[1] = r PROVE FALSE
      BY <1>2
    <2>1. PICK l \in Nat : Live(r, l) /\ b = SlotBlock(r, l)
      BY <1>5, <1>27, Zenon DEF OwnedOk
    <2> QED
      BY <2>1, <1>0, <1>8, <1>28, LiveFacts
  <1>30. \A u \in Threads, p \in Pointers : Freeing(u, p)' => p[1] # r
    <2> SUFFICES ASSUME NEW u \in Threads, NEW p \in Pointers, Freeing(u, p)', p[1] = r PROVE FALSE
      OBVIOUS
    <2>1. u # t
      BY <1>22
    <2>2. Freeing(u, p)
      BY <2>1, <1>21 DEF Freeing
    <2>3. PICK l \in Nat : Live(r, l) /\ p = SlotPointer(r, l)
      BY <2>2, <1>27, Zenon DEF OwnedOk
    <2> QED
      BY <2>1, <2>2, <2>3, <1>0, <1>8, <1>28
  <1>31. \A u \in Threads : Held(r, u)' => u = t
    <2> SUFFICES ASSUME NEW u \in Threads, Held(r, u)', u # t PROVE FALSE
      OBVIOUS
    <2> QED
      BY <1>5, <1>21 DEF Held
  <1>32. \A j : ~Recorded(r, j)'
    BY <1>5, <1>25
  <1>33. RangeOk(r)'
    BY <1>10, <1>18, <1>22, <1>29, <1>30, <1>31, <1>32, VacantOk
  <1>34. \A u \in Threads : u # t => ~Held(r, u)
    BY <1>5
  <1>35. Structure'
    BY <1>16, <1>23, <1>24, <1>25, <1>26, <1>33, <1>34, FrameStructure
  <1> QED
    BY <1>8, <1>9, <1>17, <1>35

-----------------------------------------------------------------------------
(* Every step keeps the structure.                                         *)

\* The empty heap.
LEMMA InitStructure == Init => Structure
  <1> SUFFICES ASSUME Init PROVE Structure
    OBVIOUS
  <1>1. \A t \in Threads : call[t] = Resting
    BY DEF Init
  <1>2. \A i \in 1 .. LargeRecords : records[i] = NoRecord
    BY DEF Init
  <1>3. \A r \in Ranges : pages[r] = 0 /\ slab[r] = NoSlab
    BY DEF Init
  <1>4. \A c \in Classes : lists[c] = << >>
    BY DEF Init
  <1>5. Types
    <2>1. 0 \in 0 .. WordValues /\ << >> \in Seq(Ranges)
      BY ByteFacts
    <2>2. NoRecord \in Record
      BY DEF NoRecord, Record
    <2> QED
      BY <2>1, <2>2, RestingFacts DEF Init, Types
  <1>6. ListsOk
    BY <1>4 DEF ListsOk, IsInjective
  <1>7. RecordsOk
    BY <1>2 DEF RecordsOk
  <1>8. CallsOk
    BY <1>1, RestingFacts DEF CallsOk, CallOk, Holding
  <1>9. \A r, c : ~In(r, c)
    BY <1>4 DEF In
  <1>10. \A r : ~Linked(r)
    BY <1>9 DEF Linked
  <1>11. \A r, i : ~Recorded(r, i)
    BY <1>2 DEF Recorded
  <1>12. \A r \in Ranges : \A t : ~Held(r, t)
    BY <1>1, RestingFacts, NullFacts DEF Held
  <1>13. \A t, p : ~Freeing(t, p)
    BY <1>1, RestingFacts DEF Freeing
  <1>14. RangesOk
    <2> SUFFICES ASSUME NEW r \in Ranges PROVE RangeOk(r)
      BY DEF RangesOk
    <2>1. LinkedOk(r) /\ RecordedOk(r) /\ HeldOk(r)
      BY <1>9, <1>11, <1>12, Zenon DEF LinkedOk, RecordedOk, HeldOk
    <2>2. UsedOk(r)
      <3>1. pages[r] = 0 /\ slab[r].magic # "SLAB"
        BY <1>3 DEF NoSlab
      <3> QED
        BY <3>1, Zenon DEF UsedOk
    <2>3. owned = {} /\ \A k : ~Live(r, k)
      BY <1>10 DEF Init, Live
    <2>4. OwnedOk(r)
      BY <2>3, <1>11, <1>13 DEF OwnedOk
    <2> QED
      BY <2>1, <2>2, <2>4 DEF RangeOk
  <1> QED
    BY <1>5, <1>6, <1>7, <1>8, <1>14 DEF Structure

-----------------------------------------------------------------------------
(* The counters.                                                           *)

\* The types of the counters.
Stats == [live : Int, small : Int, large : Int, backing : Int]

\* The counters are those of a slots, b records, c slabs and d pages of large
\* blocks.
Balance(s, a, b, c, d) ==
  /\ s \in Stats
  /\ s.live = a + b /\ s.small = a /\ s.large = b /\ s.backing = PageBytes * (c + d)

\* One slot more or less.
LEMMA SmallCountedFacts ==
  ASSUME NEW s \in Stats, NEW n \in Int
  PROVE  /\ SmallCounted(s, n) \in Stats
         /\ SmallCounted(s, n).live = s.live + n /\ SmallCounted(s, n).small = s.small + n
         /\ SmallCounted(s, n).large = s.large /\ SmallCounted(s, n).backing = s.backing
  <1>1. PICK x \in Int : x = s.live + n
    BY DEF Stats
  <1>2. PICK y \in Int : y = s.small + n
    BY DEF Stats
  <1>3. SmallCounted(s, n) = [s EXCEPT !.live = s.live + n, !.small = s.small + n]
    BY Zenon DEF SmallCounted
  <1>4. PICK r : r = SmallCounted(s, n)
    OBVIOUS
  <1>5. r = [s EXCEPT !.live = x, !.small = y]
    BY <1>1, <1>2, <1>3, <1>4, Zenon
  <1>6. r \in Stats /\ r.live = x /\ r.small = y /\ r.large = s.large /\ r.backing = s.backing
    BY <1>5 DEF Stats
  <1> QED
    BY <1>1, <1>2, <1>4, <1>6

\* One record more or less.
LEMMA LargeCountedFacts ==
  ASSUME NEW s \in Stats, NEW n \in Int
  PROVE  /\ LargeCounted(s, n) \in Stats
         /\ LargeCounted(s, n).live = s.live + n /\ LargeCounted(s, n).large = s.large + n
         /\ LargeCounted(s, n).small = s.small /\ LargeCounted(s, n).backing = s.backing
  <1>1. PICK x \in Int : x = s.live + n
    BY DEF Stats
  <1>2. PICK y \in Int : y = s.large + n
    BY DEF Stats
  <1>3. LargeCounted(s, n) = [s EXCEPT !.live = s.live + n, !.large = s.large + n]
    BY Zenon DEF LargeCounted
  <1>4. PICK r : r = LargeCounted(s, n)
    OBVIOUS
  <1>5. r = [s EXCEPT !.live = x, !.large = y]
    BY <1>1, <1>2, <1>3, <1>4, Zenon
  <1>6. r \in Stats /\ r.live = x /\ r.large = y /\ r.small = s.small /\ r.backing = s.backing
    BY <1>5 DEF Stats
  <1> QED
    BY <1>1, <1>2, <1>4, <1>6

\* A slot that is counted.
LEMMA BalanceSlot ==
  ASSUME NEW s, NEW a \in Int, NEW b \in Int, NEW c \in Int, NEW d \in Int, NEW n \in Int,
         Balance(s, a, b, c, d)
  PROVE  Balance(SmallCounted(s, n), a + n, b, c, d)
  <1>1. s \in Stats /\ s.live = a + b /\ s.small = a /\ s.large = b /\ s.backing = PageBytes * (c + d)
    BY DEF Balance
  <1>2. PICK r : r = SmallCounted(s, n)
    OBVIOUS
  <1>3. /\ r \in Stats /\ r.live = s.live + n /\ r.small = s.small + n
        /\ r.large = s.large /\ r.backing = s.backing
    BY <1>1, <1>2, SmallCountedFacts, Zenon
  <1>4. r.live = (a + n) + b /\ r.small = a + n
    BY <1>1, <1>3
  <1>5. r.large = b /\ r.backing = PageBytes * (c + d)
    BY <1>1, <1>3, Zenon
  <1>6. Balance(r, a + n, b, c, d)
    BY <1>3, <1>4, <1>5, Zenon DEF Balance
  <1> QED
    BY <1>2, <1>6, Zenon

\* A record that is counted.
LEMMA BalanceRecord ==
  ASSUME NEW s, NEW a \in Int, NEW b \in Int, NEW c \in Int, NEW d \in Int, NEW n \in Int,
         Balance(s, a, b, c, d)
  PROVE  Balance(LargeCounted(s, n), a, b + n, c, d)
  <1>1. s \in Stats /\ s.live = a + b /\ s.small = a /\ s.large = b /\ s.backing = PageBytes * (c + d)
    BY DEF Balance
  <1>2. PICK r : r = LargeCounted(s, n)
    OBVIOUS
  <1>3. /\ r \in Stats /\ r.live = s.live + n /\ r.large = s.large + n
        /\ r.small = s.small /\ r.backing = s.backing
    BY <1>1, <1>2, LargeCountedFacts, Zenon
  <1>4. r.live = a + (b + n) /\ r.large = b + n
    BY <1>1, <1>3
  <1>5. r.small = a /\ r.backing = PageBytes * (c + d)
    BY <1>1, <1>3, Zenon
  <1>6. Balance(r, a, b + n, c, d)
    BY <1>3, <1>4, <1>5, Zenon DEF Balance
  <1> QED
    BY <1>2, <1>6, Zenon

\* The page of a slab that is linked.
LEMMA SlabMore ==
  ASSUME NEW s, NEW a \in Int, NEW b \in Int, NEW c \in Int, NEW d \in Int, Balance(s, a, b, c, d),
         NEW m \in Int, m = PageBytes, NEW r, r = [s EXCEPT !.backing = @ + m]
  PROVE  Balance(r, a, b, c + 1, d)
  <1>1. s \in Stats /\ s.live = a + b /\ s.small = a /\ s.large = b /\ s.backing = PageBytes * (c + d)
    BY DEF Balance
  <1>2. r \in Stats /\ r.live = s.live /\ r.small = s.small /\ r.large = s.large
        /\ r.backing = s.backing + m
    BY <1>1 DEF Stats
  <1>3. PICK p \in Int : p = PageBytes
    BY ByteFacts
  <1>4. p * (c + d) + p = p * ((c + 1) + d)
    OBVIOUS
  <1>5. r.backing = PageBytes * ((c + 1) + d)
    BY <1>1, <1>2, <1>3, <1>4, Zenon
  <1> QED
    BY <1>1, <1>2, <1>5, Zenon DEF Balance

\* The page of a slab that retires.
LEMMA SlabLess ==
  ASSUME NEW s, NEW a \in Int, NEW b \in Int, NEW c \in Int, NEW d \in Int, Balance(s, a, b, c, d),
         NEW m \in Int, m = PageBytes, NEW r, r = [s EXCEPT !.backing = @ - m]
  PROVE  Balance(r, a, b, c - 1, d)
  <1>1. s \in Stats /\ s.live = a + b /\ s.small = a /\ s.large = b /\ s.backing = PageBytes * (c + d)
    BY DEF Balance
  <1>2. r \in Stats /\ r.live = s.live /\ r.small = s.small /\ r.large = s.large
        /\ r.backing = s.backing - m
    BY <1>1 DEF Stats
  <1>3. PICK p \in Int : p = PageBytes
    BY ByteFacts
  <1>4. p * (c + d) - p = p * ((c - 1) + d)
    OBVIOUS
  <1>5. r.backing = PageBytes * ((c - 1) + d)
    BY <1>1, <1>2, <1>3, <1>4, Zenon
  <1> QED
    BY <1>1, <1>2, <1>5, Zenon DEF Balance

\* The pages of a block that is recorded.
LEMMA PagesMore ==
  ASSUME NEW s, NEW a \in Int, NEW b \in Int, NEW c \in Int, NEW d \in Int, Balance(s, a, b, c, d),
         NEW n \in Int, NEW m \in Int, m = n * PageBytes, NEW r, r = [s EXCEPT !.backing = @ + m]
  PROVE  Balance(r, a, b, c, d + n)
  <1>1. s \in Stats /\ s.live = a + b /\ s.small = a /\ s.large = b /\ s.backing = PageBytes * (c + d)
    BY DEF Balance
  <1>2. r \in Stats /\ r.live = s.live /\ r.small = s.small /\ r.large = s.large
        /\ r.backing = s.backing + m
    BY <1>1 DEF Stats
  <1>3. PICK p \in Int : p = PageBytes
    BY ByteFacts
  <1>4. p * (c + d) + n * p = p * (c + (d + n))
    OBVIOUS
  <1>5. r.backing = PageBytes * (c + (d + n))
    BY <1>1, <1>2, <1>3, <1>4, Zenon
  <1> QED
    BY <1>1, <1>2, <1>5, Zenon DEF Balance

\* The pages of a block that is freed.
LEMMA PagesLess ==
  ASSUME NEW s, NEW a \in Int, NEW b \in Int, NEW c \in Int, NEW d \in Int, Balance(s, a, b, c, d),
         NEW n \in Int, NEW m \in Int, m = n * PageBytes, NEW r, r = [s EXCEPT !.backing = @ - m]
  PROVE  Balance(r, a, b, c, d - n)
  <1>1. s \in Stats /\ s.live = a + b /\ s.small = a /\ s.large = b /\ s.backing = PageBytes * (c + d)
    BY DEF Balance
  <1>2. r \in Stats /\ r.live = s.live /\ r.small = s.small /\ r.large = s.large
        /\ r.backing = s.backing - m
    BY <1>1 DEF Stats
  <1>3. PICK p \in Int : p = PageBytes
    BY ByteFacts
  <1>4. p * (c + d) - n * p = p * (c + (d - n))
    OBVIOUS
  <1>5. r.backing = PageBytes * (c + (d - n))
    BY <1>1, <1>2, <1>3, <1>4, Zenon
  <1> QED
    BY <1>1, <1>2, <1>5, Zenon DEF Balance

\* CountsOk field by field.
LEMMA CountsBalance ==
  ASSUME NEW a \in Int, NEW b \in Int, NEW c \in Int, NEW d \in Int, NEW s
  PROVE  Balance(s, a, b, c, d)
           <=> s = [live |-> a + b, small |-> a, large |-> b, backing |-> PageBytes * (c + d)]
  <1>1. PICK x \in Int : x = PageBytes * (c + d)
    BY ByteFacts
  <1>2. PICK y \in Int : y = a + b
    OBVIOUS
  <1>3. (/\ s \in Stats /\ s.live = y /\ s.small = a /\ s.large = b /\ s.backing = x)
          <=> s = [live |-> y, small |-> a, large |-> b, backing |-> x]
    BY DEF Stats
  <1> QED
    BY <1>1, <1>2, <1>3, Zenon DEF Balance

-----------------------------------------------------------------------------
(* The sets that are counted.                                              *)

\* Listed is the set of linked ranges.
LEMMA ListedIs == Structure => \A r : r \in Listed <=> Linked(r)
  <1> SUFFICES ASSUME Structure, NEW r PROVE r \in Listed <=> Linked(r)
    OBVIOUS
  <1>1. r \in Listed <=> \E c \in Classes : r \in Range(lists[c])
    BY DEF Listed
  <1>2. \A c \in Classes : r \in Range(lists[c]) <=> In(r, c)
    BY DEF Range, In
  <1> QED
    BY <1>1, <1>2 DEF Linked

\* The members of LiveSlots.
LEMMA LiveSlotsIs == Structure => \A x : x \in LiveSlots <=> \E r \in Ranges, k \in Nat : x = <<r, k>> /\ Live(r, k)
  <1> SUFFICES ASSUME Structure, NEW x
               PROVE  x \in LiveSlots <=> \E r \in Ranges, k \in Nat : x = <<r, k>> /\ Live(r, k)
    OBVIOUS
  <1>1. x \in LiveSlots <=> \E r \in Listed : \E k \in DOMAIN slab[r].used : slab[r].used[k] # 0 /\ x = <<r, k>>
    BY DEF LiveSlots
  <1>2. \A r : r \in Listed <=> Linked(r)
    BY ListedIs
  <1>3. \A r : Linked(r) => r \in Ranges /\ DOMAIN slab[r].used = Slots(slab[r].class)
    <2> SUFFICES ASSUME NEW r, Linked(r) PROVE r \in Ranges /\ DOMAIN slab[r].used = Slots(slab[r].class)
      OBVIOUS
    <2>1. r \in Ranges /\ SlabOk(slab[r], slab[r].class)
      BY LinkedFacts
    <2> QED
      BY <2>1, SlabFacts
  <1>4. \A r, k : Live(r, k) => k \in Nat
    BY LiveFacts
  <1>5. ASSUME x \in LiveSlots PROVE \E r \in Ranges, k \in Nat : x = <<r, k>> /\ Live(r, k)
    <2>1. PICK r \in Listed : \E k \in DOMAIN slab[r].used : slab[r].used[k] # 0 /\ x = <<r, k>>
      BY <1>1, <1>5
    <2>2. PICK k \in DOMAIN slab[r].used : slab[r].used[k] # 0 /\ x = <<r, k>>
      BY <2>1
    <2>3. Live(r, k) /\ r \in Ranges
      BY <2>1, <2>2, <1>2, <1>3 DEF Live
    <2> QED
      BY <2>2, <2>3, <1>4
  <1>6. ASSUME NEW r \in Ranges, NEW k \in Nat, x = <<r, k>>, Live(r, k) PROVE x \in LiveSlots
    <2>1. Linked(r) /\ k \in Slots(slab[r].class) /\ slab[r].used[k] # 0
      BY <1>6 DEF Live
    <2>2. r \in Listed /\ k \in DOMAIN slab[r].used
      BY <2>1, <1>2, <1>3
    <2> QED
      BY <2>1, <2>2, <1>1, <1>6
  <1> QED
    BY <1>5, <1>6

\* The members of LiveRecords.
LEMMA LiveRecordsIs == Structure => /\ LiveRecords = {i \in 1 .. LargeRecords : records[i] # NoRecord}
                                    /\ \A i : i \in LiveRecords <=> \E r \in Ranges : Recorded(r, i)
  <1> SUFFICES ASSUME Structure
               PROVE  /\ LiveRecords = {i \in 1 .. LargeRecords : records[i] # NoRecord}
                      /\ \A i : i \in LiveRecords <=> \E r \in Ranges : Recorded(r, i)
    OBVIOUS
  <1>1. LiveRecords = {i \in 1 .. LargeRecords : records[i] # NoRecord}
    BY DEF LiveRecords, Structure, Types
  <1>2. \A r, i : Recorded(r, i) => i \in 1 .. LargeRecords /\ records[i] # NoRecord
    BY DEF Recorded
  <1>3. \A i \in 1 .. LargeRecords : records[i] # NoRecord => \E r \in Ranges : Recorded(r, i)
    BY DEF Structure, RecordsOk
  <1> QED
    BY <1>1, <1>2, <1>3

\* A slab has no more slots than bytes.
LEMMA SlotsInPage ==
  ASSUME NEW c \in Classes
  PROVE  Slots(c) \subseteq 0 .. PageBytes
  <1>1. /\ SlotsPerPage(c) \in Nat /\ SlotStride(c) \in Nat /\ SlotStride(c) > 0
        /\ SlotsPerPage(c) * SlotStride(c) <= PageBytes - HeaderBytes
    BY SlotCount, ClassFacts
  <1>2. PICK n \in Nat : n = SlotsPerPage(c)
    BY <1>1
  <1>3. PICK d \in Nat : d = SlotStride(c)
    BY <1>1
  <1>4. n <= n * d
    BY <1>1, <1>3
  <1>5. n * d \in Nat
    OBVIOUS
  <1>6. n <= PageBytes
    BY <1>1, <1>2, <1>3, <1>4, <1>5, ByteFacts
  <1> QED
    BY <1>2, <1>6, ByteFacts DEF Slots

\* Everything that is counted is finite.
LEMMA CountedSetsFinite == Structure => /\ IsFiniteSet(LiveSlots) /\ IsFiniteSet(LiveRecords)
                                        /\ IsFiniteSet(Listed) /\ IsFiniteSet(PagePairs)
  <1> SUFFICES ASSUME Structure
               PROVE  /\ IsFiniteSet(LiveSlots) /\ IsFiniteSet(LiveRecords)
                      /\ IsFiniteSet(Listed) /\ IsFiniteSet(PagePairs)
    OBVIOUS
  <1>1. IsFiniteSet(Ranges)
    BY HeapAssumption
  <1>2. 0 \in Int /\ 1 \in Int /\ PageBytes \in Int /\ LargeRecords \in Int /\ WordValues \in Int
    BY ByteFacts
  <1>3. IsFiniteSet(0 .. PageBytes) /\ IsFiniteSet(1 .. LargeRecords) /\ IsFiniteSet(1 .. WordValues)
    BY <1>2, FS_Interval, Zenon
  <1>4. IsFiniteSet(Listed)
    <2>1. Listed \subseteq Ranges
      BY ListedIs, LinkedFacts
    <2> QED
      BY <2>1, <1>1, FS_Subset
  <1>5. IsFiniteSet(LiveRecords)
    <2>1. LiveRecords \subseteq 1 .. LargeRecords
      BY LiveRecordsIs
    <2> QED
      BY <2>1, <1>3, FS_Subset
  <1>6. IsFiniteSet(LiveSlots)
    <2>1. LiveSlots \subseteq Ranges \X (0 .. PageBytes)
      <3> SUFFICES ASSUME NEW x \in LiveSlots PROVE x \in Ranges \X (0 .. PageBytes)
        OBVIOUS
      <3>1. PICK r \in Ranges, k \in Nat : x = <<r, k>> /\ Live(r, k)
        BY LiveSlotsIs
      <3>2. Linked(r) /\ k \in Slots(slab[r].class)
        BY <3>1 DEF Live
      <3>3. slab[r].class \in Classes
        BY <3>2, LinkedFacts
      <3>4. k \in 0 .. PageBytes
        BY <3>2, <3>3, SlotsInPage
      <3> QED
        BY <3>1, <3>4
    <2>2. IsFiniteSet(Ranges \X (0 .. PageBytes))
      BY <1>1, <1>3, FS_Product
    <2> QED
      BY <2>1, <2>2, FS_Subset
  <1>7. IsFiniteSet(PagePairs)
    <2>1. PagePairs \subseteq LiveRecords \X (1 .. WordValues)
      BY DEF PagePairs
    <2>2. IsFiniteSet(LiveRecords \X (1 .. WordValues))
      BY <1>3, <1>5, FS_Product
    <2> QED
      BY <2>1, <2>2, FS_Subset
  <1> QED
    BY <1>4, <1>5, <1>6, <1>7

-----------------------------------------------------------------------------
(* The live blocks.                                                        *)

\* The live block of slot k.
SlotPart(r, k) == [range |-> r, base |-> UserOffset(slab[r].class, k), size |-> slab[r].used[k]]

\* The live block of record i.
RecordPart(i) == [range |-> records[i].pointer[1], base |-> 0, size |-> records[i].size]

\* The members of LiveBlocks.
LEMMA LiveBlocksIs ==
  Structure => \A b : b \in LiveBlocks <=>
                 \/ \E r \in Ranges, k \in Nat : Live(r, k) /\ b = SlotPart(r, k)
                 \/ \E i \in LiveRecords : b = RecordPart(i)
  <1> SUFFICES ASSUME Structure, NEW b
               PROVE  b \in LiveBlocks <=>
                        \/ \E r \in Ranges, k \in Nat : Live(r, k) /\ b = SlotPart(r, k)
                        \/ \E i \in LiveRecords : b = RecordPart(i)
    OBVIOUS
  <1>1. b \in LiveBlocks <=>
          \/ \E x \in LiveSlots : b = [range |-> x[1], base |-> UserOffset(slab[x[1]].class, x[2]),
                                       size |-> slab[x[1]].used[x[2]]]
          \/ \E i \in LiveRecords : b = RecordPart(i)
    BY Zenon DEF LiveBlocks, RecordPart
  <1>2. \A x : x \in LiveSlots <=> \E r \in Ranges, k \in Nat : x = <<r, k>> /\ Live(r, k)
    BY LiveSlotsIs
  <1>3. ASSUME NEW x \in LiveSlots,
               b = [range |-> x[1], base |-> UserOffset(slab[x[1]].class, x[2]),
                    size |-> slab[x[1]].used[x[2]]]
        PROVE  \E r \in Ranges, k \in Nat : Live(r, k) /\ b = SlotPart(r, k)
    <2>1. PICK r \in Ranges, k \in Nat : x = <<r, k>> /\ Live(r, k)
      BY <1>2, <1>3
    <2>2. x[1] = r /\ x[2] = k
      BY <2>1
    <2>3. b = SlotPart(r, k)
      BY <1>3, <2>2, Zenon DEF SlotPart
    <2> QED
      BY <2>1, <2>3
  <1>4. ASSUME NEW r \in Ranges, NEW k \in Nat, Live(r, k), b = SlotPart(r, k)
        PROVE  \E x \in LiveSlots : b = [range |-> x[1], base |-> UserOffset(slab[x[1]].class, x[2]),
                                         size |-> slab[x[1]].used[x[2]]]
    <2>1. PICK x : x = <<r, k>>
      OBVIOUS
    <2>2. x \in LiveSlots /\ x[1] = r /\ x[2] = k
      BY <2>1, <1>2, <1>4
    <2>3. b = [range |-> x[1], base |-> UserOffset(slab[x[1]].class, x[2]),
               size |-> slab[x[1]].used[x[2]]]
      BY <2>2, <1>4, Zenon DEF SlotPart
    <2> QED
      BY <2>2, <2>3
  <1> QED
    BY <1>1, <1>3, <1>4, Zenon

\* The range of a recorded block.
LEMMA RecordPartIs == Structure => \A r \in Ranges : \A i : Recorded(r, i) => RecordPart(i).range = r
  BY DEF Recorded, RecordPart

\* Two live blocks are the same or share no byte.
LEMMA BlocksApart ==
  Structure => \A b, c \in LiveBlocks : b = c \/ (b # c /\ Promise!Disjoint(b, c))
  <1> SUFFICES ASSUME Structure, NEW b \in LiveBlocks, NEW c \in LiveBlocks, b # c
               PROVE  Promise!Disjoint(b, c)
    OBVIOUS
  <1>0. \A x : x \in LiveBlocks <=>
                 \/ \E r \in Ranges, k \in Nat : Live(r, k) /\ x = SlotPart(r, k)
                 \/ \E i \in LiveRecords : x = RecordPart(i)
    BY LiveBlocksIs
  <1>1. ASSUME NEW i \in LiveRecords
        PROVE  /\ RecordPart(i).range \in Ranges /\ Recorded(RecordPart(i).range, i)
    <2>1. PICK r \in Ranges : Recorded(r, i)
      BY LiveRecordsIs
    <2>2. RecordPart(i).range = r
      BY <2>1, RecordPartIs
    <2> QED
      BY <2>1, <2>2
  <1>2. ASSUME NEW r \in Ranges, NEW k \in Nat, Live(r, k), NEW i \in LiveRecords
        PROVE  SlotPart(r, k).range # RecordPart(i).range
    <2>1. Linked(r) /\ SlotPart(r, k).range = r
      BY <1>2, LiveFacts DEF SlotPart
    <2>2. ~Linked(RecordPart(i).range)
      BY <1>1, RecordedFacts
    <2> QED
      BY <2>1, <2>2
  <1>3. ASSUME NEW i \in LiveRecords, NEW j \in LiveRecords, i # j
        PROVE  RecordPart(i).range # RecordPart(j).range
    BY <1>1, <1>3, RecordedFacts
  <1>4. ASSUME NEW r \in Ranges, NEW k \in Nat, NEW l \in Nat, Live(r, k), Live(r, l), k < l
        PROVE  SlotPart(r, k).base + SlotPart(r, k).size <= SlotPart(r, l).base
    <2>1. /\ Linked(r) /\ slab[r].used[k] \in Nat /\ slab[r].used[k] <= ClassSizes[slab[r].class]
          /\ UserOffset(slab[r].class, k) \in Nat /\ UserOffset(slab[r].class, l) \in Nat
      BY <1>4, LiveFacts
    <2>2. slab[r].class \in Classes
      BY <2>1, LinkedFacts
    <2>3. UserOffset(slab[r].class, k) + SlotStride(slab[r].class) <= UserOffset(slab[r].class, l)
      BY <1>4, <2>2, OffsetsApart
    <2>4. /\ SlotStride(slab[r].class) \in Nat /\ ClassSizes[slab[r].class] \in Nat
          /\ SlotStride(slab[r].class) > ClassSizes[slab[r].class]
      BY <2>2, ClassFacts
    <2>5. UserOffset(slab[r].class, k) + slab[r].used[k] <= UserOffset(slab[r].class, l)
      BY <2>1, <2>3, <2>4
    <2> QED
      BY <2>5 DEF SlotPart
  <1>5. \A r \in Ranges : \A k : SlotPart(r, k).range = r
    BY DEF SlotPart
  <1>6. CASE \E i \in LiveRecords : b = RecordPart(i)
    <2>1. PICK i \in LiveRecords : b = RecordPart(i)
      BY <1>6
    <2>2. b.range # c.range
      BY <2>1, <1>0, <1>2, <1>3
    <2> QED
      BY <2>2 DEF Promise!Disjoint
  <1>7. CASE \E i \in LiveRecords : c = RecordPart(i)
    <2>1. PICK i \in LiveRecords : c = RecordPart(i)
      BY <1>7
    <2>2. b.range # c.range
      BY <2>1, <1>0, <1>2, <1>3
    <2> QED
      BY <2>2 DEF Promise!Disjoint
  <1>8. CASE ~(\E i \in LiveRecords : b = RecordPart(i)) /\ ~(\E i \in LiveRecords : c = RecordPart(i))
    <2>1. PICK r \in Ranges, k \in Nat : Live(r, k) /\ b = SlotPart(r, k)
      BY <1>0, <1>8
    <2>2. PICK q \in Ranges, l \in Nat : Live(q, l) /\ c = SlotPart(q, l)
      BY <1>0, <1>8
    <2>3. CASE r # q
      BY <2>1, <2>2, <2>3, <1>5 DEF Promise!Disjoint
    <2>4. CASE r = q
      <3>1. k # l
        BY <2>1, <2>2, <2>4
      <3>2. k < l \/ l < k
        BY <3>1
      <3>3. b.base + b.size <= c.base \/ c.base + c.size <= b.base
        BY <3>2, <1>4, <2>1, <2>2, <2>4
      <3> QED
        BY <3>3 DEF Promise!Disjoint
    <2> QED
      BY <2>3, <2>4
  <1> QED
    BY <1>6, <1>7, <1>8

\* A live block has a byte, so it is not disjoint from itself: blocks of two
\* slots, or of a slot and a record, are different records.
LEMMA PartsDiffer ==
  ASSUME Structure, NEW r \in Ranges, NEW k \in Nat, Live(r, k)
  PROVE  /\ \A q \in Ranges, l \in Nat : Live(q, l) /\ SlotPart(q, l) = SlotPart(r, k) => q = r /\ l = k
         /\ \A i : SlotPart(r, k) # RecordPart(i)
  <1>1. ASSUME NEW q \in Ranges, NEW l \in Nat, Live(q, l), SlotPart(q, l) = SlotPart(r, k)
        PROVE  q = r /\ l = k
    <2>1. q = r /\ UserOffset(slab[q].class, l) = UserOffset(slab[r].class, k)
      BY <1>1 DEF SlotPart
    <2>2. SlotPointer(q, l) = SlotPointer(r, k)
      BY <2>1, Zenon DEF SlotPointer
    <2> QED
      BY <1>1, <2>2, PointersDiffer
  <1>2. SlotPart(r, k).base > 0
    BY LiveFacts DEF SlotPart
  <1>3. \A i : RecordPart(i).base = 0
    BY DEF RecordPart
  <1> QED
    BY <1>1, <1>2, <1>3

\* Two records have different blocks.
LEMMA RecordsDiffer ==
  ASSUME Structure, NEW i \in LiveRecords, NEW j \in LiveRecords, RecordPart(i) = RecordPart(j)
  PROVE  i = j
  <1>1. PICK r \in Ranges : Recorded(r, i)
    BY LiveRecordsIs
  <1>2. PICK q \in Ranges : Recorded(q, j)
    BY LiveRecordsIs
  <1>3. r = q
    BY <1>1, <1>2, RecordPartIs
  <1> QED
    BY <1>1, <1>2, <1>3, RecordedFacts

-----------------------------------------------------------------------------
(* What a step does to the sets.                                           *)

\* The same sets after a step.
LEMMA Primed ==
  ASSUME Structure'
  PROVE  /\ \A r : r \in Listed' <=> Linked(r)'
         /\ \A x : x \in LiveSlots' <=> \E r \in Ranges, k \in Nat : x = <<r, k>> /\ Live(r, k)'
         /\ LiveRecords' = {i \in 1 .. LargeRecords : records'[i] # NoRecord}
         /\ \A b : b \in LiveBlocks' <=>
                 \/ \E r \in Ranges, k \in Nat : Live(r, k)' /\ b = SlotPart(r, k)'
                 \/ \E i \in LiveRecords' : b = RecordPart(i)'
         /\ \A b, c \in LiveBlocks' : b = c \/ (b # c /\ Promise!Disjoint(b, c))
  <1>1. (\A r : r \in Listed <=> Linked(r))'
    BY ListedIs, PTL
  <1>2. (\A x : x \in LiveSlots <=> \E r \in Ranges, k \in Nat : x = <<r, k>> /\ Live(r, k))'
    BY LiveSlotsIs, PTL
  <1>3. (LiveRecords = {i \in 1 .. LargeRecords : records[i] # NoRecord}
                                    /\ \A i : i \in LiveRecords <=> \E r \in Ranges : Recorded(r, i))'
    BY LiveRecordsIs, PTL
  <1>4. (\A b : b \in LiveBlocks <=>
                 \/ \E r \in Ranges, k \in Nat : Live(r, k) /\ b = SlotPart(r, k)
                 \/ \E i \in LiveRecords : b = RecordPart(i))'
    BY LiveBlocksIs, PTL
  <1>5. (\A b, c \in LiveBlocks : b = c \/ (b # c /\ Promise!Disjoint(b, c)))'
    BY BlocksApart, PTL
  <1>6. \A b, c : Promise!Disjoint(b, c)' <=> Promise!Disjoint(b, c)
    BY DEF Promise!Disjoint
  <1> QED
    BY <1>1, <1>2, <1>3, <1>4, <1>5, <1>6

\* The step changes no slot.
SameSlots ==
  \A q, l : /\ Live(q, l)' <=> Live(q, l)
            /\ Live(q, l) => SlotPart(q, l)' = SlotPart(q, l)

\* A step that leaves lists and linked slabs alone changes no slot.
LEMMA SameSlotsOf ==
  ASSUME Structure, lists' = lists, \A q \in Ranges : Linked(q) => slab'[q] = slab[q]
  PROVE  SameSlots
  <1>1. \A q : Linked(q)' <=> Linked(q)
    BY SameLists
  <1>2. \A q : Linked(q) => slab'[q] = slab[q]
    BY LinkedFacts
  <1>3. \A q, l : Live(q, l)' <=> Live(q, l)
    BY <1>1, <1>2 DEF Live
  <1>4. \A q, l : Live(q, l) => SlotPart(q, l)' = SlotPart(q, l)
    BY <1>2 DEF Live, SlotPart
  <1> QED
    BY <1>3, <1>4 DEF SameSlots

\* The blocks of unchanged records.
LEMMA SameRecordParts ==
  ASSUME records' = records
  PROVE  LiveRecords' = LiveRecords /\ PagePairs' = PagePairs /\ \A i : RecordPart(i)' = RecordPart(i)
  BY DEF LiveRecords, PagePairs, RecordPart

\* Then the live slots are the same.
LEMMA SlotsSame ==
  ASSUME Structure, Structure', SameSlots
  PROVE  LiveSlots' = LiveSlots
  BY LiveSlotsIs, Primed, Zenon DEF SameSlots

\* Unchanged lists have the same members.
LEMMA ListedSame ==
  ASSUME lists' = lists
  PROVE  Listed' = Listed
  BY DEF Listed

\* A step that leaves lists, records and linked slabs alone.
LEMMA QuietStep ==
  ASSUME Structure, Structure', UNCHANGED <<lists, records, stats>>,
         \A q \in Ranges : Linked(q) => slab'[q] = slab[q]
  PROVE  (CountsOk => CountsOk') /\ LiveBlocks' = LiveBlocks
  <1>1. SameSlots
    BY SameSlotsOf
  <1>2. LiveSlots' = LiveSlots
    BY <1>1, SlotsSame
  <1>3. LiveRecords' = LiveRecords /\ PagePairs' = PagePairs /\ \A i : RecordPart(i)' = RecordPart(i)
    BY SameRecordParts
  <1>4. Listed' = Listed
    BY ListedSame
  <1>5. stats' = stats
    OBVIOUS
  <1>6. CountsOk => CountsOk'
    BY <1>2, <1>3, <1>4, <1>5, Zenon DEF CountsOk
  <1>7. \A b : b \in LiveBlocks' <=> b \in LiveBlocks
    BY <1>1, <1>3, Primed, LiveBlocksIs DEF SameSlots
  <1> QED
    BY <1>6, <1>7

\* Slot k of range r becomes live, and nothing else changes.
SlotComes(r, k) ==
  /\ ~Live(r, k) /\ Live(r, k)'
  /\ \A q, l : Live(q, l)' <=> Live(q, l) \/ (q = r /\ l = k)
  /\ \A q, l : Live(q, l) => SlotPart(q, l)' = SlotPart(q, l)

\* Slot k of range r is live no more, and nothing else changes.
SlotGoes(r, k) ==
  /\ Live(r, k) /\ ~Live(r, k)'
  /\ \A q, l : Live(q, l)' <=> Live(q, l) /\ ~(q = r /\ l = k)
  /\ \A q, l : Live(q, l)' => SlotPart(q, l)' = SlotPart(q, l)

\* The sets after a slot comes.
LEMMA SlotAdded ==
  ASSUME Structure, Structure', NEW r \in Ranges, NEW k \in Nat, SlotComes(r, k), records' = records
  PROVE  /\ LiveSlots' = LiveSlots \cup {<<r, k>>} /\ <<r, k>> \notin LiveSlots
         /\ LiveBlocks' = LiveBlocks \cup {SlotPart(r, k)'}
  <1>1. \A x : x \in LiveSlots <=> \E q \in Ranges, l \in Nat : x = <<q, l>> /\ Live(q, l)
    BY LiveSlotsIs
  <1>2. \A x : x \in LiveSlots' <=> \E q \in Ranges, l \in Nat : x = <<q, l>> /\ Live(q, l)'
    BY Primed, Zenon
  <1>3. <<r, k>> \notin LiveSlots
    BY <1>1 DEF SlotComes
  <1>4. \A x : x \in LiveSlots' <=> x \in LiveSlots \/ x = <<r, k>>
    BY <1>1, <1>2 DEF SlotComes
  <1>5. LiveRecords' = LiveRecords /\ \A i : RecordPart(i)' = RecordPart(i)
    BY SameRecordParts
  <1>6. \A b : b \in LiveBlocks' <=> b \in LiveBlocks \/ b = SlotPart(r, k)'
    BY <1>5, Primed, LiveBlocksIs DEF SlotComes
  <1> QED
    BY <1>3, <1>4, <1>6

\* The sets after a slot goes.
LEMMA SlotRemoved ==
  ASSUME Structure, Structure', NEW r \in Ranges, NEW k \in Nat, SlotGoes(r, k), records' = records
  PROVE  /\ LiveSlots' = LiveSlots \ {<<r, k>>} /\ <<r, k>> \in LiveSlots
         /\ LiveBlocks' = LiveBlocks \ {SlotPart(r, k)} /\ SlotPart(r, k) \in LiveBlocks
  <1>1. \A x : x \in LiveSlots <=> \E q \in Ranges, l \in Nat : x = <<q, l>> /\ Live(q, l)
    BY LiveSlotsIs
  <1>2. \A x : x \in LiveSlots' <=> \E q \in Ranges, l \in Nat : x = <<q, l>> /\ Live(q, l)'
    BY Primed, Zenon
  <1>3. <<r, k>> \in LiveSlots
    BY <1>1 DEF SlotGoes
  <1>4. \A x : x \in LiveSlots' <=> x \in LiveSlots /\ x # <<r, k>>
    BY <1>1, <1>2 DEF SlotGoes
  <1>5. LiveRecords' = LiveRecords /\ \A i : RecordPart(i)' = RecordPart(i)
    BY SameRecordParts
  <1>6. /\ \A q \in Ranges, l \in Nat : Live(q, l) /\ SlotPart(q, l) = SlotPart(r, k) => q = r /\ l = k
        /\ \A i : SlotPart(r, k) # RecordPart(i)
    BY PartsDiffer DEF SlotGoes
  <1>7. \A b : b \in LiveBlocks <=>
                 \/ \E q \in Ranges, l \in Nat : Live(q, l) /\ b = SlotPart(q, l)
                 \/ \E i \in LiveRecords : b = RecordPart(i)
    BY LiveBlocksIs
  <1>8. \A b : b \in LiveBlocks' <=>
                 \/ \E q \in Ranges, l \in Nat : Live(q, l)' /\ b = SlotPart(q, l)
                 \/ \E i \in LiveRecords : b = RecordPart(i)
    BY <1>5, Primed DEF SlotGoes
  <1>9. \A b : b \in LiveBlocks' <=> b \in LiveBlocks /\ b # SlotPart(r, k)
    BY <1>6, <1>7, <1>8 DEF SlotGoes
  <1>10. SlotPart(r, k) \in LiveBlocks
    BY <1>7 DEF SlotGoes
  <1> QED
    BY <1>3, <1>4, <1>9, <1>10

\* The sets after a record is taken.
LEMMA RecordAdded ==
  ASSUME Structure, Structure', SameSlots, NEW i \in 1 .. LargeRecords, records[i] = NoRecord,
         records'[i] # NoRecord, \A j \in 1 .. LargeRecords : j # i => records'[j] = records[j]
  PROVE  /\ LiveRecords' = LiveRecords \cup {i} /\ i \notin LiveRecords
         /\ LiveBlocks' = LiveBlocks \cup {RecordPart(i)'}
         /\ \A j \in LiveRecords : records'[j] = records[j]
  <1>1. LiveRecords = {j \in 1 .. LargeRecords : records[j] # NoRecord}
    BY LiveRecordsIs
  <1>2. LiveRecords' = {j \in 1 .. LargeRecords : records'[j] # NoRecord}
    BY Primed
  <1>3. LiveRecords' = LiveRecords \cup {i} /\ i \notin LiveRecords
    BY <1>1, <1>2
  <1>4. \A j \in LiveRecords : RecordPart(j)' = RecordPart(j) /\ records'[j] = records[j]
    BY <1>1 DEF RecordPart
  <1>5. \A b : b \in LiveBlocks <=>
                 \/ \E q \in Ranges, l \in Nat : Live(q, l) /\ b = SlotPart(q, l)
                 \/ \E j \in LiveRecords : b = RecordPart(j)
    BY LiveBlocksIs
  <1>6. \A b : b \in LiveBlocks' <=>
                 \/ \E q \in Ranges, l \in Nat : Live(q, l) /\ b = SlotPart(q, l)
                 \/ \E j \in LiveRecords' : b = RecordPart(j)'
    BY Primed DEF SameSlots
  <1>7. \A b : b \in LiveBlocks' <=> b \in LiveBlocks \/ b = RecordPart(i)'
    BY <1>3, <1>4, <1>5, <1>6
  <1> QED
    BY <1>3, <1>4, <1>7

\* The sets after a record is given up.
LEMMA RecordRemoved ==
  ASSUME Structure, Structure', SameSlots, NEW i \in 1 .. LargeRecords, records[i] # NoRecord,
         records'[i] = NoRecord, \A j \in 1 .. LargeRecords : j # i => records'[j] = records[j]
  PROVE  /\ LiveRecords' = LiveRecords \ {i} /\ i \in LiveRecords
         /\ LiveBlocks' = LiveBlocks \ {RecordPart(i)} /\ RecordPart(i) \in LiveBlocks
         /\ \A j \in LiveRecords' : records'[j] = records[j]
  <1>1. LiveRecords = {j \in 1 .. LargeRecords : records[j] # NoRecord}
    BY LiveRecordsIs
  <1>2. LiveRecords' = {j \in 1 .. LargeRecords : records'[j] # NoRecord}
    BY Primed
  <1>3. LiveRecords' = LiveRecords \ {i} /\ i \in LiveRecords
    BY <1>1, <1>2
  <1>4. \A j \in LiveRecords' : RecordPart(j)' = RecordPart(j) /\ records'[j] = records[j]
    BY <1>2 DEF RecordPart
  <1>5. \A b : b \in LiveBlocks <=>
                 \/ \E q \in Ranges, l \in Nat : Live(q, l) /\ b = SlotPart(q, l)
                 \/ \E j \in LiveRecords : b = RecordPart(j)
    BY LiveBlocksIs
  <1>6. \A b : b \in LiveBlocks' <=>
                 \/ \E q \in Ranges, l \in Nat : Live(q, l) /\ b = SlotPart(q, l)
                 \/ \E j \in LiveRecords' : b = RecordPart(j)
    BY Primed, <1>4 DEF SameSlots
  <1>7. \A j \in LiveRecords : j # i => RecordPart(j) # RecordPart(i)
    BY <1>3, RecordsDiffer
  <1>8. \A q \in Ranges, l \in Nat : Live(q, l) => SlotPart(q, l) # RecordPart(i)
    BY PartsDiffer
  <1>9. \A b : b \in LiveBlocks' <=> b \in LiveBlocks /\ b # RecordPart(i)
    <2>1. ASSUME NEW b, b \in LiveBlocks' PROVE b \in LiveBlocks /\ b # RecordPart(i)
      <3>1. CASE \E q \in Ranges, l \in Nat : Live(q, l) /\ b = SlotPart(q, l)
        <4>1. PICK q \in Ranges, l \in Nat : Live(q, l) /\ b = SlotPart(q, l)
          BY <3>1
        <4> QED BY <4>1, <1>5, <1>8, Zenon
      <3>2. CASE \E j \in LiveRecords' : b = RecordPart(j)
        <4>1. PICK j \in LiveRecords' : b = RecordPart(j)
          BY <3>2
        <4>2. j \in LiveRecords /\ j # i
          BY <4>1, <1>3
        <4> QED BY <4>1, <4>2, <1>5, <1>7, Zenon
      <3> QED BY <2>1, <3>1, <3>2, <1>6, Zenon
    <2>2. ASSUME NEW b, b \in LiveBlocks, b # RecordPart(i) PROVE b \in LiveBlocks'
      <3>1. CASE \E q \in Ranges, l \in Nat : Live(q, l) /\ b = SlotPart(q, l)
        BY <3>1, <1>6, Zenon
      <3>2. CASE \E j \in LiveRecords : b = RecordPart(j)
        <4>1. PICK j \in LiveRecords : b = RecordPart(j)
          BY <3>2
        <4>2. j # i
          BY <4>1, <2>2
        <4>3. j \in LiveRecords'
          BY <4>2, <1>3
        <4> QED BY <4>1, <4>3, <1>6, Zenon
      <3> QED BY <2>2, <3>1, <3>2, <1>5, Zenon
    <2> QED BY <2>1, <2>2, Zenon
  <1>10. RecordPart(i) \in LiveBlocks
    BY <1>3, <1>5
  <1> QED
    BY <1>3, <1>4, <1>9, <1>10

\* CountsOk in terms of the counts.
LEMMA CountsIs ==
  Structure =>
    /\ Cardinality(LiveSlots) \in Nat /\ Cardinality(LiveRecords) \in Nat
    /\ Cardinality(Listed) \in Nat /\ Cardinality(PagePairs) \in Nat
    /\ CountsOk <=> Balance(stats, Cardinality(LiveSlots), Cardinality(LiveRecords),
                            Cardinality(Listed), Cardinality(PagePairs))
  <1> SUFFICES ASSUME Structure
               PROVE  /\ Cardinality(LiveSlots) \in Nat /\ Cardinality(LiveRecords) \in Nat
                      /\ Cardinality(Listed) \in Nat /\ Cardinality(PagePairs) \in Nat
                      /\ CountsOk <=> Balance(stats, Cardinality(LiveSlots), Cardinality(LiveRecords),
                                              Cardinality(Listed), Cardinality(PagePairs))
    OBVIOUS
  <1>1. /\ IsFiniteSet(LiveSlots) /\ IsFiniteSet(LiveRecords)
        /\ IsFiniteSet(Listed) /\ IsFiniteSet(PagePairs)
    BY CountedSetsFinite
  <1>2. PICK a \in Nat : a = Cardinality(LiveSlots)
    BY <1>1, FS_CardinalityType
  <1>3. PICK b \in Nat : b = Cardinality(LiveRecords)
    BY <1>1, FS_CardinalityType
  <1>4. PICK c \in Nat : c = Cardinality(Listed)
    BY <1>1, FS_CardinalityType
  <1>5. PICK d \in Nat : d = Cardinality(PagePairs)
    BY <1>1, FS_CardinalityType
  <1>6. a \in Int /\ b \in Int /\ c \in Int /\ d \in Int
    OBVIOUS
  <1>7. Balance(stats, a, b, c, d)
           <=> stats = [live |-> a + b, small |-> a, large |-> b, backing |-> PageBytes * (c + d)]
    BY <1>6, CountsBalance, Zenon
  <1>8. CountsOk <=> Balance(stats, Cardinality(LiveSlots), Cardinality(LiveRecords),
                             Cardinality(Listed), Cardinality(PagePairs))
    BY <1>2, <1>3, <1>4, <1>5, <1>7, Zenon DEF CountsOk
  <1> QED
    BY <1>2, <1>3, <1>4, <1>5, <1>8

\* The same after a step.
LEMMA CountsPrimed ==
  ASSUME Structure'
  PROVE  CountsOk' <=> Balance(stats', Cardinality(LiveSlots'), Cardinality(LiveRecords'),
                               Cardinality(Listed'), Cardinality(PagePairs'))
  <1>1. (/\ Cardinality(LiveSlots) \in Nat /\ Cardinality(LiveRecords) \in Nat
         /\ Cardinality(Listed) \in Nat /\ Cardinality(PagePairs) \in Nat
         /\ CountsOk <=> Balance(stats, Cardinality(LiveSlots), Cardinality(LiveRecords),
                            Cardinality(Listed), Cardinality(PagePairs)))'
    BY CountsIs, PTL
  <1>2. \A s, a, b, c, d : Balance(s, a, b, c, d)' <=> Balance(s, a, b, c, d)
    BY DEF Balance, Stats
  <1>3. (CountsOk <=> Balance(stats, Cardinality(LiveSlots), Cardinality(LiveRecords),
                            Cardinality(Listed), Cardinality(PagePairs)))'
    BY <1>1
  <1> QED
    BY <1>3

\* One more member, one member less, and the pages of one more record.
LEMMA OneMore ==
  ASSUME NEW S, IsFiniteSet(S), NEW x, x \notin S, NEW T, T = S \cup {x}
  PROVE  Cardinality(T) = Cardinality(S) + 1
  BY FS_AddElement

\* One member less.
LEMMA OneLess ==
  ASSUME NEW S, IsFiniteSet(S), NEW x, x \in S, NEW T, T = S \ {x}
  PROVE  Cardinality(T) = Cardinality(S) - 1
  BY FS_RemoveElement

\* The pages of one record.
LEMMA RowCount ==
  ASSUME NEW i, NEW n \in Nat
  PROVE  \E R : R = {i} \X (1 .. n) /\ IsFiniteSet(R) /\ Cardinality(R) = n
  <1> DEFINE N == 1 .. n
             R == {i} \X N
  <1>1. 1 \in Int /\ n \in Int
    OBVIOUS
  <1>2. IsFiniteSet(N) /\ Cardinality(N) = IF 1 > n THEN 0 ELSE n - 1 + 1
    BY <1>1, FS_Interval, Zenon
  <1>3. Cardinality(N) = n
    BY <1>2
  <1>4. IsFiniteSet({i}) /\ Cardinality({i}) = 1
    BY FS_Singleton
  <1> HIDE DEF N
  <1>5. IsFiniteSet(R) /\ Cardinality(R) = Cardinality({i}) * Cardinality(N)
    BY <1>2, <1>4, FS_Product, Zenon
  <1>6. Cardinality(R) = n
    BY <1>3, <1>4, <1>5
  <1>7. R = {i} \X (1 .. n)
    BY DEF N
  <1> HIDE DEF R
  <1> QED
    BY <1>5, <1>6, <1>7

\* Sets without common members.
LEMMA DisjointSum ==
  ASSUME NEW P, IsFiniteSet(P), NEW R, IsFiniteSet(R), P \cap R = {}, NEW Q, Q = P \cup R
  PROVE  Cardinality(Q) = Cardinality(P) + Cardinality(R)
  <1>1. Cardinality(Q) = Cardinality(P) + Cardinality(R) - Cardinality(P \cap R)
    BY FS_Union
  <1>2. Cardinality(P \cap R) = 0 /\ Cardinality(P) \in Nat /\ Cardinality(R) \in Nat
    BY FS_EmptySet, FS_CardinalityType
  <1> QED
    BY <1>1, <1>2

\* The pages counted after a record is taken.
LEMMA PagesAdded ==
  ASSUME Structure, NEW i, LiveRecords' = LiveRecords \cup {i}, i \notin LiveRecords,
         \A j \in LiveRecords : records'[j] = records[j],
         NEW n \in 0 .. WordValues, records'[i].pages = n
  PROVE  Cardinality(PagePairs') = Cardinality(PagePairs) + n
  <1>1. PagePairs' = {x \in (LiveRecords \cup {i}) \X (1 .. WordValues) : x[2] <= records'[x[1]].pages}
    BY DEF PagePairs
  <1>2. PagePairs = {x \in LiveRecords \X (1 .. WordValues) : x[2] <= records[x[1]].pages}
    BY DEF PagePairs
  <1>3. \A x : x \in PagePairs' <=> x \in PagePairs \/ x \in {i} \X (1 .. n)
    <2>1. SUFFICES ASSUME NEW j, NEW p
                   PROVE  <<j, p>> \in PagePairs' <=> <<j, p>> \in PagePairs \/ <<j, p>> \in {i} \X (1 .. n)
      BY <1>1, <1>2
    <2>2. CASE j = i
      BY <1>1, <1>2, <2>2, ByteFacts
    <2>3. CASE j # i
      BY <1>1, <1>2, <2>3
    <2> QED
      BY <2>2, <2>3
  <1>4. PagePairs' = PagePairs \cup ({i} \X (1 .. n))
    BY <1>3
  <1>5. \A x \in PagePairs : x[1] # i
    BY <1>2
  <1>6. IsFiniteSet(PagePairs) /\ n \in Nat
    BY CountedSetsFinite
  <1> QED
    <2>1. PICK P : P = PagePairs
      OBVIOUS
    <2>2. PICK Q : Q = PagePairs'
      OBVIOUS
    <2>r. PICK R : R = {i} \X (1 .. n) /\ IsFiniteSet(R) /\ Cardinality(R) = n
      <3>1. n \in Nat
        BY ByteFacts
      <3> QED
        BY <3>1, RowCount
    <2>3. IsFiniteSet(P) /\ Q = P \cup R /\ n \in Nat
      BY <1>4, <1>5, <1>6, <2>1, <2>2, <2>r, Zenon
    <2>5. P \cap R = {}
      BY <1>5, <2>1, <2>r
    <2>4. Cardinality(Q) = Cardinality(P) + n
      BY <2>3, <2>5, <2>r, DisjointSum
    <2> QED
      BY <2>1, <2>2, <2>4

\* The pages counted before a record is given up.
LEMMA PagesRemoved ==
  ASSUME Structure', NEW i, LiveRecords = LiveRecords' \cup {i}, i \notin LiveRecords',
         \A j \in LiveRecords' : records'[j] = records[j],
         NEW n \in 0 .. WordValues, records[i].pages = n
  PROVE  Cardinality(PagePairs) = Cardinality(PagePairs') + n
  <1>1. PagePairs = {x \in (LiveRecords' \cup {i}) \X (1 .. WordValues) : x[2] <= records[x[1]].pages}
    BY DEF PagePairs
  <1>2. PagePairs' = {x \in LiveRecords' \X (1 .. WordValues) : x[2] <= records'[x[1]].pages}
    BY DEF PagePairs
  <1>3. \A x : x \in PagePairs <=> x \in PagePairs' \/ x \in {i} \X (1 .. n)
    <2>1. SUFFICES ASSUME NEW j, NEW p
                   PROVE  <<j, p>> \in PagePairs <=> <<j, p>> \in PagePairs' \/ <<j, p>> \in {i} \X (1 .. n)
      BY <1>1, <1>2
    <2>2. CASE j = i
      BY <1>1, <1>2, <2>2, ByteFacts
    <2>3. CASE j # i
      BY <1>1, <1>2, <2>3
    <2> QED
      BY <2>2, <2>3
  <1>4. PagePairs = PagePairs' \cup ({i} \X (1 .. n))
    BY <1>3
  <1>5. \A x \in PagePairs' : x[1] # i
    BY <1>2
  <1>6. (/\ IsFiniteSet(LiveSlots) /\ IsFiniteSet(LiveRecords)
         /\ IsFiniteSet(Listed) /\ IsFiniteSet(PagePairs))'
    BY CountedSetsFinite, PTL
  <1>7. IsFiniteSet(PagePairs') /\ n \in Nat
    BY <1>6
  <1> QED
    <2>1. PICK P : P = PagePairs'
      OBVIOUS
    <2>2. PICK Q : Q = PagePairs
      OBVIOUS
    <2>r. PICK R : R = {i} \X (1 .. n) /\ IsFiniteSet(R) /\ Cardinality(R) = n
      <3>1. n \in Nat
        BY ByteFacts
      <3> QED
        BY <3>1, RowCount
    <2>3. IsFiniteSet(P) /\ Q = P \cup R /\ n \in Nat
      BY <1>4, <1>5, <1>7, <2>1, <2>2, <2>r, Zenon
    <2>5. P \cap R = {}
      BY <1>5, <2>1, <2>r
    <2>4. Cardinality(Q) = Cardinality(P) + n
      BY <2>3, <2>5, <2>r, DisjointSum
    <2> QED
      BY <2>1, <2>2, <2>4

-----------------------------------------------------------------------------
(* Slots that come and go.                                                 *)

\* Serving a caller makes one slot live.
LEMMA TakesSlot ==
  ASSUME Structure, NEW t \in Threads, NEW r \in Ranges, NEW c \in Classes, NEW size,
         Takes(t, r, c, size), \A q, d : In(q, d)' <=> In(q, d) \/ (q = r /\ d = c),
         \A l \in Slots(c) : slab[r].used[l] # 0 => Linked(r)
  PROVE  \E k \in Nat : SlotComes(r, k)
  <1>1. /\ size \in Nat /\ size # 0 /\ size <= ClassSizes[c]
        /\ SlabOk(slab[r], c) /\ slab[r].free # << >>
        /\ slab' = [slab EXCEPT ![r] = SlotTaken(slab[r], size)]
    BY DEF Takes
  <1>2. PICK k : k = Head(slab[r].free)
    OBVIOUS
  <1>3. /\ k \in Slots(c) /\ slab[r].used[k] = 0 /\ SlabOk(SlotTaken(slab[r], size), c)
        /\ SlotTaken(slab[r], size).used = [slab[r].used EXCEPT ![k] = size]
    BY <1>1, <1>2, TakenIsOk
  <1>4. slab[r].class = c /\ slab[r].used \in [Slots(c) -> 0 .. ClassSizes[c]]
    BY <1>1, SlabFacts
  <1>5. slab'[r] = SlotTaken(slab[r], size) /\ \A q \in Ranges : q # r => slab'[q] = slab[q]
    BY <1>1 DEF Structure, Types
  <1>6. slab'[r].class = c /\ slab'[r].used = [slab[r].used EXCEPT ![k] = size]
    BY <1>3, <1>5, SlabFacts
  <1>7. \A l \in Slots(c) : slab'[r].used[l] = IF l = k THEN size ELSE slab[r].used[l]
    BY <1>4, <1>6
  <1>8. \A q : q # r => (Linked(q)' <=> Linked(q))
    BY DEF Linked
  <1>9. Linked(r)'
    BY DEF Linked
  <1>10. \A q : Linked(q) => q \in Ranges
    BY LinkedFacts
  <1>11. ~Live(r, k)
    BY <1>3 DEF Live
  <1>12. \A l : Live(r, l)' <=> l \in Slots(c) /\ slab'[r].used[l] # 0
    BY <1>6, <1>9 DEF Live
  <1>13. \A l : Live(r, l) <=> l \in Slots(c) /\ slab[r].used[l] # 0
    BY <1>4 DEF Live
  <1>14. \A l : Live(r, l)' <=> Live(r, l) \/ l = k
    BY <1>1, <1>3, <1>7, <1>12, <1>13
  <1>15. \A q, l : q # r => (Live(q, l)' <=> Live(q, l))
    BY <1>5, <1>8, <1>10 DEF Live
  <1>16. \A q, l : Live(q, l) /\ q # r => SlotPart(q, l)' = SlotPart(q, l)
    BY <1>5, <1>10 DEF Live, SlotPart
  <1>17. \A l : Live(r, l) => SlotPart(r, l)' = SlotPart(r, l)
    <2> SUFFICES ASSUME NEW l, Live(r, l) PROVE SlotPart(r, l)' = SlotPart(r, l)
      OBVIOUS
    <2>1. l # k /\ slab'[r].used[l] = slab[r].used[l] /\ slab'[r].class = slab[r].class
      BY <1>3, <1>4, <1>6, <1>7, <1>13
    <2> QED
      BY <2>1, Zenon DEF SlotPart
  <1>18. SlotComes(r, k)
    BY <1>11, <1>14, <1>15, <1>16, <1>17 DEF SlotComes
  <1>19. k \in Nat
    BY <1>3, OffsetInPage
  <1> QED
    BY <1>18, <1>19

\* A slot goes back to a slab that stays.
LEMMA StaysSlot ==
  ASSUME Structure, NEW t \in Threads, NEW r \in Ranges, NEW k \in Nat, Returns(t, r, k), Stays(t, r, k)
  PROVE  SlotGoes(r, k)
  <1>1. /\ slab'[r].class = slab[r].class /\ Linked(r)'
        /\ \A l \in Slots(slab[r].class) : slab'[r].used[l] = IF l = k THEN 0 ELSE slab[r].used[l]
        /\ \A q \in Ranges : q # r => slab'[q] = slab[q]
    BY StaysStep
  <1>2. Live(r, k) /\ lists' = lists
    BY DEF Returns, Stays
  <1>3. Linked(r) /\ k \in Slots(slab[r].class)
    BY <1>2 DEF Live
  <1>4. \A q : Linked(q)' <=> Linked(q)
    BY <1>2, SameLists
  <1>5. \A q : Linked(q) => q \in Ranges
    BY LinkedFacts
  <1>6. \A l : Live(r, l)' <=> Live(r, l) /\ l # k
    BY <1>1, <1>3 DEF Live
  <1>7. \A q, l : q # r => (Live(q, l)' <=> Live(q, l))
    BY <1>1, <1>4, <1>5 DEF Live
  <1>8. \A q, l : Live(q, l)' /\ q # r => SlotPart(q, l)' = SlotPart(q, l)
    BY <1>1, <1>4, <1>5 DEF Live, SlotPart
  <1>9. \A l : Live(r, l)' => SlotPart(r, l)' = SlotPart(r, l)
    <2> SUFFICES ASSUME NEW l, Live(r, l)' PROVE SlotPart(r, l)' = SlotPart(r, l)
      OBVIOUS
    <2>1. slab'[r].used[l] = slab[r].used[l]
      BY <1>1, <1>6 DEF Live
    <2> QED
      BY <1>1, <2>1, Zenon DEF SlotPart
  <1> QED
    BY <1>2, <1>6, <1>7, <1>8, <1>9 DEF SlotGoes

\* The last slot of a slab goes.
LEMMA RetiresSlot ==
  ASSUME Structure, NEW t \in Threads, NEW r \in Ranges, NEW k \in Nat, Returns(t, r, k), Retires(t, r, k)
  PROVE  SlotGoes(r, k)
  <1>1. /\ \A l : Live(r, l) <=> l = k
        /\ \A q, d : In(q, d)' <=> In(q, d) /\ q # r
        /\ \A q \in Ranges : q # r => slab'[q] = slab[q]
    BY RetiresStep
  <1>2. \A q : Linked(q)' <=> Linked(q) /\ q # r
    BY <1>1 DEF Linked
  <1>3. \A q : Linked(q) => q \in Ranges
    BY LinkedFacts
  <1>4. \A l : ~Live(r, l)'
    BY <1>2 DEF Live
  <1>5. \A q, l : q # r => (Live(q, l)' <=> Live(q, l))
    BY <1>1, <1>2, <1>3 DEF Live
  <1>6. \A q, l : Live(q, l)' => SlotPart(q, l)' = SlotPart(q, l)
    BY <1>1, <1>2, <1>3 DEF Live, SlotPart
  <1> QED
    BY <1>1, <1>4, <1>5, <1>6 DEF SlotGoes

-----------------------------------------------------------------------------
(* The counters after each kind of step.                                   *)

\* What a step does to the live blocks.
Effect ==
  \/ LiveBlocks' = LiveBlocks
  \/ \E b : LiveBlocks' = LiveBlocks \cup {b}
  \/ \E b \in LiveBlocks : LiveBlocks' = LiveBlocks \ {b}

\* Such a step is allowed by the abstract allocator: live blocks are apart after it.
LEMMA EffectOk ==
  ASSUME Structure', Effect
  PROVE  [Promise!Next]_LiveBlocks
  <1>1. \A b, c \in LiveBlocks' : b = c \/ (b # c /\ Promise!Disjoint(b, c))
    BY Primed
  <1>2. ASSUME NEW b, LiveBlocks' = LiveBlocks \cup {b} PROVE [Promise!Next]_LiveBlocks
    <2>1. CASE b \in LiveBlocks
      BY <1>2, <2>1
    <2>2. CASE b \notin LiveBlocks
      <3>1. b \in LiveBlocks' \ LiveBlocks
        BY <1>2, <2>2
      <3>2. \A c \in LiveBlocks : Promise!Disjoint(b, c)
        BY <1>1, <1>2, <2>2
      <3>3. Promise!Alloc
        BY <1>2, <3>1, <3>2 DEF Promise!Alloc
      <3> QED
        BY <3>3 DEF Promise!Next
    <2> QED
      BY <2>1, <2>2
  <1>3. ASSUME NEW b \in LiveBlocks, LiveBlocks' = LiveBlocks \ {b} PROVE [Promise!Next]_LiveBlocks
    <2>1. Promise!Free
      BY <1>3 DEF Promise!Free
    <2> QED
      BY <2>1 DEF Promise!Next
  <1> QED
    BY <1>2, <1>3 DEF Effect

\* What is shown of every step.
Good == Structure' /\ (CountsOk => CountsOk') /\ Effect

\* Steps that change no block.
LEMMA QuietGood ==
  ASSUME Structure, Structure', UNCHANGED <<lists, records, stats>>,
         \A q \in Ranges : Linked(q) => slab'[q] = slab[q]
  PROVE  Good
  BY QuietStep DEF Good, Effect

\* A linked slab serves kmalloc.
LEMMA ServeGood ==
  ASSUME Structure, NEW t \in Threads, NEW r \in Ranges, NEW c \in Classes, NEW size,
         call[t].at = "out", In(r, c), Takes(t, r, c, size), lists' = lists,
         stats' = SmallCounted(stats, 1)
  PROVE  Good
  <1>1. Structure'
    BY AllocServes
  <1>2. Linked(r)
    BY DEF Linked
  <1>3. \A q, d : In(q, d)' <=> In(q, d) \/ (q = r /\ d = c)
    BY SameLists
  <1>4. PICK k \in Nat : SlotComes(r, k)
    BY <1>2, <1>3, TakesSlot
  <1>5. records' = records
    BY DEF Takes
  <1>6. /\ LiveSlots' = LiveSlots \cup {<<r, k>>} /\ <<r, k>> \notin LiveSlots
        /\ LiveBlocks' = LiveBlocks \cup {SlotPart(r, k)'}
    BY <1>1, <1>4, <1>5, SlotAdded
  <1>7. Effect
    BY <1>6 DEF Effect
  <1>8. ASSUME CountsOk PROVE CountsOk'
    <2>1. LiveRecords' = LiveRecords /\ PagePairs' = PagePairs
      BY <1>5, SameRecordParts
    <2>2. Listed' = Listed
      BY ListedSame
    <2>3. Cardinality(LiveSlots') = Cardinality(LiveSlots) + 1
      BY <1>6, CountedSetsFinite, OneMore
    <2>4. PICK w \in Int, x \in Int, y \in Int, z \in Int :
             /\ w = Cardinality(LiveSlots) /\ x = Cardinality(LiveRecords)
             /\ y = Cardinality(Listed) /\ z = Cardinality(PagePairs)
      BY CountsIs
    <2>5. Balance(stats, w, x, y, z)
      BY <1>8, <2>4, CountsIs, Zenon
    <2>6. Balance(stats', w + 1, x, y, z)
      BY <2>5, BalanceSlot
    <2>7. Balance(stats', Cardinality(LiveSlots'), Cardinality(LiveRecords'),
                  Cardinality(Listed'), Cardinality(PagePairs'))
      BY <2>1, <2>2, <2>3, <2>4, <2>6, Zenon
    <2> QED
      BY <1>1, <2>7, CountsPrimed, Zenon
  <1> QED
    BY <1>1, <1>7, <1>8 DEF Good

\* A new slab serves kmalloc.
LEMMA LinkGood ==
  ASSUME Structure, NEW t \in Threads, NEW r \in Ranges, NEW c \in Classes, NEW size,
         call[t].at = "link", Held(r, t), slab[r] = PreparedSlab(c), Takes(t, r, c, size),
         lists' = [lists EXCEPT ![c] = <<r>> \o @],
         stats' = SmallCounted([stats EXCEPT !.backing = @ + PageBytes], 1)
  PROVE  Good
  <1>1. Structure' /\ \A q, d : In(q, d)' <=> In(q, d) \/ (q = r /\ d = c)
    BY LinkServes
  <1>2. \A l \in Slots(c) : slab[r].used[l] = 0
    BY PreparedIsOk
  <1>3. ~Linked(r)
    BY HeldFacts
  <1>4. PICK k \in Nat : SlotComes(r, k)
    BY <1>1, <1>2, TakesSlot
  <1>5. records' = records
    BY DEF Takes
  <1>6. /\ LiveSlots' = LiveSlots \cup {<<r, k>>} /\ <<r, k>> \notin LiveSlots
        /\ LiveBlocks' = LiveBlocks \cup {SlotPart(r, k)'}
    BY <1>1, <1>4, <1>5, SlotAdded
  <1>7. Effect
    BY <1>6 DEF Effect
  <1>8. Listed' = Listed \cup {r} /\ r \notin Listed
    <2>1. \A q : Linked(q)' <=> Linked(q) \/ q = r
      BY <1>1 DEF Linked
    <2>2. \A q : q \in Listed' <=> Linked(q)'
      BY <1>1, Primed, Zenon
    <2>3. \A q : q \in Listed <=> Linked(q)
      BY ListedIs
    <2> QED
      BY <1>3, <2>1, <2>2, <2>3
  <1>9. ASSUME CountsOk PROVE CountsOk'
    <2>1. LiveRecords' = LiveRecords /\ PagePairs' = PagePairs
      BY <1>5, SameRecordParts
    <2>2. Cardinality(Listed') = Cardinality(Listed) + 1
      BY <1>8, CountedSetsFinite, OneMore
    <2>3. Cardinality(LiveSlots') = Cardinality(LiveSlots) + 1
      BY <1>6, CountedSetsFinite, OneMore
    <2>4. PICK w \in Int, x \in Int, y \in Int, z \in Int :
             /\ w = Cardinality(LiveSlots) /\ x = Cardinality(LiveRecords)
             /\ y = Cardinality(Listed) /\ z = Cardinality(PagePairs)
      BY CountsIs
    <2>5. Balance(stats, w, x, y, z)
      BY <1>9, <2>4, CountsIs, Zenon
    <2>m. PICK m \in Int : m = PageBytes
      BY ByteFacts
    <2>6. PICK u : u = stats
      OBVIOUS
    <2>7. PICK s : s = [u EXCEPT !.backing = @ + m]
      OBVIOUS
    <2>8. Balance(u, w, x, y, z)
      BY <2>5, <2>6, Zenon
    <2>9. Balance(s, w, x, y + 1, z)
      BY <2>7, <2>8, <2>m, SlabMore, Zenon
    <2>10. y + 1 \in Int /\ 1 \in Int
      OBVIOUS
    <2>11. Balance(SmallCounted(s, 1), w + 1, x, y + 1, z)
      BY <2>9, <2>10, BalanceSlot, Zenon
    <2>12. stats' = SmallCounted(s, 1)
      BY <2>6, <2>7, <2>m, Zenon
    <2>13. Balance(stats', Cardinality(LiveSlots'), Cardinality(LiveRecords'),
                   Cardinality(Listed'), Cardinality(PagePairs'))
      BY <2>1, <2>2, <2>3, <2>4, <2>11, <2>12, Zenon
    <2> QED
      BY <1>1, <2>13, CountsPrimed, Zenon
  <1> QED
    BY <1>1, <1>7, <1>9 DEF Good

\* A large block is recorded.
LEMMA RecordsGood ==
  ASSUME Structure, NEW t \in Threads, NEW r \in Ranges, NEW i \in 1 .. LargeRecords, Records(t, r, i)
  PROVE  Good
  <1>1. /\ Structure' /\ records'[i] # NoRecord /\ records'[i].pages = pages[r]
        /\ \A j \in 1 .. LargeRecords : j # i => records'[j] = records[j]
    BY RecordsStep
  <1>2. /\ records[i] = NoRecord /\ UNCHANGED <<pages, slab, lists>>
        /\ stats' = [LargeCounted(stats, 1) EXCEPT !.backing = @ + pages[r] * PageBytes]
    BY DEF Records
  <1>3. SameSlots
    BY <1>2, SameSlotsOf
  <1>4. /\ LiveRecords' = LiveRecords \cup {i} /\ i \notin LiveRecords
        /\ LiveBlocks' = LiveBlocks \cup {RecordPart(i)'}
        /\ \A j \in LiveRecords : records'[j] = records[j]
    BY <1>1, <1>2, <1>3, RecordAdded
  <1>5. Effect
    BY <1>4 DEF Effect
  <1>6. ASSUME CountsOk PROVE CountsOk'
    <2>1. LiveSlots' = LiveSlots /\ Listed' = Listed
      BY <1>1, <1>2, <1>3, SlotsSame, ListedSame
    <2>2. PICK n \in 0 .. WordValues : n = pages[r]
      BY DEF Structure, Types
    <2>3. Cardinality(PagePairs') = Cardinality(PagePairs) + n
      BY <1>1, <1>4, <2>2, PagesAdded
    <2>4. Cardinality(LiveRecords') = Cardinality(LiveRecords) + 1
      BY <1>4, CountedSetsFinite, OneMore
    <2>5. PICK w \in Int, x \in Int, y \in Int, z \in Int :
             /\ w = Cardinality(LiveSlots) /\ x = Cardinality(LiveRecords)
             /\ y = Cardinality(Listed) /\ z = Cardinality(PagePairs)
      BY CountsIs
    <2>6. Balance(stats, w, x, y, z)
      BY <1>6, <2>5, CountsIs, Zenon
    <2>7. PICK s : s = LargeCounted(stats, 1)
      OBVIOUS
    <2>8. Balance(s, w, x + 1, y, z)
      BY <2>6, <2>7, BalanceRecord
    <2>9. x + 1 \in Int /\ n \in Int
      BY ByteFacts
    <2>m. PICK m \in Int : m = n * PageBytes
      BY ByteFacts
    <2>10. stats' = [s EXCEPT !.backing = @ + m]
      BY <1>2, <2>2, <2>7, <2>m, Zenon
    <2>b. PICK u : u = stats'
      OBVIOUS
    <2>11. Balance(u, w, x + 1, y, z + n)
      BY <2>8, <2>9, <2>10, <2>b, <2>m, PagesMore, Zenon
    <2>12. Balance(stats', Cardinality(LiveSlots'), Cardinality(LiveRecords'),
                   Cardinality(Listed'), Cardinality(PagePairs'))
      BY <2>1, <2>3, <2>4, <2>5, <2>b, <2>11, Zenon
    <2> QED
      BY <1>1, <2>12, CountsPrimed, Zenon
  <1> QED
    BY <1>1, <1>5, <1>6 DEF Good

\* A large block is freed.
LEMMA GivesRecordGood ==
  ASSUME Structure, NEW t \in Threads, NEW r \in Ranges, NEW i \in 1 .. LargeRecords, GivesRecord(t, r, i)
  PROVE  Good
  <1>1. /\ Structure' /\ records'[i] = NoRecord
        /\ \A j \in 1 .. LargeRecords : j # i => records'[j] = records[j]
    BY GivesRecordStep
  <1>2. /\ Recorded(r, i) /\ UNCHANGED <<pages, slab, lists>>
        /\ stats' = [LargeCounted(stats, -1) EXCEPT !.backing = @ - records[i].pages * PageBytes]
    BY DEF GivesRecord
  <1>3. SameSlots
    BY <1>2, SameSlotsOf
  <1>4. records[i] # NoRecord
    BY <1>2 DEF Recorded
  <1>5. /\ LiveRecords' = LiveRecords \ {i} /\ i \in LiveRecords
        /\ LiveBlocks' = LiveBlocks \ {RecordPart(i)} /\ RecordPart(i) \in LiveBlocks
        /\ \A j \in LiveRecords' : records'[j] = records[j]
    BY <1>1, <1>3, <1>4, RecordRemoved
  <1>6. Effect
    BY <1>5 DEF Effect
  <1>7. ASSUME CountsOk PROVE CountsOk'
    <2>1. LiveSlots' = LiveSlots /\ Listed' = Listed
      BY <1>1, <1>2, <1>3, SlotsSame, ListedSame
    <2>2. PICK n \in 0 .. WordValues : n = records[i].pages
      <3>1. records[i].pages = pages[r]
        BY <1>2, RecordedFacts
      <3> QED
        BY <3>1 DEF Structure, Types
    <2>3. LiveRecords = LiveRecords' \cup {i} /\ i \notin LiveRecords'
      BY <1>5
    <2>4. Cardinality(PagePairs) = Cardinality(PagePairs') + n
      BY <1>1, <1>5, <2>2, <2>3, PagesRemoved
    <2>5. Cardinality(LiveRecords') = Cardinality(LiveRecords) - 1
      BY <1>5, CountedSetsFinite, OneLess
    <2>6. PICK w \in Int, x \in Int, y \in Int, z \in Int :
             /\ w = Cardinality(LiveSlots) /\ x = Cardinality(LiveRecords)
             /\ y = Cardinality(Listed) /\ z = Cardinality(PagePairs)
      BY CountsIs
    <2>7. Balance(stats, w, x, y, z)
      BY <1>7, <2>6, CountsIs, Zenon
    <2>8. PICK s : s = LargeCounted(stats, -1)
      OBVIOUS
    <2>9. Balance(s, w, x + -1, y, z)
      BY <2>7, <2>8, BalanceRecord
    <2>10. Cardinality(PagePairs') \in Nat
      <3>1. (/\ Cardinality(LiveSlots) \in Nat /\ Cardinality(LiveRecords) \in Nat
             /\ Cardinality(Listed) \in Nat /\ Cardinality(PagePairs) \in Nat
             /\ CountsOk <=> Balance(stats, Cardinality(LiveSlots), Cardinality(LiveRecords),
                                     Cardinality(Listed), Cardinality(PagePairs)))'
        BY <1>1, CountsIs, PTL
      <3> QED
        BY <3>1
    <2>11. PICK v \in Int : v = Cardinality(PagePairs')
      BY <2>10
    <2>12. v = z - n /\ x + -1 \in Int /\ n \in Int
      BY <2>4, <2>6, <2>11, ByteFacts
    <2>m. PICK m \in Int : m = n * PageBytes
      BY ByteFacts
    <2>13. stats' = [s EXCEPT !.backing = @ - m]
      BY <1>2, <2>2, <2>8, <2>m, Zenon
    <2>b. PICK u : u = stats'
      OBVIOUS
    <2>14. Balance(u, w, x + -1, y, z - n)
      BY <2>9, <2>12, <2>13, <2>b, <2>m, PagesLess, Zenon
    <2>15. x + -1 = Cardinality(LiveRecords')
      BY <2>5, <2>6
    <2>16. Balance(stats', Cardinality(LiveSlots'), Cardinality(LiveRecords'),
                   Cardinality(Listed'), Cardinality(PagePairs'))
      BY <2>1, <2>6, <2>11, <2>12, <2>14, <2>15, <2>b, Zenon
    <2> QED
      BY <1>1, <2>16, CountsPrimed, Zenon
  <1> QED
    BY <1>1, <1>6, <1>7 DEF Good

\* A slot is freed and its slab stays.
LEMMA StaysGood ==
  ASSUME Structure, NEW t \in Threads, NEW r \in Ranges, NEW k \in Nat, Returns(t, r, k), Stays(t, r, k)
  PROVE  Good
  <1>1. Structure'
    BY StaysStep
  <1>2. SlotGoes(r, k)
    BY StaysSlot
  <1>3. lists' = lists /\ records' = records /\ stats' = SmallCounted(stats, -1)
    BY DEF Stays, Returns
  <1>4. /\ LiveSlots' = LiveSlots \ {<<r, k>>} /\ <<r, k>> \in LiveSlots
        /\ LiveBlocks' = LiveBlocks \ {SlotPart(r, k)} /\ SlotPart(r, k) \in LiveBlocks
    BY <1>1, <1>2, <1>3, SlotRemoved
  <1>5. Effect
    BY <1>4 DEF Effect
  <1>6. ASSUME CountsOk PROVE CountsOk'
    <2>1. LiveRecords' = LiveRecords /\ PagePairs' = PagePairs
      BY <1>3, SameRecordParts
    <2>2. Listed' = Listed
      BY <1>3, ListedSame
    <2>3. Cardinality(LiveSlots') = Cardinality(LiveSlots) - 1
      BY <1>4, CountedSetsFinite, OneLess
    <2>4. PICK w \in Int, x \in Int, y \in Int, z \in Int :
             /\ w = Cardinality(LiveSlots) /\ x = Cardinality(LiveRecords)
             /\ y = Cardinality(Listed) /\ z = Cardinality(PagePairs)
      BY CountsIs
    <2>5. Balance(stats, w, x, y, z)
      BY <1>6, <2>4, CountsIs, Zenon
    <2>6. Balance(stats', w + -1, x, y, z)
      BY <1>3, <2>5, BalanceSlot
    <2>7. w + -1 = Cardinality(LiveSlots')
      BY <2>3, <2>4
    <2>8. Balance(stats', Cardinality(LiveSlots'), Cardinality(LiveRecords'),
                  Cardinality(Listed'), Cardinality(PagePairs'))
      BY <2>1, <2>2, <2>4, <2>6, <2>7, Zenon
    <2> QED
      BY <1>1, <2>8, CountsPrimed, Zenon
  <1> QED
    BY <1>1, <1>5, <1>6 DEF Good

\* A slot is freed and its slab retires.
LEMMA RetiresGood ==
  ASSUME Structure, NEW t \in Threads, NEW r \in Ranges, NEW k \in Nat, Returns(t, r, k), Retires(t, r, k)
  PROVE  Good
  <1>1. Structure' /\ \A q, d : In(q, d)' <=> In(q, d) /\ q # r
    BY RetiresStep
  <1>2. SlotGoes(r, k)
    BY RetiresSlot
  <1>3. records' = records /\ stats' = [SmallCounted(stats, -1) EXCEPT !.backing = @ - PageBytes]
    BY DEF Retires, Returns
  <1>4. /\ LiveSlots' = LiveSlots \ {<<r, k>>} /\ <<r, k>> \in LiveSlots
        /\ LiveBlocks' = LiveBlocks \ {SlotPart(r, k)} /\ SlotPart(r, k) \in LiveBlocks
    BY <1>1, <1>2, <1>3, SlotRemoved
  <1>5. Effect
    BY <1>4 DEF Effect
  <1>6. Listed' = Listed \ {r} /\ r \in Listed
    <2>1. \A q : Linked(q)' <=> Linked(q) /\ q # r
      BY <1>1 DEF Linked
    <2>2. \A q : q \in Listed' <=> Linked(q)'
      BY <1>1, Primed, Zenon
    <2>3. \A q : q \in Listed <=> Linked(q)
      BY ListedIs
    <2>4. Linked(r)
      BY <1>2 DEF SlotGoes, Live
    <2> QED
      BY <2>1, <2>2, <2>3, <2>4
  <1>7. ASSUME CountsOk PROVE CountsOk'
    <2>1. LiveRecords' = LiveRecords /\ PagePairs' = PagePairs
      BY <1>3, SameRecordParts
    <2>2. Cardinality(Listed') = Cardinality(Listed) - 1
      BY <1>6, CountedSetsFinite, OneLess
    <2>3. Cardinality(LiveSlots') = Cardinality(LiveSlots) - 1
      BY <1>4, CountedSetsFinite, OneLess
    <2>4. PICK w \in Int, x \in Int, y \in Int, z \in Int :
             /\ w = Cardinality(LiveSlots) /\ x = Cardinality(LiveRecords)
             /\ y = Cardinality(Listed) /\ z = Cardinality(PagePairs)
      BY CountsIs
    <2>5. Balance(stats, w, x, y, z)
      BY <1>7, <2>4, CountsIs, Zenon
    <2>6. PICK s : s = SmallCounted(stats, -1)
      OBVIOUS
    <2>7. Balance(s, w + -1, x, y, z)
      BY <2>5, <2>6, BalanceSlot
    <2>8. PICK u \in Int : u = w + -1
      OBVIOUS
    <2>9. PICK m \in Int : m = PageBytes
      BY ByteFacts
    <2>10. PICK v : v = stats'
      OBVIOUS
    <2>11. v = [s EXCEPT !.backing = @ - m]
      BY <1>3, <2>6, <2>9, <2>10, Zenon
    <2>12. Balance(s, u, x, y, z)
      BY <2>7, <2>8, Zenon
    <2>13. Balance(v, u, x, y - 1, z)
      BY <2>9, <2>11, <2>12, SlabLess, Zenon
    <2>14. u = Cardinality(LiveSlots') /\ y - 1 = Cardinality(Listed')
      BY <2>2, <2>3, <2>4, <2>8
    <2>15. Balance(stats', Cardinality(LiveSlots'), Cardinality(LiveRecords'),
                   Cardinality(Listed'), Cardinality(PagePairs'))
      BY <2>1, <2>4, <2>10, <2>13, <2>14, Zenon
    <2> QED
      BY <1>1, <2>15, CountsPrimed, Zenon
  <1> QED
    BY <1>1, <1>5, <1>7 DEF Good

-----------------------------------------------------------------------------
(* Every step.                                                             *)

\* KeHeapAllocPages gives a range or fails.
LEMMA GetRangeGood ==
  ASSUME Structure, NEW t \in Threads, NEW n \in 0 .. WordValues, n # 0, NEW next,
         \/ call[t].at = "prepare" /\ next = "fill" /\ n = 1
         \/ call[t].at = "reserve" /\ next = "record" /\ n = PageCount(call[t].size),
         GetRange(t, n, next)
  PROVE  Good
  <1>1. UNCHANGED <<slab, lists, records, stats, owned>>
    BY DEF GetRange
  <1>2. CASE \E r \in Ranges : pages[r] = 0 /\ pages' = [pages EXCEPT ![r] = n] /\ Do(t, next, r)
    <2>1. PICK r \in Ranges : pages[r] = 0 /\ pages' = [pages EXCEPT ![r] = n] /\ Do(t, next, r)
      BY <1>2
    <2>2. Structure'
      BY <1>1, <2>1, GetRangeStep
    <2> QED
      BY <1>1, <2>2, QuietGood
  <1>3. CASE Finish(t) /\ UNCHANGED pages
    <2>1. Structure'
      BY <1>1, <1>3, GetFails
    <2> QED
      BY <1>1, <2>1, QuietGood
  <1> QED
    BY <1>2, <1>3 DEF GetRange

\* Every step, action by action.
LEMMA StepGood ==
  ASSUME Structure, [Next]_vars
  PROVE  Good
  <1>1. ASSUME UNCHANGED vars PROVE Good
    <2>a. /\ pages' = pages /\ slab' = slab /\ lists' = lists /\ records' = records
          /\ call' = call /\ owned' = owned
      BY <1>1 DEF vars
    <2>b. Types' /\ ListsOk' /\ RecordsOk' /\ CallsOk'
      BY <2>a, Zenon DEF Structure, Types, ListsOk, RecordsOk, CallsOk, CallOk, Recorded
    <2>c. ASSUME NEW r \in Ranges PROVE RangeOk(r)'
      <3>1. LinkedOk(r) /\ RecordedOk(r) /\ HeldOk(r) /\ UsedOk(r) /\ OwnedOk(r)
        BY DEF Structure, RangesOk, RangeOk
      <3>a. LinkedOk(r)'
        BY <2>a, <3>1 DEF LinkedOk, In
      <3>b. RecordedOk(r)'
        BY <2>a, <3>1 DEF RecordedOk, Recorded
      <3>c. HeldOk(r)'
        BY <2>a, <3>1 DEF HeldOk, In, Linked, Recorded, Held
      <3>d. UsedOk(r)'
        BY <2>a, <3>1 DEF UsedOk, In, Linked, Recorded, Held
      <3>2. LinkedOk(r)' /\ RecordedOk(r)' /\ HeldOk(r)' /\ UsedOk(r)'
        BY <3>a, <3>b, <3>c, <3>d
      <3>e. \A k : Live(r, k)' <=> Live(r, k)
        BY <2>a DEF In, Linked, Live
      <3>f. \A k : SlotPointer(r, k)' = SlotPointer(r, k) /\ SlotBlock(r, k)' = SlotBlock(r, k)
        BY <2>a, Zenon DEF SlotPointer, SlotBlock
      <3>g. \A i : (Recorded(r, i)' <=> Recorded(r, i)) /\ RecordBlock(i)' = RecordBlock(i)
        BY <2>a, Zenon DEF Recorded, RecordBlock
      <3>h. \A t, p : Freeing(t, p)' <=> Freeing(t, p)
        BY <2>a DEF Freeing
      <3>3. OwnedOk(r)'
        BY <2>a, <3>1, <3>e, <3>f, <3>g, <3>h, SMTT(60) DEF OwnedOk
      <3> QED
        BY <3>2, <3>3 DEF RangeOk
    <2>1. Structure'
      BY <2>b, <2>c DEF Structure, RangesOk
    <2> QED
      BY <1>1, <2>1, QuietGood DEF vars
  <1>2. ASSUME NEW t \in Threads, NEW size \in Sizes, AllocSmall(t, size) PROVE Good
    <2>1. /\ call[t].at = "out" /\ size # 0 /\ SmallClass(size) \in Classes
          /\ \/ \E r \in Ranges : /\ In(r, SmallClass(size)) /\ Takes(t, r, SmallClass(size), size)
                                  /\ lists' = lists /\ stats' = SmallCounted(stats, 1)
             \/ Waits(t, "prepare", size)
      BY <1>2, AllocSmallCases
    <2>2. CASE Waits(t, "prepare", size)
      <3>1. /\ call' = [call EXCEPT ![t] = [Resting EXCEPT !.at = "prepare", !.size = size]]
            /\ UNCHANGED <<pages, slab, lists, records, stats, owned>>
        BY <2>2 DEF Waits
      <3>2. SmallClass(size) # 0
        BY <2>1 DEF Classes
      <3>3. Structure'
        BY <2>1, <3>1, <3>2, AllocWait
      <3> QED
        BY <3>1, <3>3, QuietGood
    <2>3. CASE ~Waits(t, "prepare", size)
      <3>1. PICK r \in Ranges : /\ In(r, SmallClass(size)) /\ Takes(t, r, SmallClass(size), size)
                                /\ lists' = lists /\ stats' = SmallCounted(stats, 1)
        BY <2>1, <2>3
      <3> QED
        BY <2>1, <3>1, ServeGood
    <2> QED
      BY <2>2, <2>3
  <1>3. ASSUME NEW t \in Threads, NEW size \in Sizes, AllocLarge(t, size) PROVE Good
    <2>1. /\ call[t].at = "out" /\ PageCount(size) # 0
          /\ call' = [call EXCEPT ![t] = [Resting EXCEPT !.at = "reserve", !.size = size]]
          /\ UNCHANGED <<pages, slab, lists, records, stats, owned>>
      BY <1>3 DEF AllocLarge
    <2>2. Structure'
      BY <2>1, AllocWait
    <2> QED
      BY <2>1, <2>2, QuietGood
  <1>4. ASSUME NEW t \in Threads, GetSlab(t) PROVE Good
    <2>1. call[t].at = "prepare" /\ GetRange(t, 1, "fill")
      BY <1>4 DEF GetSlab
    <2>2. 1 \in 0 .. WordValues
      BY ByteFacts
    <2> QED
      BY <2>1, <2>2, GetRangeGood
  <1>5. ASSUME NEW t \in Threads, GetLarge(t) PROVE Good
    <2>1. call[t].at = "reserve" /\ GetRange(t, PageCount(call[t].size), "record")
      BY <1>5 DEF GetLarge
    <2>2. call[t].size \in Sizes /\ PageCount(call[t].size) # 0
      BY <2>1 DEF Structure, CallsOk, CallOk
    <2>3. PageCount(call[t].size) \in 0 .. WordValues
      BY <2>2, PageCountFacts
    <2> QED
      BY <2>1, <2>2, <2>3, GetRangeGood
  <1>6. ASSUME NEW t \in Threads, FillSlab(t) PROVE Good
    <2>1. Structure'
      BY <1>6, FillSlabStep
    <2>2. /\ call[t].at = "fill" /\ UNCHANGED <<lists, records, stats>>
          /\ slab' = [slab EXCEPT ![call[t].range] = PreparedSlab(SmallClass(call[t].size))]
      BY <1>6 DEF FillSlab
    <2>3. PICK r : r = call[t].range
      OBVIOUS
    <2>4. r \in Ranges /\ Held(r, t)
      BY <2>2, <2>3, HoldingFacts DEF Holding
    <2>5. ~Linked(r)
      BY <2>4, HeldFacts
    <2>6. \A q \in Ranges : q # r => slab'[q] = slab[q]
      BY <2>2, <2>3, <2>4 DEF Structure, Types
    <2>7. \A q \in Ranges : Linked(q) => slab'[q] = slab[q]
      BY <2>5, <2>6
    <2> QED
      BY <2>1, <2>2, <2>7, QuietGood
  <1>7. ASSUME NEW t \in Threads, LinkSlab(t) PROVE Good
    <2>1. PICK r \in Ranges, c \in Classes :
            /\ call[t].at = "link" /\ Held(r, t) /\ slab[r] = PreparedSlab(c)
            /\ Takes(t, r, c, call[t].size)
            /\ lists' = [lists EXCEPT ![c] = <<r>> \o @]
            /\ stats' = SmallCounted([stats EXCEPT !.backing = @ + PageBytes], 1)
      BY <1>7, LinkSlabCases, Zenon
    <2> QED
      BY <2>1, LinkGood, Zenon
  <1>8. ASSUME NEW t \in Threads, RecordLarge(t) PROVE Good
    <2>1. \/ /\ call[t].at = "record" /\ Do(t, "release", call[t].range)
             /\ UNCHANGED <<pages, slab, lists, records, stats, owned>>
          \/ \E r \in Ranges, i \in 1 .. LargeRecords : Records(t, r, i)
      BY <1>8, RecordLargeCases
    <2>2. CASE /\ call[t].at = "record" /\ Do(t, "release", call[t].range)
               /\ UNCHANGED <<pages, slab, lists, records, stats, owned>>
      <3>1. Structure'
        BY <2>2, RecordFullStep
      <3> QED
        BY <2>2, <3>1, QuietGood
    <2>3. CASE \E r \in Ranges, i \in 1 .. LargeRecords : Records(t, r, i)
      BY <2>3, RecordsGood
    <2> QED
      BY <2>1, <2>2, <2>3
  <1>9. ASSUME NEW t \in Threads, NEW b \in owned, FreeLarge(t, b) PROVE Good
    <2>1. \/ \E r \in Ranges, k \in Nat : GivesSlot(t, r, k)
          \/ \E r \in Ranges, i \in 1 .. LargeRecords : GivesRecord(t, r, i)
      BY <1>9, FreeLargeCases
    <2>2. CASE \E r \in Ranges, k \in Nat : GivesSlot(t, r, k)
      <3>1. PICK r \in Ranges, k \in Nat : GivesSlot(t, r, k)
        BY <2>2
      <3>2. Structure'
        BY <3>1, GivesSlotStep
      <3>3. UNCHANGED <<slab, lists, records, stats>>
        BY <3>1 DEF GivesSlot
      <3> QED
        BY <3>2, <3>3, QuietGood
    <2>3. CASE \E r \in Ranges, i \in 1 .. LargeRecords : GivesRecord(t, r, i)
      BY <2>3, GivesRecordGood
    <2> QED
      BY <2>1, <2>2, <2>3
  <1>10. ASSUME NEW t \in Threads, FreeSmall(t) PROVE Good
    <2>1. PICK r \in Ranges, k \in Nat : Returns(t, r, k) /\ (Stays(t, r, k) \/ Retires(t, r, k))
      BY <1>10, FreeSmallCases
    <2> QED
      BY <2>1, StaysGood, RetiresGood
  <1>11. ASSUME NEW t \in Threads, ReleaseRange(t) PROVE Good
    <2>1. Structure'
      BY <1>11, ReleaseRangeStep
    <2>2. UNCHANGED <<slab, lists, records, stats>>
      BY <1>11 DEF ReleaseRange
    <2> QED
      BY <2>1, <2>2, QuietGood
  <1>12. CASE Next
    BY <1>2, <1>3, <1>4, <1>5, <1>6, <1>7, <1>8, <1>9, <1>10, <1>11, <1>12 DEF Next
  <1> QED
    BY <1>1, <1>12

-----------------------------------------------------------------------------
(* What the diagnosis finds.                                               *)

\* A block is not the answer for none.
LEMMA NoBlockFacts ==
  ASSUME NEW b \in Block
  PROVE  b # NoBlock
  BY NullFacts DEF Block, NoBlock

\* What a caller owns is a live slot or a recorded block.
LEMMA OwnedAt ==
  ASSUME Structure, NEW b \in owned
  PROVE  /\ b \in Block /\ b.pointer[1] \in Ranges
         /\ \/ \E k \in Nat : Live(b.pointer[1], k) /\ b = SlotBlock(b.pointer[1], k)
            \/ \E i \in 1 .. LargeRecords : Recorded(b.pointer[1], i) /\ b = RecordBlock(i)
  <1>1. b \in Block
    BY DEF Structure, Types
  <1>2. PICK r : r = b.pointer[1]
    OBVIOUS
  <1>3. r \in Ranges
    BY <1>1, <1>2 DEF Block, Pointers
  <1>4. OwnedOk(r)
    BY <1>3 DEF Structure, RangesOk, RangeOk
  <1>5. \/ \E k \in Nat : Live(r, k) /\ b = SlotBlock(r, k)
        \/ \E i \in 1 .. LargeRecords : Recorded(r, i) /\ b = RecordBlock(i)
    BY <1>2, <1>4, Zenon DEF OwnedOk
  <1> QED
    BY <1>1, <1>2, <1>3, <1>5

\* A byte of a recorded range.
LEMMA DiagnoseRecorded ==
  ASSUME Structure, NEW r \in Ranges, NEW i, Recorded(r, i), NEW o \in Nat
  PROVE  Diagnose(r, o) = IF o < records[i].size THEN RecordBlock(i) ELSE NoBlock
  <1> DEFINE hit == {j \in DOMAIN records : records[j].pointer = <<r, 0>> /\ o < records[j].size}
  <1>1. i \in 1 .. LargeRecords /\ slab[r].magic # "SLAB" /\ \A j : Recorded(r, j) => j = i
    BY RecordedFacts
  <1>2. DOMAIN records = 1 .. LargeRecords
    BY DEF Structure, Types
  <1>3. \A j \in 1 .. LargeRecords : records[j].pointer = <<r, 0>> <=> j = i
    <2>1. <<r, 0>> # NoRecord.pointer
      BY NullFacts DEF NoRecord, Pointers
    <2>2. \A j \in 1 .. LargeRecords : records[j].pointer = <<r, 0>> => Recorded(r, j)
      BY <2>1 DEF Recorded
    <2>3. records[i].pointer = <<r, 0>>
      BY DEF Recorded
    <2> QED
      BY <2>2, <2>3, <1>1
  <1>4. hit = IF o < records[i].size THEN {i} ELSE {}
    BY <1>1, <1>2, <1>3
  <1>5. DiagnoseSmall(r, o) = NoBlock
    BY <1>1 DEF DiagnoseSmall
  <1>6. RecordBlock(i) # NoBlock
    BY RecordBlockFacts, NoBlockFacts
  <1>7. CASE o < records[i].size
    <2>1. hit = {i}
      BY <1>4, <1>7
    <2>2. DiagnoseLarge(r, o) = LET j == CHOOSE x \in hit : TRUE
                                IN  [pointer |-> records[j].pointer, size |-> records[j].size]
      BY <2>1 DEF DiagnoseLarge
    <2>3. (CHOOSE x \in hit : TRUE) = i
      BY <2>1
    <2> HIDE DEF hit
    <2>4. DiagnoseLarge(r, o) = RecordBlock(i)
      BY <2>2, <2>3, Zenon DEF RecordBlock
    <2> QED
      BY <1>6, <1>7, <2>4 DEF Diagnose
  <1>8. CASE ~(o < records[i].size)
    <2>1. hit = {}
      BY <1>4, <1>8
    <2>2. DiagnoseLarge(r, o) = NoBlock
      BY <2>1 DEF DiagnoseLarge
    <2> QED
      BY <1>5, <1>8, <2>2 DEF Diagnose
  <1> QED
    BY <1>7, <1>8

\* A byte of a range no record names.
LEMMA DiagnoseOther ==
  ASSUME Structure, NEW r \in Ranges, \A i : ~Recorded(r, i), NEW o
  PROVE  Diagnose(r, o) = DiagnoseSmall(r, o)
  <1>1. <<r, 0>> # NoRecord.pointer
    BY NullFacts DEF NoRecord, Pointers
  <1>2. \A j \in 1 .. LargeRecords : records[j].pointer # <<r, 0>>
    BY <1>1 DEF Recorded
  <1>3. DOMAIN records = 1 .. LargeRecords
    BY DEF Structure, Types
  <1>4. DiagnoseLarge(r, o) = NoBlock
    BY <1>2, <1>3 DEF DiagnoseLarge
  <1> QED
    BY <1>4 DEF Diagnose

\* A byte of a slab: what is found is a live slot, and the bytes of a live
\* slot find it.
LEMMA DiagnoseLinked ==
  ASSUME Structure, NEW r, Linked(r), NEW o \in Nat
  PROVE  /\ Diagnose(r, o) # NoBlock => \E k \in Nat : Live(r, k) /\ Diagnose(r, o) = SlotBlock(r, k)
         /\ \A k : Live(r, k) /\ o \in UserOffset(slab[r].class, k)
                                        .. UserOffset(slab[r].class, k) + slab[r].used[k] - 1
               => Diagnose(r, o) = SlotBlock(r, k)
  <1>1. PICK c : c = slab[r].class
    OBVIOUS
  <1>2. PICK s : s = slab[r]
    OBVIOUS
  <1>3. /\ r \in Ranges /\ pages[r] = 1 /\ c \in Classes /\ SlabOk(s, c) /\ s.magic = "SLAB"
        /\ s.class = c /\ \A i : ~Recorded(r, i)
    BY <1>1, <1>2, LinkedFacts
  <1>4. s.used \in [Slots(c) -> 0 .. ClassSizes[c]]
    BY <1>3, SlabFacts
  <1>5. Diagnose(r, o) = DiagnoseSmall(r, o)
    BY <1>3, DiagnoseOther
  <1>6. PICK slot : slot = (o - HeaderBytes - SlotBytes) \div SlotStride(c)
    OBVIOUS
  <1>7. PICK base : base = UserOffset(c, slot)
    OBVIOUS
  <1>8. Diagnose(r, o) =
          IF o < HeaderBytes + SlotBytes THEN NoBlock
          ELSE IF slot \notin DOMAIN s.used THEN NoBlock
          ELSE IF s.used[slot] = 0 \/ o >= base + s.used[slot] THEN NoBlock
          ELSE [pointer |-> <<r, base>>, size |-> s.used[slot]]
    BY <1>2, <1>3, <1>5, <1>6, <1>7, Zenon DEF DiagnoseSmall
  <1>9. DOMAIN s.used = Slots(c)
    BY <1>4
  <1>10. \A k : Live(r, k) <=> k \in Slots(c) /\ s.used[k] # 0
    BY <1>1, <1>2 DEF Live
  <1>11. [pointer |-> <<r, base>>, size |-> s.used[slot]] = SlotBlock(r, slot)
    BY <1>1, <1>2, <1>7, Zenon DEF SlotBlock, SlotPointer
  <1>12. ASSUME Diagnose(r, o) # NoBlock
         PROVE  \E k \in Nat : Live(r, k) /\ Diagnose(r, o) = SlotBlock(r, k)
    <2>1. slot \in Slots(c) /\ s.used[slot] # 0 /\ Diagnose(r, o) = SlotBlock(r, slot)
      BY <1>8, <1>9, <1>11, <1>12
    <2>2. Live(r, slot)
      BY <2>1, <1>10
    <2>3. slot \in Nat
      BY <2>2, LiveFacts
    <2> QED
      BY <2>1, <2>2, <2>3
  <1>13. ASSUME NEW k, Live(r, k), o \in UserOffset(slab[r].class, k)
                                        .. UserOffset(slab[r].class, k) + slab[r].used[k] - 1
         PROVE  Diagnose(r, o) = SlotBlock(r, k)
    <2>1. /\ k \in Nat /\ k \in Slots(c) /\ s.used[k] \in Nat /\ s.used[k] # 0 /\ s.used[k] <= ClassSizes[c]
          /\ UserOffset(c, k) \in Nat
      BY <1>13, <1>1, <1>2, LiveFacts
    <2>2. UserOffset(c, k) <= o /\ o < UserOffset(c, k) + s.used[k]
      BY <1>13, <1>1, <1>2, <2>1
    <2>3. PICK x : x = o - UserOffset(c, k)
      OBVIOUS
    <2>4. SlotStride(c) \in Nat /\ SlotStride(c) > ClassSizes[c] /\ ClassSizes[c] \in Nat
      BY <1>3, ClassFacts
    <2>5. x \in Nat /\ x < SlotStride(c) /\ o = UserOffset(c, k) + x
      BY <2>1, <2>2, <2>3, <2>4
    <2>6. (UserOffset(c, k) + x - HeaderBytes - SlotBytes) \div SlotStride(c) = k
      BY <1>3, <2>1, <2>5, SlotOfByte
    <2>7. slot = k
      <3>1. o - HeaderBytes - SlotBytes = UserOffset(c, k) + x - HeaderBytes - SlotBytes
        BY <2>1, <2>5, ByteFacts
      <3> QED
        BY <1>6, <2>6, <3>1, Zenon
    <2>8. UserOffset(c, k) >= HeaderBytes + SlotBytes
      BY <1>3, <2>1, OffsetFacts
    <2>9. ~(o < HeaderBytes + SlotBytes)
      BY <2>1, <2>2, <2>8, ByteFacts
    <2>10. ~(o >= base + s.used[slot])
      BY <2>1, <2>2, <2>7, <1>7
    <2> QED
      BY <1>8, <1>9, <1>11, <2>1, <2>7, <2>9, <2>10
  <1> QED
    BY <1>12, <1>13

\* A byte of a range that is neither: nothing is found.
LEMMA DiagnoseVacant ==
  ASSUME Structure, NEW r \in Ranges, ~Linked(r), \A i : ~Recorded(r, i), NEW o
  PROVE  Diagnose(r, o) = NoBlock
  <1>1. Diagnose(r, o) = DiagnoseSmall(r, o)
    BY DiagnoseOther
  <1>2. CASE slab[r].magic # "SLAB"
    BY <1>1, <1>2 DEF DiagnoseSmall
  <1>3. CASE slab[r].magic = "SLAB"
    <2>1. UsedOk(r)
      BY DEF Structure, RangesOk, RangeOk
    <2>2. PICK t \in Threads : Held(r, t) /\ call[t].at = "link"
      BY <1>3, <2>1 DEF UsedOk
    <2>3. CallOk(t) /\ call[t].range = r
      BY <2>2 DEF Held, Structure, CallsOk
    <2>4. slab[r] = PreparedSlab(SmallClass(call[t].size)) /\ SmallClass(call[t].size) # 0
      BY <2>2, <2>3 DEF CallOk
    <2>5. call[t].size \in Nat
      BY CallFacts DEF Structure
    <2>6. SmallClass(call[t].size) \in Classes
      BY <2>4, <2>5, SmallClassFacts
    <2>7. PICK c \in Classes : slab[r] = PreparedSlab(c)
      BY <2>4, <2>6
    <2>8. SlabOk(PreparedSlab(c), c) /\ \A k \in Slots(c) : PreparedSlab(c).used[k] = 0
      BY PreparedIsOk
    <2>9. PreparedSlab(c).used \in [Slots(c) -> 0 .. ClassSizes[c]]
      BY <2>8, SlabFacts
    <2>10. \A k \in DOMAIN slab[r].used : slab[r].used[k] = 0
      BY <2>7, <2>8, <2>9
    <2> QED
      BY <1>1, <2>10 DEF DiagnoseSmall
  <1> QED
    BY <1>2, <1>3

-----------------------------------------------------------------------------
(* The properties.                                                         *)

\* What a caller owns is live and backed.
LEMMA OwnedIsLive ==
  ASSUME Structure, NEW b \in owned
  PROVE  LET r == b.pointer[1] IN
         /\ [range |-> r, base |-> b.pointer[2], size |-> b.size] \in LiveBlocks
         /\ b.pointer[2] + b.size <= pages[r] * PageBytes
  <1>1. PICK r : r = b.pointer[1]
    OBVIOUS
  <1>2. /\ r \in Ranges
        /\ \/ \E k \in Nat : Live(r, k) /\ b = SlotBlock(r, k)
           \/ \E i \in 1 .. LargeRecords : Recorded(r, i) /\ b = RecordBlock(i)
    BY <1>1, OwnedAt, Zenon
  <1>3. CASE \E k \in Nat : Live(r, k) /\ b = SlotBlock(r, k)
    <2>1. PICK k \in Nat : Live(r, k) /\ b = SlotBlock(r, k)
      BY <1>3
    <2>2. PICK c : c = slab[r].class
      OBVIOUS
    <2>3. /\ Linked(r) /\ k \in Slots(c) /\ slab[r].used[k] \in Nat /\ slab[r].used[k] <= ClassSizes[c]
          /\ UserOffset(c, k) \in Nat
          /\ b.pointer[2] = UserOffset(c, k) /\ b.size = slab[r].used[k]
      BY <2>1, <2>2, LiveFacts
    <2>4. pages[r] = 1 /\ c \in Classes
      BY <2>2, <2>3, LinkedFacts
    <2>5. UserOffset(c, k) + ClassSizes[c] <= PageBytes /\ ClassSizes[c] \in Nat
      BY <2>3, <2>4, OffsetInPage, ClassFacts
    <2>6. b.pointer[2] + b.size <= pages[r] * PageBytes
      BY <2>3, <2>4, <2>5, ByteFacts
    <2>7. [range |-> r, base |-> b.pointer[2], size |-> b.size] = SlotPart(r, k)
      BY <2>2, <2>3, Zenon DEF SlotPart
    <2>8. SlotPart(r, k) \in LiveBlocks
      BY <1>2, <2>1, LiveBlocksIs
    <2> QED
      BY <1>1, <2>6, <2>7, <2>8, Zenon
  <1>4. CASE \E i \in 1 .. LargeRecords : Recorded(r, i) /\ b = RecordBlock(i)
    <2>1. PICK i \in 1 .. LargeRecords : Recorded(r, i) /\ b = RecordBlock(i)
      BY <1>4
    <2>2. /\ b.pointer = <<r, 0>> /\ b.size = records[i].size /\ records[i] \in Record
          /\ records[i].pointer = <<r, 0>>
      BY <1>2, <2>1, RecordBlockFacts
    <2>3. records[i].size <= pages[r] * PageBytes /\ records[i].size \in Nat
      BY <1>2, <2>1, <2>2, RecordedFacts DEF Record
    <2>4. b.pointer[2] = 0 /\ records[i].pointer[1] = r
      BY <2>2
    <2>5. b.pointer[2] + b.size <= pages[r] * PageBytes
      BY <2>2, <2>3, <2>4
    <2>6. [range |-> r, base |-> b.pointer[2], size |-> b.size] = RecordPart(i)
      BY <2>2, <2>4, Zenon DEF RecordPart
    <2>7. i \in LiveRecords
      BY <1>2, <2>1, LiveRecordsIs
    <2>8. RecordPart(i) \in LiveBlocks
      BY <2>7, LiveBlocksIs
    <2> QED
      BY <1>1, <2>5, <2>6, <2>8, Zenon
  <1> QED
    BY <1>2, <1>3, <1>4

\* The diagnosis of a byte: the owned block that has it, and otherwise nothing or a block being freed.
LEMMA DiagnosedIsOwned ==
  ASSUME Structure, NEW r \in Ranges, NEW o \in Nat
  PROVE  /\ \A b \in owned :
              (b.pointer[1] = r /\ o \in b.pointer[2] .. b.pointer[2] + b.size - 1)
                => Diagnose(r, o) = b
         /\ Diagnose(r, o) # NoBlock =>
              \/ \E t \in Threads : call[t].at = "free" /\ call[t].pointer[1] = r
              \/ Diagnose(r, o) \in owned
  <1>0. OwnedOk(r)
    BY DEF Structure, RangesOk, RangeOk
  <1>1. \A b \in owned : b.pointer[1] = r =>
           \/ \E k \in Nat : Live(r, k) /\ b = SlotBlock(r, k)
           \/ \E i \in 1 .. LargeRecords : Recorded(r, i) /\ b = RecordBlock(i)
    BY OwnedAt, Zenon
  <1>2. CASE Linked(r)
    <2>1. \A i : ~Recorded(r, i)
      BY <1>2, LinkedFacts
    <2>2. /\ Diagnose(r, o) # NoBlock => \E k \in Nat : Live(r, k) /\ Diagnose(r, o) = SlotBlock(r, k)
          /\ \A k : Live(r, k) /\ o \in UserOffset(slab[r].class, k)
                                         .. UserOffset(slab[r].class, k) + slab[r].used[k] - 1
                => Diagnose(r, o) = SlotBlock(r, k)
      BY <1>2, DiagnoseLinked
    <2>3. ASSUME NEW b \in owned, b.pointer[1] = r, o \in b.pointer[2] .. b.pointer[2] + b.size - 1
          PROVE  Diagnose(r, o) = b
      <3>1. PICK k \in Nat : Live(r, k) /\ b = SlotBlock(r, k)
        BY <1>1, <2>1, <2>3
      <3>2. b.pointer[2] = UserOffset(slab[r].class, k) /\ b.size = slab[r].used[k]
        BY <3>1, LiveFacts
      <3>3. o \in UserOffset(slab[r].class, k) .. UserOffset(slab[r].class, k) + slab[r].used[k] - 1
        BY <2>3, <3>2, Zenon
      <3> QED
        BY <2>2, <3>1, <3>3, Zenon
    <2>4. ASSUME Diagnose(r, o) # NoBlock
          PROVE  \/ \E t \in Threads : call[t].at = "free" /\ call[t].pointer[1] = r
                 \/ Diagnose(r, o) \in owned
      <3>1. PICK k \in Nat : Live(r, k) /\ Diagnose(r, o) = SlotBlock(r, k)
        BY <2>2, <2>4, Zenon
      <3>2. SlotBlock(r, k) \in owned \/ \E t \in Threads : Freeing(t, SlotPointer(r, k))
        BY <1>0, <3>1, Zenon DEF OwnedOk
      <3>3. SlotPointer(r, k)[1] = r
        BY <3>1, LiveFacts
      <3> QED
        BY <3>1, <3>2, <3>3 DEF Freeing
    <2> QED
      BY <2>3, <2>4
  <1>3. CASE \E i : Recorded(r, i)
    <2>1. PICK i : Recorded(r, i)
      BY <1>3
    <2>2. i \in 1 .. LargeRecords /\ ~Linked(r) /\ \A j : Recorded(r, j) => j = i
      BY <2>1, RecordedFacts
    <2>3. Diagnose(r, o) = IF o < records[i].size THEN RecordBlock(i) ELSE NoBlock
      BY <2>1, DiagnoseRecorded
    <2>4. ASSUME NEW b \in owned, b.pointer[1] = r, o \in b.pointer[2] .. b.pointer[2] + b.size - 1
          PROVE  Diagnose(r, o) = b
      <3>1. b = RecordBlock(i)
        BY <1>1, <2>2, <2>4 DEF Live
      <3>2. b.pointer = <<r, 0>> /\ b.size = records[i].size /\ records[i] \in Record
        BY <2>1, <3>1, RecordBlockFacts
      <3>3. b.pointer[2] = 0 /\ b.size \in Nat
        BY <3>2 DEF Record
      <3>4. o < records[i].size
        BY <2>4, <3>2, <3>3
      <3> QED
        BY <2>3, <3>1, <3>4
    <2>5. Diagnose(r, o) # NoBlock => Diagnose(r, o) \in owned
      <3>1. RecordBlock(i) \in owned
        BY <1>0, <2>1, <2>2, Zenon DEF OwnedOk
      <3> QED
        BY <2>3, <3>1
    <2> QED
      BY <2>4, <2>5
  <1>4. CASE ~Linked(r) /\ \A i : ~Recorded(r, i)
    <2>1. Diagnose(r, o) = NoBlock
      BY <1>4, DiagnoseVacant
    <2>2. \A b \in owned : b.pointer[1] # r
      BY <1>4, Vacant
    <2> QED
      BY <2>1, <2>2
  <1> QED
    BY <1>2, <1>3, <1>4

\* The first half of BackingAccountedFor.
LEMMA InvImpliesBacked == Structure => OwnedBlocksAreBacked
  <1> SUFFICES ASSUME Structure PROVE OwnedBlocksAreBacked
    OBVIOUS
  <1>1. \A b \in owned :
          LET r == b.pointer[1] IN
          /\ [range |-> r, base |-> b.pointer[2], size |-> b.size] \in LiveBlocks
          /\ b.pointer[2] + b.size <= pages[r] * PageBytes
    BY OwnedIsLive
  <1>2. ASSUME NEW r \in Ranges, NEW o \in 0 .. pages[r] * PageBytes - 1
        PROVE  LET in(b) == /\ b.pointer[1] = r
                            /\ o \in b.pointer[2] .. b.pointer[2] + b.size - 1
                   pending == \E t \in Threads : call[t].at = "free" /\ call[t].pointer[1] = r
                   d == Diagnose(r, o)
               IN  /\ \A b \in owned : in(b) => d = b
                   /\ d # NoBlock => pending \/ d \in owned
    <2>1. o \in Nat
      OBVIOUS
    <2> QED
      BY <2>1, DiagnosedIsOwned, Zenon
  <1> QED
    BY <1>1, <1>2, Zenon DEF OwnedBlocksAreBacked

\* The uses of a range: a range in use has exactly one.
LEMMA InvImpliesOneUse ==
  ASSUME Structure, NEW r \in Ranges
  PROVE  Cardinality({c \in Classes : r \in Range(lists[c])})
           + Cardinality({i \in LiveRecords : records[i].pointer[1] = r})
           + Cardinality({t \in Threads : call[t].range = r})
         = IF pages[r] = 0 THEN 0 ELSE 1
  <1>1. PICK A : A = {c \in Classes : r \in Range(lists[c])}
    OBVIOUS
  <1>2. PICK B : B = {i \in LiveRecords : records[i].pointer[1] = r}
    OBVIOUS
  <1>3. PICK C : C = {t \in Threads : call[t].range = r}
    OBVIOUS
  <1>4. \A c : c \in A <=> In(r, c)
    BY <1>1 DEF In, Range
  <1>5. \A i : i \in B <=> Recorded(r, i)
    <2>1. ASSUME NEW i \in B PROVE Recorded(r, i)
      <3>1. i \in LiveRecords /\ records[i].pointer[1] = r
        BY <1>2, <2>1
      <3>2. PICK q \in Ranges : Recorded(q, i)
        BY <3>1, LiveRecordsIs
      <3>3. q = r
        BY <3>1, <3>2 DEF Recorded
      <3> QED
        BY <3>2, <3>3
    <2>2. ASSUME NEW i, Recorded(r, i) PROVE i \in B
      <3>1. i \in LiveRecords
        BY <2>2, LiveRecordsIs
      <3>2. records[i].pointer[1] = r
        BY <2>2 DEF Recorded
      <3> QED
        BY <1>2, <3>1, <3>2
    <2> QED
      BY <2>1, <2>2
  <1>6. \A t : t \in C <=> Held(r, t)
    BY <1>3 DEF Held
  <1>7. \A S : S = {} => Cardinality(S) = 0
    BY FS_EmptySet
  <1>8. \A S, x : S = {x} => Cardinality(S) = 1
    BY FS_Singleton
  <1>9. CASE pages[r] = 0
    <2>1. ~Linked(r) /\ (\A i : ~Recorded(r, i)) /\ \A t : ~Held(r, t)
      BY <1>9, IdleFacts
    <2>2. A = {} /\ B = {} /\ C = {}
      BY <1>4, <1>5, <1>6, <2>1 DEF Linked, In
    <2>3. Cardinality(A) = 0 /\ Cardinality(B) = 0 /\ Cardinality(C) = 0
      BY <1>7, <2>2
    <2>4. Cardinality(A) + Cardinality(B) + Cardinality(C) = 0
      BY <2>3
    <2> QED
      BY <1>1, <1>2, <1>3, <1>9, <2>4, Zenon
  <1>10. CASE Linked(r)
    <2>1. /\ pages[r] = 1 /\ (\A c : In(r, c) <=> c = slab[r].class)
          /\ (\A i : ~Recorded(r, i)) /\ \A t : ~Held(r, t)
      BY <1>10, LinkedFacts
    <2>2. A = {slab[r].class} /\ B = {} /\ C = {}
      BY <1>4, <1>5, <1>6, <2>1
    <2>3. Cardinality(A) = 1 /\ Cardinality(B) = 0 /\ Cardinality(C) = 0
      BY <1>7, <1>8, <2>2
    <2>4. Cardinality(A) + Cardinality(B) + Cardinality(C) = 1 /\ pages[r] # 0
      BY <2>1, <2>3
    <2> QED
      BY <1>1, <1>2, <1>3, <2>4, Zenon
  <1>11. CASE \E i : Recorded(r, i)
    <2>1. PICK i : Recorded(r, i)
      BY <1>11
    <2>2. pages[r] # 0 /\ ~Linked(r) /\ (\A j : Recorded(r, j) => j = i) /\ \A t : ~Held(r, t)
      BY <2>1, RecordedFacts
    <2>3. A = {} /\ B = {i} /\ C = {}
      BY <1>4, <1>5, <1>6, <2>1, <2>2 DEF Linked, In
    <2>4. Cardinality(A) = 0 /\ Cardinality(B) = 1 /\ Cardinality(C) = 0
      BY <1>7, <1>8, <2>3
    <2>5. Cardinality(A) + Cardinality(B) + Cardinality(C) = 1
      BY <2>4
    <2> QED
      BY <1>1, <1>2, <1>3, <2>2, <2>5, Zenon
  <1>12. CASE \E t \in Threads : Held(r, t)
    <2>1. PICK t \in Threads : Held(r, t)
      BY <1>12
    <2>2. pages[r] # 0 /\ ~Linked(r) /\ (\A i : ~Recorded(r, i)) /\ \A u : Held(r, u) => u = t
      BY <2>1, HeldFacts
    <2>3. A = {} /\ B = {} /\ C = {t}
      BY <1>4, <1>5, <1>6, <2>1, <2>2 DEF Linked, In
    <2>4. Cardinality(A) = 0 /\ Cardinality(B) = 0 /\ Cardinality(C) = 1
      BY <1>7, <1>8, <2>3
    <2>5. Cardinality(A) + Cardinality(B) + Cardinality(C) = 1
      BY <2>4
    <2> QED
      BY <1>1, <1>2, <1>3, <2>2, <2>5, Zenon
  <1>13. UsedOk(r)
    BY DEF Structure, RangesOk, RangeOk
  <1> QED
    BY <1>9, <1>10, <1>11, <1>12, <1>13 DEF UsedOk

\* The list of a linked slab.
LEMMA InvImpliesSlabs ==
  ASSUME Structure, NEW r \in Listed
  PROVE  /\ Range(slab[r].free) = {s \in DOMAIN slab[r].used : slab[r].used[s] = 0}
         /\ IsInjective(slab[r].free)
         /\ slab[r].magic = "SLAB"
  <1>1. Linked(r)
    BY ListedIs
  <1>2. PICK s, c : s = slab[r] /\ c = slab[r].class
    OBVIOUS
  <1>3. SlabOk(s, c) /\ s.magic = "SLAB"
    BY <1>1, <1>2, LinkedFacts
  <1>4. /\ s.free \in Seq(Slots(c)) /\ s.used \in [Slots(c) -> 0 .. ClassSizes[c]]
        /\ \A k \in Slots(c) : s.used[k] = 0 <=> Member(k, s.free)
        /\ IsInjective(s.free)
    BY <1>3, SlabFacts
  <1>5. Range(s.free) = {k \in Slots(c) : s.used[k] = 0}
    <2>1. \A k : k \in Range(s.free) <=> \E i \in DOMAIN s.free : s.free[i] = k
      BY DEF Range
    <2>2. \A k : Member(k, s.free) <=> \E i \in DOMAIN s.free : s.free[i] = k
      BY DEF Member
    <2>3. \A i \in DOMAIN s.free : s.free[i] \in Slots(c)
      BY <1>4
    <2> QED
      BY <1>4, <2>1, <2>2, <2>3
  <1>6. DOMAIN s.used = Slots(c)
    BY <1>4
  <1> QED
    BY <1>2, <1>3, <1>4, <1>5, <1>6

\* The invariant gives BackingAccountedFor.
LEMMA InvImpliesAccounted == HeapInv => BackingAccountedFor
  <1> SUFFICES ASSUME HeapInv PROVE BackingAccountedFor
    OBVIOUS
  <1>1. Structure /\ CountsOk
    BY DEF HeapInv
  <1>2. OwnedBlocksAreBacked
    BY <1>1, InvImpliesBacked
  <1>3. \A r \in Ranges : Cardinality({c \in Classes : r \in Range(lists[c])})
           + Cardinality({i \in LiveRecords : records[i].pointer[1] = r})
           + Cardinality({t \in Threads : call[t].range = r})
         = IF pages[r] = 0 THEN 0 ELSE 1
    BY <1>1, InvImpliesOneUse
  <1>4. \A r \in Listed :
          /\ Range(slab[r].free) = {s \in DOMAIN slab[r].used : slab[r].used[s] = 0}
          /\ IsInjective(slab[r].free)
          /\ slab[r].magic = "SLAB"
    BY <1>1, InvImpliesSlabs
  <1> QED
    BY <1>1, <1>2, <1>3, <1>4, Zenon DEF BackingAccountedFor, CountsOk, PagePairs

-----------------------------------------------------------------------------
(* The theorems.                                                           *)

\* The invariant holds initially.
LEMMA InitHeapInv == Init => HeapInv
  <1> SUFFICES ASSUME Init PROVE HeapInv
    OBVIOUS
  <1>1. Structure
    BY InitStructure
  <1>2. LiveRecords = {}
    BY <1>1, LiveRecordsIs DEF Init
  <1>3. \A r : ~Linked(r)
    BY DEF Init, Linked, In
  <1>4. Listed = {}
    BY <1>1, <1>3, ListedIs
  <1>5. LiveSlots = {}
    BY <1>1, <1>3, LiveSlotsIs DEF Live
  <1>6. PagePairs = {}
    BY <1>2 DEF PagePairs
  <1>7. Cardinality({}) = 0
    BY FS_EmptySet
  <1>8. PageBytes * (0 + 0) = 0 /\ 0 + 0 = 0
    BY ByteFacts
  <1>9. stats = [live |-> 0, small |-> 0, large |-> 0, backing |-> 0]
    BY DEF Init
  <1>10. CountsOk
    BY <1>2, <1>4, <1>5, <1>6, <1>7, <1>8, <1>9, Zenon DEF CountsOk
  <1> QED
    BY <1>1, <1>10 DEF HeapInv

\* Every step keeps the invariant and is a step of the abstract allocator.
LEMMA HeapInvInductive == HeapInv /\ [Next]_vars => HeapInv' /\ [Promise!Next]_LiveBlocks
  <1> SUFFICES ASSUME HeapInv, [Next]_vars PROVE HeapInv' /\ [Promise!Next]_LiveBlocks
    OBVIOUS
  <1>1. Structure' /\ CountsOk' /\ Effect
    BY StepGood DEF HeapInv, Good
  <1> QED
    BY <1>1, EffectOk DEF HeapInv

\* BackingAccountedFor holds in every state of kmalloc and kfree: no page of
\* the arena is lost or counted twice, what callers hold stays backed and is
\* found by KeAllocatorDiagnoseAddress, and the statistics are exact, whatever
\* calls are half-way through their critical sections.
THEOREM HeapAccounted == Spec => []BackingAccountedFor
  <1>1. Init => HeapInv
    BY InitHeapInv
  <1>2. HeapInv /\ [Next]_vars => HeapInv'
    BY HeapInvInductive
  <1>3. HeapInv => BackingAccountedFor
    BY InvImpliesAccounted
  <1> QED
    BY <1>1, <1>2, <1>3, PTL DEF Spec

\* kmalloc and kfree implement the abstract allocator: no block handed out
\* ever shares a byte with another live one.
THEOREM BlocksDisjoint == Spec => BlocksNeverOverlap
  <1>1. Init => HeapInv /\ Promise!Init
    <2>1. Init => HeapInv
      BY InitHeapInv
    <2>2. ASSUME Init PROVE LiveBlocks = {}
      <3>1. Structure
        BY <2>2, InitStructure
      <3>2. LiveRecords = {}
        BY <2>2, <3>1, LiveRecordsIs DEF Init
      <3>3. \A r : ~Linked(r)
        BY <2>2 DEF Init, Linked, In
      <3> QED
        BY <3>1, <3>2, <3>3, LiveBlocksIs DEF Live
    <2> QED
      BY <2>1, <2>2 DEF Promise!Init
  <1>2. HeapInv /\ [Next]_vars => HeapInv' /\ [Promise!Next]_LiveBlocks
    BY HeapInvInductive
  <1> QED
    BY <1>1, <1>2, PTL DEF Spec, BlocksNeverOverlap, Promise!Spec
=============================================================================
