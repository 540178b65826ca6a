------------------------------- MODULE KeHeap -------------------------------
(***************************************************************************)
(* kmalloc, kzalloc and kfree (ke/mm/allocator.c).  Small requests are     *)
(* served from one-page slabs, one list of slabs for each size class;      *)
(* larger ones get a range of the heap arena of their own, remembered in a *)
(* fixed table of records.                                                 *)
(*                                                                         *)
(* Only the lists, the records and the counters are updated in critical    *)
(* sections.  Ranges are taken from and given back to the KVA layer with   *)
(* no lock held, so that between two sections of one call other threads    *)
(* allocate and free.  Each section is one action, and so is each call of  *)
(* the KVA layer (KeHeapAllocPages, KeHeapFreePages; module KeKva).        *)
(*                                                                         *)
(* A pointer is <<r, o>>: byte o of the usable part of range r.  Callers   *)
(* free what they were given, once.  Left out: the contents of the blocks  *)
(* (kzalloc clears them) and KeKvaQueryRange failing for a range the       *)
(* caller has just been given.                                             *)
(***************************************************************************)
EXTENDS Integers, Sequences, FiniteSets, SequencesExt

CONSTANTS
  Threads,          \* the threads that call the allocator
  Ranges,           \* bound: ranges of the heap arena
  LargeRecords,     \* KE_ALLOC_LARGE_RECORD_CAPACITY
  PageBytes,        \* PAGE_4KB
  WordValues,       \* number of values of a size_t
  HeaderBytes,      \* size of KE_ALLOC_SMALL_PAGE
  SlotBytes,        \* size of KE_ALLOC_SMALL_SLOT
  ClassSizes,       \* gAllocatorClassSizes
  Sizes,            \* bound: the sizes asked for
  NULL

Classes == 1 .. Len(ClassSizes)

ASSUME HeapAssumption ==
  /\ LargeRecords \in Nat /\ PageBytes \in Nat \ {0}
  /\ WordValues \in Nat /\ PageBytes <= WordValues
  /\ HeaderBytes \in Nat \ {0} /\ SlotBytes \in Nat \ {0}
  /\ ClassSizes \in Seq(Nat \ {0})
  /\ \A c \in Classes : HeaderBytes + SlotBytes + ClassSizes[c] <= PageBytes
  /\ Sizes \subseteq 0 .. WordValues - 1
  /\ IsFiniteSet(Ranges)
  /\ NULL \notin Ranges \cup (Ranges \X Nat)

VARIABLES
  pages,     \* the KVA layer: usable pages of each range in use, 0 when free
  slab,      \* the header and the slots in the memory of each range
  lists,     \* gAllocatorSmallPages: the slabs of each class, head first
  records,   \* gAllocatorLargeRecords
  stats,     \* gAllocatorStats
  call,      \* what each thread is doing
  owned      \* the blocks in the hands of callers

vars == <<pages, slab, lists, records, stats, call, owned>>

NoSlab == [magic |-> "NONE", class |-> 0, free |-> << >>, used |-> << >>]
NoRecord == [pointer |-> NULL, size |-> 0, pages |-> 0]
Resting == [at |-> "out", size |-> 0, range |-> NULL, pointer |-> NULL]

Init ==
  /\ pages = [r \in Ranges |-> 0]
  /\ slab = [r \in Ranges |-> NoSlab]
  /\ lists = [c \in Classes |-> << >>]
  /\ records = [i \in 1 .. LargeRecords |-> NoRecord]
  /\ stats = [live |-> 0, small |-> 0, large |-> 0, backing |-> 0]
  /\ call = [t \in Threads |-> Resting]
  /\ owned = {}

Do(t, at, range) == call' = [call EXCEPT ![t] = [@ EXCEPT !.at = at, !.range = range]]
Finish(t) == call' = [call EXCEPT ![t] = Resting]

-----------------------------------------------------------------------------
(* Sizes and slots.                                                        *)

\* KiAllocatorFindSmallClass; 0 for none
SmallClass(size) ==
  LET fit == {c \in Classes : size <= ClassSizes[c]}
  IN  IF fit = {} THEN 0 ELSE CHOOSE c \in fit : \A d \in fit : c <= d

\* HO_ALIGN_UP(size, PAGE_4KB) / PAGE_4KB in a machine word
PageCount(size) == ((size + PageBytes - 1) % WordValues) \div PageBytes

SlotStride(c) == SlotBytes + ClassSizes[c]
SlotsPerPage(c) == (PageBytes - HeaderBytes) \div SlotStride(c)

\* Offset of the bytes the caller gets of a slot.
UserOffset(c, slot) == HeaderBytes + slot * SlotStride(c) + SlotBytes

\* KiAllocatorPrepareSmallPage: the slots go on the list one by one, so the
\* last comes first.  used[slot] is the size asked for, 0 when free.
PreparedSlab(c) ==
  LET n == SlotsPerPage(c)
  IN  [magic |-> "SLAB", class |-> c,
       free |-> [i \in 1 .. n |-> n - i], used |-> [s \in 0 .. n - 1 |-> 0]]

\* KiAllocatorAllocFromSmallPage
SlotTaken(s, size) ==
  [s EXCEPT !.free = Tail(@), !.used = [@ EXCEPT ![Head(s.free)] = size]]

\* The counters of a block that comes (1) or goes (-1).
SmallCounted(s, n) == [s EXCEPT !.live = @ + n, !.small = @ + n]
LargeCounted(s, n) == [s EXCEPT !.live = @ + n, !.large = @ + n]

-----------------------------------------------------------------------------
(* Allocation.                                                             *)

\* A slot of slab r leaves for the caller.
Serve(t, r, before, size, counters) ==
  LET slot == Head(before.free) IN
  /\ slab' = [slab EXCEPT ![r] = SlotTaken(before, size)]
  /\ stats' = SmallCounted(counters, 1)
  /\ owned' = owned \cup {[pointer |-> <<r, UserOffset(before.class, slot)>>,
                           size |-> size]}
  /\ Finish(t)

\* kmalloc of a size with a class: the first slab of its list with a free
\* slot serves it; with none the caller leaves the section to prepare one.
AllocSmall(t, size) ==
  LET c == SmallClass(size)
      ready == {i \in DOMAIN lists[c] : slab[lists[c][i]].free # << >>}
      first == lists[c][CHOOSE i \in ready : \A j \in ready : i <= j]
  IN  /\ call[t].at = "out" /\ size > 0 /\ c # 0
      /\ IF ready # {}
         THEN Serve(t, first, slab[first], size, stats)
         ELSE /\ call' = [call EXCEPT ![t] = [Resting EXCEPT !.at = "prepare",
                                                             !.size = size]]
              /\ UNCHANGED <<slab, stats, owned>>
      /\ UNCHANGED <<pages, lists, records>>

\* kmalloc of a larger size; a sum that wraps to no page at all is refused.
AllocLarge(t, size) ==
  /\ call[t].at = "out" /\ SmallClass(size) = 0 /\ PageCount(size) # 0
  /\ call' = [call EXCEPT ![t] = [Resting EXCEPT !.at = "reserve", !.size = size]]
  /\ UNCHANGED <<pages, slab, lists, records, stats, owned>>

\* KeHeapAllocPages gives a range of this many pages, or fails and the
\* caller gets NULL.
GetRange(t, n, next) ==
  /\ \/ \E r \in Ranges : /\ pages[r] = 0
                          /\ pages' = [pages EXCEPT ![r] = n]
                          /\ Do(t, next, r)
     \/ Finish(t) /\ UNCHANGED pages
  /\ UNCHANGED <<slab, lists, records, stats, owned>>

GetSlab(t) == call[t].at = "prepare" /\ GetRange(t, 1, "fill")
GetLarge(t) == call[t].at = "reserve" /\ GetRange(t, PageCount(call[t].size), "record")

\* The rest of KiAllocatorPrepareSmallPage, private to the caller.
FillSlab(t) ==
  /\ call[t].at = "fill"
  /\ slab' = [slab EXCEPT ![call[t].range] = PreparedSlab(SmallClass(call[t].size))]
  /\ Do(t, "link", call[t].range)
  /\ UNCHANGED <<pages, lists, records, stats, owned>>

\* The new slab becomes the head of its list and serves the caller in the
\* same critical section.
LinkSlab(t) ==
  LET r == call[t].range
      c == slab[r].class
  IN  /\ call[t].at = "link"
      /\ lists' = [lists EXCEPT ![c] = <<r>> \o @]
      /\ Serve(t, r, slab[r], call[t].size,
               [stats EXCEPT !.backing = @ + pages[r] * PageBytes])
      /\ UNCHANGED <<pages, records>>

\* A free record remembers the range; with all of them in use the range goes
\* back, after the section.
RecordLarge(t) ==
  LET r == call[t].range
      free == {i \in DOMAIN records : records[i] = NoRecord}
      first == CHOOSE i \in free : \A j \in free : i <= j
  IN  /\ call[t].at = "record"
      /\ IF free = {}
         THEN Do(t, "release", r) /\ UNCHANGED <<records, stats, owned>>
         ELSE /\ records' = [records EXCEPT ![first] =
                   [pointer |-> <<r, 0>>, size |-> call[t].size, pages |-> pages[r]]]
              /\ stats' = [LargeCounted(stats, 1) EXCEPT
                             !.backing = @ + pages[r] * PageBytes]
              /\ owned' = owned \cup {[pointer |-> <<r, 0>>, size |-> call[t].size]}
              /\ Finish(t)
      /\ UNCHANGED <<pages, slab, lists>>

-----------------------------------------------------------------------------
(* kfree: first the records, then, in another section, the slabs.          *)

\* The caller gives up the block as it calls; KiAllocatorTryFreeLarge.
FreeLarge(t, b) ==
  LET match == {i \in DOMAIN records : records[i].pointer = b.pointer} IN
  /\ call[t].at = "out"
  /\ owned' = owned \ {b}
  /\ IF match = {}
     THEN /\ call' = [call EXCEPT ![t] = [Resting EXCEPT !.at = "free",
                                                         !.pointer = b.pointer]]
          /\ UNCHANGED <<records, stats>>
     ELSE LET i == CHOOSE j \in match : \A k \in match : j <= k
          IN  /\ records' = [records EXCEPT ![i] = NoRecord]
              /\ stats' = [LargeCounted(stats, -1) EXCEPT
                             !.backing = @ - records[i].pages * PageBytes]
              /\ Do(t, "release", b.pointer[1])
  /\ UNCHANGED <<pages, slab, lists>>

\* The slot a pointer names, by the arithmetic of KiAllocatorTryFreeSmall;
\* -1 when one of its checks refuses the pointer.
SlotOf(r, o) ==
  LET s == slab[r]
      offset == o - HeaderBytes - SlotBytes
      stride == SlotStride(s.class)
  IN  IF \/ pages[r] # 1 \/ s.magic # "SLAB" \/ offset < 0
         \/ offset % stride # 0
      THEN -1
      ELSE IF offset \div stride \in DOMAIN s.used /\ s.used[offset \div stride] # 0
           THEN offset \div stride ELSE -1

\* Mutant of SlotReturned: the slot stays marked as allocated.
SlotReturnedMarked(s, slot) == [s EXCEPT !.free = <<slot>> \o @]

SlotReturned(s, slot) ==
  [s EXCEPT !.free = <<slot>> \o @, !.used = [@ EXCEPT ![slot] = 0]]

\* Mutant of FreeSmall: an empty slab is released but stays on its list.
FreeSmallStillListed(t) ==
  LET r == call[t].pointer[1]
      slot == SlotOf(r, call[t].pointer[2])
      s == SlotReturned(slab[r], slot)
      empty == Len(s.free) = SlotsPerPage(s.class)
  IN  /\ call[t].at = "free" /\ slot # -1
      /\ slab' = [slab EXCEPT ![r] = s]
      /\ stats' = SmallCounted(stats, -1)
      /\ IF empty THEN Do(t, "release", r) ELSE Finish(t)
      /\ UNCHANGED <<pages, lists, records, owned>>

\* A slab with every slot free leaves its list and retires.
ReturnSlot(t, r, slot) ==
  LET s == SlotReturned(slab[r], slot)
      found == {i \in DOMAIN lists[s.class] : lists[s.class][i] = r}
      retires == Len(s.free) = SlotsPerPage(s.class) /\ found # {}
      place == CHOOSE i \in found : \A j \in found : i <= j
  IN  /\ slab' = [slab EXCEPT ![r] = IF retires THEN [s EXCEPT !.magic = "RETIRED"] ELSE s]
      /\ IF retires
         THEN /\ lists' = [lists EXCEPT ![s.class] = RemoveAt(@, place)]
              /\ stats' = [SmallCounted(stats, -1) EXCEPT
                             !.backing = @ - pages[r] * PageBytes]
              /\ Do(t, "release", r)
         ELSE /\ stats' = SmallCounted(stats, -1)
              /\ Finish(t) /\ UNCHANGED lists

\* KiAllocatorTryFreeSmall: the slot goes back to its slab.
FreeSmall(t) ==
  LET r == call[t].pointer[1]
      slot == SlotOf(r, call[t].pointer[2])
  IN  /\ call[t].at = "free"
      /\ IF slot = -1 THEN Finish(t) /\ UNCHANGED <<slab, lists, stats>>
         ELSE ReturnSlot(t, r, slot)
      /\ UNCHANGED <<pages, records, owned>>

\* KeHeapFreePages, at the end of a free or of an allocation that failed.
ReleaseRange(t) ==
  /\ call[t].at = "release"
  /\ pages' = [pages EXCEPT ![call[t].range] = 0]
  /\ Finish(t)
  /\ UNCHANGED <<slab, lists, records, stats, owned>>

Next ==
  \E t \in Threads :
     \/ \E size \in Sizes : AllocSmall(t, size) \/ AllocLarge(t, size)
     \/ GetSlab(t) \/ FillSlab(t) \/ LinkSlab(t)
     \/ GetLarge(t) \/ RecordLarge(t)
     \/ \E b \in owned : FreeLarge(t, b)
     \/ FreeSmall(t) \/ ReleaseRange(t)

Spec == Init /\ [][Next]_vars

-----------------------------------------------------------------------------
(* KeAllocatorDiagnoseAddress: the live block that holds a byte.           *)

NoBlock == [pointer |-> NULL, size |-> 0]

DiagnoseLarge(r, o) ==
  LET hit == {i \in DOMAIN records : /\ records[i].pointer = <<r, 0>>
                                     /\ o < records[i].size}
  IN  IF hit = {} THEN NoBlock
      ELSE LET i == CHOOSE j \in hit : TRUE
           IN  [pointer |-> records[i].pointer, size |-> records[i].size]

DiagnoseSmall(r, o) ==
  LET s == slab[r]
      slot == (o - HeaderBytes - SlotBytes) \div SlotStride(s.class)
      base == UserOffset(s.class, slot)
  IN  IF pages[r] # 1 \/ s.magic # "SLAB" \/ o < HeaderBytes + SlotBytes THEN NoBlock
      ELSE IF slot \notin DOMAIN s.used THEN NoBlock
      ELSE IF s.used[slot] = 0 \/ o >= base + s.used[slot] THEN NoBlock
      ELSE [pointer |-> <<r, base>>, size |-> s.used[slot]]

Diagnose(r, o) ==
  IF DiagnoseLarge(r, o) # NoBlock THEN DiagnoseLarge(r, o) ELSE DiagnoseSmall(r, o)

-----------------------------------------------------------------------------
(* Properties.                                                             *)

\* The blocks the allocator regards as live: the slots in use of linked slabs
\* and the records in use.
Listed == UNION {Range(lists[c]) : c \in Classes}
LiveSlots ==
  UNION {{<<r, s>> : s \in {i \in DOMAIN slab[r].used : slab[r].used[i] # 0}} :
           r \in Listed}
LiveRecords == {i \in DOMAIN records : records[i] # NoRecord}
LiveBlocks ==
  {[range |-> x[1], base |-> UserOffset(slab[x[1]].class, x[2]),
    size |-> slab[x[1]].used[x[2]]] : x \in LiveSlots}
  \cup {[range |-> records[i].pointer[1], base |-> 0, size |-> records[i].size] :
          i \in LiveRecords}

\* The allocator hands out blocks that never overlap, whatever calls are
\* half-way: kmalloc and kfree implement the abstract block allocator.
Promise == INSTANCE BlockAllocator WITH live <- LiveBlocks
BlocksNeverOverlap == Promise!Spec

\* What a caller holds is a live block of that size, inside pages the KVA
\* layer has not taken back, and KeAllocatorDiagnoseAddress names it for each
\* of its bytes and for no other byte: the window between a critical section
\* and KeHeapFreePages, and the wrap of the page count, must not break it.
OwnedBlocksAreBacked ==
  /\ \A b \in owned :
        LET r == b.pointer[1] IN
        /\ [range |-> r, base |-> b.pointer[2], size |-> b.size] \in LiveBlocks
        /\ b.pointer[2] + b.size <= pages[r] * PageBytes
  /\ \A r \in Ranges : \A o \in 0 .. pages[r] * PageBytes - 1 :
        LET in(b) == /\ b.pointer[1] = r
                     /\ o \in b.pointer[2] .. b.pointer[2] + b.size - 1
            pending == \E t \in Threads : call[t].at = "free" /\ call[t].pointer[1] = r
            d == Diagnose(r, o)
        IN  /\ \A b \in owned : in(b) => d = b
            /\ d # NoBlock => pending \/ d \in owned

\* Blocks are backed, and no page is lost or counted twice: a range of the arena is a linked slab, a
\* recorded large block or in the hands of one call under way, each slab's
\* list has exactly its free slots, and the counters agree with all of it.
BackingAccountedFor ==
  LET holds(r) ==
        Cardinality({c \in Classes : r \in Range(lists[c])})
          + Cardinality({i \in LiveRecords : records[i].pointer[1] = r})
          + Cardinality({t \in Threads : call[t].range = r})
      bytes == PageBytes * (Cardinality(Listed)
                 + Cardinality({x \in LiveRecords \X (1 .. WordValues) :
                                  x[2] <= records[x[1]].pages}))
  IN  /\ OwnedBlocksAreBacked
      /\ \A r \in Ranges : holds(r) = IF pages[r] = 0 THEN 0 ELSE 1
      /\ \A r \in Listed :
            /\ Range(slab[r].free) = {s \in DOMAIN slab[r].used : slab[r].used[s] = 0}
            /\ IsInjective(slab[r].free)
            /\ slab[r].magic = "SLAB"
      /\ stats = [live |-> Cardinality(LiveSlots) + Cardinality(LiveRecords),
                  small |-> Cardinality(LiveSlots),
                  large |-> Cardinality(LiveRecords), backing |-> bytes]
=============================================================================
