------------------------------- MODULE KePool -------------------------------
(***************************************************************************)
(* The fixed-size object pool of ke/mm/pool.c, which backs KTHREADs and    *)
(* the executive's objects.  Its free list runs through the slots of       *)
(* one-page chunks taken from the kernel heap.                             *)
(*                                                                         *)
(* An allocation is not one critical section: it looks at the magic, pops  *)
(* a slot, finds none, takes a page from the heap with no lock held, then  *)
(* publishes the page and pops again, and clears the slot.  Other threads  *)
(* allocate, free and destroy in between.  Each critical section, and each *)
(* stretch between two of them that touches shared state, is one action.   *)
(*                                                                         *)
(* KePoolInit runs alone, as pool.h requires of its callers.  Left out:    *)
(* FailedGrows and PageCount, which only the statistics read, and the slot *)
(* size, which is constant while the pool is alive.                        *)
(***************************************************************************)
EXTENDS Integers, Sequences, FiniteSets, Functions, KeList

CONSTANTS
  Threads,         \* the threads that use the pool
  Pages,           \* the pages of the kernel heap
  SlotsPerPage,    \* slots that follow the header of a page
  InitialCapacity, \* slots asked for by KePoolInit
  NULL

Slots == Pages \X (1 .. SlotsPerPage)

ASSUME PoolAssumption ==
  /\ IsFiniteSet(Threads) /\ IsFiniteSet(Pages)
  /\ SlotsPerPage \in Nat \ {0} /\ InitialCapacity \in Nat
  /\ NULL \notin Pages \cup Slots

VARIABLES
  magic,       \* KE_POOL.Magic
  freeList,    \* KE_POOL.FreeList, head first
  pageList,    \* KE_POOL.PageList, head first
  totalSlots,  \* KE_POOL.TotalSlots
  usedSlots,   \* KE_POOL.UsedSlots
  peakUsed,    \* KE_POOL.PeakUsedSlots
  pc,          \* where each thread stands inside a pool service
  prepared,    \* the page a growing thread has prepared
  node,        \* the slot a thread has popped and not yet returned
  detached,    \* the pages a destroying thread has still to release
  heap,        \* the pages free in the kernel heap
  live         \* the objects in the hands of the callers

poolVars == <<magic, freeList, pageList, totalSlots, usedSlots, peakUsed>>
vars == <<poolVars, pc, prepared, node, detached, heap, live>>

\* The chain that KiPoolPrepareOnePage builds: the last slot comes first.
ChainOf(p) == [i \in 1 .. SlotsPerPage |-> <<p, SlotsPerPage + 1 - i>>]

Init ==
  /\ magic = "NONE"
  /\ freeList = << >> /\ pageList = << >>
  /\ totalSlots = 0 /\ usedSlots = 0 /\ peakUsed = 0
  /\ pc = [t \in Threads |-> "out"]
  /\ prepared = [t \in Threads |-> NULL]
  /\ node = [t \in Threads |-> NULL]
  /\ detached = [t \in Threads |-> << >>]
  /\ heap = Pages
  /\ live = {}

Goto(t, place) == pc' = [pc EXCEPT ![t] = place]

\* The pop shared by KiPoolTryPopNode and KiPoolPublishPreparedPageAndPop.
Pop(t, free) ==
  /\ freeList' = Tail(free)
  /\ node' = [node EXCEPT ![t] = Head(free)]
  /\ usedSlots' = usedSlots + 1
  /\ peakUsed' = IF usedSlots + 1 > peakUsed THEN usedSlots + 1 ELSE peakUsed

-----------------------------------------------------------------------------
(* Initialization.                                                         *)

NeededPages ==
  LET pages == (InitialCapacity + SlotsPerPage - 1) \div SlotsPerPage
  IN  IF pages = 0 THEN 1 ELSE pages

\* KePoolInit makes the pool unusable and clears its fields ...
KePoolInit(t) ==
  /\ magic # "ALIVE"
  /\ \A u \in Threads : pc[u] = "out"
  /\ magic' = "NONE"
  /\ freeList' = << >> /\ pageList' = << >>
  /\ totalSlots' = 0 /\ usedSlots' = 0 /\ peakUsed' = 0
  /\ Goto(t, "init")
  /\ UNCHANGED <<prepared, node, detached, heap, live>>

\* ... attaches one page after the other (KiPoolPrepareOnePage and
\* KiPoolPublishPreparedPage) and opens the pool when it has enough.  When
\* the heap refuses a page, those already attached are given back.
AttachInitialPage(t) ==
  /\ pc[t] = "init"
  /\ \/ /\ Len(pageList) < NeededPages
        /\ \E p \in heap :
             /\ heap' = heap \ {p}
             /\ pageList' = <<p>> \o pageList
             /\ freeList' = ChainOf(p) \o freeList
        /\ totalSlots' = totalSlots + SlotsPerPage
        /\ UNCHANGED <<magic, pc>>
     \/ /\ Len(pageList) < NeededPages
        /\ heap' = heap \cup Range(pageList)
        /\ pageList' = << >> /\ freeList' = << >> /\ totalSlots' = 0
        /\ Goto(t, "out")
        /\ UNCHANGED magic
     \/ /\ Len(pageList) >= NeededPages
        /\ magic' = "ALIVE"
        /\ Goto(t, "out")
        /\ UNCHANGED <<pageList, freeList, totalSlots, heap>>
  /\ UNCHANGED <<usedSlots, peakUsed, prepared, node, detached, live>>

-----------------------------------------------------------------------------
(* Allocation.                                                             *)

\* KePoolAlloc looks at the magic first, without a lock.
KePoolAlloc(t) ==
  /\ pc[t] = "out" /\ magic = "ALIVE"
  /\ Goto(t, "pop")
  /\ UNCHANGED <<poolVars, prepared, node, detached, heap, live>>

KiPoolTryPopNode(t) ==
  /\ pc[t] = "pop"
  /\ \/ /\ magic = "ALIVE" /\ freeList # << >>
        /\ Pop(t, freeList)
        /\ Goto(t, "clear")
        /\ UNCHANGED <<magic, pageList, totalSlots>>
     \/ /\ ~(magic = "ALIVE" /\ freeList # << >>)
        /\ Goto(t, "grow")
        /\ UNCHANGED <<poolVars, node>>
  /\ UNCHANGED <<prepared, detached, heap, live>>

\* The second look at the magic, again without a lock.
RecheckAlive(t) ==
  /\ pc[t] = "grow"
  /\ Goto(t, IF magic = "ALIVE" THEN "prepare" ELSE "out")
  /\ UNCHANGED <<poolVars, prepared, node, detached, heap, live>>

\* KiPoolPrepareOnePage holds no lock; the heap may refuse.
KiPoolPrepareOnePage(t) ==
  /\ pc[t] = "prepare"
  /\ \/ \E p \in heap :
          /\ heap' = heap \ {p}
          /\ prepared' = [prepared EXCEPT ![t] = p]
          /\ Goto(t, "publish")
     \/ Goto(t, "out") /\ UNCHANGED <<heap, prepared>>
  /\ UNCHANGED <<poolVars, node, detached, live>>

\* Mutant of KiPoolPublishPreparedPageAndPop: no look at the magic.
PublishWithoutRecheck(t) ==
  LET p == prepared[t]
  IN  /\ pc[t] = "publish"
      /\ totalSlots' = totalSlots + SlotsPerPage
      /\ pageList' = <<p>> \o pageList
      /\ Pop(t, ChainOf(p) \o freeList)
      /\ prepared' = [prepared EXCEPT ![t] = NULL]
      /\ Goto(t, "clear")
      /\ UNCHANGED <<magic, detached, heap, live>>

\* The page becomes part of the pool and gives its first slot, unless the
\* pool has been destroyed meanwhile.
KiPoolPublishPreparedPageAndPop(t) ==
  LET p == prepared[t]
  IN  /\ pc[t] = "publish"
      /\ \/ /\ magic = "ALIVE"
            /\ totalSlots' = totalSlots + SlotsPerPage
            /\ pageList' = <<p>> \o pageList
            /\ Pop(t, ChainOf(p) \o freeList)
            /\ prepared' = [prepared EXCEPT ![t] = NULL]
            /\ Goto(t, "clear")
            /\ UNCHANGED magic
         \/ /\ magic # "ALIVE"
            /\ Goto(t, "orphan")
            /\ UNCHANGED <<poolVars, prepared, node>>
      /\ UNCHANGED <<detached, heap, live>>

\* Mutant of FreeOrphan: the allocation fails and the page is forgotten.
ForgetOrphan(t) ==
  /\ pc[t] = "orphan"
  /\ prepared' = [prepared EXCEPT ![t] = NULL]
  /\ Goto(t, "out")
  /\ UNCHANGED <<poolVars, node, detached, heap, live>>

\* The orphaned page goes back to the heap with no lock held.
FreeOrphan(t) ==
  /\ pc[t] = "orphan"
  /\ heap' = heap \cup {prepared[t]}
  /\ prepared' = [prepared EXCEPT ![t] = NULL]
  /\ Goto(t, "out")
  /\ UNCHANGED <<poolVars, node, detached, live>>

\* The slot is cleared, with no lock held, and returned to the caller.
ClearNode(t) ==
  /\ pc[t] = "clear"
  /\ live' = live \cup {node[t]}
  /\ node' = [node EXCEPT ![t] = NULL]
  /\ Goto(t, "out")
  /\ UNCHANGED <<poolVars, prepared, detached, heap>>

-----------------------------------------------------------------------------
(* Release and destruction.                                                *)

\* Any thread may return any object it holds.
KePoolFree(t, object) ==
  /\ pc[t] = "out"
  /\ object \in live
  /\ freeList' = <<object>> \o freeList
  /\ usedSlots' = usedSlots - 1
  /\ live' = live \ {object}
  /\ UNCHANGED <<magic, pageList, totalSlots, peakUsed, pc, prepared, node, detached, heap>>

\* KePoolDestroy under its lock: refused while an object is out, otherwise
\* the pool is marked dead and its pages detached ...
KePoolDestroy(t) ==
  /\ pc[t] = "out"
  /\ magic = "ALIVE"
  /\ usedSlots = 0
  /\ magic' = "DEAD"
  /\ freeList' = << >> /\ pageList' = << >>
  /\ totalSlots' = 0 /\ usedSlots' = 0 /\ peakUsed' = 0
  /\ detached' = [detached EXCEPT ![t] = pageList]
  /\ Goto(t, "release")
  /\ UNCHANGED <<prepared, node, heap, live>>

\* ... and released one by one with no lock held.
ReleaseDetachedPage(t) ==
  /\ pc[t] = "release"
  /\ \/ /\ detached[t] # << >>
        /\ heap' = heap \cup {Head(detached[t])}
        /\ detached' = [detached EXCEPT ![t] = Tail(detached[t])]
        /\ UNCHANGED pc
     \/ /\ detached[t] = << >>
        /\ Goto(t, "out")
        /\ UNCHANGED <<heap, detached>>
  /\ UNCHANGED <<poolVars, prepared, node, live>>

-----------------------------------------------------------------------------
Step(t) ==
  \/ KePoolInit(t)
  \/ AttachInitialPage(t)
  \/ KePoolAlloc(t)
  \/ KiPoolTryPopNode(t)
  \/ RecheckAlive(t)
  \/ KiPoolPrepareOnePage(t)
  \/ KiPoolPublishPreparedPageAndPop(t)
  \/ FreeOrphan(t)
  \/ ClearNode(t)
  \/ \E object \in live : KePoolFree(t, object)
  \/ KePoolDestroy(t)
  \/ ReleaseDetachedPage(t)

Next == \E t \in Threads : Step(t)

Spec == Init /\ [][Next]_vars

-----------------------------------------------------------------------------
(* Properties.                                                             *)

\* The objects that are out: returned to a caller, or popped for one.
Popped == {node[t] : t \in {u \in Threads : node[u] # NULL}}
Taken == live \cup Popped

\* The parties that can hold a page, and the page each of them holds.
PreparedPages == {prepared[t] : t \in {u \in Threads : prepared[u] # NULL}}

\* Every page has exactly one owner, whoever was growing or destroying the
\* pool: the heap, the pool, one growing thread or one destroying thread.
\* No page leaks and none is given back to the heap twice.
PageHasOneOwner ==
  /\ Distinct(pageList) /\ \A t \in Threads : Distinct(detached[t])
  /\ \A t, u \in Threads : t # u =>
       /\ prepared[t] # NULL => prepared[t] # prepared[u]
       /\ Range(detached[t]) \cap Range(detached[u]) = {}
  /\ \A p \in Pages :
       Cardinality({S \in {{"heap"} \X heap, {"pool"} \X Range(pageList),
                           {"growing"} \X PreparedPages,
                           {"dying"} \X UNION {Range(detached[t]) : t \in Threads}} :
                     \E who \in S : who[2] = p}) = 1

\* A slot is on the free list or out, never both and never twice, and its
\* page belongs to the pool: no caller, no popping thread and no free-list
\* link ever refers to a page that a concurrent destroy has released.
SlotsBacked ==
  /\ Distinct(freeList)
  /\ Range(freeList) \cap Taken = {}
  /\ \A t, u \in Threads : t # u /\ node[t] # NULL => node[t] # node[u]
  /\ live \cap Popped = {}
  /\ \A s \in Range(freeList) \cup Taken : s[1] \in Range(pageList)

\* Pages and slots have one owner each, and so say the counters that KePoolDestroy and the pool statistics trust: UsedSlots
\* is the number of objects that are out, a popped slot included, and the
\* rest of TotalSlots is on the free list.
PoolAccountedFor ==
  /\ PageHasOneOwner
  /\ SlotsBacked
  /\ usedSlots = Cardinality(Taken)
  /\ totalSlots = usedSlots + Len(freeList)
  /\ usedSlots <= peakUsed /\ peakUsed <= totalSlots

\* The pool keeps the promise of pool.h to its callers.
Promise == INSTANCE ObjectPool
  WITH Objects <- Slots, alive <- (magic = "ALIVE"), allocated <- Taken

KeepsPromise == Promise!Spec
=============================================================================
