---------------------------- MODULE KePoolProofs ----------------------------
(***************************************************************************)
(* Proofs about the object pool, for any number of threads, pages and      *)
(* slots: pages and slots have one owner each and the counters agree       *)
(* (PoolAccounted), and the pool implements the abstract ObjectPool        *)
(* (PromiseKept).                                                          *)
(*                                                                         *)
(* Neither is inductive by itself.  PoolInv adds what a thread holds at    *)
(* each point of a service (Hands), which states of the pool go with which *)
(* magic (Phases), and the owners of the pages one by one (PageOwners).    *)
(***************************************************************************)
EXTENDS KePool, FiniteSetTheorems, TLAPS

-----------------------------------------------------------------------------
(* Lists.                                                                  *)

\* Two lists without a common entry, one behind the other.
LEMMA JoinProperties ==
  ASSUME NEW A, NEW p \in Seq(A), NEW q \in Seq(A)
  PROVE  /\ p \o q \in Seq(A)
         /\ Range(p \o q) = Range(p) \cup Range(q)
         /\ Distinct(p) /\ Distinct(q) /\ Range(p) \cap Range(q) = {} => Distinct(p \o q)
<1> DEFINE r == p \o q
<1>1. /\ r \in Seq(A) /\ Len(r) = Len(p) + Len(q)
      /\ Len(p) \in Nat /\ Len(q) \in Nat
      /\ \A i \in 1 .. Len(p) : r[i] = p[i]
      /\ \A i \in 1 .. Len(q) : r[Len(p) + i] = q[i]
  OBVIOUS
<1>2. DOMAIN r = 1 .. Len(r) /\ DOMAIN p = 1 .. Len(p) /\ DOMAIN q = 1 .. Len(q)
  BY <1>1
<1> HIDE DEF r
<1>3. ASSUME NEW i \in 1 .. Len(r), i > Len(p)
      PROVE  i - Len(p) \in 1 .. Len(q) /\ r[i] = q[i - Len(p)]
  <2>1. i - Len(p) \in 1 .. Len(q) /\ Len(p) + (i - Len(p)) = i
    BY <1>1, <1>3
  <2> QED BY <2>1, <1>1
<1>4. Range(r) = Range(p) \cup Range(q)
  <2>1. ASSUME NEW i \in 1 .. Len(r) PROVE r[i] \in Range(p) \cup Range(q)
    <3>1. CASE i <= Len(p)
      <4>1. i \in DOMAIN p /\ r[i] = p[i]
        BY <3>1, <1>1, <1>2
      <4> QED BY <4>1 DEF Range
    <3>2. CASE i > Len(p)
      <4>1. i - Len(p) \in DOMAIN q /\ r[i] = q[i - Len(p)]
        BY <3>2, <1>2, <1>3
      <4> QED BY <4>1 DEF Range
    <3> QED BY <3>1, <3>2, <1>1
  <2>2. ASSUME NEW i \in 1 .. Len(p) PROVE p[i] \in Range(r)
    <3>1. i \in DOMAIN r /\ r[i] = p[i]
      BY <1>1, <1>2
    <3> QED BY <3>1 DEF Range
  <2>3. ASSUME NEW i \in 1 .. Len(q) PROVE q[i] \in Range(r)
    <3>1. Len(p) + i \in DOMAIN r /\ r[Len(p) + i] = q[i]
      BY <1>1, <1>2
    <3> QED BY <3>1 DEF Range
  <2> QED BY <2>1, <2>2, <2>3, <1>2 DEF Range
<1>5. ASSUME Distinct(p), Distinct(q), Range(p) \cap Range(q) = {} PROVE Distinct(r)
  <2>1. ASSUME NEW i \in 1 .. Len(r), NEW j \in 1 .. Len(r), i < j PROVE r[i] # r[j]
    <3>1. CASE j <= Len(p)
      <4>1. i \in 1 .. Len(p) /\ j \in 1 .. Len(p) /\ r[i] = p[i] /\ r[j] = p[j]
        BY <3>1, <2>1, <1>1
      <4> QED BY <4>1, <2>1, <1>5 DEF Distinct
    <3>2. CASE j > Len(p)
      <4>1. j - Len(p) \in 1 .. Len(q) /\ r[j] = q[j - Len(p)]
        BY <3>2, <1>3
      <4>2. CASE i <= Len(p)
        <5>1. i \in 1 .. Len(p) /\ r[i] = p[i]
          BY <4>2, <1>1
        <5>2. r[i] \in Range(p) /\ r[j] \in Range(q)
          BY <4>1, <5>1, <1>2 DEF Range
        <5> QED BY <5>2, <1>5
      <4>3. CASE i > Len(p)
        <5>1. i - Len(p) \in 1 .. Len(q) /\ r[i] = q[i - Len(p)]
          BY <4>3, <1>3
        <5>2. i - Len(p) # j - Len(p)
          BY <2>1, <1>1
        <5> QED BY <4>1, <5>1, <5>2, <1>5 DEF Distinct
      <4> QED BY <4>2, <4>3, <1>1
    <3> QED BY <3>1, <3>2, <1>1
  <2>2. \A i, j \in 1 .. Len(r) : i # j => i < j \/ j < i
    BY <1>1
  <2> QED BY <2>1, <2>2 DEF Distinct
<1> QED BY <1>1, <1>4, <1>5 DEF r

\* The single entry <<x>>.
LEMMA SingletonProperties ==
  ASSUME NEW A, NEW x \in A
  PROVE  <<x>> \in Seq(A) /\ Range(<<x>>) = {x} /\ Distinct(<<x>>)
<1>1. <<x>> \in Seq(A) /\ Len(<<x>>) = 1 /\ <<x>>[1] = x /\ DOMAIN <<x>> = 1 .. 1
  OBVIOUS
<1> DEFINE s == <<x>>
<1>2. s \in Seq(A) /\ Len(s) = 1 /\ s[1] = x /\ DOMAIN s = 1 .. 1
  BY <1>1
<1> HIDE DEF s
<1>3. Range(s) = {x} /\ Distinct(s)
  BY <1>2 DEF Range, Distinct
<1> QED BY <1>2, <1>3 DEF s

\* The head and the rest of a list.
LEMMA HeadRemoveProperties ==
  ASSUME NEW A, NEW q \in Seq(A), q # << >>
  PROVE  /\ Head(q) \in A /\ Head(q) \in Range(q)
         /\ Tail(q) \in Seq(A)
         /\ Range(q) = Range(Tail(q)) \cup {Head(q)}
         /\ Distinct(q) => Distinct(Tail(q)) /\ Head(q) \notin Range(Tail(q))
<1> DEFINE h == Head(q)
           r == Tail(q)
<1>1. /\ Len(q) \in Nat /\ Len(q) > 0 /\ h = q[1] /\ h \in A
      /\ r \in Seq(A) /\ Len(r) = Len(q) - 1 /\ \A i \in 1 .. Len(q) - 1 : r[i] = q[i + 1]
  OBVIOUS
<1>2. DOMAIN q = 1 .. Len(q) /\ DOMAIN r = 1 .. Len(r)
  BY <1>1
<1> HIDE DEF h, r
<1>3. h \in Range(q)
  BY <1>1, <1>2 DEF Range
<1>4. Range(q) = Range(r) \cup {h}
  <2>1. ASSUME NEW i \in 1 .. Len(q) PROVE q[i] \in Range(r) \cup {h}
    <3>1. CASE i = 1
      BY <3>1, <1>1
    <3>2. CASE i # 1
      <4>1. i - 1 \in 1 .. Len(r) /\ r[i - 1] = q[(i - 1) + 1] /\ (i - 1) + 1 = i
        BY <3>2, <1>1
      <4> QED BY <4>1, <1>2 DEF Range
    <3> QED BY <3>1, <3>2
  <2>2. ASSUME NEW i \in 1 .. Len(r) PROVE r[i] \in Range(q)
    <3>1. i + 1 \in DOMAIN q /\ r[i] = q[i + 1]
      BY <1>1, <1>2
    <3> QED BY <3>1 DEF Range
  <2> QED BY <2>1, <2>2, <1>2, <1>3 DEF Range
<1>5. ASSUME Distinct(q) PROVE Distinct(r) /\ h \notin Range(r)
  <2>1. Distinct(r)
    <3> SUFFICES ASSUME NEW i \in 1 .. Len(r), NEW j \in 1 .. Len(r), i # j
                 PROVE  r[i] # r[j]
      BY DEF Distinct
    <3>1. i + 1 \in 1 .. Len(q) /\ j + 1 \in 1 .. Len(q) /\ i + 1 # j + 1
      BY <1>1
    <3>2. r[i] = q[i + 1] /\ r[j] = q[j + 1]
      BY <1>1
    <3> QED BY <3>1, <3>2, <1>5 DEF Distinct
  <2>2. ASSUME NEW i \in 1 .. Len(r) PROVE r[i] # h
    <3>1. i + 1 \in 1 .. Len(q) /\ 1 \in 1 .. Len(q) /\ i + 1 # 1 /\ r[i] = q[i + 1]
      BY <1>1
    <3> QED BY <3>1, <1>1, <1>5 DEF Distinct
  <2> QED BY <2>1, <2>2, <1>2 DEF Range
<1> QED BY <1>1, <1>3, <1>4, <1>5 DEF h, r

-----------------------------------------------------------------------------
(* The inductive invariant.                                                *)
Places == {"out", "init", "pop", "grow", "prepare", "publish", "orphan", "clear", "release"}

Types ==
  /\ magic \in {"NONE", "ALIVE", "DEAD"}
  /\ freeList \in Seq(Slots) /\ pageList \in Seq(Pages)
  /\ totalSlots \in Nat /\ usedSlots \in Nat /\ peakUsed \in Nat
  /\ pc \in [Threads -> Places]
  /\ prepared \in [Threads -> Pages \cup {NULL}]
  /\ node \in [Threads -> Slots \cup {NULL}]
  /\ detached \in [Threads -> Seq(Pages)]
  /\ heap \subseteq Pages /\ live \subseteq Slots

\* A growing thread has a page, a popping thread a slot, and only a thread that
\* destroys the pool has pages to release.
Hands ==
  \A t \in Threads :
     /\ prepared[t] # NULL <=> pc[t] \in {"publish", "orphan"}
     /\ node[t] # NULL <=> pc[t] = "clear"
     /\ detached[t] # << >> => pc[t] = "release"

\* Initialization runs alone on a pool that is not open, a pool that is not
\* open has no object out, and unless it is being initialized no page either.
Phases ==
  /\ \A t \in Threads : pc[t] = "init" =>
       /\ magic = "NONE" /\ peakUsed = 0
       /\ \A u \in Threads : u # t => pc[u] = "out"
  /\ magic # "ALIVE" => live = {} /\ usedSlots = 0 /\ \A t \in Threads : node[t] = NULL
  /\ magic # "ALIVE" /\ (\A t \in Threads : pc[t] # "init") => pageList = << >>

\* The four kinds of owner of a page, pairwise.
OwnersApart ==
  /\ \A p \in heap : p \notin Range(pageList)
  /\ \A t \in Threads :
       /\ prepared[t] \notin heap /\ prepared[t] \notin Range(pageList)
       /\ Range(detached[t]) \cap heap = {} /\ Range(detached[t]) \cap Range(pageList) = {}
       /\ \A u \in Threads : prepared[t] \notin Range(detached[u])

ThreadsApart ==
  \A t, u \in Threads : t # u =>
     /\ prepared[t] # NULL => prepared[t] # prepared[u]
     /\ Range(detached[t]) \cap Range(detached[u]) = {}

Owned(p) ==
  \/ p \in heap \/ p \in Range(pageList)
  \/ \E t \in Threads : p = prepared[t] \/ p \in Range(detached[t])

PageOwners ==
  /\ Distinct(pageList) /\ \A t \in Threads : Distinct(detached[t])
  /\ OwnersApart /\ ThreadsApart
  /\ \A p \in Pages : Owned(p)

Counters ==
  /\ IsFiniteSet(Taken) /\ usedSlots = Cardinality(Taken)
  /\ totalSlots = usedSlots + Len(freeList)
  /\ usedSlots <= peakUsed /\ peakUsed <= totalSlots

PoolInv == Types /\ Hands /\ Phases /\ PageOwners /\ SlotsBacked /\ Counters

-----------------------------------------------------------------------------
(* Facts about the sequences of the pool.                                  *)

\* What is known of an empty list.
LEMMA Empties ==
  /\ Range(<< >>) = {} /\ Distinct(<< >>) /\ Len(<< >>) = 0
  /\ \A S : << >> \in Seq(S)
  BY DEF Range, Distinct

\* A page is not NULL, and neither is a slot.
LEMMA NotNull == NULL \notin Pages /\ NULL \notin Slots
  BY PoolAssumption

\* The slots of a page that KiPoolPrepareOnePage has chained.
LEMMA ChainProperties ==
  ASSUME NEW p \in Pages
  PROVE  /\ ChainOf(p) \in Seq(Slots) /\ Len(ChainOf(p)) = SlotsPerPage
         /\ Distinct(ChainOf(p)) /\ ChainOf(p) # << >>
         /\ \A s \in Range(ChainOf(p)) : s \in Slots /\ s[1] = p
<1>0. SlotsPerPage \in Nat \ {0}
  BY PoolAssumption
<1> DEFINE c == ChainOf(p)
<1>1. \A i \in 1 .. SlotsPerPage : SlotsPerPage + 1 - i \in 1 .. SlotsPerPage
  BY <1>0
<1>2. c = [i \in 1 .. SlotsPerPage |-> <<p, SlotsPerPage + 1 - i>>]
  BY DEF ChainOf
<1> HIDE DEF c
<1>3. \A i \in 1 .. SlotsPerPage : c[i] = <<p, SlotsPerPage + 1 - i>> /\ c[i] \in Slots
  BY <1>1, <1>2 DEF Slots
<1>4. c \in [1 .. SlotsPerPage -> Slots]
  BY <1>2, <1>3
<1>5. c \in Seq(Slots) /\ Len(c) = SlotsPerPage /\ DOMAIN c = 1 .. SlotsPerPage
  BY <1>0, <1>4
<1>6. Distinct(c)
  <2> SUFFICES ASSUME NEW i \in 1 .. SlotsPerPage, NEW j \in 1 .. SlotsPerPage, i # j
               PROVE  c[i] # c[j]
    BY <1>5 DEF Distinct
  <2>1. SlotsPerPage + 1 - i # SlotsPerPage + 1 - j
    BY <1>0
  <2> QED BY <2>1, <1>3
<1>7. \A s \in Range(c) : s \in Slots /\ s[1] = p
  BY <1>3, <1>5 DEF Range
<1>8. c # << >>
  BY <1>0, <1>5, Empties
<1> QED BY <1>5, <1>6, <1>7, <1>8 DEF c

\* A list with one entry in front, and its length.
LEMMA Pushed ==
  ASSUME NEW A, NEW q \in Seq(A), NEW x \in A
  PROVE  /\ <<x>> \o q \in Seq(A) /\ Len(<<x>> \o q) = Len(q) + 1
         /\ Range(<<x>> \o q) = Range(q) \cup {x}
         /\ Distinct(q) /\ x \notin Range(q) => Distinct(<<x>> \o q)
<1>1. <<x>> \in Seq(A) /\ Range(<<x>>) = {x} /\ Distinct(<<x>>)
  BY SingletonProperties
<1>2. Len(<<x>> \o q) = Len(q) + 1
  OBVIOUS
<1> DEFINE s == <<x>>
<1>3. s \in Seq(A) /\ Range(s) = {x} /\ Distinct(s)
  BY <1>1
<1> HIDE DEF s
<1>4. /\ s \o q \in Seq(A) /\ Range(s \o q) = Range(s) \cup Range(q)
      /\ Distinct(s) /\ Distinct(q) /\ Range(s) \cap Range(q) = {} => Distinct(s \o q)
  BY <1>3, JoinProperties
<1>5. s \o q = <<x>> \o q
  BY DEF s
<1> QED BY <1>2, <1>3, <1>4, <1>5

\* The head of a list and what is left when it is taken off.
LEMMA Popping ==
  ASSUME NEW A, NEW q \in Seq(A), q # << >>
  PROVE  /\ Head(q) \in A /\ Head(q) \in Range(q) /\ Tail(q) \in Seq(A)
         /\ Range(Tail(q)) \subseteq Range(q)
         /\ Range(q) = Range(Tail(q)) \cup {Head(q)}
         /\ Len(Tail(q)) = Len(q) - 1 /\ Len(q) \in Nat /\ Len(q) > 0
         /\ Distinct(q) => Distinct(Tail(q)) /\ Head(q) \notin Range(Tail(q))
<1>1. Len(Tail(q)) = Len(q) - 1 /\ Len(q) \in Nat /\ Len(q) > 0
  OBVIOUS
<1> QED BY <1>1, HeadRemoveProperties

-----------------------------------------------------------------------------
(* The objects that are out.                                               *)

\* A slot is out when a caller or a thread inside the pool has it.
LEMMA TakenMembers ==
  \A s : s \in Taken <=> s \in live \/ \E t \in Threads : node[t] # NULL /\ s = node[t]
  BY DEF Taken, Popped

\* The same of the next state.
LEMMA TakenMembersNext ==
  \A s : s \in Taken' <=> s \in live' \/ \E t \in Threads : node'[t] # NULL /\ s = node'[t]
  BY DEF Taken, Popped

\* A step that leaves the objects and the popped slots alone.
LEMMA SameTaken ==
  ASSUME UNCHANGED <<node, live>>
  PROVE  Taken' = Taken /\ Popped' = Popped
  BY DEF Taken, Popped

\* A step that touches neither slots nor page list keeps their part of PoolInv.
LEMMA SlotsUntouched ==
  ASSUME SlotsBacked, Counters, UNCHANGED <<poolVars, node, live>>
  PROVE  SlotsBacked' /\ Counters'
<1>1. Taken' = Taken /\ Popped' = Popped
  BY SameTaken
<1>2. Range(freeList)' = Range(freeList) /\ Range(pageList)' = Range(pageList)
  BY DEF poolVars
<1>3. Distinct(freeList)' <=> Distinct(freeList)
  BY DEF poolVars
<1>4. freeList' = freeList /\ pageList' = pageList /\ usedSlots' = usedSlots
      /\ totalSlots' = totalSlots /\ peakUsed' = peakUsed /\ node' = node /\ live' = live
  BY DEF poolVars
<1>5. SlotsBacked'
  BY <1>1, <1>2, <1>3, <1>4 DEF SlotsBacked
<1> QED BY <1>1, <1>4, <1>5 DEF Counters

\* A step that moves no page keeps the owners of the pages.
LEMMA PagesUntouched ==
  ASSUME PageOwners, UNCHANGED <<pageList, prepared, detached, heap>>
  PROVE  PageOwners'
  BY DEF PageOwners, OwnersApart, ThreadsApart, Owned

\* A thread moves on inside a service without touching anything shared.
LEMMA QuietStep ==
  ASSUME PoolInv, NEW t \in Threads, NEW place \in Places, Goto(t, place),
         UNCHANGED <<poolVars, prepared, node, detached, heap, live>>,
         pc[t] \in {"publish", "orphan"} <=> place \in {"publish", "orphan"},
         pc[t] \notin {"clear", "init"}, place \notin {"clear", "init"},
         detached[t] = << >>, magic = "ALIVE" \/ pc[t] # "out"
  PROVE  PoolInv'
<1>1. UNCHANGED <<magic, freeList, pageList, totalSlots, usedSlots, peakUsed, prepared, node,
                  detached, heap, live>>
  BY DEF poolVars
<1>2. pc' = [pc EXCEPT ![t] = place] /\ pc \in [Threads -> Places]
  BY DEF Goto, PoolInv, Types
<1>3. Types'
  BY <1>1, <1>2 DEF PoolInv, Types
<1>4. Hands'
  BY <1>1, <1>2 DEF PoolInv, Hands
<1>5. Phases'
  BY <1>1, <1>2 DEF PoolInv, Phases
<1>6. PageOwners'
  BY <1>1, PagesUntouched DEF PoolInv
<1>7. SlotsBacked' /\ Counters'
  BY SlotsUntouched DEF PoolInv
<1> QED BY <1>3, <1>4, <1>5, <1>6, <1>7 DEF PoolInv

-----------------------------------------------------------------------------
(* The initial states, and the actions that only look.                     *)

\* PoolInv holds before the first KePoolInit.
LEMMA InitPool == Init => PoolInv
<1> SUFFICES ASSUME Init PROVE PoolInv
  OBVIOUS
<1>0. SlotsPerPage \in Nat
  BY PoolAssumption
<1>1. Types
  BY Empties DEF Init, Types, Places
<1>2. Hands /\ Phases
  BY DEF Init, Hands, Phases
<1>3. PageOwners
  BY Empties, NotNull DEF Init, PageOwners, OwnersApart, ThreadsApart, Owned
<1>4. Taken = {} /\ live = {} /\ Popped = {}
  BY DEF Init, Taken, Popped
<1>5. SlotsBacked
  BY <1>4, Empties DEF Init, SlotsBacked
<1>6. Counters
  BY <1>4, Empties, FS_EmptySet DEF Init, Counters
<1> QED BY <1>1, <1>2, <1>3, <1>5, <1>6 DEF PoolInv

\* The first look at the magic.
LEMMA AllocPool ==
  ASSUME PoolInv, NEW t \in Threads, KePoolAlloc(t)
  PROVE  PoolInv'
<1>1. detached[t] = << >>
  BY DEF KePoolAlloc, PoolInv, Hands
<1>2. "pop" \in Places
  BY DEF Places
<1> QED BY <1>1, <1>2, QuietStep DEF KePoolAlloc

\* The second look.
LEMMA RecheckPool ==
  ASSUME PoolInv, NEW t \in Threads, RecheckAlive(t)
  PROVE  PoolInv'
<1>1. detached[t] = << >>
  BY DEF RecheckAlive, PoolInv, Hands
<1>2. "prepare" \in Places /\ "out" \in Places
  BY DEF Places
<1>3. PICK place \in {"prepare", "out"} : Goto(t, place)
  BY DEF RecheckAlive
<1> QED BY <1>1, <1>2, <1>3, QuietStep DEF RecheckAlive

-----------------------------------------------------------------------------
(* Popping a slot.                                                         *)

\* A thread that may pop holds no slot and no other thread is initializing.
LEMMA EmptyHanded ==
  ASSUME PoolInv, NEW t \in Threads, pc[t] \in {"pop", "publish"}
  PROVE  node[t] = NULL /\ detached[t] = << >> /\ \A u \in Threads : pc[u] # "init"
  BY DEF PoolInv, Hands, Phases

\* A pop from a free list f of the pool takes one slot out and counts it.
LEMMA PopKeepsSlots ==
  ASSUME SlotsBacked, Counters, Types, NEW t \in Threads, node[t] = NULL,
         NEW f \in Seq(Slots), f # << >>, Distinct(f), Range(f) \cap Taken = {},
         \A s \in Range(f) : s[1] \in Range(pageList'),
         Range(pageList) \subseteq Range(pageList'),
         totalSlots' = usedSlots + Len(f), totalSlots <= totalSlots',
         Pop(t, f), UNCHANGED live
  PROVE  /\ SlotsBacked' /\ Counters' /\ Head(f) # NULL /\ Taken' = Taken \cup {Head(f)}
         /\ usedSlots' \in Nat /\ peakUsed' \in Nat /\ totalSlots' \in Nat
         /\ node' \in [Threads -> Slots \cup {NULL}] /\ freeList' \in Seq(Slots)
         /\ Head(f) \in Slots /\ Head(f) \notin Taken
<1> DEFINE x == Head(f)
           r == Tail(f)
<1>1. /\ x \in Slots /\ x \in Range(f) /\ r \in Seq(Slots)
      /\ Range(f) = Range(r) \cup {x} /\ Len(r) = Len(f) - 1 /\ Len(f) \in Nat /\ Len(f) > 0
      /\ Distinct(r) /\ x \notin Range(r)
  BY Popping
<1>2. /\ freeList' = r /\ node' = [node EXCEPT ![t] = x] /\ usedSlots' = usedSlots + 1
      /\ peakUsed' = IF usedSlots + 1 > peakUsed THEN usedSlots + 1 ELSE peakUsed
  BY DEF Pop
<1>3. x # NULL
  BY <1>1, NotNull
<1> HIDE DEF x, r
<1>4. \A u \in Threads : node'[u] = IF u = t THEN x ELSE node[u]
  BY <1>2 DEF Types
<1>5. Popped' = Popped \cup {x}
  BY <1>3, <1>4 DEF Popped
<1>6. Taken' = Taken \cup {x} /\ x \notin Taken
  BY <1>1, <1>5 DEF Taken
<1>7. \A u \in Threads : node[u] # NULL => node[u] \in Taken
  BY TakenMembers
<1>8. SlotsBacked'
  <2>1. Distinct(freeList)'
    BY <1>1, <1>2
  <2>2. (Range(freeList) \cap Taken = {})'
    BY <1>1, <1>2, <1>6
  <2>3. \A u, v \in Threads : u # v /\ node'[u] # NULL => node'[u] # node'[v]
    BY <1>4, <1>6, <1>7, <1>3 DEF SlotsBacked
  <2>4. (live \cap Popped = {})'
    BY <1>5, <1>6 DEF SlotsBacked, Taken
  <2>5. \A s \in Range(freeList') \cup Taken' : s[1] \in Range(pageList')
    BY <1>1, <1>2, <1>6 DEF SlotsBacked
  <2> QED BY <2>1, <2>2, <2>3, <2>4, <2>5 DEF SlotsBacked
<1>9. Counters'
  <2>1. IsFiniteSet(Taken') /\ Cardinality(Taken') = Cardinality(Taken) + 1
    BY <1>6, FS_AddElement DEF Counters
  <2>2. usedSlots' = Cardinality(Taken') /\ usedSlots \in Nat /\ peakUsed \in Nat /\ totalSlots \in Nat
    BY <2>1, <1>2 DEF Counters, Types
  <2>3. totalSlots' = usedSlots' + Len(freeList')
    <3>1. Len(freeList') = Len(f) - 1 /\ Len(f) \in Nat
      BY <1>1, <1>2
    <3>2. usedSlots' = usedSlots + 1
      BY <1>2
    <3> QED BY <2>2, <3>1, <3>2
  <2>4. usedSlots' <= peakUsed' /\ peakUsed' <= totalSlots'
    BY <2>2, <1>1, <1>2 DEF Counters
  <2> QED BY <2>1, <2>2, <2>3, <2>4 DEF Counters
<1>10. /\ usedSlots' \in Nat /\ peakUsed' \in Nat /\ totalSlots' \in Nat
       /\ node' \in [Threads -> Slots \cup {NULL}] /\ freeList' \in Seq(Slots)
  BY <1>1, <1>2 DEF Types
<1> QED BY <1>1, <1>3, <1>6, <1>8, <1>9, <1>10 DEF x

\* What an allocation's step may do to the objects that are out.
PopsAtMostOne ==
  /\ magic' = magic
  /\ \/ Taken' = Taken
     \/ magic = "ALIVE" /\ \E s \in Slots : s \notin Taken /\ Taken' = Taken \cup {s}

\* Where the threads stand after a pop.
LEMMA PopKeepsHands ==
  ASSUME PoolInv, NEW t \in Threads, pc[t] \in {"pop", "publish"}, NEW x \in Slots,
         node' = [node EXCEPT ![t] = x], Goto(t, "clear"), magic = "ALIVE",
         prepared' = [prepared EXCEPT ![t] = NULL],
         UNCHANGED <<magic, detached>>
  PROVE  Hands' /\ Phases' /\ pc' \in [Threads -> Places]
<1>1. x # NULL
  BY NotNull
<1>2. /\ pc \in [Threads -> Places] /\ node \in [Threads -> Slots \cup {NULL}]
      /\ prepared \in [Threads -> Pages \cup {NULL}]
  BY DEF PoolInv, Types
<1>3. \A u \in Threads : /\ pc'[u] = IF u = t THEN "clear" ELSE pc[u]
                         /\ node'[u] = IF u = t THEN x ELSE node[u]
                         /\ prepared'[u] = IF u = t THEN NULL ELSE prepared[u]
  BY <1>2 DEF Goto
<1>4. detached[t] = << >> /\ \A u \in Threads : pc[u] # "init"
  BY EmptyHanded
<1>5. Hands'
  BY <1>1, <1>3, <1>4 DEF PoolInv, Hands
<1>6. Phases'
  BY <1>3, <1>4 DEF Phases
<1>7. pc' \in [Threads -> Places]
  BY <1>2 DEF Goto, Places
<1> QED BY <1>5, <1>6, <1>7

\* KiPoolTryPopNode.
LEMMA TryPopPool ==
  ASSUME PoolInv, NEW t \in Threads, KiPoolTryPopNode(t)
  PROVE  PoolInv' /\ PopsAtMostOne
<1>1. CASE magic = "ALIVE" /\ freeList # << >>
  <2>1. /\ pc[t] = "pop" /\ Pop(t, freeList) /\ Goto(t, "clear")
        /\ UNCHANGED <<magic, pageList, totalSlots, prepared, detached, heap, live>>
    BY <1>1 DEF KiPoolTryPopNode
  <2>2. node[t] = NULL /\ prepared[t] = NULL
    BY <2>1 DEF PoolInv, Hands
  <2>3. /\ freeList \in Seq(Slots) /\ Distinct(freeList) /\ Range(freeList) \cap Taken = {}
        /\ \A s \in Range(freeList) : s[1] \in Range(pageList)
        /\ totalSlots = usedSlots + Len(freeList) /\ totalSlots <= totalSlots
        /\ SlotsBacked /\ Counters /\ Types
    BY DEF PoolInv, Types, SlotsBacked, Counters
  <2>4. pageList' = pageList /\ totalSlots' = totalSlots /\ live' = live
    BY <2>1
  <2>5. /\ SlotsBacked' /\ Counters' /\ usedSlots' \in Nat /\ peakUsed' \in Nat /\ totalSlots' \in Nat
        /\ node' \in [Threads -> Slots \cup {NULL}] /\ freeList' \in Seq(Slots)
        /\ Head(freeList) \in Slots /\ Head(freeList) \notin Taken
        /\ Taken' = Taken \cup {Head(freeList)}
    <3>1. \A s \in Range(freeList) : s[1] \in Range(pageList')
      BY <2>3, <2>4
    <3>2. Range(pageList) \subseteq Range(pageList')
      BY <2>4
    <3>3. totalSlots' = usedSlots + Len(freeList) /\ totalSlots <= totalSlots'
      BY <2>3, <2>4
    <3> QED BY <1>1, <2>1, <2>2, <2>3, <2>4, <3>1, <3>2, <3>3, PopKeepsSlots
  <2>6. prepared' = [prepared EXCEPT ![t] = NULL]
    BY <2>1, <2>2 DEF PoolInv, Types
  <2>7. node' = [node EXCEPT ![t] = Head(freeList)]
    BY <2>1 DEF Pop
  <2>8. Hands' /\ Phases' /\ pc' \in [Threads -> Places]
    BY <1>1, <2>1, <2>5, <2>6, <2>7, PopKeepsHands
  <2>9. PageOwners'
    BY <2>1, PagesUntouched DEF PoolInv
  <2>10. Types'
    BY <2>1, <2>5, <2>8 DEF PoolInv, Types
  <2>11. PopsAtMostOne
    BY <1>1, <2>1, <2>5 DEF PopsAtMostOne
  <2> QED BY <2>5, <2>8, <2>9, <2>10, <2>11 DEF PoolInv
<1>2. CASE ~(magic = "ALIVE" /\ freeList # << >>)
  <2>1. /\ pc[t] = "pop" /\ Goto(t, "grow") /\ "grow" \in Places
        /\ UNCHANGED <<poolVars, node, prepared, detached, heap, live>>
    BY <1>2 DEF KiPoolTryPopNode, Places
  <2>2. detached[t] = << >>
    BY <2>1 DEF PoolInv, Hands
  <2>3. PopsAtMostOne
    BY <2>1, SameTaken DEF PopsAtMostOne, poolVars
  <2> QED BY <2>1, <2>2, <2>3, QuietStep
<1> QED BY <1>1, <1>2

-----------------------------------------------------------------------------
(* The page of a growing thread.                                           *)

\* KiPoolPrepareOnePage moves a page from the heap into the thread's hands.
LEMMA PreparePool ==
  ASSUME PoolInv, NEW t \in Threads, KiPoolPrepareOnePage(t)
  PROVE  PoolInv'
<1>0. /\ pc[t] = "prepare" /\ UNCHANGED <<poolVars, node, detached, live>>
      /\ prepared[t] = NULL /\ detached[t] = << >> /\ \A u \in Threads : pc[u] # "init"
  BY DEF KiPoolPrepareOnePage, PoolInv, Hands, Phases
<1>1. CASE Goto(t, "out") /\ UNCHANGED <<heap, prepared>>
  <2>1. "out" \in Places
    BY DEF Places
  <2> QED BY <1>0, <1>1, <2>1, QuietStep
<1>2. CASE \E p \in heap : /\ heap' = heap \ {p}
                           /\ prepared' = [prepared EXCEPT ![t] = p]
                           /\ Goto(t, "publish")
  <2>1. PICK p \in heap : /\ heap' = heap \ {p}
                          /\ prepared' = [prepared EXCEPT ![t] = p]
                          /\ pc' = [pc EXCEPT ![t] = "publish"]
    BY <1>2 DEF Goto
  <2>2. /\ pc \in [Threads -> Places] /\ prepared \in [Threads -> Pages \cup {NULL}]
        /\ heap \subseteq Pages /\ p \in Pages /\ p # NULL
    BY NotNull DEF PoolInv, Types
  <2>3. \A u \in Threads : /\ pc'[u] = IF u = t THEN "publish" ELSE pc[u]
                           /\ prepared'[u] = IF u = t THEN p ELSE prepared[u]
    BY <2>1, <2>2
  <2>4. UNCHANGED <<magic, freeList, pageList, totalSlots, usedSlots, peakUsed, node, detached, live>>
    BY <1>0 DEF poolVars
  <2>5. Types'
    BY <2>1, <2>2, <2>4 DEF PoolInv, Types, Places
  <2>6. Hands'
    BY <1>0, <2>2, <2>3, <2>4 DEF PoolInv, Hands
  <2>7. Phases'
    BY <1>0, <2>3, <2>4 DEF PoolInv, Phases
  <2>8. OwnersApart'
    BY <1>0, <2>1, <2>3, <2>4 DEF PoolInv, PageOwners, OwnersApart
  <2>9. ThreadsApart'
    BY <2>3, <2>4 DEF PoolInv, PageOwners, ThreadsApart, OwnersApart
  <2>10. ASSUME NEW q \in Pages PROVE Owned(q)'
    <3>1. Owned(q)
      BY DEF PoolInv, PageOwners
    <3>2. q # NULL
      BY NotNull
    <3> QED BY <1>0, <2>1, <2>3, <2>4, <3>1, <3>2 DEF Owned
  <2>11. PageOwners'
    BY <2>4, <2>8, <2>9, <2>10 DEF PoolInv, PageOwners
  <2>12. SlotsBacked' /\ Counters'
    BY <1>0, SlotsUntouched DEF PoolInv
  <2> QED BY <2>5, <2>6, <2>7, <2>11, <2>12 DEF PoolInv
<1> QED BY <1>1, <1>2 DEF KiPoolPrepareOnePage

\* A page that its thread holds alone joins the page list.
LEMMA PublishKeepsPages ==
  ASSUME PoolInv, NEW t \in Threads, prepared[t] # NULL,
         pageList' = <<prepared[t]>> \o pageList,
         prepared' = [prepared EXCEPT ![t] = NULL],
         UNCHANGED <<detached, heap>>
  PROVE  /\ PageOwners' /\ pageList' \in Seq(Pages) /\ Range(pageList') = Range(pageList) \cup {prepared[t]}
         /\ prepared[t] \in Pages /\ prepared[t] \notin Range(pageList)
         /\ prepared' \in [Threads -> Pages \cup {NULL}]
<1> DEFINE p == prepared[t]
<1>1. /\ p \in Pages /\ p \notin Range(pageList) /\ pageList \in Seq(Pages) /\ Distinct(pageList)
      /\ prepared \in [Threads -> Pages \cup {NULL}]
  BY DEF PoolInv, Types, PageOwners, OwnersApart
<1>2. pageList' = <<p>> \o pageList /\ p # NULL
  OBVIOUS
<1>3. \A u \in Threads : prepared'[u] = IF u = t THEN NULL ELSE prepared[u]
  BY <1>1
<1>4. \A u \in Threads : prepared[u] = p => u = t
  BY <1>1, <1>2 DEF PoolInv, PageOwners, ThreadsApart
<1>5. p \notin heap /\ \A u \in Threads : p \notin Range(detached[u])
  BY DEF PoolInv, PageOwners, OwnersApart
<1>6. prepared[t] = p
  OBVIOUS
<1> HIDE DEF p
<1>7. /\ pageList' \in Seq(Pages) /\ Range(pageList') = Range(pageList) \cup {p} /\ Distinct(pageList')
  BY <1>1, <1>2, Pushed
<1>8. NULL \notin Pages /\ heap \subseteq Pages /\ Range(pageList') \subseteq Pages
      /\ \A u \in Threads : Range(detached[u]) \subseteq Pages
  <2>1. \A q \in Seq(Pages) : Range(q) \subseteq Pages
    BY DEF Range
  <2> QED BY <1>7, <2>1, NotNull DEF PoolInv, Types
<1>9. OwnersApart'
  BY <1>3, <1>4, <1>5, <1>7, <1>8 DEF PoolInv, PageOwners, OwnersApart
<1>10. ThreadsApart'
  BY <1>3 DEF PoolInv, PageOwners, ThreadsApart
<1>11. ASSUME NEW q \in Pages PROVE Owned(q)'
  <2>1. Owned(q)
    BY DEF PoolInv, PageOwners
  <2> QED BY <1>3, <1>6, <1>7, <2>1 DEF Owned
<1>12. PageOwners'
  BY <1>7, <1>9, <1>10, <1>11 DEF PoolInv, PageOwners
<1>13. prepared' \in [Threads -> Pages \cup {NULL}]
  BY <1>1
<1> QED BY <1>1, <1>6, <1>7, <1>12, <1>13

\* KiPoolPublishPreparedPageAndPop.
LEMMA PublishPool ==
  ASSUME PoolInv, NEW t \in Threads, KiPoolPublishPreparedPageAndPop(t)
  PROVE  PoolInv' /\ PopsAtMostOne
<1> DEFINE p == prepared[t]
           f == ChainOf(p) \o freeList
<1>0. pc[t] = "publish" /\ p # NULL /\ node[t] = NULL /\ detached[t] = << >>
      /\ UNCHANGED <<detached, heap, live>>
  BY DEF KiPoolPublishPreparedPageAndPop, PoolInv, Hands
<1>1. CASE magic = "ALIVE"
  <2>1. /\ totalSlots' = totalSlots + SlotsPerPage /\ pageList' = <<p>> \o pageList
        /\ Pop(t, f) /\ prepared' = [prepared EXCEPT ![t] = NULL] /\ Goto(t, "clear")
        /\ UNCHANGED magic
    BY <1>1 DEF KiPoolPublishPreparedPageAndPop
  <2>2. /\ PageOwners' /\ pageList' \in Seq(Pages) /\ Range(pageList') = Range(pageList) \cup {p}
        /\ p \in Pages /\ p \notin Range(pageList)
        /\ prepared' \in [Threads -> Pages \cup {NULL}]
    BY <1>0, <2>1, PublishKeepsPages
  <2> HIDE DEF p
  <2>3. /\ ChainOf(p) \in Seq(Slots) /\ Len(ChainOf(p)) = SlotsPerPage /\ Distinct(ChainOf(p))
        /\ ChainOf(p) # << >> /\ \A s \in Range(ChainOf(p)) : s \in Slots /\ s[1] = p
    BY <2>2, ChainProperties
  <2>4. /\ freeList \in Seq(Slots) /\ Distinct(freeList) /\ Range(freeList) \cap Taken = {}
        /\ \A s \in Range(freeList) \cup Taken : s[1] \in Range(pageList)
        /\ totalSlots = usedSlots + Len(freeList) /\ usedSlots \in Nat /\ totalSlots \in Nat
        /\ SlotsBacked /\ Counters /\ Types
    BY DEF PoolInv, Types, SlotsBacked, Counters
  <2>5. Range(ChainOf(p)) \cap (Range(freeList) \cup Taken) = {}
    BY <2>2, <2>3, <2>4
  <2>6. /\ f \in Seq(Slots) /\ Range(f) = Range(ChainOf(p)) \cup Range(freeList) /\ Distinct(f)
    BY <2>3, <2>4, <2>5, JoinProperties
  <2>7. Len(f) = SlotsPerPage + Len(freeList) /\ SlotsPerPage \in Nat \ {0} /\ Len(freeList) \in Nat
    BY <2>3, <2>4, PoolAssumption
  <2> HIDE DEF f
  <2>8. f # << >>
    BY <2>6, <2>7, Empties
  <2>9. Range(f) \cap Taken = {} /\ \A s \in Range(f) : s[1] \in Range(pageList')
    BY <2>2, <2>3, <2>4, <2>5, <2>6
  <2>10. totalSlots' = usedSlots + Len(f) /\ totalSlots <= totalSlots'
    BY <2>1, <2>4, <2>7
  <2>11. Range(pageList) \subseteq Range(pageList')
    BY <2>2
  <2>12. /\ SlotsBacked' /\ Counters' /\ usedSlots' \in Nat /\ peakUsed' \in Nat /\ totalSlots' \in Nat
         /\ node' \in [Threads -> Slots \cup {NULL}] /\ freeList' \in Seq(Slots) /\ Head(f) \in Slots
         /\ Head(f) \notin Taken /\ Taken' = Taken \cup {Head(f)}
    BY <1>0, <2>1, <2>4, <2>6, <2>8, <2>9, <2>10, <2>11, PopKeepsSlots
  <2>13. node' = [node EXCEPT ![t] = Head(f)]
    BY <2>1 DEF Pop
  <2>14. Hands' /\ Phases' /\ pc' \in [Threads -> Places]
    BY <1>0, <1>1, <2>1, <2>12, <2>13, PopKeepsHands
  <2>15. Types'
    BY <1>0, <2>1, <2>2, <2>12, <2>14 DEF PoolInv, Types
  <2>16. PopsAtMostOne
    BY <1>1, <2>1, <2>12 DEF PopsAtMostOne
  <2> QED BY <2>2, <2>12, <2>14, <2>15, <2>16 DEF PoolInv
<1>2. CASE magic # "ALIVE"
  <2>1. Goto(t, "orphan") /\ UNCHANGED <<poolVars, prepared, node>> /\ "orphan" \in Places
    BY <1>2 DEF KiPoolPublishPreparedPageAndPop, Places
  <2>2. PopsAtMostOne
    BY <1>0, <2>1, SameTaken DEF PopsAtMostOne, poolVars
  <2> QED BY <1>0, <2>1, <2>2, QuietStep
<1> QED BY <1>1, <1>2

\* FreeOrphan gives the page back to the heap.
LEMMA OrphanPool ==
  ASSUME PoolInv, NEW t \in Threads, FreeOrphan(t)
  PROVE  PoolInv'
<1> DEFINE p == prepared[t]
<1>1. /\ pc[t] = "orphan" /\ heap' = heap \cup {p} /\ prepared' = [prepared EXCEPT ![t] = NULL]
      /\ pc' = [pc EXCEPT ![t] = "out"]
      /\ UNCHANGED <<poolVars, node, detached, live>>
  BY DEF FreeOrphan, Goto
<1>2. /\ p # NULL /\ detached[t] = << >> /\ \A u \in Threads : pc[u] # "init"
  BY <1>1 DEF PoolInv, Hands, Phases
<1>3. /\ pc \in [Threads -> Places] /\ prepared \in [Threads -> Pages \cup {NULL}]
      /\ heap \subseteq Pages /\ p \in Pages /\ NULL \notin Pages
  BY <1>2, NotNull DEF PoolInv, Types
<1>4. \A u \in Threads : /\ pc'[u] = IF u = t THEN "out" ELSE pc[u]
                         /\ prepared'[u] = IF u = t THEN NULL ELSE prepared[u]
  BY <1>1, <1>3
<1>5. UNCHANGED <<magic, freeList, pageList, totalSlots, usedSlots, peakUsed, node, detached, live>>
  BY <1>1 DEF poolVars
<1>6. /\ p \notin Range(pageList) /\ p \notin heap
      /\ \A u \in Threads : p \notin Range(detached[u]) /\ (prepared[u] = p => u = t)
  BY <1>2 DEF PoolInv, PageOwners, OwnersApart, ThreadsApart
<1>7. prepared[t] = p
  OBVIOUS
<1> HIDE DEF p
<1>8. Types'
  BY <1>1, <1>3, <1>5 DEF PoolInv, Types, Places
<1>9. Hands'
  BY <1>2, <1>4, <1>5, <1>1 DEF PoolInv, Hands
<1>10. Phases'
  BY <1>2, <1>4, <1>5 DEF PoolInv, Phases
<1>11. /\ Range(pageList) \subseteq Pages /\ \A u \in Threads : Range(detached[u]) \subseteq Pages
  <2>1. \A q \in Seq(Pages) : Range(q) \subseteq Pages
    BY DEF Range
  <2> QED BY <2>1 DEF PoolInv, Types
<1>12. OwnersApart'
  BY <1>1, <1>3, <1>4, <1>5, <1>6, <1>11 DEF PoolInv, PageOwners, OwnersApart
<1>13. ThreadsApart'
  BY <1>4, <1>5 DEF PoolInv, PageOwners, ThreadsApart
<1>14. ASSUME NEW q \in Pages PROVE Owned(q)'
  <2>1. Owned(q)
    BY DEF PoolInv, PageOwners
  <2> QED BY <1>1, <1>4, <1>5, <1>7, <2>1 DEF Owned
<1>15. PageOwners'
  BY <1>5, <1>12, <1>13, <1>14 DEF PoolInv, PageOwners
<1>16. SlotsBacked' /\ Counters'
  BY <1>1, SlotsUntouched DEF PoolInv
<1> QED BY <1>8, <1>9, <1>10, <1>15, <1>16 DEF PoolInv

-----------------------------------------------------------------------------
(* Slots that go to the callers and come back.                             *)

\* ClearNode hands the popped slot to the caller; it was out already.
LEMMA ClearPool ==
  ASSUME PoolInv, NEW t \in Threads, ClearNode(t)
  PROVE  PoolInv' /\ Taken' = Taken
<1> DEFINE x == node[t]
<1>1. /\ pc[t] = "clear" /\ live' = live \cup {x} /\ node' = [node EXCEPT ![t] = NULL]
      /\ pc' = [pc EXCEPT ![t] = "out"]
      /\ UNCHANGED <<magic, freeList, pageList, totalSlots, usedSlots, peakUsed, prepared, detached, heap>>
  BY DEF ClearNode, Goto, poolVars
<1>2. /\ x # NULL /\ x \in Slots /\ node \in [Threads -> Slots \cup {NULL}] /\ pc \in [Threads -> Places]
      /\ live \subseteq Slots
  BY <1>1 DEF PoolInv, Hands, Types
<1>3. node[t] = x
  OBVIOUS
<1> HIDE DEF x
<1>4. \A u \in Threads : /\ pc'[u] = IF u = t THEN "out" ELSE pc[u]
                         /\ node'[u] = IF u = t THEN NULL ELSE node[u]
  BY <1>1, <1>2
<1>5. magic = "ALIVE" /\ detached[t] = << >> /\ prepared[t] = NULL
  BY <1>1, <1>2, <1>3 DEF PoolInv, Hands, Phases
<1>6. Popped' = Popped \ {x}
  BY <1>2, <1>3, <1>4 DEF Popped, PoolInv, SlotsBacked
<1>7. x \in Popped /\ x \notin live
  BY <1>2, <1>3 DEF Popped, PoolInv, SlotsBacked
<1>8. Taken' = Taken
  BY <1>1, <1>6, <1>7 DEF Taken
<1>9. Types'
  BY <1>1, <1>2 DEF PoolInv, Types, Places
<1>10. Hands'
  BY <1>1, <1>4, <1>5 DEF PoolInv, Hands
<1>11. Phases'
  BY <1>1, <1>4, <1>5 DEF PoolInv, Phases
<1>12. PageOwners'
  BY <1>1, PagesUntouched DEF PoolInv
<1>13. SlotsBacked'
  <2>1. (live \cap Popped = {})'
    BY <1>1, <1>6, <1>7 DEF PoolInv, SlotsBacked
  <2>2. \A u, v \in Threads : u # v /\ node'[u] # NULL => node'[u] # node'[v]
    BY <1>4 DEF PoolInv, SlotsBacked
  <2>3. freeList' = freeList /\ pageList' = pageList
    BY <1>1
  <2>4. Distinct(freeList') /\ Range(freeList') \cap Taken' = {}
    BY <1>8, <2>3 DEF PoolInv, SlotsBacked
  <2>5. \A s \in Range(freeList') \cup Taken' : s[1] \in Range(pageList')
    BY <1>8, <2>3 DEF PoolInv, SlotsBacked
  <2> QED BY <2>1, <2>2, <2>4, <2>5 DEF SlotsBacked
<1>14. Counters'
  BY <1>1, <1>8 DEF PoolInv, Counters
<1> QED BY <1>8, <1>9, <1>10, <1>11, <1>12, <1>13, <1>14 DEF PoolInv

\* An object can only be out of a pool that is alive.
LEMMA TakenAlive ==
  ASSUME PoolInv, NEW s \in Taken
  PROVE  magic = "ALIVE"
  BY TakenMembers DEF PoolInv, Phases

\* KePoolFree takes the object out of the callers' hands.
LEMMA FreePool ==
  ASSUME PoolInv, NEW t \in Threads, NEW object \in live, KePoolFree(t, object)
  PROVE  PoolInv' /\ Taken' = Taken \ {object}
<1>1. /\ pc[t] = "out" /\ freeList' = <<object>> \o freeList /\ usedSlots' = usedSlots - 1
      /\ live' = live \ {object}
      /\ UNCHANGED <<magic, pageList, totalSlots, peakUsed, pc, prepared, node, detached, heap>>
  BY DEF KePoolFree
<1>2. object \in Taken /\ object \in Slots /\ magic = "ALIVE"
  BY TakenMembers, TakenAlive DEF PoolInv, Types
<1>3. /\ freeList \in Seq(Slots) /\ Distinct(freeList) /\ object \notin Range(freeList)
  BY <1>2 DEF PoolInv, Types, SlotsBacked
<1>4. /\ freeList' \in Seq(Slots) /\ Len(freeList') = Len(freeList) + 1 /\ Distinct(freeList')
      /\ Range(freeList') = Range(freeList) \cup {object}
  BY <1>1, <1>2, <1>3, Pushed
<1>5. Popped' = Popped /\ object \notin Popped
  BY <1>1 DEF Popped, PoolInv, SlotsBacked
<1>6. Taken' = Taken \ {object}
  BY <1>1, <1>5 DEF Taken
<1>7. /\ IsFiniteSet(Taken') /\ Cardinality(Taken') = Cardinality(Taken) - 1
      /\ Cardinality(Taken) \in Nat /\ Cardinality(Taken') \in Nat
  BY <1>2, <1>6, FS_RemoveElement, FS_CardinalityType DEF PoolInv, Counters
<1>8. Counters'
  <2>1. usedSlots' = Cardinality(Taken')
    BY <1>1, <1>7 DEF PoolInv, Counters
  <2>2. Len(freeList) \in Nat /\ usedSlots \in Nat /\ totalSlots \in Nat /\ peakUsed \in Nat
    BY <1>3 DEF PoolInv, Types
  <2>3. totalSlots' = usedSlots' + Len(freeList')
    BY <1>1, <1>4, <2>2 DEF PoolInv, Counters
  <2>4. usedSlots' <= peakUsed' /\ peakUsed' <= totalSlots'
    BY <1>1, <2>2 DEF PoolInv, Counters
  <2> QED BY <1>7, <2>1, <2>3, <2>4 DEF Counters
<1>9. Types'
  BY <1>1, <1>4, <1>7 DEF PoolInv, Types, Counters
<1>10. Hands' /\ Phases'
  BY <1>1, <1>2 DEF PoolInv, Hands, Phases
<1>11. PageOwners'
  BY <1>1, PagesUntouched DEF PoolInv
<1>12. SlotsBacked'
  <2>1. Range(freeList') \cap Taken' = {} /\ live' \cap Popped' = {}
    BY <1>1, <1>4, <1>5, <1>6 DEF PoolInv, SlotsBacked
  <2>2. pageList' = pageList /\ node' = node
    BY <1>1
  <2>3. \A s \in Range(freeList') \cup Taken' : s[1] \in Range(pageList')
    BY <1>2, <1>4, <1>6, <2>2 DEF PoolInv, SlotsBacked
  <2> QED BY <1>4, <2>1, <2>2, <2>3 DEF PoolInv, SlotsBacked
<1> QED BY <1>6, <1>8, <1>9, <1>10, <1>11, <1>12 DEF PoolInv

\* A pool whose counter of used slots is zero has no object out.
LEMMA NothingOut ==
  ASSUME PoolInv, usedSlots = 0
  PROVE  Taken = {} /\ live = {} /\ \A u \in Threads : node[u] = NULL /\ pc[u] # "clear"
<1>1. Taken = {}
  BY FS_EmptySet DEF PoolInv, Counters
<1>2. \A u \in Threads : node[u] = NULL
  BY <1>1, TakenMembers
<1>3. live = {}
  BY <1>1, TakenMembers
<1> QED BY <1>1, <1>2, <1>3 DEF PoolInv, Hands

-----------------------------------------------------------------------------
(* Destruction.                                                            *)

\* KePoolDestroy moves the page list into the hands of the thread.
LEMMA DestroyPool ==
  ASSUME PoolInv, NEW t \in Threads, KePoolDestroy(t)
  PROVE  PoolInv' /\ Taken' = Taken /\ Taken = {}
<1>1. /\ pc[t] = "out" /\ magic = "ALIVE" /\ usedSlots = 0 /\ magic' = "DEAD"
      /\ freeList' = << >> /\ pageList' = << >> /\ totalSlots' = 0 /\ usedSlots' = 0 /\ peakUsed' = 0
      /\ detached' = [detached EXCEPT ![t] = pageList] /\ pc' = [pc EXCEPT ![t] = "release"]
      /\ UNCHANGED <<prepared, node, heap, live>>
  BY DEF KePoolDestroy, Goto
<1>2. /\ Taken = {} /\ live = {} /\ \A u \in Threads : node[u] = NULL /\ pc[u] # "clear"
  BY <1>1, NothingOut
<1>3. detached[t] = << >> /\ prepared[t] = NULL /\ \A u \in Threads : pc[u] # "init"
  BY <1>1 DEF PoolInv, Hands, Phases
<1>4. /\ pc \in [Threads -> Places] /\ detached \in [Threads -> Seq(Pages)] /\ pageList \in Seq(Pages)
  BY DEF PoolInv, Types
<1>5. \A u \in Threads : /\ pc'[u] = IF u = t THEN "release" ELSE pc[u]
                         /\ detached'[u] = IF u = t THEN pageList ELSE detached[u]
  BY <1>1, <1>4
<1>6. Types'
  BY <1>1, <1>4, Empties DEF PoolInv, Types, Places
<1>7. Hands'
  BY <1>1, <1>3, <1>5 DEF PoolInv, Hands
<1>8. Phases'
  BY <1>1, <1>2, <1>3, <1>5 DEF Phases
<1>9. Range(pageList') = {} /\ Distinct(pageList') /\ Range(freeList') = {} /\ Distinct(freeList')
      /\ Len(freeList') = 0
  BY <1>1, Empties
<1>10. OwnersApart'
  BY <1>1, <1>3, <1>5, <1>9 DEF PoolInv, PageOwners, OwnersApart
<1>11. ThreadsApart'
  BY <1>1, <1>5 DEF PoolInv, PageOwners, OwnersApart, ThreadsApart
<1>12. ASSUME NEW q \in Pages PROVE Owned(q)'
  <2>1. Owned(q) /\ q # NULL
    BY NotNull DEF PoolInv, PageOwners
  <2>2. q \notin Range(detached[t])
    BY <1>3, Empties
  <2> QED BY <1>1, <1>5, <2>1, <2>2 DEF Owned
<1>13. PageOwners'
  BY <1>5, <1>9, <1>10, <1>11, <1>12 DEF PoolInv, PageOwners
<1>14. Taken' = Taken /\ Popped' = Popped
  BY <1>1, SameTaken
<1>15. SlotsBacked'
  BY <1>1, <1>2, <1>9, <1>14 DEF PoolInv, SlotsBacked
<1>16. Counters'
  BY <1>1, <1>2, <1>9, <1>14, FS_EmptySet DEF Counters
<1> QED BY <1>2, <1>6, <1>7, <1>8, <1>13, <1>14, <1>15, <1>16 DEF PoolInv

\* ReleaseDetachedPage gives the first of those pages back.
LEMMA ReleasePool ==
  ASSUME PoolInv, NEW t \in Threads, ReleaseDetachedPage(t)
  PROVE  PoolInv'
<1>0. pc[t] = "release" /\ UNCHANGED <<poolVars, prepared, node, live>>
      /\ detached[t] \in Seq(Pages) /\ detached \in [Threads -> Seq(Pages)]
  BY DEF ReleaseDetachedPage, PoolInv, Types
<1>1. CASE detached[t] = << >>
  <2>1. Goto(t, "out") /\ UNCHANGED <<heap, detached>> /\ "out" \in Places
    BY <1>1 DEF ReleaseDetachedPage, Places
  <2> QED BY <1>0, <1>1, <2>1, QuietStep
<1>2. CASE detached[t] # << >>
  <2> DEFINE p == Head(detached[t])
             r == Tail(detached[t])
  <2>1. heap' = heap \cup {p} /\ detached' = [detached EXCEPT ![t] = r] /\ UNCHANGED pc
    BY <1>2 DEF ReleaseDetachedPage
  <2>2. UNCHANGED <<magic, freeList, pageList, totalSlots, usedSlots, peakUsed, prepared, node, live>>
    BY <1>0 DEF poolVars
  <2>3. Distinct(detached[t])
    BY DEF PoolInv, PageOwners
  <2>4. /\ p \in Pages /\ r \in Seq(Pages) /\ Range(detached[t]) = Range(r) \cup {p}
        /\ Distinct(r) /\ p \notin Range(r) /\ p \in Range(detached[t])
    BY <1>0, <1>2, <2>3, Popping
  <2> HIDE DEF p, r
  <2>5. \A u \in Threads : detached'[u] = IF u = t THEN r ELSE detached[u]
    BY <1>0, <2>1
  <2>6. /\ p \notin heap /\ p \notin Range(pageList)
        /\ \A u \in Threads : p # prepared[u] /\ (u # t => p \notin Range(detached[u]))
    BY <2>4 DEF PoolInv, PageOwners, OwnersApart, ThreadsApart
  <2>7. Types'
    BY <2>1, <2>2, <2>4 DEF PoolInv, Types
  <2>8. Hands'
    BY <1>0, <2>1, <2>2, <2>5 DEF PoolInv, Hands
  <2>9. Phases'
    BY <2>1, <2>2 DEF PoolInv, Phases
  <2>10. \A u \in Threads : Range(detached'[u]) = Range(detached[u]) \ {p}
    BY <2>4, <2>5, <2>6
  <2>11. OwnersApart'
    BY <2>1, <2>2, <2>6, <2>10 DEF PoolInv, PageOwners, OwnersApart
  <2>12. ThreadsApart'
    BY <2>2, <2>10 DEF PoolInv, PageOwners, ThreadsApart
  <2>13. ASSUME NEW q \in Pages PROVE Owned(q)'
    <3>1. Owned(q)
      BY DEF PoolInv, PageOwners
    <3> QED BY <2>1, <2>2, <2>10, <3>1 DEF Owned
  <2>14. \A u \in Threads : Distinct(detached'[u])
    BY <2>4, <2>5 DEF PoolInv, PageOwners
  <2>15. PageOwners'
    BY <2>2, <2>11, <2>12, <2>13, <2>14 DEF PoolInv, PageOwners
  <2>16. SlotsBacked' /\ Counters'
    BY <1>0, SlotsUntouched DEF PoolInv
  <2> QED BY <2>7, <2>8, <2>9, <2>15, <2>16 DEF PoolInv
<1> QED BY <1>1, <1>2

-----------------------------------------------------------------------------
(* Initialization.                                                         *)

\* KePoolInit finds a pool without pages and leaves it so.
LEMMA InitCallPool ==
  ASSUME PoolInv, NEW t \in Threads, KePoolInit(t)
  PROVE  PoolInv' /\ Taken' = Taken
<1>1. /\ magic # "ALIVE" /\ (\A u \in Threads : pc[u] = "out") /\ magic' = "NONE"
      /\ freeList' = << >> /\ pageList' = << >> /\ totalSlots' = 0 /\ usedSlots' = 0 /\ peakUsed' = 0
      /\ pc' = [pc EXCEPT ![t] = "init"]
      /\ UNCHANGED <<prepared, node, detached, heap, live>>
  BY DEF KePoolInit, Goto
<1>2. usedSlots = 0 /\ pageList = << >> /\ pc \in [Threads -> Places]
  BY <1>1 DEF PoolInv, Phases, Types
<1>3. Taken = {} /\ live = {} /\ \A u \in Threads : node[u] = NULL
  BY <1>2, NothingOut
<1>4. \A u \in Threads : pc'[u] = IF u = t THEN "init" ELSE "out"
  BY <1>1, <1>2
<1>5. Types'
  BY <1>1, <1>2, Empties DEF PoolInv, Types, Places
<1>6. Hands' /\ Phases'
  BY <1>1, <1>3, <1>4 DEF PoolInv, Hands, Phases
<1>7. PageOwners'
  <2>1. UNCHANGED <<pageList, prepared, detached, heap>>
    BY <1>1, <1>2
  <2> QED BY <2>1, PagesUntouched DEF PoolInv
<1>8. Taken' = Taken /\ Popped' = Popped
  BY <1>1, SameTaken
<1>9. SlotsBacked'
  BY <1>1, <1>3, <1>8, Empties DEF PoolInv, SlotsBacked
<1>10. Counters'
  BY <1>1, <1>3, <1>8, Empties, FS_EmptySet DEF Counters
<1> QED BY <1>5, <1>6, <1>7, <1>8, <1>9, <1>10 DEF PoolInv

\* AttachInitialPage adds a page, gives all back, or opens the pool.
LEMMA AttachPool ==
  ASSUME PoolInv, NEW t \in Threads, AttachInitialPage(t)
  PROVE  PoolInv' /\ Taken' = Taken
<1>1. /\ pc[t] = "init" /\ UNCHANGED <<usedSlots, peakUsed, prepared, node, detached, live>>
  BY DEF AttachInitialPage
<1>2. /\ magic = "NONE" /\ peakUsed = 0 /\ usedSlots = 0 /\ live = {}
      /\ \A u \in Threads : /\ u # t => pc[u] = "out"
                            /\ node[u] = NULL /\ prepared[u] = NULL /\ detached[u] = << >>
  BY <1>1 DEF PoolInv, Phases, Hands
<1>3. Taken = {} /\ Taken' = Taken /\ Popped' = Popped
  BY <1>1, <1>2, SameTaken, NothingOut
<1>4. /\ pc \in [Threads -> Places] /\ pageList \in Seq(Pages) /\ freeList \in Seq(Slots)
      /\ heap \subseteq Pages /\ totalSlots \in Nat
  BY DEF PoolInv, Types
<1>5. CASE /\ \E p \in heap : /\ heap' = heap \ {p}
                              /\ pageList' = <<p>> \o pageList
                              /\ freeList' = ChainOf(p) \o freeList
           /\ totalSlots' = totalSlots + SlotsPerPage
           /\ UNCHANGED <<magic, pc>>
  <2>1. PICK p \in heap : /\ heap' = heap \ {p} /\ pageList' = <<p>> \o pageList
                          /\ freeList' = ChainOf(p) \o freeList
    BY <1>5
  <2>2. p \in Pages /\ p \notin Range(pageList) /\ p # NULL
    BY <1>4, NotNull DEF PoolInv, PageOwners, OwnersApart
  <2>3. /\ pageList' \in Seq(Pages) /\ Range(pageList') = Range(pageList) \cup {p} /\ Distinct(pageList')
    BY <1>4, <2>1, <2>2, Pushed DEF PoolInv, PageOwners
  <2>4. /\ ChainOf(p) \in Seq(Slots) /\ Len(ChainOf(p)) = SlotsPerPage /\ Distinct(ChainOf(p))
        /\ \A s \in Range(ChainOf(p)) : s \in Slots /\ s[1] = p
    BY <2>2, ChainProperties
  <2>5. /\ Distinct(freeList) /\ \A s \in Range(freeList) : s[1] \in Range(pageList)
    BY DEF PoolInv, SlotsBacked
  <2>6. Range(ChainOf(p)) \cap Range(freeList) = {}
    BY <2>2, <2>4, <2>5
  <2>7. /\ freeList' \in Seq(Slots) /\ Range(freeList') = Range(ChainOf(p)) \cup Range(freeList)
        /\ Distinct(freeList')
    BY <1>4, <2>1, <2>4, <2>5, <2>6, JoinProperties
  <2>8. Len(freeList') = SlotsPerPage + Len(freeList) /\ SlotsPerPage \in Nat \ {0} /\ Len(freeList) \in Nat
    <3>1. \A a, b \in Seq(Slots) : Len(a \o b) = Len(a) + Len(b) /\ Len(b) \in Nat
      OBVIOUS
    <3>2. Len(freeList') = Len(ChainOf(p) \o freeList) /\ SlotsPerPage \in Nat \ {0}
      BY <2>1, PoolAssumption
    <3> QED BY <1>4, <2>4, <3>1, <3>2
  <2>9. Types'
    BY <1>1, <1>4, <1>5, <2>1, <2>3, <2>7, <2>8 DEF PoolInv, Types
  <2>10. Hands' /\ Phases'
    BY <1>1, <1>2, <1>5 DEF PoolInv, Hands, Phases
  <2>11. OwnersApart' /\ ThreadsApart'
    BY <1>1, <1>2, <2>1, <2>2, <2>3, Empties DEF PoolInv, PageOwners, OwnersApart, ThreadsApart
  <2>12. ASSUME NEW q \in Pages PROVE Owned(q)'
    <3>1. Owned(q)
      BY DEF PoolInv, PageOwners
    <3> QED BY <1>1, <2>1, <2>3, <3>1 DEF Owned
  <2>13. PageOwners'
    BY <1>1, <2>3, <2>11, <2>12 DEF PoolInv, PageOwners
  <2>14. SlotsBacked'
    BY <1>1, <1>2, <1>3, <2>3, <2>4, <2>5, <2>7 DEF PoolInv, SlotsBacked
  <2>15. totalSlots = Len(freeList)
    BY <1>2, <1>4, <2>8 DEF PoolInv, Counters
  <2>16. totalSlots' = usedSlots' + Len(freeList') /\ usedSlots' <= peakUsed' /\ peakUsed' <= totalSlots'
    BY <1>1, <1>2, <1>4, <1>5, <2>8, <2>15
  <2>17. Counters'
    BY <1>1, <1>3, <2>16 DEF PoolInv, Counters
  <2> QED BY <1>3, <2>9, <2>10, <2>13, <2>14, <2>17 DEF PoolInv
<1>6. CASE /\ heap' = heap \cup Range(pageList)
           /\ pageList' = << >> /\ freeList' = << >> /\ totalSlots' = 0
           /\ Goto(t, "out")
           /\ UNCHANGED magic
  <2>1. \A u \in Threads : pc'[u] = "out"
    BY <1>2, <1>4, <1>6 DEF Goto
  <2>2. pc' \in [Threads -> Places] /\ Range(pageList) \subseteq Pages
    BY <1>4, <1>6 DEF Goto, Places, Range
  <2>3. Range(pageList') = {} /\ Distinct(pageList') /\ Range(freeList') = {} /\ Distinct(freeList')
        /\ Len(freeList') = 0
    BY <1>6, Empties
  <2>4. Types'
    BY <1>1, <1>4, <1>6, <2>2, Empties DEF PoolInv, Types
  <2>5. Hands' /\ Phases'
    BY <1>1, <1>2, <1>6, <2>1 DEF PoolInv, Hands, Phases
  <2>6. OwnersApart' /\ ThreadsApart'
    BY <1>1, <1>2, <1>4, <1>6, <2>2, <2>3, Empties, NotNull DEF PoolInv, PageOwners, OwnersApart, ThreadsApart
  <2>7. ASSUME NEW q \in Pages PROVE Owned(q)'
    <3>1. Owned(q)
      BY DEF PoolInv, PageOwners
    <3> QED BY <1>1, <1>6, <3>1 DEF Owned
  <2>8. PageOwners'
    BY <1>1, <2>3, <2>6, <2>7 DEF PoolInv, PageOwners
  <2>9. SlotsBacked'
    BY <1>1, <1>2, <1>3, <2>3 DEF PoolInv, SlotsBacked
  <2>10. Counters'
    <3>1. IsFiniteSet(Taken') /\ usedSlots' = Cardinality(Taken')
      BY <1>1, <1>3 DEF PoolInv, Counters
    <3>2. usedSlots' = 0 /\ peakUsed' = 0 /\ totalSlots' = 0 /\ Len(freeList') = 0
      BY <1>1, <1>2, <1>6, <2>3
    <3>3. totalSlots' = usedSlots' + Len(freeList') /\ usedSlots' <= peakUsed' /\ peakUsed' <= totalSlots'
      BY <3>2
    <3> QED BY <3>1, <3>3 DEF Counters
  <2> QED BY <1>3, <2>4, <2>5, <2>8, <2>9, <2>10 DEF PoolInv
<1>7. CASE /\ magic' = "ALIVE" /\ Goto(t, "out")
           /\ UNCHANGED <<pageList, freeList, totalSlots, heap>>
  <2>1. \A u \in Threads : pc'[u] = "out"
    BY <1>2, <1>4, <1>7 DEF Goto
  <2>2. pc' \in [Threads -> Places]
    BY <1>4, <1>7 DEF Goto, Places
  <2>3. Types'
    BY <1>1, <1>7, <2>2 DEF PoolInv, Types
  <2>4. Hands' /\ Phases'
    BY <1>1, <1>2, <1>7, <2>1 DEF PoolInv, Hands, Phases
  <2>5. PageOwners'
    BY <1>1, <1>7, PagesUntouched DEF PoolInv
  <2>6. SlotsBacked' /\ Counters'
    BY <1>1, <1>3, <1>7 DEF PoolInv, SlotsBacked, Counters
  <2> QED BY <1>3, <2>3, <2>4, <2>5, <2>6 DEF PoolInv
<1> QED BY <1>5, <1>6, <1>7 DEF AttachInitialPage

-----------------------------------------------------------------------------
(* The theorems.                                                           *)

\* What a step may do, as the caller of the pool sees it.
Promised ==
  \/ (magic' = "ALIVE" <=> magic = "ALIVE") /\ Taken' = Taken
  \/ magic # "ALIVE" /\ magic' = "ALIVE" /\ Taken' = Taken
  \/ magic = "ALIVE" /\ magic' # "ALIVE" /\ Taken' = Taken /\ Taken = {}
  \/ /\ magic' = magic /\ magic = "ALIVE"
     /\ \E s \in Slots : \/ s \notin Taken /\ Taken' = Taken \cup {s}
                         \/ s \in Taken /\ Taken' = Taken \ {s}

\* Every step of a thread keeps PoolInv and looks like a step of the abstract
\* pool, or like nothing.
LEMMA StepPool ==
  ASSUME PoolInv, NEW t \in Threads, Step(t)
  PROVE  PoolInv' /\ Promised
<1>1. CASE KePoolInit(t)
  <2>1. magic # "ALIVE" /\ magic' # "ALIVE"
    BY <1>1 DEF KePoolInit
  <2> QED BY <1>1, <2>1, InitCallPool DEF Promised
<1>2. CASE AttachInitialPage(t)
  <2>1. magic # "ALIVE"
    BY <1>2 DEF AttachInitialPage, PoolInv, Phases
  <2> QED BY <1>2, <2>1, AttachPool DEF Promised
<1>3. CASE KePoolAlloc(t)
  BY <1>3, AllocPool, SameTaken DEF Promised, KePoolAlloc, poolVars
<1>4. CASE KiPoolTryPopNode(t)
  <2>1. PoolInv' /\ PopsAtMostOne
    BY <1>4, TryPopPool
  <2> QED BY <2>1 DEF Promised, PopsAtMostOne
<1>5. CASE RecheckAlive(t)
  BY <1>5, RecheckPool, SameTaken DEF Promised, RecheckAlive, poolVars
<1>6. CASE KiPoolPrepareOnePage(t)
  BY <1>6, PreparePool, SameTaken DEF Promised, KiPoolPrepareOnePage, poolVars
<1>7. CASE KiPoolPublishPreparedPageAndPop(t)
  <2>1. PoolInv' /\ PopsAtMostOne
    BY <1>7, PublishPool
  <2> QED BY <2>1 DEF Promised, PopsAtMostOne
<1>8. CASE FreeOrphan(t)
  BY <1>8, OrphanPool, SameTaken DEF Promised, FreeOrphan, poolVars
<1>9. CASE ClearNode(t)
  BY <1>9, ClearPool DEF Promised, ClearNode, poolVars
<1>10. ASSUME NEW object \in live, KePoolFree(t, object) PROVE PoolInv' /\ Promised
  <2>1. PoolInv' /\ Taken' = Taken \ {object}
    BY <1>10, FreePool
  <2>2. object \in Taken /\ object \in Slots
    BY TakenMembers DEF PoolInv, Types
  <2>3. magic = "ALIVE" /\ magic' = magic
    BY <1>10, <2>2, TakenAlive DEF KePoolFree
  <2> QED BY <2>1, <2>2, <2>3 DEF Promised
<1>11. CASE KePoolDestroy(t)
  <2>1. magic = "ALIVE" /\ magic' # "ALIVE"
    BY <1>11 DEF KePoolDestroy
  <2> QED BY <1>11, <2>1, DestroyPool DEF Promised
<1>12. CASE ReleaseDetachedPage(t)
  BY <1>12, ReleasePool, SameTaken DEF Promised, ReleaseDetachedPage, poolVars
<1> QED BY <1>1, <1>2, <1>3, <1>4, <1>5, <1>6, <1>7, <1>8, <1>9, <1>10, <1>11, <1>12 DEF Step

\* The same of every step of the specification, stuttering included.
LEMMA NextPool ==
  ASSUME PoolInv, [Next]_vars
  PROVE  PoolInv' /\ Promised
<1>1. CASE Next
  <2>1. PICK t \in Threads : Step(t)
    BY <1>1 DEF Next
  <2> QED BY <2>1, StepPool
<1>2. CASE UNCHANGED vars
  <2>1. UNCHANGED <<magic, freeList, pageList, totalSlots, usedSlots, peakUsed, pc, prepared, node,
                    detached, heap, live>>
    BY <1>2 DEF vars, poolVars
  <2>2. Types' /\ Hands' /\ Phases'
    BY <2>1 DEF PoolInv, Types, Hands, Phases
  <2>3. PageOwners'
    BY <2>1, PagesUntouched DEF PoolInv
  <2>4. SlotsBacked' /\ Counters'
    BY <1>2, SlotsUntouched DEF PoolInv, vars
  <2>5. Taken' = Taken
    BY <2>1, SameTaken
  <2> QED BY <2>1, <2>2, <2>3, <2>4, <2>5 DEF PoolInv, Promised
<1> QED BY <1>1, <1>2

\* PageOwners is PageHasOneOwner, with the owners counted.
LEMMA OneOwnerEach ==
  ASSUME PoolInv
  PROVE  PageHasOneOwner
<1> DEFINE D == UNION {Range(detached[t]) : t \in Threads}
           A == {"heap"} \X heap
           B == {"pool"} \X Range(pageList)
           C == {"growing"} \X PreparedPages
           E == {"dying"} \X D
           Owners(p) == {S \in {A, B, C, E} : \E who \in S : who[2] = p}
<1>1. ASSUME NEW p \in Pages PROVE Cardinality(Owners(p)) = 1
  <2>0. p # NULL
    BY NotNull
  <2>1. /\ p \in PreparedPages <=> \E t \in Threads : p = prepared[t]
        /\ p \in D <=> \E t \in Threads : p \in Range(detached[t])
    BY <2>0 DEF PreparedPages
  <2>2. p \in heap \/ p \in Range(pageList) \/ p \in PreparedPages \/ p \in D
    <3>1. Owned(p)
      BY DEF PoolInv, PageOwners
    <3> QED BY <2>1, <3>1 DEF Owned
  <2>3. /\ ~(p \in heap /\ p \in Range(pageList)) /\ ~(p \in heap /\ p \in PreparedPages)
        /\ ~(p \in heap /\ p \in D) /\ ~(p \in Range(pageList) /\ p \in PreparedPages)
        /\ ~(p \in Range(pageList) /\ p \in D) /\ ~(p \in PreparedPages /\ p \in D)
    BY <2>1 DEF PoolInv, PageOwners, OwnersApart
  <2>4. /\ (\E who \in A : who[2] = p) <=> p \in heap
        /\ (\E who \in B : who[2] = p) <=> p \in Range(pageList)
        /\ (\E who \in C : who[2] = p) <=> p \in PreparedPages
        /\ (\E who \in E : who[2] = p) <=> p \in D
    <3>1. ASSUME NEW w, NEW S PROVE (\E who \in {w} \X S : who[2] = p) <=> p \in S
      <4>1. ASSUME p \in S PROVE \E who \in {w} \X S : who[2] = p
        <5>1. <<w, p>> \in {w} \X S /\ <<w, p>>[2] = p
          BY <4>1
        <5> QED BY <5>1
      <4>2. ASSUME NEW who \in {w} \X S, who[2] = p PROVE p \in S
        BY <4>2
      <4> QED BY <4>1, <4>2
    <3> QED BY <3>1
  <2> HIDE DEF A, B, C, D, E
  <2>5. \E S : Owners(p) = {S}
    <3>1. CASE p \in heap
      <4>1. Owners(p) = {A}
        BY <2>3, <2>4, <3>1
      <4> QED BY <4>1
    <3>2. CASE p \in Range(pageList)
      <4>1. Owners(p) = {B}
        BY <2>3, <2>4, <3>2
      <4> QED BY <4>1
    <3>3. CASE p \in PreparedPages
      <4>1. Owners(p) = {C}
        BY <2>3, <2>4, <3>3
      <4> QED BY <4>1
    <3>4. CASE p \in D
      <4>1. Owners(p) = {E}
        BY <2>3, <2>4, <3>4
      <4> QED BY <4>1
    <3> QED BY <2>2, <3>1, <3>2, <3>3, <3>4
  <2> HIDE DEF Owners
  <2> QED BY <2>5, FS_Singleton
<1> HIDE DEF Owners
<1>2. \A p \in Pages : Cardinality(Owners(p)) = 1
  BY <1>1
<1>3. /\ Distinct(pageList) /\ \A t \in Threads : Distinct(detached[t])
      /\ \A t, u \in Threads : t # u =>
           /\ prepared[t] # NULL => prepared[t] # prepared[u]
           /\ Range(detached[t]) \cap Range(detached[u]) = {}
  BY DEF PoolInv, PageOwners, ThreadsApart
<1> QED BY <1>2, <1>3 DEF PageHasOneOwner, Owners, A, B, C, D, E

\* PoolAccountedFor in every reachable state: whatever threads allocate, grow,
\* free and destroy at the same time, no page leaks, none goes back to the heap
\* twice, no slot is given out twice or refers to a released page, and the
\* counters that KePoolDestroy trusts are exact.
THEOREM PoolAccounted == Spec => []PoolAccountedFor
<1>1. Init => PoolInv
  BY InitPool
<1>2. PoolInv /\ [Next]_vars => PoolInv'
  BY NextPool
<1>3. PoolInv => PoolAccountedFor
  BY OneOwnerEach DEF PoolInv, PoolAccountedFor, Counters
<1> QED BY <1>1, <1>2, <1>3, PTL DEF Spec

\* A step that looks like one of the abstract pool is one.
LEMMA PromisedStep == Promised => [Promise!Next]_(Promise!vars)
<1> SUFFICES ASSUME Promised PROVE Promise!Next \/ UNCHANGED Promise!vars
  OBVIOUS
<1>1. CASE (magic' = "ALIVE" <=> magic = "ALIVE") /\ Taken' = Taken
  BY <1>1, Zenon DEF Promise!vars
<1>2. CASE magic # "ALIVE" /\ magic' = "ALIVE" /\ Taken' = Taken
  BY <1>2, Zenon DEF Promise!Next, Promise!Open
<1>3. CASE magic = "ALIVE" /\ magic' # "ALIVE" /\ Taken' = Taken /\ Taken = {}
  BY <1>3, Zenon DEF Promise!Next, Promise!Close
<1>4. CASE magic' = magic /\ magic = "ALIVE" /\ \E s \in Slots : s \notin Taken /\ Taken' = Taken \cup {s}
  <2>1. PICK s \in Slots : s \notin Taken /\ Taken' = Taken \cup {s}
    BY <1>4
  <2>2. Promise!Alloc(s)
    BY <1>4, <2>1, Zenon DEF Promise!Alloc
  <2> QED BY <2>2, Zenon DEF Promise!Next
<1>5. CASE magic' = magic /\ magic = "ALIVE" /\ \E s \in Slots : s \in Taken /\ Taken' = Taken \ {s}
  <2>1. PICK s \in Slots : s \in Taken /\ Taken' = Taken \ {s}
    BY <1>5
  <2>2. Promise!Free(s)
    BY <1>5, <2>1, Zenon DEF Promise!Free
  <2> QED BY <2>2, Zenon DEF Promise!Next
<1> QED BY <1>1, <1>2, <1>3, <1>4, <1>5, Zenon DEF Promised

\* The pool implements ObjectPool: seen by its callers every step opens or
\* closes the pool, hands out an object nobody has, takes one back, or does
\* nothing, and the pool is never closed under an object that is out.
THEOREM PromiseKept == Spec => KeepsPromise
<1>1. Init => PoolInv
  BY InitPool
<1>2. PoolInv /\ [Next]_vars => PoolInv'
  BY NextPool
<1>3. Init => Promise!Init
  BY Zenon DEF Init, Promise!Init, Taken, Popped
<1>4. PoolInv /\ [Next]_vars => [Promise!Next]_(Promise!vars)
  BY NextPool, PromisedStep
<1> QED BY <1>1, <1>2, <1>3, <1>4, PTL DEF Spec, KeepsPromise, Promise!Spec
=============================================================================
