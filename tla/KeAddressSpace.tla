--------------------------- MODULE KeAddressSpace ---------------------------
(***************************************************************************)
(* Page tables, process address spaces and the user pages staged in them   *)
(* (ke/mm/address_space.c, ke/user_mode.c, ke/user_mode_syscall.c).        *)
(*                                                                         *)
(* A root table is shared half and half: the upper entries of a process's  *)
(* root are copied once from the kernel's, the lower ones are its own.     *)
(* Tables are allocated on the way down when a page is mapped, taken back  *)
(* if the mapping fails further down, and otherwise kept until the whole   *)
(* space is destroyed.  A change of an entry drops the cached translation  *)
(* only if the changed root is the active one.                             *)
(*                                                                         *)
(* A page is a number; its digits to the base Entries are the indices on   *)
(* the way down, most significant first.  Every operation on one root runs *)
(* alone, as the callers arrange it; operations on different roots, and    *)
(* the scheduler's switches, interleave.                                   *)
(***************************************************************************)
EXTENDS Integers, Sequences, FiniteSets, SequencesExt

CONSTANTS
  Frames,        \* bound: the physical frames, 1 .. n
  Depth,         \* levels of tables, four in the hardware
  Entries,       \* entries of a table, ENTRIES_PER_TABLE
  Processes,     \* bound: the processes of a behaviour, each
                 \* created at most once
  KernelTables,  \* the tables of the imported root: [frame -> [index -> entry]]
  ArenaPages,    \* bound: kernel pages that the KVA layer maps and unmaps
  CachedPages,   \* bound: the pages whose cached translations are followed
  PageBytes,     \* PAGE_4KB
  WordValues,    \* number of values of an address
  CopyBases,     \* bound: the user addresses a system call passes
  CopyLengths    \* bound: the lengths a system call passes

KernelRoot == 1
Indexes == 0 .. Entries - 1
IsLowHalf(page) == 2 * page < Entries ^ Depth

\* EX_USER_IMAGE_*: four pages of the lower half, the guard page among them.
CodePage == Entries ^ (Depth - 1)
ConstPage == CodePage + 1
GuardPage == CodePage + 2
StackPage == CodePage + 3

NoEntry == [frame |-> 0, attrs |-> {}, large |-> FALSE]
EmptyTable == [i \in Indexes |-> NoEntry]

ASSUME AddressSpaceAssumption ==
  /\ Depth \in Nat \ {0, 1} /\ Entries \in Nat \ {0, 1, 2, 3}
  /\ KernelRoot \in DOMAIN KernelTables /\ DOMAIN KernelTables \subseteq Frames
  /\ \A p \in ArenaPages : ~IsLowHalf(p)

VARIABLES
  tables,   \* what is in the frames that hold page tables
  free,     \* the frames the page allocator has
  root,     \* KE_PROCESS_ADDRESS_SPACE of each process, 0 when not initialized
  staging,  \* KE_USER_MODE_STAGING.Mappings of each process, in order
  stage,    \* how far the creation or teardown of each process is
  active,   \* CR3
  tlb,      \* cached translations: page -> frame, 0 for none
  arena     \* frame behind each kernel page the KVA layer mapped

vars == <<tables, free, root, staging, stage, active, tlb, arena>>

Uncached == [v \in CachedPages |-> 0]

\* KeImportKernelAddressSpace: the kernel takes over the tables the boot
\* loader built.  The self-tests of the PT and KVA layers have run, so each
\* arena has its top-level entry.
Init ==
  /\ tables = KernelTables
  /\ free = Frames \ DOMAIN KernelTables
  /\ root = [p \in Processes |-> 0]
  /\ staging = [p \in Processes |-> << >>]
  /\ stage = [p \in Processes |-> "none"]
  /\ active = KernelRoot
  /\ tlb = Uncached
  /\ arena = [v \in ArenaPages |-> 0]

-----------------------------------------------------------------------------
(* Walks.                                                                  *)

\* PML4_INDEX and its fellows
IndexAt(page, level) == (page \div Entries ^ (Depth - level)) % Entries

NotMapped == [at |-> 0, level |-> 0, entry |-> NoEntry, user |-> FALSE]

\* KiWalkImportedRoot.  "at" is the table with the leaf entry; 0 when the walk
\* ends at an entry that is not present.  A large leaf ends it early.
Walk(t, r, page) ==
  LET step(w, level) ==
        IF w.level # 0 \/ w.at = 0 THEN w
        ELSE LET e == t[w.at][IndexAt(page, level)]
                 user == w.user /\ "U" \in e.attrs
             IN  IF e.frame = 0 THEN NotMapped
                 ELSE IF e.large \/ level = Depth
                      THEN [at |-> w.at, level |-> level, entry |-> e, user |-> user]
                      ELSE [w EXCEPT !.at = e.frame, !.user = user]
      walked[level \in 0 .. Depth] ==
        IF level = 0 THEN [NotMapped EXCEPT !.at = r, !.user = TRUE]
                     ELSE step(walked[level - 1], level)
  IN  walked[Depth]

\* KePtQueryPage: Present, UserAccessible, the attributes and the frame.
Query(t, r, page) ==
  LET w == Walk(t, r, page)
  IN  [present |-> w.at # 0, user |-> w.at # 0 /\ w.user,
       attrs |-> w.entry.attrs, frame |-> w.entry.frame]

-----------------------------------------------------------------------------
(* Mapping.  A mapping under way is a record: the tables and the free      *)
(* frames so far, the table reached, and what there is to undo.            *)

\* The frame the page allocator gives out, its first fit; 0 for none.
Lowest(S) == IF S = {} THEN 0 ELSE CHOOSE f \in S : \A g \in S : f <= g

\* KiIntermediateEntryFlagsForLeaf
IntermediateAttrs(attrs) == {"W"} \cup (attrs \cap {"U"})

\* KiEnsureChildTable
EnsureChildTable(s, page, level, attrs) ==
  LET i == IndexAt(page, level)
      e == s.tables[s.at][i]
      f == Lowest(s.free)
      promotes == "U" \in attrs /\ "U" \notin e.attrs
  IN  IF ~s.ok THEN s
      ELSE IF e.frame = 0
      THEN IF s.free = {} THEN [s EXCEPT !.ok = FALSE]
           ELSE [s EXCEPT
                   !.tables = [g \in DOMAIN @ \cup {f} |->
                      IF g = f THEN EmptyTable
                      ELSE IF g = s.at
                      THEN [@[g] EXCEPT ![i] = [frame |-> f, large |-> FALSE,
                                                attrs |-> IntermediateAttrs(attrs)]]
                      ELSE @[g]],
                   !.free = @ \ {f},
                   !.new = Append(@, [at |-> s.at, index |-> i, frame |-> f]),
                   !.at = f]
      ELSE IF e.large THEN [s EXCEPT !.ok = FALSE]
      ELSE [s EXCEPT !.tables[s.at][i].attrs = IF promotes THEN @ \cup {"U"} ELSE @,
                     !.promoted = IF promotes
                                  THEN Append(@, [at |-> s.at, index |-> i]) ELSE @,
                     !.at = e.frame]

\* Mutant of RollbackMapSetup: the entries are cleared, the frames are lost.
RollbackForgetsFrames(s) ==
  LET gone == {s.new[k].frame : k \in DOMAIN s.new}
      cleared(g, i) == \E k \in DOMAIN s.new : s.new[k].at = g /\ s.new[k].index = i
  IN  [s EXCEPT
         !.tables = [g \in DOMAIN @ \ gone |-> [i \in Indexes |->
                       IF cleared(g, i) THEN NoEntry ELSE @[g][i]]]]

\* KiRollbackMapSetup: new tables go back, then the added flags come off.
RollbackMapSetup(s) ==
  LET gone == {s.new[k].frame : k \in DOMAIN s.new}
      cleared(g, i) == \E k \in DOMAIN s.new : s.new[k].at = g /\ s.new[k].index = i
      demoted(g, i) == \E k \in DOMAIN s.promoted :
                          s.promoted[k].at = g /\ s.promoted[k].index = i
  IN  [s EXCEPT
         !.tables = [g \in DOMAIN @ \ gone |-> [i \in Indexes |->
                       IF cleared(g, i) THEN NoEntry
                       ELSE IF demoted(g, i)
                            THEN [@[g][i] EXCEPT !.attrs = @ \ {"U"}]
                            ELSE @[g][i]]],
         !.free = @ \cup gone]

\* KePtMapPage: the state after it, and in "ok" whether it succeeded.
MapPage(t, available, r, page, frame, attrs) ==
  LET start == [tables |-> t, free |-> available, at |-> r, ok |-> TRUE,
                new |-> << >>, promoted |-> << >>]
      reached[level \in 0 .. Depth - 1] ==
        IF level = 0 THEN start
                     ELSE EnsureChildTable(reached[level - 1], page, level, attrs)
      down == reached[Depth - 1]
      i == IndexAt(page, Depth)
  IN  IF ~down.ok THEN RollbackMapSetup(down)
      ELSE IF down.tables[down.at][i].frame # 0
           THEN [RollbackMapSetup(down) EXCEPT !.ok = FALSE]
      ELSE [down EXCEPT !.tables[down.at][i] =
                          [frame |-> frame, attrs |-> attrs, large |-> FALSE]]

\* KePtUnmapPage of a page that is mapped by a small leaf; otherwise the
\* tables stay as they are.
UnmapPage(t, r, page) ==
  LET w == Walk(t, r, page)
  IN  IF w.level # Depth THEN t
      ELSE [t EXCEPT ![w.at][IndexAt(page, Depth)] = NoEntry]

\* Mutant of Invalidated: no invlpg.
NeverInvalidated(r, page) == tlb

\* KiInvalidatePage, if the root that changed is the active one.
Invalidated(r, page) ==
  IF active = r /\ page \in CachedPages THEN [tlb EXCEPT ![page] = 0] ELSE tlb

-----------------------------------------------------------------------------
(* The kernel's own pages.                                                 *)

\* A page of a KVA arena gets a frame and is mapped in the imported root,
\* whichever root is active (KeKvaMapOwnedPages).  On failure the frame goes
\* back.
MapKernelPage(page) ==
  LET f == Lowest(free)
      m == MapPage(tables, free \ {f}, KernelRoot, page, f, {"W", "NX"})
  IN  /\ arena[page] = 0 /\ free # {}
      /\ tables' = m.tables
      /\ free' = IF m.ok THEN m.free ELSE m.free \cup {f}
      /\ arena' = IF m.ok THEN [arena EXCEPT ![page] = f] ELSE arena
      /\ tlb' = IF m.ok THEN Invalidated(KernelRoot, page) ELSE tlb
      /\ UNCHANGED <<root, staging, stage, active>>

\* KeKvaReleaseRange
UnmapKernelPage(page) ==
  /\ arena[page] # 0
  /\ tables' = UnmapPage(tables, KernelRoot, page)
  /\ free' = free \cup {arena[page]}
  /\ arena' = [arena EXCEPT ![page] = 0]
  /\ tlb' = Invalidated(KernelRoot, page)
  /\ UNCHANGED <<root, staging, stage, active>>

-----------------------------------------------------------------------------
(* Process address spaces and their user pages.                            *)

\* Mutant of CopiedKernelHalf: one entry too few.
CopiedKernelHalfShort(t) ==
  [i \in Indexes |-> IF 2 * (i - 1) >= Entries THEN t[KernelRoot][i] ELSE NoEntry]

\* KiCopyImportedKernelHighHalfMappings
CopiedKernelHalf(t) ==
  [i \in Indexes |-> IF 2 * i >= Entries THEN t[KernelRoot][i] ELSE NoEntry]

\* KeCreateProcessAddressSpace, which fails with no frame left.
CreateSpace(p) ==
  LET f == Lowest(free) IN
  /\ stage[p] = "none" /\ active = KernelRoot /\ free # {}
  /\ tables' = [g \in DOMAIN tables \cup {f} |->
                  IF g = f THEN CopiedKernelHalf(tables) ELSE tables[g]]
  /\ free' = free \ {f}
  /\ root' = [root EXCEPT ![p] = f]
  /\ stage' = [stage EXCEPT ![p] = "space"]
  /\ UNCHANGED <<staging, active, tlb, arena>>

\* KiValidateUserModeHole of the pages the image will use.
Holes(p) ==
  \A page \in {0, CodePage, ConstPage, GuardPage, StackPage} :
     ~Query(tables, root[p], page).present

\* The pages of an image: their places and their protection.
UserPages ==
  [code |-> [page |-> CodePage, attrs |-> {"U"}],
   const |-> [page |-> ConstPage, attrs |-> {"U", "NX"}],
   stack |-> [page |-> StackPage, attrs |-> {"U", "W", "NX"}]]

\* KiAllocateAndMapUserPage: a frame, filled through a temporary mapping, goes
\* into the tables and onto the record; a failure gives the frame back.
AllocateAndMapUserPage(s, r, kind) ==
  LET u == UserPages[kind]
      f == Lowest(s.free)
      m == MapPage(s.tables, s.free \ {f}, r, u.page, f, u.attrs)
  IN  IF ~s.ok \/ f = 0 THEN [s EXCEPT !.ok = FALSE]
      ELSE IF ~m.ok
           THEN [s EXCEPT !.tables = m.tables, !.free = m.free \cup {f}, !.ok = FALSE]
      ELSE [s EXCEPT !.tables = m.tables, !.free = m.free,
                     !.maps = Append(@, [kind |-> kind, page |-> u.page, frame |-> f])]

\* Mutant of Unstaged: the leaf of the first record stays.
UnstagedOffByOne(s, r) ==
  [s EXCEPT !.tables = FoldLeft(LAMBDA t, rec : UnmapPage(t, r, rec.page),
                                @, Reverse(Tail(s.maps))),
            !.free = @ \cup {s.maps[k].frame : k \in DOMAIN s.maps},
            !.maps = << >>]

\* The loop of KeUserModeDestroyStaging, from the last record to the first: the
\* leaf is cleared and its frame freed.  The tables above it stay.
Unstaged(s, r) ==
  [s EXCEPT !.tables = FoldLeft(LAMBDA t, rec : UnmapPage(t, r, rec.page),
                                @, Reverse(s.maps)),
            !.free = @ \cup {s.maps[k].frame : k \in DOMAIN s.maps},
            !.maps = << >>]

\* KeUserModeCreateStaging by a kernel thread: code, perhaps constants, and
\* stack; what was staged before a failure is undone.
CreateStaging(p, kinds) ==
  LET start == [tables |-> tables, free |-> free, maps |-> << >>, ok |-> Holes(p)]
      staged == FoldLeft(LAMBDA s, kind : AllocateAndMapUserPage(s, root[p], kind),
                         start, kinds)
      after == IF staged.ok THEN staged ELSE Unstaged(staged, root[p])
  IN  /\ stage[p] = "space" /\ active = KernelRoot
      /\ tables' = after.tables /\ free' = after.free
      /\ staging' = [staging EXCEPT ![p] = after.maps]
      /\ stage' = [stage EXCEPT ![p] = IF after.ok THEN "ready" ELSE "destroy"]
      /\ UNCHANGED <<root, active, tlb, arena>>

\* KeUserModeDestroyStaging when the process has ended, by the idle thread
\* under the kernel's root.
DestroyStaging(p) ==
  LET after == Unstaged([tables |-> tables, free |-> free, maps |-> staging[p]],
                        root[p])
  IN  /\ stage[p] = "ready" /\ active = KernelRoot
      /\ tables' = after.tables /\ free' = after.free
      /\ staging' = [staging EXCEPT ![p] = after.maps]
      /\ stage' = [stage EXCEPT ![p] = "destroy"]
      /\ UNCHANGED <<root, active, tlb, arena>>

\* KiDestroyOwnedPageTableSubtree for each entry of the lower half: the tables
\* found level by level.  The entries of the last level are pages, not tables.
OwnedTables(t, r) ==
  LET below(from, indexes) ==
        {t[x[1]][x[2]].frame : x \in {y \in from \X indexes :
            t[y[1]][y[2]].frame # 0 /\ ~t[y[1]][y[2]].large}}
      found[level \in 2 .. Depth] ==
        IF level = 2 THEN below({r}, {i \in Indexes : 2 * i < Entries})
                     ELSE below(found[level - 1], Indexes)
  IN  UNION {found[level] : level \in 2 .. Depth}

\* KeDestroyProcessAddressSpace, which refuses the active root.
DestroySpace(p) ==
  LET gone == OwnedTables(tables, root[p]) \cup {root[p]} IN
  /\ stage[p] = "destroy" /\ active # root[p]
  /\ tables' = [g \in DOMAIN tables \ gone |-> tables[g]]
  /\ free' = free \cup gone
  /\ root' = [root EXCEPT ![p] = 0]
  /\ stage' = [stage EXCEPT ![p] = "gone"]
  /\ UNCHANGED <<staging, active, tlb, arena>>

-----------------------------------------------------------------------------
(* The processor.                                                          *)

\* KeSwitchAddressSpace by the dispatcher: to the root of a process whose
\* thread runs, or back to the kernel's.  Neither the loader nor the kernel
\* sets CR4.PGE, so loading CR3 drops every cached translation.
SwitchTo(r) ==
  /\ active # r
  /\ active' = r /\ tlb' = Uncached
  /\ UNCHANGED <<tables, free, root, staging, stage, arena>>

\* An access under the active root that is not cached walks the tables.
Access(page) ==
  /\ tlb[page] = 0 /\ Query(tables, active, page).present
  /\ tlb' = [tlb EXCEPT ![page] = Query(tables, active, page).frame]
  /\ UNCHANGED <<tables, free, root, staging, stage, active, arena>>

ProcessStep(p) ==
  \/ CreateSpace(p) \/ DestroyStaging(p) \/ DestroySpace(p)
  \/ \E kinds \in {<<"code", "const", "stack">>, <<"code", "stack">>} :
        CreateStaging(p, kinds)

Next ==
  \/ \E p \in Processes : ProcessStep(p)
  \/ \E page \in ArenaPages : MapKernelPage(page) \/ UnmapKernelPage(page)
  \/ SwitchTo(KernelRoot)
  \/ \E p \in Processes : stage[p] = "ready" /\ SwitchTo(root[p])
  \/ \E page \in CachedPages : Access(page)

Spec == Init /\ [][Next]_vars

-----------------------------------------------------------------------------
(* System calls copy from and to the pages of the process that runs:       *)
(* KeUserModeCopyInBytes and KeUserModeCopyOutBytes.                       *)

\* Mutant of RangeAllowed: the sum is not checked for a wrap.
RangeAllowedUnchecked(base, length) ==
  LET end == (base + length) % WordValues
  IN  base >= CodePage * PageBytes /\ end <= (StackPage + 1) * PageBytes

\* KiValidateUserModeRange, against the layout of the current thread.
RangeAllowed(base, length) ==
  LET end == (base + length) % WordValues IN
  /\ base >= CodePage * PageBytes /\ base < (StackPage + 1) * PageBytes
  /\ end >= base /\ end <= (StackPage + 1) * PageBytes

\* KiValidateUserModePages, page by page up to the one of the last byte.
PagesAllowed(r, base, end, needs) ==
  \A page \in base \div PageBytes .. (end - 1) \div PageBytes :
     LET q == Query(tables, r, page) IN q.present /\ q.user /\ needs \subseteq q.attrs

CopyAllowed(p, base, length, needs) ==
  \/ length = 0
  \/ /\ RangeAllowed(base, length) /\ active = root[p]
     /\ PagesAllowed(root[p], base, (base + length) % WordValues, needs)

-----------------------------------------------------------------------------
(* Properties.                                                             *)

\* The pages that the given entries of a root lead to.
PagesBelow(indexes) ==
  LET span == Entries ^ (Depth - 1)
  IN  UNION {span * i .. span * (i + 1) - 1 : i \in indexes}

DataFrames(p) == {staging[p][k].frame : k \in DOMAIN staging[p]}

\* Every frame is free or has one use: a table of the imported root, the root
\* or a table of one process, a staged user page, or a kernel page.  Mappings
\* that fail at any level, stagings undone half-way and destroyed spaces give
\* back exactly what they took (KiRollbackMapSetup, KeUserModeDestroyStaging,
\* KiDestroyOwnedPageTableSubtree).
FramesHaveOneUse ==
  LET tablesOf == [p \in Processes |-> IF root[p] = 0 THEN {}
                     ELSE OwnedTables(tables, root[p]) \cup {root[p]}]
      data == UNION {DataFrames(p) : p \in Processes}
      kernelData == {arena[v] : v \in ArenaPages} \ {0}
      owned == UNION {tablesOf[p] : p \in Processes}
      kernel == DOMAIN tables \ owned
  IN  /\ \A p, q \in Processes :
            p # q => /\ tablesOf[p] \cap tablesOf[q] = {}
                     /\ DataFrames(p) \cap DataFrames(q) = {}
      /\ \A s, u \in {data, kernelData, DOMAIN tables, free} : s = u \/ s \cap u = {}
      /\ data \cup kernelData \cup DOMAIN tables \cup free = Frames
      /\ owned \subseteq DOMAIN tables
      /\ \A f \in kernel \ {KernelRoot} : \E g \in kernel, i \in Indexes :
            tables[g][i].frame = f

\* Code at user level reaches the staged pages of its own process and nothing
\* else: no kernel page, no page of another process, and neither page 0 nor
\* the guard page below the stack; code is not writable and the stack is not
\* executable.  A failed mapping must not leave a wider path behind.
UserReachesItsOwnPages ==
  \A p \in Processes : root[p] # 0 =>
     \A page \in PagesBelow({i \in Indexes : "U" \in tables[root[p]][i].attrs}) :
        LET q == Query(tables, root[p], page) IN
        q.user => /\ \E k \in DOMAIN staging[p] :
                        staging[p][k].page = page /\ staging[p][k].frame = q.frame
                  /\ page \notin {0, GuardPage}
                  /\ ~{"W"} \subseteq q.attrs \/ "NX" \in q.attrs

\* A process sees the kernel as the kernel does: what KVA maps or unmaps
\* after the process's root was copied is there, or gone, under that root too
\* (KeCreateProcessAddressSpace copies top-level entries only once, so that
\* the entries of the imported root must never change again), and no entry on
\* the way is open to the user.
KernelHalfIsShared ==
  \A p \in Processes : root[p] # 0 =>
     \A i \in Indexes : 2 * i >= Entries =>
        /\ tables[root[p]][i] = tables[KernelRoot][i]
        /\ tables[root[p]][i].frame # 0 => "U" \notin tables[root[p]][i].attrs

\* The active root is never one that has been freed, and while the kernel's
\* root is active, and for user pages always, a cached translation is what the
\* tables say.  (Under a process's root a kernel page that was unmapped may
\* stay cached: KePtUnmapPage drops it only under the kernel's root.)
NoStaleTranslation ==
  /\ active \in DOMAIN tables
  /\ \A page \in CachedPages :
        tlb[page] # 0 /\ (active = KernelRoot \/ IsLowHalf(page))
          => tlb[page] = Query(tables, active, page).frame

\* A copy is allowed exactly when every byte of it lies in a staged page of
\* the running process, a writable one for a copy to the user; a length that
\* wraps the address space, the unmapped guard page and a missing page of
\* constants in the middle of the range are refused.
CopiesStayInUserPages ==
  \A p \in Processes : stage[p] = "ready" /\ active = root[p] =>
     \A base \in CopyBases, length \in CopyLengths \ {0}, needs \in {{}, {"W"}} :
        CopyAllowed(p, base, length, needs)
          <=> \A a \in base .. base + length - 1 :
                 \E k \in DOMAIN staging[p] :
                    /\ staging[p][k].page = a \div PageBytes
                    /\ needs \subseteq UserPages[staging[p][k].kind].attrs
=============================================================================
