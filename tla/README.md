# HimuOS: TLA+ models, model checks and proofs

This directory is a formal model of HimuOS, from the boot loader
(`src/src/boot`) to the processes of the executive (`src/src/kernel/ex`). The
modules are translated from the C code, checked with TLC on small instances, and
the safety properties of all but the address spaces (the scheduler, execution
levels, the object pool, physical pages and kernel addresses, the heap, processes,
the input lane, the boot with its memory and clock) are proved with TLAPS for
instances of any size. Paths below are relative to `src/src/kernel` unless they
begin with `src/`.

HimuOS is a 64-bit teaching kernel for one x86-64 processor: a UEFI loader, a
kernel layer `ke` (memory, threads, time, interrupts, devices), an executive
layer `ex` (processes, handles, system calls) and a few user programs.
One processor means that concurrency comes from two sources only: interrupts
(the one-shot timer, the keyboard) and the context switches they cause. Almost
every service protects itself by turning interrupts off, so the questions worth
asking are: where does a service leave its protected region half way, what may
happen there, and is the protection itself sound across context switches. The
boot is different: it is sequential, and what is hard there is that every call
of the firmware may fail and that the kernel trusts what the loader wrote.

## 1. Inventory

| Component | State | Operations | What is hard | What makes it correct |
|---|---|---|---|---|
| **Scheduler and dispatcher objects** `ke/thread` | KTHREADs, ready queues per priority, wait lists, timeout queue, reaper list, programmed deadline, quantum | create, start, yield, sleep, wait, signal, reset, release, exit, join, detach, timer interrupt, idle loop | join, reaper and finalization leave their critical sections; a signal and a timeout meet on one wait block; the timer is one-shot | queues match thread states; each termination is consumed once; no wakeup is lost; the timer covers every obligation |
| **Intrusive lists** `src/src/lib/common/linked_list.c` and the queue walks | sequences of threads | insert, remove, sorted insert, wake all expired | order of the timeout queue | sortedness, no duplicates |
| **Execution levels, critical sections** `ke/irql.c`, `ke/critical_section.c` | level and depths per thread, a global section depth, the interrupt flag, guards on stacks | acquire/release, enter/leave, interrupt entry and exit, `KiSchedule` | the depth is global while guards are per stack; flags saved by one thread are restored after others ran | no assertion fires; dispatch level masks interrupts; passive level does not |
| **Object pool** `ke/mm/pool.c` | free list through the slots, page list, counters, magic | init, alloc (with growth), free, destroy | pages are prepared with no lock held; destroy detaches under other threads' feet | one owner per slot and page, exact counters, promise of `pool.h` |
| **Physical pages** `ke/pmm` | 2-bit state per page, three counters | init from the memory map, alloc (first fit, aligned, limited), free, reserve | no lock; hand-kept counters; hostile memory maps; index arithmetic | bitmap, counters and holders agree; free memory is exactly the usable memory |
| **Kernel virtual addresses** `ke/mm/kva.c` | page states per arena, range records, generations, the kernel page table | allocate a range, map it page by page, release by handle or address, temporary maps | partial failure and rollback; stale handles; generations that run out | records, page states and page table agree; stale handles name nothing |
| **Kernel heap** `ke/mm/allocator.c` | a list of slabs per size class, 128 records of large blocks, counters | kmalloc, kzalloc, kfree, diagnosis of an address | ranges are taken and given back outside the sections; the records run out after pages are mapped; a page count that wraps | live blocks never overlap; every range, slot, record and counter is accounted for |
| **Address spaces** `ke/mm/address_space.c`, `ke/user_mode.c` | page-table trees, the roots of the processes, staged user pages, the translation cache | map, unmap, query, create, stage, enter, destroy | tables made and rolled back; a kernel half that is copied once; invalidation of the active root only | frames have one use; user code reaches its own pages only; no stale translation |
| **Executive objects and handles** `ex/object.c`, `ex/handle.c` | reference counts, slots with generations per process | retain, release, insert, resolve, close, close-all | plain increments without a lock; wrap of generations; a close-all that validates first | a referenced object is not destroyed; a stale handle resolves to nothing |
| **Processes and user threads** `ex/runtime_table.c`, `ex/process.c`, `ex/process_control.c`, ... | process and thread tables without references, completion events, teardown state | create (with a failure at each step), publish, start, wait, kill, foreground, finalize | events set by the idle thread in the middle of a teardown; two waiters for one child; a state written after the thread has started | counts are exact; tables name live objects; the finalizer meets no error |
| **System calls, user bridge** `ex/syscall.c`, `ke/user_mode_syscall.c`, `ex/user_runtime_bridge.c` | the step a call has reached, the dispatch root of a thread | exit, write, close, wait, sleep, spawn, read line, copy in and out | a call is many critical sections; pointers near the end of the address range | an accepted copy stays in user pages; every thread that can run has an address space |
| **Input lane** `ke/input` | line buffer, foreground owner, ready flag | interrupt handler, read line, change owner | owner read before the section that consumes the line; 10 ms polling | lines go to the owner, and the keyboard comes back |
| **Time** `ke/time`, `src/src/drivers/time` | the counter in use and its extension, the frequency, the one-shot timer | detect, calibrate, select, read, program, self-test | wraps and interrupts in the middle of a read; late interrupts; deltas below one tick | uptime follows the counter; a ready device is quiet; an event that was asked for comes |
| Console, log, sysinfo | cursor, sinks | write, format, snapshot | — | output only |
| **Initialization** `init/`, `hoentry.c` | what the kernel believes of the boot capsule and the manifest | check, probe the direct map, set up the page allocator, import, self-test, clocks | each step trusts the loader and may panic | what is trusted is true |
| **Boot loader** `src/src/boot/v2` | null guard page, kernel file, memory map, capsule, page tables, manifest | one sequential UEFI program | the memory map changes with every allocation; sizes are estimated first; any call fails | the manifest describes the tables; nothing usable is lost or overwritten |
| Drivers, libraries, architecture, user programs | — | port I/O, pure helpers, stubs, demos | — | — |

Calls between the parts: `kva` calls the page allocator and the page tables;
the heap calls `kva`; the pool calls the heap; the scheduler takes KTHREADs from
the pool and stacks from `kva`; `ex` sits on the scheduler, the pool and the
address spaces; the keyboard handler signals a scheduler event from interrupt
context. Every one of them uses guards and critical sections.

`PROJECT.json` lists the components with their status and, under `hazards`, the
places in the code where something could go wrong that a test would hardly reach,
with the properties that look at each of them. A hazard without a property says
why.

## 2. Modules

| Module | Models | Kind |
|---|---|---|
| `KeList` | list operations as operators on sequences | operators |
| `KeScheduler` | scheduler, dispatcher objects, timer, idle loop | component |
| `KeIrql` | levels, guards, critical sections, interrupt contexts, switches | component |
| `ObjectPool` | what `pool.h` promises | abstract specification |
| `KePool` | `pool.c`, one action per critical section | component, implements `ObjectPool` |
| `KePmm` | the bitmap allocator behind its facade | component |
| `KeKva` | kernel virtual addresses **on top of** `KePmm` (extends it) | composition |
| `BlockAllocator` | what `kmalloc` and `kfree` promise | abstract specification |
| `KeHeap` | `allocator.c`, one action per critical section | component, implements `BlockAllocator` |
| `KeAddressSpace` | page tables, process spaces, user pages, copies, the translation cache | component |
| `ExHandle` | the handle table of a process | operators |
| `ExRuntime` | processes, threads, system calls, finalizer, **over** `ExHandle` | composition |
| `KeInput` | keyboard controller and driver, input lane, the read-line system call | component |
| `BootLoader` | the loader, from the null guard page to the jump | component |
| `KePmmBoot` | the page allocator's set-up from the firmware's memory map | component |
| `KeTime` | time source and clock event device | component |
| `KernelBoot` | `InitKernel` **composing** `BootLoader`, `KePmmBoot` and `KeTime` | composition |
| `KeSchedulerProofs`, `KeIrqlProofs`, `KePoolProofs`, `KeKvaProofs`, `KeHeapProofs`, `ExRuntimeProofs`, `KeInputProofs`, `KernelBootProofs` | theorems about the module of that name | proofs |
| `MC*` | constants of the TLC instances | instances |

### KeScheduler

The variables are the fields of KTHREAD, of the wait block and of the global
scheduler state, under their C names. Every service raises the level and enters
a critical section; both turn interrupts off, and the switch at its end is part
of the service, so a service is one action. `KeIrql` is about the mechanism
that makes this so. Services that leave their section are
split at that point: a join claims its target, then waits (`pc` = `"joinWait"`,
`"joinBlocked"`, `"joinSignaled"`), then consumes and finalizes; the idle loop is
reap, finalize and halt with an interrupt possible between any two.

Time is relative. A deadline is the number of ticks left, 0 once it has passed,
`-1` when there is none; the code only compares deadlines with the present and
with each other. The one-shot device counts at most `MaxDelta` ticks, so long
intervals are counted in segments as the code does, and an interrupt may be
latched (`timerPending`) before a re-arm and be delivered after it. The clock
and the device themselves are external. `Calls` names the services an instance
uses; everything else of the module is present in every instance.

### KeIrql

A guard, a critical section and an interrupt frame are records on the stack of
their thread, with the values the code saves in them. `KiSchedule` hands the
processor over in the middle of one thread's guards to the middle of another's;
which thread is ready is left open, so the result holds for any scheduler. The
call sites of `KiSchedule` decide what a switched-out thread still holds: a
guard (blocking services, exit), an interrupt context (timer), or an interrupt
context, the handler's critical section and a guard (a key that ends a line
while the processor idles). `TryHandleUserRuntimeFault` is the path that never
returns. The boot-time self-test of the clock event device (`clock_event.c:72-92`)
is left out: it ends before the first thread exists.

### KePool and ObjectPool

`KePoolAlloc` is a look at the magic, a pop, a page prepared with no lock held,
a publication followed by a second pop, and a clearing of the slot; each is an action, and so are
the steps of free and destroy. Growth may be refused by the heap at any time.
`KePoolInit` runs alone, as `pool.h` asks of its callers. `ObjectPool` is the
view of a caller: an object is given out once, while the pool lives, and the
pool closes only when all objects are back. The refinement maps `alive` to the
magic and `allocated` to the slots in callers' hands or on their way there.

### KePmm and KeKva

`BitmapAllocPages` looks for pages and then marks them. Nothing in the allocator
excludes a second caller, so these are two actions, and other calls may run between
them. The history variable `overlapped` records that one did: that a call of the
allocator ran while another stood between its search and its mark. The callers are
the ones of the code, which do not bring the synchronisation that
`docs/design/pmm.md:66` asks of them. `KeKva` has one action per critical section
of `kva.c`. `KeKvaMapOwnedPages` is several: it works page by page and calls the
page allocator with no lock held, so it uses the two actions of `KePmm`. Threads
may also take pages straight from the allocator, at an alignment and under a
limit, as the page tables and `InitKernel` do. The page tables are external here:
`KePtMapPage` may fail and `KePtUnmapPage` does not. `live`/`stale` and
`tokens`/`staleTokens` are the handles that callers hold, and copies that
outlived what they named; the latter are offered to the release services too.

### KeHeap and BlockAllocator

A pointer is a range and an offset. Every critical section of `allocator.c` is an
action, and so is every call of the KVA layer, which may refuse. Slabs keep their
free list in order and the size asked for in every slot, so that the arithmetic of
`kfree` (which slot does a pointer name?) is computed and not assumed. The page
count wraps in a small machine word. `BlockAllocator` knows a set of blocks: one
appears only where no live block has a byte, and disappears whole.

### KeAddressSpace

A page number is read digit by digit to the base `Entries`, which gives trees of
`Depth` levels like the processor's. `KePtMapPage` is computed as the code does
it: go down, make the missing tables, promote the entries, and on a failure undo
exactly that. `tlb` is the translation cache: `Access` may fill it at any time,
`KiInvalidatePage` drops one page if the changed root is the active one, and a
switch drops all (CR4.PGE is never set). The imported
tables (`ImportedTables` in the MC module) have a large leaf of the direct map and
the top-level entries of all arenas, as they are after `KeKvaSelfTest`.
`CopyAllowed` is the check of copy-in and copy-out over byte addresses that wrap.

### ExHandle and ExRuntime

A process and its one thread are two reference-counted objects. A service is a
list of steps in `act[a].steps`: one for each critical section, each update of a
count outside one and each place where it blocks. So a waiter may run between any
two steps of the finalizer, and a spawner may find its child gone already.
`BuiltProcess` and `BuiltThread` are the objects after creation;
`FailedCreation` unwinds them at any of the steps that may fail. The idle thread
runs the finalizer and, by its priority, only when nobody else can run
(`IdleMayRun`). An update of a count outside a critical section is a load into
`reg` (`LoadCount`) and a store (`UpdateCount`, or a step of `Finalize`), with other
threads running between the two. `Finalize` closes all handles, a retain and several
releases, and its window reaches from the first load to the last store. The history
variable `overlapped` records that a count was changed in such a window by another
thread.

### KeInput

The controller delivers bytes; the handler reads them one by one, edits the line
and, at a line's end, sets the event. A handler that interrupted the idle thread
(`handler = "idle"`) is left there: `KeSetEvent` switches to the woken reader before
the interrupt is acknowledged, and the handler goes on only when the idle thread is
picked again (`HandlerRuns`), while readers, movers of the lane and all other threads
run; `work` says that one of the latter can. A handler that interrupted another thread
runs to its end. Ownership changes at any moment while a thread is there to change it. A read is: check the owner, wait for the event with a timeout, check
again, check before the copy, copy, check, consume. A character carries the thread
it was typed for (`for`), which the code does not record: the properties are about
it. `moves` counts, up to two, how often the lane moved under a reader.

### BootLoader, KePmmBoot, KeTime, KernelBoot

Memory is counted in pages; a descriptor of the firmware's map in bytes of a
small space whose sums wrap. `machine` is the hardware and firmware that is booted,
one of `Machines`: its memory map, ACPI tables, kernel image, NX support, clocks.
`BootLoader` has one action per step of `StagingKernel` and of
`CreateInitialMapping`, and a failing twin where a call may fail. `KePmmBoot` has
one per step of `KePmmInitFromBootMemoryMap`. `KernelBoot` makes the calls of
`InitKernel` on what the loader left. In `KeTime` a thread reads the ACPI timer access
by access, as the build without optimization does (`src/makefile:103`): the port,
`LastRaw`, `High` loaded and stored, `LastRaw` stored, `High` again. The timer's
interrupt, whose handler reads the time too, may come between any two. `Torn` names
the places where it then does damage, and `lost` records that it did or that a whole
period went by unread. One thread at a time is inside the read; another thread's
whole read does what the interrupt's does.

## 3. Runs

| Run | Question | Instance |
|---|---|---|
| `threads` | Is every terminated thread freed once, do queues match states, and do signals, timeouts and hand-offs race without losing or doubling anything? | 3 thread slots that are reused, a semaphore of limit 2, a mutex, timed and untimed waits and joins; symmetry |
| `timing` | Does the one-shot timer cover every obligation, does a timed wait end, and does a ready thread run? | priorities 0 and 2 of 3, one event signalled by threads and by a device, timeouts 1 and 2, quantum 2, device range 1 |
| `irql` | Do the level and depth assertions hold across every switch? | 3 threads and idle, 5 nested guards; symmetry |
| `pool` | Does the pool keep its promise in every interleaving, and is every page and slot accounted for? | 3 threads, 4 heap pages of one slot, 2 at the start |
| `memory` | Is a physical page ever lost or shared, do records, page states and page table agree, do stale handles and tokens name nothing, is first fit what it should be? | 2 threads, 3 pages from every initial bitmap, 2 records, stack ranges with a guard page, heap ranges of two pages, a fixmap slot, 3 generations; up to the first overlap of two allocator calls (`UpToOverlap`) |
| `kva_race` (violation) | May the release of a range panic? | one-page ranges of 2 threads, the page allocator called as `kva.c` calls it |
| `heap` | Do live blocks stay apart, and is everything accounted for while calls are half-way? | 2 threads, 3 ranges of 16-byte pages, two classes, one large record, a size that wraps; symmetry |
| `addrspace` | Are frames lost or shared, what can user code reach, is a translation ever stale, where does a copy go? | 3 processes, each created once, 3 levels of 4 entries, 14 frames, two kernel pages; symmetry |
| `runtime` | Are the counts exact on every path, and does nobody meet a freed object or an error that panics? | 2 kernel threads, a shell, in the foreground or not, and the program it starts, tables of two, counts as a load and a store; up to the first overlap of two updates (`UpToOverlap`); symmetry |
| `refcount` (violation) | Is a retained object there until it is released? | 1 kernel thread, 1 process, counts as a load and a store |
| `input` | Whose line is it, does a read end, is every key served that can be? | 2 readers, lines of 2 characters, buffers of 1 and 2, 3 keys, 2 moves |
| `boot` | Is what the kernel trusts true, is free memory exactly the unused memory, is the time right? | 21 pages, maps of two and three descriptors, ACPI of six kinds, four images, five sets of clocks with a counter that wraps after 2 ticks and 3 ticks of real time |

*Why these bounds are enough for the questions.* Three threads are the least with
which a third party acts between two others (a second joiner, a barging thread
at a hand-off, a third queue entry between two). A quantum of 2 with timeouts 1
and 2 puts a timeout before, at and, for a thread that begins to wait later, after
the end of a quantum; a device that counts one tick at a time makes both longer
than one of its segments (in `threads` it counts two). Four one-slot pages let
three threads grow a pool that began with two pages, with the heap able to run
out. Five guards are the deepest stack that occurs (interrupt, handler section,
guard, and two more). A page of two bytes tells a limit at a page's last byte from
its neighbours. `MaxGeneration` (2^64-1 in the code), `TokenGenerationMask`
(2^58-1) are so small that they run out. Three
heap ranges are two slabs of one class and a large block, or two large blocks and
one record. Fourteen frames hold two staged processes and not a third, so that two
coexist and maps fail at every level. A shell and its child are the least in which a process is parent
and child, and two kernel callers the least in which two wait for one child. Two
moves of the lane are one more than a reader tolerates. The boot instance has
empty, unaligned, wrapping and overlapping descriptors, memory that is just
enough and too little, and pools that run out. Three ticks of a counter of two hold
a wrap with reads on both sides of it, and a whole period unread. The constraint `UpToOverlap` of
`memory` and `runtime` ends a behaviour at the first overlap, behind which counters
drift without end. Up to that point nothing is cut; of the properties that say
something beyond it, `HandlesNameTheirRange` and `MappedExactlyWhereUsable` are proved
there too. `Counts`, `Shapes`, `Sizes`,
`Timeouts`, `MaxNesting`, `MaxKeys`, `MaxMoves`, `MaxProcesses`, `MaxTicks` and
`MaxInterrupts` are the bounds on what callers and devices do; no variable has a
hidden bound.

*Deadlock.* `pool`, `irql`, `heap`, `addrspace`, `runtime` and `input` check it. In
`threads` and `timing` the system may rightly stop (idle, nothing armed, no
thread), in `memory` too (all pages reserved, generations used up), and a boot
ends: these say `CHECK_DEADLOCK FALSE`.

*Fairness.* `FairSpec` in `KeScheduler`: time passes (`Tick`), the processor takes
a pending timer interrupt between two services (`KiSchedulerTimerISR`; interrupts
are on there, which `PassiveIsPreemptible` proves), and it executes the idle loop
when that is the current thread. Nothing is assumed of threads: one may spin for
ever. Strict priorities starve by design, so `ReadyThreadRuns` is asked of the
highest priority in use. `Fairness` in `KeInput`: an interrupt that is asked for is
taken and its handler goes on whenever its thread has the processor, and a reader that
can run, or whose wait is over, runs, which is what `TimedWaitEnds` and
`ReadyThreadRuns` give it at equal priorities. Nothing is assumed of the other threads
(`WorkEnds` is not fair), so a handler suspended with the idle thread may stay there:
`KeysAreServed` says that this is the one way a key is not served. Nobody has to press
a key, start a read or move the lane.

Every property of a passing run has a mutant in `PROJECT.json`: a plausible slip
in the code's terms (a dropped guard, a missing reset, a swapped order) under
which TLC finds the property violated. The operators are marked "Mutant" in the
modules and are used by nothing else.

## 4. What the code does that its documents do not say

Two runs end in a violation, on purpose:

1. **`kva_race`** — `ke/mm/kva.c:660`. The page allocator is called outside any
   critical section although it has no lock, so a thread preempted between search
   and mark shares its page with the next caller; releasing the second range
   reaches the panic at `kva.c:352`. The run `memory` and the theorem
   `PagesHaveOneOwner` show that nothing else leads there: until two calls of the
   allocator overlap, the panic is unreachable.
2. **`refcount`** — `ex/object.c:51`. Counts are incremented and decremented in
   place with interrupts on. The idle thread that closes the handles of a process
   (`ex/handle.c:373`), or the process itself when it closes a handle of its own
   (`ex/handle.c:309`), may be preempted between load and store by a parent that
   retains the process (`ex/runtime_table.c:522`); the retain is lost, and the object is
   destroyed under the parent. The run `runtime` and the theorems of
   `ExRuntimeProofs` show that the protocol is right apart from this: until two
   updates of one count overlap, every count is exact.

Noted while modelling, without a run of their own:

- `ke/thread/scheduler/scheduler.c:688`: the idle loop looks at the reaper's list and
  then halts, with interrupts on between the two. A timer interrupt there may run
  a thread that terminates; the idle thread then halts with the list nonempty and,
  if no thread and no timeout is left, nothing programmed. Thread and stack stay
  until a device interrupt, while `docs/design/kva.md:276` has the reaper reclaim
  the stack once the thread has terminated. `Halt` in `KeScheduler` has no guard
  on the list, so the runs contain this behaviour.
- `ke/pmm/pmm_boot_init.c:193`: the overlap check compares neighbours and is skipped
  when the neighbour is empty, so an empty descriptor between two overlapping ones
  hides the overlap; `docs/design/pmm.md:28-30` has empty descriptors filtered and
  overlaps refused. Of two descriptors that overlap this way the reclaimable one
  counts, and `FreeMemoryIsExactlyUsable` is about the reclaimable ones.
- `ke/pmm/bitmap_sink.c:102` applies an alignment to the index in the bitmap, while
  the managed range starts at the lowest reclaimable address, which is aligned to
  one page only; `docs/design/pmm.md:61` promises a power-of-two alignment of pages.
  No caller asks for one today; `memory` has an aligned start.
- `ke/input/input.c:305`: the owner is checked before the section that takes the
  line. `ReadReturnsReadersLine` holds for one move of the lane under the reader;
  after two a reader may return a line typed for its successor.
- `ke/mm/address_space.c:911`: under a process root an unmapped kernel page stays
  cached until the next switch (`docs/design/kva.md:387` says as much), so
  `NoStaleTranslation` speaks of user pages, and of all pages under the kernel root.
- `ke/time/sinks/pmtimer_sink.c:13`: the two fields of the sink have no lock. An
  interrupt that reads the time when a thread has read the port but not yet compared,
  or has found a wrap but not yet loaded `High` (line 25), or has added it but not yet
  stored `LastRaw` (line 27), moves the uptime by a period for good; so does a period
  during which nobody reads, and one read is wrong when the interrupt counts a wrap
  just before `High` is read for the result (line 29). `UptimeIsTrue` holds until one of these
  happens, and `Torn` is the list of them.
- `ke/input/input.c:111`: the switch away from the idle thread leaves the interrupt
  unacknowledged (`input.c:180`). As long as other threads are ready no key is
  read, for ever if they never all block; `KeysAreServed` says so.
- `src/src/boot/v2/blmm/blmm.c:27` frees the memory-map buffer with the page count of
  the next attempt, and `bootloader.c:191` takes a page-table pool that is used up
  exactly for a failure. Both are modelled as they are.

## 5. Proofs

`KeSchedulerProofs` proves, from `SchedulerAssumption` (finite sets of threads and
mutexes, the kinds of objects disjoint, positive limits, quantum and device
range), for any number of threads, objects and priorities:

- `TypeCorrect`: `Spec => []TypeOK`
- `QueuesMatch`: `Spec => []QueuesMatchStates`
- `OneOwner`: `Spec => []TerminatedHasOneOwner`
- `JoinStability`: `Spec => []JoinTargetStable`
- `NoWakeupLost`: `Spec => []NoLostWakeup`
- `MutexesOwned`: `Spec => []MutexOwnership`
- `NothingDangles`: `Spec => []NoDanglingThread`
- `TimerCovers`: `Spec => []TimerCoversObligations`
- `OutcomeMatches`: `Spec => WaitOutcomeMatchesOwnership` (an action property)

None of them is inductive. `CoreInv` joins the first four and adds what
they need from each other: the running thread is the one whose state says so
and ready queues hold the READY threads (`Cpu`); wait lists and timeout queue hold
the uncompleted wait blocks (`Lists`); an uncompleted block belongs to a BLOCKED
thread (`BlockStates`); and a thread waits for a termination event only inside the
join whose claim keeps the target alive (`Claims`, in `Life`). The last is the
link: without it a freed KTHREAD could be reused with waiters on its list. The
proof has a lemma for each action, and one for the parts they share: blocking the
current thread, completing waits, switching. `LockInv` stands on top of it: whoever
waits finds his object unsignalled (`Waiting`), mutexes are as `MutexOwnership` has
them, and `ActiveThreadCount` is one more than the number of live threads. The
deadline of the timer needs `CoreInv` only, and the order of the timeout queue. The
module begins with the facts about the list operators of `KeList`: what insertion,
removal and the walk over expired timeouts do to the range, the distinctness and the
order of a queue.

`KePoolProofs` proves, from `PoolAssumption`, for any number of threads, pages and
slots per page, `PoolAccounted` (`Spec => []PoolAccountedFor`) and the refinement
`PromiseKept` (`Spec => KeepsPromise`, the pool implements `ObjectPool`). `PoolInv`
says what a thread holds at each point of a service (`Hands`), which states of the
pool go with which magic (`Phases`), and whose each page is (`PageOwners`): the heap,
the page list, a thread that grows, or a thread that destroys, and one of them only.

`KeKvaProofs` proves, from `PmmAssumption` and `KvaAssumption`, for any number of
threads, pages, records and generations:

- `FirstFit`: the scan returns the lowest aligned run below the limit, and fails
  only when there is none (`ScanFindsLowestFit`), for every bitmap. Its hypothesis
  `RequestsCanBeMet` says that the managed range starts at a multiple of every
  alignment asked for and that no limit wraps to 0; both are hazards of their own.
- `HandlesKept`: `Spec => []HandlesNameTheirRange`
- `MapsFollowRecords`: `Spec => []MappedExactlyWhereUsable`
- `PagesHaveOneOwner`: `Spec => []PhysicalPageHasOneOwner`, which says what it says
  until two calls of the page allocator overlap. There is no hypothesis on the
  callers; that an overlap happens, and what comes of it, is the run `kva_race`.

`KvaInv` is the invariant of the two in the middle: records do not overlap, page
states follow from the records, generations move on when a record is given back,
and a range in a caller's hands, or half built, is mapped as far as it should be. It
holds beyond an overlap, too. `overlapped \/ PhysInv` is added for the last:
`PhysInv` is about the pages behind the ranges: what is mapped or in hand is allocated
and there once, and what is allocated is mapped or in hand. It is not inductive
without `KvaInv`, since only records that do not overlap release pages that nobody
else has mapped.

`KeHeapProofs` proves, from `HeapAssumption` (positive sizes, a page count that fits
the machine word, one slot of every class fits a slab, requests are machine words),
for any number of threads, ranges, records, classes and requests:

- `HeapAccounted`: `Spec => []BackingAccountedFor`
- `BlocksDisjoint`: `Spec => BlocksNeverOverlap`, the refinement: the heap implements
  `BlockAllocator`

The invariant is `HeapInv`. It says of each range which one of five lives it leads
(`RangeOk`): a slab on the list of its class, with the slots on the free list and the
used ones apart and all slots there (`LinkedOk`, `SlabOk`); a block that one record
names (`RecordedOk`); in the hands of one thread on its way in or out (`HeldOk`,
`CallOk`); free; and in the first two the blocks that callers own are exactly the used
slots, or the recorded block (`UsedOk`, `OwnedOk`). The counters (`CountsOk`) are sums
over all of them, which a step changes by one block. A step of a thread touches one
range, so what it leaves alone is shown once (`FrameStructure`). Two facts of
arithmetic carry the rest: slots of a slab start apart and end before the page does
(`OffsetsApart`, `OffsetInPage`), and the division in `kfree` finds the slot a pointer
names and no other (`SlotOfByte`). The count of pages of a large block covers the
block unless it wraps, and then it is 0 and the request refused (`PageCountFacts`).

`ExRuntimeProofs` proves, from `RuntimeAssumption` and `HandleAssumption`, for any
number of processes and kernel callers, any table size and any pattern of spawns:

- `CountsAreExact`: `Spec => []ReferenceCountsExact`
- `UsersAreOutlived`: `Spec => []ObjectsOutliveTheirUsers`
- `TablesNameTheLiving`: `Spec => []TablesNameLiveObjects`
- `RootsAlwaysResolve`: `Spec => []DispatchRootAlwaysResolves`
- `FinalizerAlwaysSucceeds`: `Spec => []FinalizerNeverFails`

Each property holds until two updates of one count overlap, which the C code does not
exclude (`ex/object.c:51`), and the model has the loads and stores of the code: there
is no hypothesis. The run `refcount` shows what an overlap leads to; the theorems say
that nothing else can go wrong. The invariant is `overlapped \/ RuntimeInv`, with
`RuntimeInv` as follows. A step determines the rest of its script (`Scripts`), so what a
service holds is a function of its step (`Weight`). `Rank` is how far the
finalization of a process is, from 0 (before it) through its eight steps to 9
(behind it), and `Processes` says for each rank what is there: payload up to
3, thread entry up to 4, handles up to 5, thread object and its reference up to 6,
table entry and completion's reference up to 8, and from then on as long as nobody
has consumed the completion. `Counts` adds up the references; the
services under way are counted as pairs, so that a step changes the sum by the
difference of two weights. `CallerOk`, `OneSpawner` and `ReaperOk` say what a caller
relies on between its steps: among them that a spawner that still has to write READY
finds its child not yet in the finalizer, which holds because the idle thread runs
only while no spawner can (`NoMarker`).

`KeInputProofs` proves, from `InputAssumption`, for any number of readers and any
keys, `LaneIsOwners` (`Spec => []LaneHoldsOwnersLine`) and `ReadsAreOwn` (`Spec =>
ReadReturnsReadersLine`, an action property: a read under which the lane moved at most
once since its last check returns the reader's own line; of reads with two moves,
which may return another owner's, it says nothing). `ReaderInv` says what a reader may rely
on between its unlocked looks at the owner.

`KeIrqlProofs` proves, from `IrqlAssumption`, for any number of threads and any
nesting, `IrqlTypeCorrect`, `AssertionsNeverFire`, `DispatchIsAtomic`,
`PassiveIsPreemptible` and `SectionsAreExclusive`. `IrqlInv` describes each stack of
guards from the bottom up (`Stacks`: depths count positions; an interrupt frame
lies at the bottom; the bottom guard of a live thread found interrupts on) and ties
the sections of all stacks to the one global depth (`Sections`: the depth is that
of the innermost section of the running thread, or what a suspended keyboard
handler left). It has to speak of every stack, because a switch makes any of them
the running one.

`KernelBootProofs` proves about the memory of the boot, from `LoaderAssumption` (the
windows of the address space lie one behind the other and the direct map has room
for physical memory), `MachineAssumption` (the firmware describes pages of the
physical address space; its memory map may be malformed in any way),
`BootAssumption` and `KernelBootAssumption` (loader and kernel have the same pages),

- `ManifestIsTrue`: `Spec => []ManifestMatchesTables`
- `ProbeIsHarmless`: `Spec => []ProbeIsSpare`
- `FreeMemoryIsSafe`: `Spec => []FreeMemoryIsSafeToUse`
- `FreeMemoryIsExact`: `Spec => []FreeMemoryIsExactlyUsable`

for every machine, image, memory map and layout of the windows. `BootInv` follows
the boot. `LoaderInv` says for each stage where the capsule and the pool lie, that
the entries recorded so far describe the tables built so far, that the direct map
covers the whole firmware map, that the windows of the kernel lead into the
capsule, and how many entries the steps so far may have recorded (`Allowance`).
The last shows what the estimate rests on: the loader records up to twelve fixed
entries where `BOOT_MAPPING_FIXED_ENTRY_BUDGET` has ten, so that it is the eight
entries of slack that make the manifest large enough. `RegionsOk` and `PmmInv` say
that the imported regions are the manifest's entries and the descriptors the
firmware's, in another order; both sorts are defined by rank, and `Places` shows
that a total order of a finite set gives every rank one member. `PmmInv` then
relates the state of every managed page to the descriptors that cover it and to
what the boot left behind, and `BytesOfPage` and `PagesOfRange` carry this from
pages to the byte ranges, with sums that wrap, that the code computes with. One
assumption is needed only by `FreeMemoryIsExact`: the low window is not empty,
because page 0 is reserved on its own account.

It also proves, from `TimeAssumption`, about the clock inside the whole boot,

- `UptimeAlwaysTrue`: `Spec => []UptimeIsTrue`
- `ClockEventAlwaysQuiet`: `Spec => []ClockEventIsQuiet`

for every period of the ACPI timer, width of the APIC's count, frequency and set
of disturbed measurements. `TimeInv` ties the two halves of the sink to the time of
the last read, and a thread inside a read to both: as long as nothing was lost, the
raw value it holds, and what it has loaded and stored already, fit the time of its
look at the port and of the last whole read (`ReadsAreTrue`).
`Wraps` is the arithmetic, by quotients: within a period, the raw value goes down
exactly when a wrap has to be added. `MedianIsTrue` shows that three good samples of
five determine the frequency (the value of rank 3 cannot be below or above the one
that three share), which is why `Ranked` defines the sorted results by rank.
`TimerObeys` says where the one interrupt of a request is: in the count, pending, or
counted.

*Only model-checked:* all liveness (`ReadyThreadRuns`, `TimedWaitEnds`, `ReadsEnd`,
`KeysAreServed`; out of the prover's reach), and the five invariants of
`KeAddressSpace`. What `Walk` computes there is a recursion over a tree of tables that
other steps extend and cut, and an invariant over all such trees needs induction
over their depth; TLC compares it with its definition on every state that arises.
(Recursive computations over positions, `Scan` and the removal from a list, are
proved: a least counterexample among finitely many positions takes the place of
induction.)

## 6. What is left out, and why

- Statistics, logging and formatting everywhere; they are written and never
  read by the logic. `ActiveThreadCount` is kept because sysinfo reports it.
- `KePmm`: the packing of four states in a byte and the interleaving of the writes to
  such a byte and to the counters: search and mark are one step each; the limit 2^64-1, for which
  `maxAddr - base + 1` may wrap to 0 (no caller passes one).
- `KePmmBoot`: descriptors whose page count times 4096 wraps more than once.
- `KeKva`: address classification, snapshots and the self-test, which leave nothing
  behind; `KeKvaAllocRange` on the fixmap arena, which has no caller.
- `KeAddressSpace`: `KePtProtectPage`, called by the self-test only, on a page it
  unmaps again; two threads inside `KePtMapPage` at once, which nothing prevents
  (the same missing lock as in `kva_race`).
- `KeHeap`: contents of blocks, `KeKvaQueryRange` failing right after an allocation.
- `ExRuntime`: the table of built-in programs and the parsing of images (data), the
  texts of sysinfo. The cleanup of a spawn after publication
  (`ex/process_control.c:151-162`, `ex/thread.c:222-258`): the three calls that would
  lead there fail only for arguments that are null, uninitialized or in a wrong state,
  which they are not at that point. `ThreadExits` marks the process as terminating and
  ends the thread in one step; nobody reads the mark in between. Handles are inserted
  at creation only, as in the code, so generations do not wrap there.
- `KeInput`: echo, and the contents of a line beyond who typed it for whom.
- `KeTime`: the 128-bit multiplication from ticks to nanoseconds; overflow of
  `now + timeout` in the scheduler, whose time is relative.
- `BootLoader`: the file system, text output; the failure of `InitCpuCoreLocalData`
  (`bootloader.c:199-204`), which checks the size of a buffer that has the right type.
- Console, log and sysinfo (output of other parts' state), fonts, descriptor tables
  and stubs, serial and video drivers, string helpers, user programs and demos
  (clients, read for how the services are called).

## 7. Plan

Done, in this order: lists and scheduler; levels and critical sections; the pool
with its promise; physical pages; virtual addresses; the heap with its promise;
address spaces; handles and processes; the input lane; the boot with memory
set-up and clocks. What is left of the code is output, data and layout.

Proved: lists, scheduler, execution levels, pool, physical pages and kernel
addresses, heap, processes, input lane, boot loader, memory set-up, clock. Next
would be `FramesHaveOneUse` and `KernelHalfIsShared` of `KeAddressSpace`: an
invariant over trees of tables, whose depth is a constant.
