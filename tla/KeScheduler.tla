----------------------------- MODULE KeScheduler -----------------------------
(***************************************************************************)
(* The thread scheduler of the HimuOS kernel (ke/thread): thread life      *)
(* cycle, the ready, wait and timeout queues, the dispatcher objects       *)
(* (event, semaphore, mutex, and the termination event every thread        *)
(* carries), the tickless timer interrupt, join / detach / reap, and the   *)
(* idle loop.                                                              *)
(*                                                                         *)
(* The kernel runs on one processor.  Every service raises IRQL and enters *)
(* a critical section, both of which disable interrupts, so its body up to *)
(* and including the context switch is one step.  Interrupts are taken     *)
(* between steps, and a service that leaves its critical section half way  *)
(* (join, the reaper, finalization) is split into several actions there.   *)
(*                                                                         *)
(* Time is relative: a deadline is the number of ticks left until it, 0    *)
(* once it has passed.  The code only compares deadlines with the current  *)
(* time and with each other, so nothing is lost and time needs no bound.   *)
(***************************************************************************)
EXTENDS Integers, Sequences, FiniteSets, Functions, KeList

CONSTANTS
  Threads,      \* the KTHREAD slots of the pool
  Idle,         \* the idle thread, which is also the boot thread
  Events,       \* KEVENT objects
  DeviceEvents, \* the events an interrupt handler signals (keyboard input)
  Semaphores,   \* KSEMAPHORE objects
  Mutexes,      \* KMUTEX objects
  Limit,        \* the limit of a semaphore, which is also its initial count
  KTHREAD_PRIORITY_COUNT, \* the number of priority levels, lowest first
  Priority,     \* the priority field of each thread slot
  Timeouts,     \* the finite timeouts and sleep durations in use, in ticks
  Quantum,      \* KE_DEFAULT_QUANTUM_NS in ticks
  MaxDelta,     \* the longest interval the one-shot timer can count
  Calls,        \* the kernel services the threads of an instance use
  NULL

Services == {"create", "createJoinable", "start", "yield", "sleep", "wait",
             "setEvent", "resetEvent", "releaseSemaphore", "releaseMutex",
             "exit", "join", "detach"}

Objects == Events \cup Semaphores \cup Mutexes \cup Threads

Priorities == 0 .. KTHREAD_PRIORITY_COUNT - 1

ASSUME SchedulerAssumption ==
  /\ IsFiniteSet(Threads) /\ IsFiniteSet(Mutexes)
  /\ Idle \notin Objects /\ NULL \notin Objects \cup {Idle}
  /\ Events \cap Semaphores = {} /\ Events \cap Mutexes = {}
  /\ Semaphores \cap Mutexes = {}
  /\ Threads \cap (Events \cup Semaphores \cup Mutexes) = {}
  /\ DeviceEvents \subseteq Events
  /\ Limit \in [Semaphores -> Nat \ {0}]
  /\ KTHREAD_PRIORITY_COUNT \in Nat \ {0}
  /\ Priority \in [Threads -> Priorities]
  /\ Timeouts \subseteq Nat \ {0}
  /\ Quantum \in Nat \ {0} /\ MaxDelta \in Nat \ {0}
  /\ Calls \subseteq Services

NoDeadline == -1   \* DeadlineNs = 0: no timeout is linked or programmed
Infinite == -1     \* KE_WAIT_INFINITE

VARIABLES
  state,                  \* KTHREAD.State, "FREE" for an unused pool slot
  pc,                     \* where a thread stands inside a split service
  target,                 \* the thread it joins or finalizes
  terminationMode,        \* KTHREAD.TerminationMode
  claim,                  \* KTHREAD.TerminationClaimState
  ownedMutexCount,        \* KTHREAD.OwnedMutexCount
  waitObject,             \* WaitBlock.Dispatcher of an uncompleted wait
  deadline,               \* WaitBlock.DeadlineNs of an uncompleted wait
  waitStatus,             \* WaitBlock.Completed and .CompletionStatus
  signal,                 \* Header.SignalState of every dispatcher object
  waitList,               \* Header.WaitListHead of every dispatcher object
  owner,                  \* KMUTEX.OwnerThread
  readyQueues,            \* gReadyQueues
  timeoutQueue,           \* gTimeoutQueue
  terminatedList,         \* gTerminatedList
  currentThread,          \* gCurrentThread
  activeThreadCount,      \* gStats.ActiveThreadCount
  quantumDeadline,        \* gQuantumDeadlineNs
  nextProgrammedDeadline, \* gNextProgrammedDeadlineNs
  oneShot,                \* ticks until the timer fires, 0 when disarmed
  timerPending            \* the timer interrupt is latched in the LAPIC

lifeVars  == <<pc, target, terminationMode, claim, activeThreadCount, terminatedList>>
blockVars == <<waitObject, deadline, waitStatus, waitList, timeoutQueue>>
lockVars  == <<signal, owner, ownedMutexCount>>
cpuVars   == <<state, readyQueues, currentThread>>
clockVars == <<quantumDeadline, nextProgrammedDeadline, oneShot>>
vars == <<lifeVars, blockVars, lockVars, cpuVars, clockVars, timerPending>>

AllThreads == Threads \cup {Idle}
Min2(a, b) == IF a <= b THEN a ELSE b

-----------------------------------------------------------------------------
(* The ready queues.                                                       *)

KiHasAnyReadyThread(rq) == \E p \in Priorities : rq[p] # << >>

KiGetHighestPriorityReadyQueue(rq) ==
  CHOOSE p \in Priorities : /\ rq[p] # << >>
                            /\ \A q \in Priorities : q > p => rq[q] = << >>

\* The members of a sequence of woken threads that go to the queue of p.
OfPriority(ws, p) == LinkedListRemove(ws, {t \in Threads : Priority[t] # p})

\* Every thread of ws is linked, in order, at the tail of its own queue.
EnqueueReady(rq, ws) == [p \in Priorities |-> rq[p] \o OfPriority(ws, p)]

-----------------------------------------------------------------------------
(* Programming the timer.                                                  *)

\* KiArmClockEvent: the delta is clamped to what the device can count.  The
\* shortest delta is the tick.  An interrupt already latched stays latched.
KiArmClockEvent(delta) == oneShot' = Min2(delta, MaxDelta)

Delta(ticksLeft) == IF ticksLeft > 0 THEN ticksLeft ELSE 1

\* Mutant: an idle CPU never programs the timer.
ArmOnlyForThreads(next) ==
  \/ /\ next = Idle
     /\ nextProgrammedDeadline' = NoDeadline
     /\ UNCHANGED <<quantumDeadline, oneShot>>
  \/ /\ next # Idle
     /\ quantumDeadline' = Quantum
     /\ nextProgrammedDeadline' = Quantum
     /\ KiArmClockEvent(Quantum)

\* KiArmForNextEvent reads the timeout queue as the step leaves it.
KiArmForNextEvent(next) ==
  LET idleTarget == deadline'[Head(timeoutQueue')]
      runTarget  == IF timeoutQueue' = << >> THEN Quantum
                    ELSE Min2(Quantum, deadline'[Head(timeoutQueue')])
  IN  \/ /\ next = Idle
         /\ timeoutQueue' # << >>
         /\ nextProgrammedDeadline' = idleTarget
         /\ KiArmClockEvent(Delta(idleTarget))
         /\ UNCHANGED quantumDeadline
      \/ /\ next = Idle
         /\ timeoutQueue' = << >>
         /\ nextProgrammedDeadline' = NoDeadline
         /\ UNCHANGED <<quantumDeadline, oneShot>>
      \/ /\ next # Idle
         /\ quantumDeadline' = Quantum
         /\ nextProgrammedDeadline' = runTarget
         /\ KiArmClockEvent(Delta(runTarget))

-----------------------------------------------------------------------------
(* The scheduling decision.  st and rq are the thread states and ready     *)
(* queues that the service has prepared before it calls KiSchedule.        *)

KiSchedule(st, rq) ==
  \/ \E p \in Priorities :
        LET next == Head(rq[p])
        IN  /\ KiHasAnyReadyThread(rq)
            /\ p = KiGetHighestPriorityReadyQueue(rq)
            /\ readyQueues' = [rq EXCEPT ![p] = Tail(rq[p])]
            /\ state' = [st EXCEPT ![next] = "RUNNING"]
            /\ currentThread' = next
            /\ KiArmForNextEvent(next)
  \/ /\ ~KiHasAnyReadyThread(rq)
     /\ readyQueues' = rq
     /\ state' = [st EXCEPT ![Idle] = "RUNNING"]
     /\ currentThread' = Idle
     /\ KiArmForNextEvent(Idle)

KeepRunning(st, rq) ==
  /\ state' = st
  /\ readyQueues' = rq
  /\ UNCHANGED <<currentThread, clockVars>>

\* A signal that makes a thread ready while the CPU idles switches at once.
ScheduleIfIdle(st, rq) ==
  \/ currentThread = Idle /\ KiHasAnyReadyThread(rq) /\ KiSchedule(st, rq)
  \/ ~(currentThread = Idle /\ KiHasAnyReadyThread(rq)) /\ KeepRunning(st, rq)

-----------------------------------------------------------------------------
(* Wait blocks.                                                            *)

\* Mutant: the timeout link is left behind.
CompleteWaitKeepsTimeout(ws, status) ==
  LET W == Range(ws)
  IN  /\ waitStatus' = [t \in Threads |-> IF t \in W THEN status ELSE waitStatus[t]]
      /\ waitObject' = [t \in Threads |-> IF t \in W THEN NULL ELSE waitObject[t]]
      /\ deadline'   = [t \in Threads |-> IF t \in W THEN NoDeadline ELSE deadline[t]]
      /\ waitList'   = [o \in Objects |-> LinkedListRemove(waitList[o], W)]
      /\ UNCHANGED timeoutQueue

\* KiCompleteWait for every thread of the sequence ws: the block is unlinked
\* from the wait list and from the timeout queue and its outcome recorded.
\* The fields of a completed block are dead until KiInitWaitBlock, so the
\* model clears them.
KiCompleteWait(ws, status) ==
  LET W == Range(ws)
  IN  /\ waitStatus' = [t \in Threads |-> IF t \in W THEN status ELSE waitStatus[t]]
      /\ waitObject' = [t \in Threads |-> IF t \in W THEN NULL ELSE waitObject[t]]
      /\ deadline'   = [t \in Threads |-> IF t \in W THEN NoDeadline ELSE deadline[t]]
      /\ waitList'   = [o \in Objects |-> LinkedListRemove(waitList[o], W)]
      /\ timeoutQueue' = LinkedListRemove(timeoutQueue, W)

\* ... and the thread itself becomes ready.
StateReady(st, ws) ==
  [t \in AllThreads |-> IF t \in Range(ws) THEN "READY" ELSE st[t]]

\* The blocking path shared by KeWaitForSingleObject and KeSleep (o = NULL):
\* initialize the wait block, link it, give up the CPU.
BlockCurrent(t, o, ticks) ==
  /\ waitStatus' = [waitStatus EXCEPT ![t] = "PENDING"]
  /\ waitObject' = [waitObject EXCEPT ![t] = o]
  /\ waitList'   = IF o = NULL THEN waitList
                   ELSE [waitList EXCEPT ![o] = Append(waitList[o], t)]
  /\ deadline'   = [deadline EXCEPT ![t] = IF ticks = Infinite THEN NoDeadline ELSE ticks]
  /\ timeoutQueue' = IF ticks = Infinite THEN timeoutQueue
                     ELSE KiInsertTimeoutQueue(timeoutQueue, t, deadline')
  /\ KiSchedule([state EXCEPT ![t] = "BLOCKED"], readyQueues)

-----------------------------------------------------------------------------
Init ==
  /\ state = [t \in AllThreads |-> IF t = Idle THEN "RUNNING" ELSE "FREE"]
  /\ pc = [t \in AllThreads |-> IF t = Idle THEN "boot" ELSE "run"]
  /\ target = [t \in AllThreads |-> NULL]
  /\ terminationMode = [t \in Threads |-> "DETACHED"]
  /\ claim = [t \in Threads |-> "UNCLAIMED"]
  /\ ownedMutexCount = [t \in Threads |-> 0]
  /\ waitObject = [t \in Threads |-> NULL]
  /\ deadline = [t \in Threads |-> NoDeadline]
  /\ waitStatus = [t \in Threads |-> "SUCCESS"]
  /\ signal = [o \in Objects |-> IF o \in Mutexes THEN 1
                                 ELSE IF o \in Semaphores THEN Limit[o] ELSE 0]
  /\ waitList = [o \in Objects |-> << >>]
  /\ owner = [m \in Mutexes |-> NULL]
  /\ readyQueues = [p \in Priorities |-> << >>]
  /\ timeoutQueue = << >>
  /\ terminatedList = << >>
  /\ currentThread = Idle
  /\ activeThreadCount = 1
  /\ quantumDeadline = 0
  /\ nextProgrammedDeadline = NoDeadline
  /\ oneShot = 0
  /\ timerPending = FALSE

\* Code of its own that c executes: a thread's entry point, or the boot path
\* of the idle thread.
Executes(c, service) ==
  currentThread = c /\ pc[c] \in {"run", "boot"} /\ service \in Calls

-----------------------------------------------------------------------------
(* Thread creation and start.                                              *)

\* KiThreadCreateInternal: a free slot of the pool, initialized.
KiThreadCreateInternal(c, t, mode) ==
  /\ state[t] = "FREE"
  /\ state' = [state EXCEPT ![t] = "NEW"]
  /\ ownedMutexCount' = [ownedMutexCount EXCEPT ![t] = 0]
  /\ waitObject' = [waitObject EXCEPT ![t] = NULL]
  /\ deadline' = [deadline EXCEPT ![t] = NoDeadline]
  /\ waitStatus' = [waitStatus EXCEPT ![t] = "SUCCESS"]
  /\ signal' = [signal EXCEPT ![t] = 0]
  /\ waitList' = [waitList EXCEPT ![t] = << >>]
  /\ terminationMode' = [terminationMode EXCEPT ![t] = mode]
  /\ claim' = [claim EXCEPT ![t] = "UNCLAIMED"]
  /\ pc' = [pc EXCEPT ![t] = "run"]
  /\ target' = [target EXCEPT ![t] = NULL]
  /\ UNCHANGED <<activeThreadCount, terminatedList, timeoutQueue, owner,
                 readyQueues, currentThread, clockVars, timerPending>>

KeThreadCreate(c, t) ==
  Executes(c, "create") /\ KiThreadCreateInternal(c, t, "DETACHED")

KeThreadCreateJoinable(c, t) ==
  Executes(c, "createJoinable") /\ KiThreadCreateInternal(c, t, "JOINABLE")

\* Mutant: the idle CPU is not told about the new thread.
StartWithoutArming(c, t) ==
  /\ Executes(c, "start")
  /\ state[t] = "NEW"
  /\ state' = [state EXCEPT ![t] = "READY"]
  /\ readyQueues' = EnqueueReady(readyQueues, <<t>>)
  /\ activeThreadCount' = activeThreadCount + 1
  /\ UNCHANGED <<pc, target, terminationMode, claim, terminatedList, blockVars,
                 lockVars, currentThread, clockVars, timerPending>>

\* KeThreadStart: the new thread goes to its ready queue.  Started while the
\* CPU idles with nothing programmed, it needs the timer to be picked up.
\* The check of the state comes before the critical section; a thread is
\* started by its creator alone, so that nobody can start it in between.
KeThreadStart(c, t) ==
  /\ Executes(c, "start")
  /\ state[t] = "NEW"
  /\ state' = [state EXCEPT ![t] = "READY"]
  /\ readyQueues' = EnqueueReady(readyQueues, <<t>>)
  /\ activeThreadCount' = activeThreadCount + 1
  /\ \/ /\ currentThread = Idle /\ nextProgrammedDeadline = NoDeadline
        /\ KiArmClockEvent(1)
     \/ /\ ~(currentThread = Idle /\ nextProgrammedDeadline = NoDeadline)
        /\ UNCHANGED oneShot
  /\ UNCHANGED <<pc, target, terminationMode, claim, terminatedList, blockVars,
                 lockVars, currentThread, quantumDeadline, nextProgrammedDeadline,
                 timerPending>>

-----------------------------------------------------------------------------
(* Giving up the CPU.                                                      *)

KeYield(t) ==
  /\ Executes(t, "yield")
  /\ KiHasAnyReadyThread(readyQueues)
  /\ UNCHANGED <<lifeVars, blockVars, lockVars, timerPending>>
  /\ KiSchedule(StateReady(state, <<t>>), EnqueueReady(readyQueues, <<t>>))

KeSleep(t, ticks) ==
  /\ Executes(t, "sleep")
  /\ BlockCurrent(t, NULL, ticks)
  /\ UNCHANGED <<lifeVars, lockVars, timerPending>>

-----------------------------------------------------------------------------
(* Waiting for a dispatcher object.                                        *)

\* KiTryAcquireDispatcherObject: an event stays signalled, a semaphore gives
\* a permit, a mutex its ownership.
KiTryAcquireDispatcherObject(t, o) ==
  /\ signal[o] # 0
  /\ \/ /\ o \in Semaphores
        /\ signal' = [signal EXCEPT ![o] = signal[o] - 1]
        /\ UNCHANGED <<owner, ownedMutexCount>>
     \/ /\ o \in Mutexes
        /\ owner[o] # t
        /\ signal' = [signal EXCEPT ![o] = 0]
        /\ owner' = [owner EXCEPT ![o] = t]
        /\ ownedMutexCount' = [ownedMutexCount EXCEPT ![t] = @ + 1]

\* A wait on a signalled event, a zero-timeout poll that misses and a mutex
\* requested by its owner return without changing any state.
KeWaitForSingleObject(t, o, ticks) ==
  /\ Executes(t, "wait")
  /\ \/ /\ KiTryAcquireDispatcherObject(t, o)
        /\ UNCHANGED <<blockVars, cpuVars, clockVars>>
     \/ /\ signal[o] = 0
        /\ o \in Mutexes => owner[o] # t
        /\ BlockCurrent(t, o, ticks)
        /\ UNCHANGED lockVars
  /\ UNCHANGED <<lifeVars, timerPending>>

-----------------------------------------------------------------------------
(* Signalling.                                                             *)

SetEvent(e) ==
  /\ signal' = [signal EXCEPT ![e] = 1]
  /\ KiCompleteWait(waitList[e], "SUCCESS")
  /\ ScheduleIfIdle(StateReady(state, waitList[e]), EnqueueReady(readyQueues, waitList[e]))
  /\ UNCHANGED <<owner, ownedMutexCount>>

\* KeSetEvent releases every waiter.  The user-runtime finalizer also signals
\* completion events, from the middle of KiFinalizeThread.
KeSetEvent(c, e) ==
  /\ Executes(c, "setEvent") \/ (currentThread = c /\ pc[c] = "finalize" /\ "setEvent" \in Calls)
  /\ SetEvent(e)
  /\ UNCHANGED <<lifeVars, timerPending>>

KeResetEvent(c, e) ==
  /\ Executes(c, "resetEvent")
  /\ signal[e] # 0
  /\ signal' = [signal EXCEPT ![e] = 0]
  /\ UNCHANGED <<lifeVars, blockVars, owner, ownedMutexCount, cpuVars, clockVars,
                 timerPending>>

\* Mutant: the permits handed to waiters are also added to the count.
ReleaseCountsTwice(c, s, releaseCount) ==
  LET released == Min2(releaseCount, Len(waitList[s]))
      woken    == SubSeq(waitList[s], 1, released)
  IN  /\ Executes(c, "releaseSemaphore")
      /\ signal[s] + releaseCount <= Limit[s]
      /\ signal' = [signal EXCEPT ![s] = @ + releaseCount]
      /\ KiCompleteWait(woken, "SUCCESS")
      /\ ScheduleIfIdle(StateReady(state, woken), EnqueueReady(readyQueues, woken))
      /\ UNCHANGED <<lifeVars, owner, ownedMutexCount, timerPending>>

\* KeReleaseSemaphore: permits go to the waiters first, what is left is added
\* to the count; a release that would exceed the limit is refused whole.
KeReleaseSemaphore(c, s, releaseCount) ==
  LET released == Min2(releaseCount, Len(waitList[s]))
      woken    == SubSeq(waitList[s], 1, released)
  IN  /\ Executes(c, "releaseSemaphore")
      /\ signal[s] + (releaseCount - released) <= Limit[s]
      /\ signal' = [signal EXCEPT ![s] = @ + (releaseCount - released)]
      /\ KiCompleteWait(woken, "SUCCESS")
      /\ ScheduleIfIdle(StateReady(state, woken), EnqueueReady(readyQueues, woken))
      /\ UNCHANGED <<lifeVars, owner, ownedMutexCount, timerPending>>

\* Mutant: the new owner's count is not raised.
HandOffWithoutCount(m, t, next) ==
  /\ signal' = [signal EXCEPT ![m] = 0]
  /\ owner' = [owner EXCEPT ![m] = next]
  /\ ownedMutexCount' = [ownedMutexCount EXCEPT ![t] = @ - 1]

KiHandOffMutexOwnership(m, t, next) ==
  /\ signal' = [signal EXCEPT ![m] = 0]
  /\ owner' = [owner EXCEPT ![m] = next]
  /\ ownedMutexCount' = [ownedMutexCount EXCEPT ![t] = @ - 1, ![next] = @ + 1]

\* Mutant: the mutex is freed and the first waiter woken without it.
ReleaseWithoutHandoff(t, m) ==
  LET woken == SubSeq(waitList[m], 1, Min2(1, Len(waitList[m])))
  IN  /\ Executes(t, "releaseMutex")
      /\ owner[m] = t
      /\ signal' = [signal EXCEPT ![m] = 1]
      /\ owner' = [owner EXCEPT ![m] = NULL]
      /\ ownedMutexCount' = [ownedMutexCount EXCEPT ![t] = @ - 1]
      /\ KiCompleteWait(woken, "SUCCESS")
      /\ KeepRunning(StateReady(state, woken), EnqueueReady(readyQueues, woken))
      /\ UNCHANGED <<lifeVars, timerPending>>

\* KeReleaseMutex hands the mutex to the first waiter, if there is one,
\* without ever marking it free.
KeReleaseMutex(t, m) ==
  /\ Executes(t, "releaseMutex")
  /\ owner[m] = t
  /\ \/ /\ waitList[m] = << >>
        /\ signal' = [signal EXCEPT ![m] = 1]
        /\ owner' = [owner EXCEPT ![m] = NULL]
        /\ ownedMutexCount' = [ownedMutexCount EXCEPT ![t] = @ - 1]
        /\ UNCHANGED <<blockVars, cpuVars, clockVars>>
     \/ /\ waitList[m] # << >>
        /\ LET next == Head(waitList[m])
           IN  /\ KiHandOffMutexOwnership(m, t, next)
               /\ KiCompleteWait(<<next>>, "SUCCESS")
               /\ KeepRunning(StateReady(state, <<next>>), EnqueueReady(readyQueues, <<next>>))
  /\ UNCHANGED <<lifeVars, timerPending>>

-----------------------------------------------------------------------------
(* Termination.                                                            *)

\* KiQueueDetachedThreadForReaper links a thread at most once.
KiQueueDetachedThreadForReaper(u) ==
  terminatedList' = IF u \in Range(terminatedList) THEN terminatedList
                    ELSE Append(terminatedList, u)

\* KeThreadExit asserts that the thread owns no mutex.
KeThreadExit(t) ==
  /\ Executes(t, "exit")
  /\ t # Idle
  /\ ownedMutexCount[t] = 0
  /\ activeThreadCount' = activeThreadCount - 1
  /\ signal' = [signal EXCEPT ![t] = 1]
  /\ KiCompleteWait(waitList[t], "SUCCESS")
  /\ \/ terminationMode[t] = "DETACHED" /\ KiQueueDetachedThreadForReaper(t)
     \/ terminationMode[t] # "DETACHED" /\ UNCHANGED terminatedList
  /\ KiSchedule(StateReady([state EXCEPT ![t] = "TERMINATED"], waitList[t]),
                EnqueueReady(readyQueues, waitList[t]))
  /\ UNCHANGED <<pc, target, terminationMode, claim, owner, ownedMutexCount, timerPending>>

Published(u) == state[u] = "TERMINATED" /\ signal[u] # 0

\* Mutant: the claim is not looked at.
ClaimableTwice(u) == state[u] # "FREE" /\ terminationMode[u] = "JOINABLE"

\* The checks that KeThreadJoin and KeThreadDetach share.  The caller must
\* hold a live thread pointer.
Claimable(u) ==
  /\ state[u] # "FREE"
  /\ terminationMode[u] = "JOINABLE"
  /\ claim[u] = "UNCLAIMED"

\* KeThreadJoin up to the point where it leaves its critical section: a
\* terminated thread is consumed at once, otherwise the claim is taken.  A
\* zero-timeout join of a live thread takes the claim and returns it.
KeThreadJoin(t, u) ==
  /\ Executes(t, "join")
  /\ t # Idle /\ u # t
  /\ Claimable(u)
  /\ target' = [target EXCEPT ![t] = u]
  /\ \/ /\ Published(u)
        /\ claim' = [claim EXCEPT ![u] = "CONSUMED"]
        /\ pc' = [pc EXCEPT ![t] = "finalize"]
     \/ /\ ~Published(u)
        /\ claim' = [claim EXCEPT ![u] = "JOIN_IN_PROGRESS"]
        /\ pc' = [pc EXCEPT ![t] = "joinWait"]
  /\ UNCHANGED <<terminationMode, activeThreadCount, terminatedList, blockVars,
                 lockVars, cpuVars, clockVars, timerPending>>

\* The call of KeWaitForSingleObject on the termination event.
KeThreadJoinWait(t, ticks) ==
  LET u == target[t]
  IN  /\ currentThread = t /\ pc[t] = "joinWait"
      /\ \/ /\ signal[u] # 0
            /\ pc' = [pc EXCEPT ![t] = "joinSignaled"]
            /\ UNCHANGED <<blockVars, cpuVars, clockVars>>
         \/ /\ signal[u] = 0
            /\ pc' = [pc EXCEPT ![t] = "joinBlocked"]
            /\ BlockCurrent(t, u, ticks)
      /\ UNCHANGED <<target, terminationMode, claim, activeThreadCount,
                     terminatedList, lockVars, timerPending>>

\* The wait succeeded: the joiner consumes the termination.
KeThreadJoinConsume(t) ==
  /\ currentThread = t
  /\ pc[t] = "joinSignaled" \/ (pc[t] = "joinBlocked" /\ waitStatus[t] = "SUCCESS")
  /\ claim' = [claim EXCEPT ![target[t]] = "CONSUMED"]
  /\ pc' = [pc EXCEPT ![t] = "finalize"]
  /\ UNCHANGED <<target, terminationMode, activeThreadCount, terminatedList,
                 blockVars, lockVars, cpuVars, clockVars, timerPending>>

\* Mutant: the claim is kept.
TimeoutKeepsClaim(t) ==
  /\ currentThread = t
  /\ pc[t] = "joinBlocked" /\ waitStatus[t] = "TIMEOUT"
  /\ pc' = [pc EXCEPT ![t] = "run"]
  /\ target' = [target EXCEPT ![t] = NULL]
  /\ UNCHANGED <<terminationMode, claim, activeThreadCount, terminatedList,
                 blockVars, lockVars, cpuVars, clockVars, timerPending>>

\* The wait timed out: the claim is released.
KeThreadJoinTimeout(t) ==
  LET u == target[t]
  IN  /\ currentThread = t
      /\ pc[t] = "joinBlocked" /\ waitStatus[t] = "TIMEOUT"
      /\ claim' = IF claim[u] = "JOIN_IN_PROGRESS"
                  THEN [claim EXCEPT ![u] = "UNCLAIMED"] ELSE claim
      /\ pc' = [pc EXCEPT ![t] = "run"]
      /\ target' = [target EXCEPT ![t] = NULL]
      /\ UNCHANGED <<terminationMode, activeThreadCount, terminatedList,
                     blockVars, lockVars, cpuVars, clockVars, timerPending>>

KeThreadDetach(c, u) ==
  /\ Executes(c, "detach")
  /\ Claimable(u)
  /\ terminationMode' = [terminationMode EXCEPT ![u] = "DETACHED"]
  /\ \/ Published(u) /\ KiQueueDetachedThreadForReaper(u)
     \/ ~Published(u) /\ UNCHANGED terminatedList
  /\ UNCHANGED <<pc, target, claim, activeThreadCount, blockVars, lockVars,
                 cpuVars, clockVars, timerPending>>

\* KiFinalizeThread, run by a joiner or by the reaper outside any critical
\* section, ends by giving the slot back to the pool.
KiFinalizeThread(c) ==
  /\ currentThread = c /\ pc[c] = "finalize"
  /\ state' = [state EXCEPT ![target[c]] = "FREE"]
  /\ pc' = [pc EXCEPT ![c] = IF c = Idle THEN "reap" ELSE "run"]
  /\ target' = [target EXCEPT ![c] = NULL]
  /\ UNCHANGED <<terminationMode, claim, activeThreadCount, terminatedList,
                 blockVars, lockVars, readyQueues, currentThread, clockVars, timerPending>>

-----------------------------------------------------------------------------
(* The idle thread.                                                        *)

\* The boot path ends by entering KeIdleLoop.
EnterIdleLoop ==
  /\ currentThread = Idle /\ pc[Idle] = "boot"
  /\ pc' = [pc EXCEPT ![Idle] = "reap"]
  /\ UNCHANGED <<target, terminationMode, claim, activeThreadCount, terminatedList,
                 blockVars, lockVars, cpuVars, clockVars, timerPending>>

\* Mutant: the reaper looks at the first thread without unlinking it.
ReapWithoutUnlinking ==
  /\ currentThread = Idle /\ pc[Idle] = "reap"
  /\ terminatedList # << >>
  /\ claim' = [claim EXCEPT ![Head(terminatedList)] = "CONSUMED"]
  /\ target' = [target EXCEPT ![Idle] = Head(terminatedList)]
  /\ pc' = [pc EXCEPT ![Idle] = "finalize"]
  /\ UNCHANGED <<terminatedList, terminationMode, activeThreadCount, blockVars, lockVars,
                 cpuVars, clockVars, timerPending>>

\* One turn of KiReapTerminatedThreads: consume the first terminated thread,
\* or leave the loop when there is none.
KiReapTerminatedThreads ==
  /\ currentThread = Idle /\ pc[Idle] = "reap"
  /\ \/ /\ terminatedList # << >>
        /\ terminatedList' = Tail(terminatedList)
        /\ claim' = [claim EXCEPT ![Head(terminatedList)] = "CONSUMED"]
        /\ target' = [target EXCEPT ![Idle] = Head(terminatedList)]
        /\ pc' = [pc EXCEPT ![Idle] = "finalize"]
     \/ /\ terminatedList = << >>
        /\ pc' = [pc EXCEPT ![Idle] = "beforeHalt"]
        /\ UNCHANGED <<terminatedList, claim, target>>
  /\ UNCHANGED <<terminationMode, activeThreadCount, blockVars, lockVars,
                 cpuVars, clockVars, timerPending>>

\* sti; hlt.  Interrupts are enabled before it, so one taken in between is
\* over when the processor halts.
Halt ==
  /\ currentThread = Idle /\ pc[Idle] = "beforeHalt"
  /\ pc' = [pc EXCEPT ![Idle] = "halted"]
  /\ UNCHANGED <<target, terminationMode, claim, activeThreadCount, terminatedList,
                 blockVars, lockVars, cpuVars, clockVars, timerPending>>

\* An interrupt ends the halt: when its handler returns, at once or after
\* other threads have run, the idle loop goes round again.
WakeFromHalt ==
  /\ pc' = IF currentThread = Idle /\ pc[Idle] = "halted"
           THEN [pc EXCEPT ![Idle] = "reap"] ELSE pc
  /\ UNCHANGED <<target, terminationMode, claim, activeThreadCount, terminatedList>>

-----------------------------------------------------------------------------
(* Interrupts and time.                                                    *)

\* The keyboard handler signals the line-ready event.
DeviceInterrupt(e) ==
  /\ WakeFromHalt
  /\ SetEvent(e)
  /\ UNCHANGED timerPending

\* Mutant: an expired quantum re-arms the timer for the same thread.
RescheduleWithoutPreemption(due) ==
  LET st == StateReady(state, due)
      rq == EnqueueReady(readyQueues, due)
  IN  \/ currentThread = Idle /\ KiHasAnyReadyThread(rq) /\ KiSchedule(st, rq)
      \/ /\ ~(currentThread = Idle /\ KiHasAnyReadyThread(rq))
         /\ state' = st
         /\ readyQueues' = rq
         /\ UNCHANGED currentThread
         /\ KiArmForNextEvent(currentThread)

\* KiSchedulerTimerISR after it has completed the waits that are due: an idle
\* CPU takes a ready thread, an expired quantum preempts, and in every other
\* case the timer is re-armed for the thread that goes on.
TimerReschedule(due) ==
  LET st == StateReady(state, due)
      rq == EnqueueReady(readyQueues, due)
      preempted == <<currentThread>>
  IN  \/ /\ currentThread = Idle /\ KiHasAnyReadyThread(rq)
         /\ KiSchedule(st, rq)
      \/ /\ currentThread # Idle /\ quantumDeadline = 0
         /\ KiSchedule(StateReady(st, preempted), EnqueueReady(rq, preempted))
      \/ /\ IF currentThread = Idle THEN ~KiHasAnyReadyThread(rq) ELSE quantumDeadline > 0
         /\ state' = st
         /\ readyQueues' = rq
         /\ UNCHANGED currentThread
         /\ KiArmForNextEvent(currentThread)

\* The timer interrupt.  Before the programmed deadline it only re-arms the
\* rest of the interval (a long interval is counted in segments, and an
\* interrupt latched before a re-arm arrives early).
KiSchedulerTimerISR ==
  /\ timerPending
  /\ timerPending' = FALSE
  /\ WakeFromHalt
  /\ UNCHANGED lockVars
  /\ \/ /\ nextProgrammedDeadline > 0
        /\ KiArmClockEvent(nextProgrammedDeadline)
        /\ UNCHANGED <<blockVars, cpuVars, quantumDeadline, nextProgrammedDeadline>>
     \/ /\ nextProgrammedDeadline <= 0
        /\ KiCompleteWait(Expired(timeoutQueue, deadline), "TIMEOUT")
        /\ TimerReschedule(Expired(timeoutQueue, deadline))

TickDown(n) == IF n > 0 THEN n - 1 ELSE n

\* A tick of time; the timer latches its interrupt when its count runs out.
Tick ==
  /\ oneShot > 0 \/ quantumDeadline > 0 \/ nextProgrammedDeadline > 0
     \/ \E t \in Threads : deadline[t] > 0
  /\ deadline' = [t \in Threads |-> TickDown(deadline[t])]
  /\ quantumDeadline' = TickDown(quantumDeadline)
  /\ nextProgrammedDeadline' = TickDown(nextProgrammedDeadline)
  /\ oneShot' = TickDown(oneShot)
  /\ timerPending' = (timerPending \/ oneShot = 1)
  /\ UNCHANGED <<lifeVars, waitObject, waitStatus, waitList, timeoutQueue,
                 lockVars, cpuVars>>

-----------------------------------------------------------------------------
Durations == Timeouts \cup {Infinite}

ThreadStep(t) ==
  \/ KeYield(t)
  \/ \E ticks \in Timeouts : KeSleep(t, ticks)
  \/ \E o \in Objects \ Threads, ticks \in Durations : KeWaitForSingleObject(t, o, ticks)
  \/ \E m \in Mutexes : KeReleaseMutex(t, m)
  \/ KeThreadExit(t)
  \/ \E u \in Threads : KeThreadJoin(t, u)
  \/ \E ticks \in Durations : KeThreadJoinWait(t, ticks)
  \/ KeThreadJoinConsume(t)
  \/ KeThreadJoinTimeout(t)

\* What a thread may do, and the idle thread on its boot path.
AnyStep(c) ==
  \/ \E u \in Threads : \/ KeThreadCreate(c, u)
                        \/ KeThreadCreateJoinable(c, u)
                        \/ KeThreadStart(c, u)
                        \/ KeThreadDetach(c, u)
  \/ \E e \in Events : KeSetEvent(c, e) \/ KeResetEvent(c, e)
  \/ \E s \in Semaphores : \E n \in 1 .. Limit[s] + 1 : KeReleaseSemaphore(c, s, n)
  \/ KiFinalizeThread(c)

IdleStep == EnterIdleLoop \/ KiReapTerminatedThreads \/ Halt

Next ==
  \/ \E t \in Threads : ThreadStep(t)
  \/ \E c \in AllThreads : AnyStep(c)
  \/ IdleStep
  \/ \E e \in DeviceEvents : DeviceInterrupt(e)
  \/ KiSchedulerTimerISR
  \/ Tick

Spec == Init /\ [][Next]_vars
-----------------------------------------------------------------------------
(* Properties.                                                             *)

States == {"FREE", "NEW", "READY", "RUNNING", "BLOCKED", "TERMINATED"}
JoinPcs == {"joinWait", "joinSignaled", "joinBlocked"}
ThreadPcs == {"run", "finalize"} \cup JoinPcs
IdlePcs == {"boot", "reap", "finalize", "beforeHalt", "halted"}

\* Every field of a KTHREAD, of a dispatcher header and of the scheduler's
\* globals (scheduler.c, wait.c, sync.c) keeps a value of its C type; a
\* semaphore count stays within its limit and a mutex is 0 or 1.
TypeOK ==
  /\ state \in [AllThreads -> States]
  /\ pc \in [AllThreads -> ThreadPcs \cup IdlePcs]
  /\ pc[Idle] \in IdlePcs /\ \A t \in Threads : pc[t] \in ThreadPcs
  /\ target \in [AllThreads -> Threads \cup {NULL}]
  /\ terminationMode \in [Threads -> {"DETACHED", "JOINABLE"}]
  /\ claim \in [Threads -> {"UNCLAIMED", "JOIN_IN_PROGRESS", "CONSUMED"}]
  /\ ownedMutexCount \in [Threads -> Int]
  /\ waitObject \in [Threads -> Objects \cup {NULL}]
  /\ deadline \in [Threads -> Nat \cup {NoDeadline}]
  /\ waitStatus \in [Threads -> {"PENDING", "SUCCESS", "TIMEOUT"}]
  /\ signal \in [Objects -> Nat]
  /\ \A s \in Semaphores : signal[s] <= Limit[s]
  /\ \A o \in Objects \ Semaphores : signal[o] <= 1
  /\ waitList \in [Objects -> Seq(Threads)]
  /\ owner \in [Mutexes -> Threads \cup {NULL}]
  /\ readyQueues \in [Priorities -> Seq(Threads)]
  /\ timeoutQueue \in Seq(Threads)
  /\ terminatedList \in Seq(Threads)
  /\ currentThread \in AllThreads
  /\ activeThreadCount \in Int
  /\ quantumDeadline \in Nat
  /\ nextProgrammedDeadline \in Nat \cup {NoDeadline}
  /\ oneShot \in Nat
  /\ timerPending \in BOOLEAN

\* A thread's link fields are in exactly the lists its state calls for: READY
\* in the queue of its priority, BLOCKED with an uncompleted wait block in
\* the wait list of the object it waits for and, with a deadline, in the
\* timeout queue, and nowhere else.  A completed block left in a list would
\* make the wake-up loops of KeSetEvent and KiWakeTimeouts spin for ever, a
\* doubly linked thread would corrupt the queue.
QueuesMatchStates ==
  /\ \A t \in Threads : state[t] = "RUNNING" <=> currentThread = t
  /\ \A p \in Priorities :
       /\ Distinct(readyQueues[p])
       /\ Range(readyQueues[p]) = {t \in Threads : state[t] = "READY" /\ Priority[t] = p}
  /\ \A o \in Objects :
       /\ Distinct(waitList[o])
       /\ Range(waitList[o]) = {t \in Threads : waitObject[t] = o}
  /\ Distinct(timeoutQueue)
  /\ Range(timeoutQueue) = {t \in Threads : deadline[t] # NoDeadline}
  /\ \A t \in Threads :
       /\ state[t] = "BLOCKED" => waitObject[t] # NULL \/ deadline[t] # NoDeadline
       /\ (waitObject[t] # NULL \/ deadline[t] # NoDeadline) => state[t] = "BLOCKED"
       /\ waitStatus[t] = "PENDING" <=> state[t] = "BLOCKED"

\* No lost wakeup: nobody is left in the wait list of an object that could
\* satisfy him, whatever order timeouts, signals and waits came in.
NoLostWakeup == \A o \in Objects : waitList[o] # << >> => signal[o] = 0

\* Mutual exclusion and its bookkeeping: a mutex is free exactly when it has
\* no owner, only a live thread owns one, nobody waits for a mutex he owns,
\* and OwnedMutexCount (which KeThreadExit relies on) is the number of mutexes
\* a thread owns.
MutexOwnership ==
  /\ \A m \in Mutexes :
       /\ signal[m] = 0 <=> owner[m] # NULL
       /\ owner[m] # NULL =>
            /\ state[owner[m]] \in {"READY", "RUNNING", "BLOCKED"}
            /\ waitObject[owner[m]] # m
  /\ \A t \in Threads :
       ownedMutexCount[t] = Cardinality({m \in Mutexes : owner[m] = t})

\* A timed-out waiter gets nothing and a signalled one gets the mutex: the
\* thread whose wait on a mutex ends owns it exactly when its wait reports
\* success.
WaitOutcomeMatchesOwnership ==
  [][\A m \in Mutexes, t \in Threads :
        waitObject[t] = m /\ waitObject'[t] # m
          => (waitStatus'[t] = "SUCCESS" <=> owner'[m] = t)]_vars

\* The reaper's list holds the detached threads that ended and that nobody
\* has consumed yet.
ReaperListExact ==
  /\ Distinct(terminatedList)
  /\ Range(terminatedList) =
       {t \in Threads : state[t] = "TERMINATED" /\ terminationMode[t] = "DETACHED"
                          /\ claim[t] = "UNCLAIMED"}

\* A consumed termination is being finalized, a claimed one being joined.
ClaimHasHolder(t) ==
  /\ state[t] = "TERMINATED" /\ claim[t] = "CONSUMED"
       <=> \E c \in AllThreads : pc[c] = "finalize" /\ target[c] = t
  /\ state[t] # "FREE" /\ claim[t] = "JOIN_IN_PROGRESS"
       => \E c \in Threads : pc[c] \in JoinPcs /\ target[c] = t

TargetsUnique == \A c, d \in AllThreads : c # d /\ target[c] # NULL => target[c] # target[d]

\* Each terminated thread has exactly one party that will free it: the
\* reaper's list, the joiner or reaper that consumed it, or, joinable, a
\* later join or detach.  This is what KiQueueDetachedThreadForReaper and
\* KiFinalizeThread assert, and that no thread leaks or is freed twice.
TerminatedHasOneOwner ==
  /\ ReaperListExact
  /\ \A t \in Threads : ClaimHasHolder(t)
  /\ TargetsUnique
  /\ \A t \in Threads : state[t] = "TERMINATED" => signal[t] = 1

JoinStable(t) ==
  /\ target[t] # NULL <=> pc[t] \in JoinPcs \cup {"finalize"}
  /\ pc[t] \in JoinPcs =>
       /\ state[target[t]] # "FREE"
       /\ terminationMode[target[t]] = "JOINABLE"
       /\ claim[target[t]] = "JOIN_IN_PROGRESS"
  /\ pc[t] = "joinSignaled" \/ (pc[t] = "joinBlocked" /\ waitStatus[t] = "SUCCESS")
       => state[target[t]] = "TERMINATED"
  /\ pc[t] = "joinBlocked" /\ state[t] = "BLOCKED" => waitObject[t] = target[t]

\* What KeThreadJoin assumes when it resumes: as long as a join is in
\* progress its target has not been freed, nobody else has claimed or
\* detached it, and when the wait has succeeded the target is terminated.
JoinTargetStable == \A t \in AllThreads : JoinStable(t)

\* A freed KTHREAD is referenced from nowhere: no queue links it, nobody
\* waits for its termination event, nobody joins or finalizes it, it owns no
\* mutex; and the count that sysinfo reports is the number of started,
\* unfinished threads plus the idle thread.
NoDanglingThread ==
  /\ activeThreadCount =
       1 + Cardinality({t \in Threads : state[t] \in {"READY", "RUNNING", "BLOCKED"}})
  /\ \A t \in Threads : state[t] = "FREE" =>
    /\ \A p \in Priorities : t \notin Range(readyQueues[p])
    /\ \A o \in Objects : t \notin Range(waitList[o])
    /\ t \notin Range(timeoutQueue) \cup Range(terminatedList)
    /\ waitList[t] = << >>
    /\ \A c \in AllThreads : target[c] # t
    /\ \A m \in Mutexes : owner[m] # t
    /\ currentThread # t

\* The tickless timer never sleeps through an obligation: a running thread's
\* quantum, the earliest timeout and a thread made ready while the CPU idles
\* are all covered by the programmed deadline, and the device is armed for no
\* later than that deadline or has its interrupt pending.  The head of the
\* timeout queue, which alone KiWakeTimeouts and KiArmForNextEvent look at, is
\* the earliest.
TimerCoversObligations ==
  /\ SortedBy(timeoutQueue, deadline)
  /\ timeoutQueue # << >> =>
       /\ nextProgrammedDeadline # NoDeadline
       /\ nextProgrammedDeadline <= deadline[Head(timeoutQueue)]
  /\ currentThread # Idle =>
       /\ nextProgrammedDeadline # NoDeadline
       /\ nextProgrammedDeadline <= quantumDeadline
  /\ nextProgrammedDeadline # NoDeadline \/ KiHasAnyReadyThread(readyQueues) =>
       timerPending \/ oneShot \in 1 .. Delta(nextProgrammedDeadline)

-----------------------------------------------------------------------------
(* Fairness.  Time passes, the processor takes a pending interrupt, and it *)
(* executes the idle loop when nothing else runs.  Nothing is assumed of   *)
(* the code of the threads: one may spin for ever.                         *)

Fairness ==
  /\ WF_vars(Tick)
  /\ WF_vars(KiSchedulerTimerISR)
  /\ WF_vars(IdleStep \/ KiFinalizeThread(Idle))

FairSpec == Spec /\ Fairness

\* A ready thread of the highest priority in use is eventually dispatched,
\* even if every other thread of that priority spins: the timer preempts the
\* spinning one and the ready queue passes nobody over.
ReadyThreadRuns ==
  \A t \in {u \in Threads : \A v \in Threads : Priority[v] <= Priority[u]} :
    state[t] = "READY" ~> state[t] # "READY"

\* A sleep or a timed wait ends: the timeout fires whatever the other
\* threads do.
TimedWaitEnds ==
  \A t \in Threads : deadline[t] # NoDeadline ~> deadline[t] = NoDeadline

=============================================================================
