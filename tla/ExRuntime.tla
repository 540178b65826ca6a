------------------------------ MODULE ExRuntime -----------------------------
(***************************************************************************)
(* The executive's processes (ex/): creation and start, system calls,      *)
(* termination, the finalizer the idle thread runs, and spawn, wait, kill  *)
(* and foreground changes by a parent.                                     *)
(*                                                                         *)
(* A process and its one thread are two reference-counted objects.  The    *)
(* tables that publish them hold no reference, the process holds handles   *)
(* on itself, and its thread owns the reference its creator had.  Every    *)
(* service is a list of steps: one for each critical section, each update  *)
(* of a reference count outside one, and each place where it blocks.       *)
(* Threads of equal priority interleave between any two steps; the idle    *)
(* thread, which finalizes, runs only while nobody else can.               *)
(*                                                                         *)
(* A process is named by its number, which is never used twice; its thread *)
(* has the same name.  Number 0 stands for the kernel's own threads as a   *)
(* parent and for "nobody" as the owner of the input lane.                 *)
(***************************************************************************)
EXTENDS Integers, Sequences, FiniteSets, ExHandle

CONSTANTS
  KernelCallers,    \* kernel threads that call the process services
  Idle,             \* the idle thread
  MaxProcesses,     \* bound: processes created in a behaviour
  TableCapacity,    \* EX_MAX_PROCESSES
  Spawns,           \* bound: <<a, p, fg>> when a may create process number p,
                    \* in the foreground or not
  HandleUsers       \* bound: the processes that use their handles; the
                    \* others sleep

Pids == 1 .. MaxProcesses
Callers == KernelCallers \cup Pids    \* every thread but the idle one
Actors == Callers \cup {Idle}

ASSUME RuntimeAssumption ==
  /\ MaxProcesses \in Nat \ {0} /\ TableCapacity \in Nat \ {0}
  /\ IsFiniteSet(KernelCallers)
  /\ Spawns \subseteq Callers \X Pids \X BOOLEAN /\ HandleUsers \subseteq Pids
  /\ Idle \notin Callers /\ KernelCallers \cap (Pids \cup {0}) = {}
  /\ HandleSlots >= 4

VARIABLES
  obj,        \* EX_PROCESS and EX_THREAD of each process number
  procTable,  \* gExRuntimeProcessTable: the published processes
  thrTable,   \* gExRuntimeThreadTable: the processes whose thread is published
  nextPid,    \* gNextRuntimeProcessId
  fgOwner,    \* the input lane's ForegroundOwnerThreadId
  reapQueue,  \* gTerminatedList
  act,        \* what each thread is doing
  reg,        \* the count a thread has loaded and not stored yet
  overlapped  \* history: two updates of one count have overlapped

countVars == <<reg, overlapped>>
vars == <<obj, procTable, thrTable, nextPid, fgOwner, reapQueue, act, countVars>>

NoReg == -1
Resting == [steps |-> << >>, on |-> 0, arg |-> 0, fg |-> FALSE]

NoObject ==
  [alloc |-> "none", refs |-> 0, stdoutRefs |-> 0, parent |-> 0,
   state |-> "CREATED", reason |-> "NONE", kill |-> FALSE,
   retained |-> FALSE, signaled |-> FALSE, event |-> FALSE,
   foreground |-> FALSE, restore |-> 0, payload |-> FALSE,
   table |-> InitializeTable,
   threadAlloc |-> "none", threadRefs |-> 0, threadOwns |-> FALSE,
   threadEvent |-> FALSE, kthread |-> "NONE", seed |-> {}]

Init ==
  /\ obj = [p \in Pids |-> NoObject]
  /\ procTable = {} /\ thrTable = {}
  /\ nextPid = 1 /\ fgOwner = 0
  /\ reapQueue = << >>
  /\ act = [a \in Actors |-> Resting]
  /\ reg = [a \in Actors |-> NoReg] /\ overlapped = FALSE

-----------------------------------------------------------------------------
(* Objects and their references: functions from one record to the next.    *)

Retained(r) == [r EXCEPT !.refs = @ + 1]

\* ExObjectRelease of a process; at zero KiDestroyProcessObject gives up the
\* owner's reference of the stdout service and frees the object, unless a
\* handle still holds the service.
StoredCount(r, n) ==
  IF n > 0 THEN [r EXCEPT !.refs = n]
  ELSE IF r.stdoutRefs > 1 THEN [r EXCEPT !.refs = 0, !.stdoutRefs = @ - 1]
  ELSE [NoObject EXCEPT !.alloc = "freed", !.payload = r.payload,
                        !.kthread = r.kthread, !.threadAlloc = r.threadAlloc]
Released(r) == StoredCount(r, r.refs - 1)

\* Mutant of ThreadReleased: the thread object goes, its process is kept.
ThreadReleasedAlone(r) ==
  LET s == [r EXCEPT !.threadRefs = @ - 1]
  IN  IF s.threadRefs > 0 THEN s
      ELSE [s EXCEPT !.threadAlloc = "freed", !.threadOwns = FALSE]

\* ExRuntimeReleaseThread and KiDestroyThreadObject: the last reference frees
\* the thread object and then gives up the process it owns.
ThreadReleased(r) ==
  LET s == [r EXCEPT !.threadRefs = @ - 1] IN
  IF s.threadRefs > 0 THEN s
  ELSE LET t == [s EXCEPT !.threadAlloc = "freed"]
       IN  IF t.threadOwns THEN Released([t EXCEPT !.threadOwns = FALSE]) ELSE t

\* The object behind a slot loses the reference the handle held.
ObjectReleased(r, type) ==
  CASE type = "process" -> Released(r)
    [] type = "thread"  -> ThreadReleased(r)
    [] type = "console" -> [r EXCEPT !.stdoutRefs = @ - 1]

\* KiHandleCloseAll: the process retains itself for the duration, so that its
\* own handles are never its last references.
HandlesClosed(r, published, allowPublished) ==
  IF ~AllCloseAllowed(r.table, published, allowPublished) THEN r
  ELSE LET open(type) == OpenHandles(r.table, type)
           held == [Retained(r) EXCEPT !.table = ClosedTable(@)]
           own == [held EXCEPT !.refs = @ - open("process"),
                               !.stdoutRefs = @ - open("console")]
           all == IF open("thread") = 0 THEN own ELSE ThreadReleased(own)
       IN  Released(all)

\* ExRuntimeTeardownProcessPayload: staging and address space are destroyed.
PayloadGone(r) == [r EXCEPT !.payload = FALSE]

\* ExHandleInsert of an object the record retains.
Inserted(r, type, rights) ==
  LET s == [r EXCEPT !.table = InsertedTable(@, type, rights),
                     !.seed = @ \cup {InsertedHandle(r.table)}]
  IN  CASE type = "process" -> Retained(s)
        [] type = "console" -> [s EXCEPT !.stdoutRefs = @ + 1]
        [] type = "thread"  -> [s EXCEPT !.threadRefs = @ + 1]

\* ExRuntimeCreateProcess: the object with one reference, then its payload,
\* then the self, stdout and wait handles.
NewProcess(parent) ==
  [NoObject EXCEPT !.alloc = "live", !.refs = 1, !.stdoutRefs = 1,
                   !.parent = parent]
BuiltProcess(parent) ==
  LET r == [NewProcess(parent) EXCEPT !.payload = TRUE]
      self == Inserted(r, "process", {"QUERY", "CLOSE", "PROCESS_SELF"})
      out == Inserted(self, "console", {"WRITE", "CLOSE"})
  IN  Inserted(out, "process", {"WAIT", "CLOSE"})

\* ExRuntimeCreateThread up to the publication: the thread takes over the
\* creator's reference to the process and gets a handle of its own.
BuiltThread(r) ==
  Inserted([r EXCEPT !.threadAlloc = "live", !.threadRefs = 1,
                     !.threadOwns = TRUE, !.kthread = "NEW"],
           "thread", {"QUERY", "CLOSE", "THREAD_SELF"})

\* ExRuntimeDestroyProcess of a process that was never published.
ProcessDestroyed(r) == Released(HandlesClosed(PayloadGone(r), {}, FALSE))

\* The unwinding of a creation that failed at a stage.
FailedCreation(parent, stage) ==
  CASE stage = "space"   -> Released(NewProcess(parent))
    [] stage = "thread"  -> ProcessDestroyed(BuiltProcess(parent))
    [] stage = "publish" ->
         LET built == BuiltThread(BuiltProcess(parent))
             slot == CHOOSE i \in SlotIndices : built.table[i].object = "thread"
             closed == ThreadReleased(
                         [built EXCEPT !.table[slot] = ClearedSlot(@)])
             bare == ThreadReleased([closed EXCEPT !.threadOwns = FALSE,
                                                   !.kthread = "NONE"])
         IN  ProcessDestroyed(bare)

-----------------------------------------------------------------------------
(* Threads and their steps.                                                *)

Step(a) == IF act[a].steps = << >> THEN "none" ELSE Head(act[a].steps)
Continued(a, steps) ==
  IF steps = << >> THEN Resting ELSE [act[a] EXCEPT !.steps = steps]
Continue(a, steps) == act' = [act EXCEPT ![a] = Continued(a, steps)]
Advance(a) == Continue(a, Tail(act[a].steps))

\* A thread of a process exists for the scheduler from its start to its exit.
IsUserThread(a) == a \in Pids /\ obj[a].kthread = "STARTED"

\* A caller that could run now.  Kernel callers rest away from this code; a
\* process that takes no step is computing in user mode.
Runnable(a) ==
  LET blocked == \/ Step(a) \in {"Sleep", "WaitOne"}
                 \/ Step(a) = "WaitCompletion" /\ ~obj[act[a].on].event
  IN  ~blocked /\ IF a \in Pids THEN IsUserThread(a) ELSE act[a].steps # << >>

\* Mutant of IdleMayRun: the finalizer is preempted like any other thread.
IdleAtAnyTime == TRUE

\* The scheduler's choice: the idle thread has the lowest priority.
IdleMayRun == \A a \in Callers : ~Runnable(a)

\* KiResolveCallerParentProcessId
CallerPid(a) == IF a \in Pids THEN a ELSE 0

\* A caller begins a service: a kernel thread that rests, or a process that
\* traps into the kernel.
MayCall(a) ==
  /\ act[a].steps = << >>
  /\ a \in KernelCallers \/ IsUserThread(a)

\* A process goes back to user mode at the end; a kernel thread is done.
Ending(a) == IF a \in Pids THEN <<"Return">> ELSE << >>
Done(a) == [Resting EXCEPT !.steps = Ending(a)]

\* The steps that change a count outside a critical section.  The compiled
\* ReferenceCount++ and -- load the count and store it later (object.c:51,
\* object.c:64), and a release reads it again to see whether it was the last.
CountSteps ==
  {"ReleaseConsumed", "ReleaseChild", "RetainOwner", "RetainWaited", "ReleaseObject",
   "ReleaseOwner", "ReleaseResolved", "CloseHandles", "ReleaseThread"}

\* The first half of such a step.
LoadCount(a) ==
  /\ Step(a) \in CountSteps /\ reg[a] = NoReg
  /\ a = Idle => IdleMayRun
  /\ reg' = [reg EXCEPT ![a] = obj[act[a].on].refs]
  /\ UNCHANGED <<obj, procTable, thrTable, nextPid, fgOwner, reapQueue, act, overlapped>>

\* A change of p's count by a overlaps another one: the count is not the one a
\* has loaded, or another thread is between its load and its store.
Overlaps(a, p) ==
  \/ reg[a] \notin {NoReg, obj[p].refs}
  \/ \E b \in Actors \ {a} : reg[b] # NoReg /\ act[b].on = p

\* The second half: the count is stored, whatever it is by now.
UpdateCount(a, p, delta) ==
  /\ reg[a] # NoReg
  /\ obj' = [obj EXCEPT ![p] = StoredCount(@, reg[a] + delta)]
  /\ Advance(a)
  /\ reg' = [reg EXCEPT ![a] = NoReg]
  /\ overlapped' = (overlapped \/ Overlaps(a, p))

-----------------------------------------------------------------------------
(* Spawning: ExSpawnProgramImage and KiExCreateAndStartProcessImage.  The  *)
(* worker thread that does the work while the caller joins it is the       *)
(* caller here.                                                            *)

SpawnSteps(foreground) ==
  IF foreground THEN <<"SetOwner", "MarkControl", "Start", "MarkReady">>
                ELSE <<"MarkControl", "Start", "MarkReady">>

\* ExRuntimePublishThread: both entries in one critical section.
Publish(p) ==
  /\ Cardinality(procTable) < TableCapacity
  /\ procTable' = procTable \cup {p}
  /\ thrTable' = thrTable \cup {p}

\* The process is built and published before anyone else can see it.  The
\* creation may fail for want of memory, or because the table is full of these
\* and other processes.
Spawn(a, foreground) ==
  LET p == nextPid
      built == BuiltThread(BuiltProcess(CallerPid(a)))
  IN  /\ MayCall(a) /\ <<a, p, foreground>> \in Spawns
      /\ nextPid' = nextPid + 1
      /\ \/ /\ Publish(p)
            /\ obj' = [obj EXCEPT ![p] = built]
            /\ act' = [act EXCEPT ![a] =
                 [steps |-> SpawnSteps(foreground) \o Ending(a),
                  on |-> p, arg |-> fgOwner, fg |-> foreground]]
         \/ \E stage \in {"space", "thread", "publish"} :
              /\ obj' = [obj EXCEPT ![p] = FailedCreation(CallerPid(a), stage)]
              /\ act' = [act EXCEPT ![a] = Done(a)]
              /\ UNCHANGED <<procTable, thrTable>>
      /\ UNCHANGED <<fgOwner, reapQueue, countVars>>

\* KeInputSetForegroundOwnerThreadId on behalf of the new thread.
SetOwner(a) ==
  /\ Step(a) = "SetOwner"
  /\ fgOwner' = act[a].on
  /\ Advance(a)
  /\ UNCHANGED <<obj, procTable, thrTable, nextPid, reapQueue, countVars>>

\* ExRuntimeMarkProcessControl
MarkControl(a) ==
  /\ Step(a) = "MarkControl"
  /\ obj' = [obj EXCEPT ![act[a].on].foreground = act[a].fg,
                        ![act[a].on].restore = act[a].arg]
  /\ Advance(a)
  /\ UNCHANGED <<procTable, thrTable, nextPid, fgOwner, reapQueue, countVars>>

\* ExRuntimeStartThread: first the thread becomes ready ...
StartThread(a) ==
  /\ Step(a) = "Start"
  /\ obj' = [obj EXCEPT ![act[a].on].kthread = "STARTED"]
  /\ Advance(a)
  /\ UNCHANGED <<procTable, thrTable, nextPid, fgOwner, reapQueue, countVars>>

\* ... and then, with no lock held, the process.
MarkReady(a) ==
  /\ Step(a) = "MarkReady"
  /\ obj' = [obj EXCEPT ![act[a].on].state = "READY"]
  /\ Advance(a)
  /\ UNCHANGED <<procTable, thrTable, nextPid, fgOwner, reapQueue, countVars>>

-----------------------------------------------------------------------------
(* What a parent does with a child: ExWaitProcess, ExKillProcess and       *)
(* ExSetForegroundProcess.                                                 *)

WaitSteps == <<"WaitCompletion", "RestoreOwner", "Consume",
               "ReleaseConsumed", "ReleaseChild">>
KillSteps == <<"RequestKill">> \o WaitSteps
ForegroundSteps == <<"ReadOwner", "CheckForeground", "TakeOwner",
                     "RecordForeground", "ReleaseChild">>
GiveUp(a) == <<"ReleaseChild">> \o Ending(a)

\* Mutant of CallOnChild: the child is looked up and not retained.
CallOnChildUnretained(a, p, steps) ==
  /\ MayCall(a)
  /\ a \in KernelCallers \/ \E s \in Spawns : s[1] = a
  /\ act' = [act EXCEPT ![a] = 
       IF p \in procTable /\ obj[p].parent = CallerPid(a)
       THEN [Resting EXCEPT !.steps = steps \o Ending(a), !.on = p] ELSE Done(a)]
  /\ UNCHANGED <<obj, procTable, thrTable, nextPid, fgOwner, reapQueue, countVars>>

\* The service starts with ExRuntimeRetainChildProcess, which takes only a
\* published child of the caller, and fails on any other number.
CallOnChild(a, p, steps) ==
  /\ MayCall(a)
  /\ a \in KernelCallers \/ \E s \in Spawns : s[1] = a
  /\ \/ /\ p \in procTable /\ obj[p].parent = CallerPid(a)
        /\ obj' = [obj EXCEPT ![p] = Retained(@)]
        /\ act' = [act EXCEPT ![a] = [Resting EXCEPT !.steps = steps \o Ending(a),
                                                     !.on = p]]
        /\ overlapped' = (overlapped \/ Overlaps(a, p))
     \/ /\ ~(p \in procTable /\ obj[p].parent = CallerPid(a))
        /\ act' = [act EXCEPT ![a] = Done(a)]
        /\ UNCHANGED <<obj, overlapped>>
  /\ UNCHANGED <<procTable, thrTable, nextPid, fgOwner, reapQueue, reg>>

WaitProcess(a, p) == CallOnChild(a, p, WaitSteps)
KillProcess(a, p) == CallOnChild(a, p, KillSteps)
SetForegroundProcess(a, p) == CallOnChild(a, p, ForegroundSteps)

\* Mutant of RequestKill: the killer takes the payload down itself.
RequestKillTearsDown(a) ==
  LET p == act[a].on IN
  /\ Step(a) = "RequestKill"
  /\ obj' = [obj EXCEPT ![p].kill = TRUE, ![p].payload = FALSE]
  /\ Advance(a)
  /\ UNCHANGED <<procTable, thrTable, nextPid, fgOwner, reapQueue, countVars>>

\* ExRuntimeRequestProcessKill: the second request is refused.
RequestKill(a) ==
  LET p == act[a].on IN
  /\ Step(a) = "RequestKill"
  /\ IF obj[p].kill THEN Continue(a, GiveUp(a)) /\ UNCHANGED obj
                    ELSE obj' = [obj EXCEPT ![p].kill = TRUE] /\ Advance(a)
  /\ UNCHANGED <<procTable, thrTable, nextPid, fgOwner, reapQueue, countVars>>

\* ExRuntimeWaitForProcessCompletion with no time limit.
WaitCompletion(a) ==
  /\ Step(a) = "WaitCompletion"
  /\ obj[act[a].on].event
  /\ Advance(a)
  /\ UNCHANGED <<obj, procTable, thrTable, nextPid, fgOwner, reapQueue, countVars>>

\* KiRestoreForegroundOwner
RestoreOwner(a) ==
  LET p == act[a].on IN
  /\ Step(a) = "RestoreOwner"
  /\ fgOwner' = IF obj[p].foreground THEN obj[p].restore ELSE fgOwner
  /\ Advance(a)
  /\ UNCHANGED <<obj, procTable, thrTable, nextPid, reapQueue, countVars>>

\* ExRuntimeConsumeCompletedProcess, up to the end of its critical section.
Consume(a) ==
  LET p == act[a].on
      ok == /\ obj[p].state = "TERMINATED" /\ obj[p].signaled
            /\ obj[p].retained /\ p \in procTable
  IN  /\ Step(a) = "Consume"
      /\ IF ok THEN /\ procTable' = procTable \ {p}
                    /\ obj' = [obj EXCEPT ![p].retained = FALSE]
                    /\ Advance(a)
         ELSE Continue(a, GiveUp(a)) /\ UNCHANGED <<obj, procTable>>
      /\ UNCHANGED <<thrTable, nextPid, fgOwner, reapQueue, countVars>>

\* The releases that follow: the completion's reference, then the caller's.
ReleaseChild(a) ==
  /\ Step(a) \in {"ReleaseConsumed", "ReleaseChild"}
  /\ UpdateCount(a, act[a].on, -1)
  /\ UNCHANGED <<procTable, thrTable, nextPid, fgOwner, reapQueue>>

\* The owner to restore is read before ExRuntimeSetProcessForeground.
ReadOwner(a) ==
  /\ Step(a) = "ReadOwner"
  /\ act' = [act EXCEPT ![a] = 
       [Continued(a, Tail(act[a].steps)) EXCEPT !.arg = fgOwner]]
  /\ UNCHANGED <<obj, procTable, thrTable, nextPid, fgOwner, reapQueue, countVars>>

\* The process still has a thread the lane could belong to.
MainThreadAlive(p) ==
  p \in thrTable /\ obj[p].state # "TERMINATED" /\ obj[p].kthread # "EXITED"

\* ExRuntimeSetProcessForeground looks twice, before and after it takes the
\* lane, because it leaves the critical section to take it.
CheckForeground(a) ==
  LET p == act[a].on IN
  /\ Step(a) = "CheckForeground"
  /\ IF MainThreadAlive(p) /\ ~obj[p].foreground /\ fgOwner # p
     THEN Advance(a) ELSE Continue(a, GiveUp(a))
  /\ UNCHANGED <<obj, procTable, thrTable, nextPid, fgOwner, reapQueue, countVars>>

TakeOwner(a) ==
  /\ Step(a) = "TakeOwner"
  /\ fgOwner' = act[a].on
  /\ Advance(a)
  /\ UNCHANGED <<obj, procTable, thrTable, nextPid, reapQueue, countVars>>

RecordForeground(a) ==
  LET p == act[a].on IN
  /\ Step(a) = "RecordForeground"
  /\ IF MainThreadAlive(p)
     THEN /\ obj' = IF obj[p].foreground THEN obj
                    ELSE [obj EXCEPT ![p].foreground = TRUE,
                                     ![p].restore = act[a].arg]
          /\ Advance(a)
     ELSE Continue(a, <<"UndoOwner">> \o GiveUp(a)) /\ UNCHANGED obj
  /\ UNCHANGED <<procTable, thrTable, nextPid, fgOwner, reapQueue, countVars>>

UndoOwner(a) ==
  /\ Step(a) = "UndoOwner"
  /\ fgOwner' = act[a].arg
  /\ Advance(a)
  /\ UNCHANGED <<obj, procTable, thrTable, nextPid, reapQueue, countVars>>

-----------------------------------------------------------------------------
(* What a process does: system calls, faults and its end.                  *)

\* ExRuntimeMarkProcessTerminating, then KeThreadExit, which hands the
\* detached thread to the reaper.
ThreadExits(p, reason) ==
  /\ obj' = [obj EXCEPT ![p].reason = IF @ = "NONE" THEN reason ELSE @,
                        ![p].kthread = "EXITED"]
  /\ reapQueue' = Append(reapQueue, p)
  /\ act' = [act EXCEPT ![p] = Resting]

\* The root the dispatcher installs for a thread (ExUserRuntimeResolveRootHook):
\* the kernel's for one that is not published, its process's otherwise.
DispatchRoot(p) ==
  IF p \notin thrTable THEN "kernel" ELSE IF obj[p].payload THEN "own" ELSE "invalid"

\* What ExUserRuntimeEnterHook insists on before it drops to user mode.
MayEnterUser(p) == p \in thrTable /\ DispatchRoot(p) = "own"

\* The process ends by its own doing: SYS_EXIT, and a fault of its code, which
\* ExUserRuntimeFaultHook turns into an end of the same kind.
SysExit(p) ==
  /\ MayCall(p) /\ p \in Pids
  /\ ThreadExits(p, "SELF")
  /\ UNCHANGED <<procTable, thrTable, nextPid, fgOwner, countVars>>

\* The end of a service.  On the way back to user mode ExDispatchSyscall
\* looks for a kill request.
Return(a) ==
  /\ Step(a) = "Return"
  /\ IF obj[a].kill THEN ThreadExits(a, "KILL")
                    ELSE Advance(a) /\ UNCHANGED <<obj, reapQueue>>
  /\ UNCHANGED <<procTable, thrTable, nextPid, fgOwner, countVars>>

\* A system call that begins with a change of its own process's record.
SysCall(p, h, steps, r) ==
  /\ MayCall(p) /\ p \in Pids
  /\ act' = [act EXCEPT ![p] = [Resting EXCEPT !.steps = steps \o <<"Return">>,
                                               !.on = p, !.arg = h]]
  /\ obj' = [obj EXCEPT ![p] = r]
  /\ UNCHANGED <<procTable, thrTable, nextPid, fgOwner, reapQueue, countVars>>

\* SYS_SLEEP_MS, and the other calls that only block for a while.
SysSleep(p) == SysCall(p, InvalidHandle, <<"Sleep">>, obj[p])

SysClose(p, h) ==
  SysCall(p, h, <<"RetainOwner", "CloseSlot", "ReleaseObject", "ReleaseOwner">>,
          obj[p])

\* A handle on which a wait is refused leaves nothing to do.
SysWaitOne(p, h) ==
  SysCall(p, h, IF ResolvesWaitable(obj[p].table, h, {"WAIT"})
                THEN <<"RetainWaited", "WaitOne", "ReleaseResolved">> ELSE << >>,
          obj[p])

\* SYS_WRITE holds the stdout service while it writes.
SysWrite(p, h) ==
  IF Resolves(obj[p].table, h, "console", {"WRITE"})
  THEN SysCall(p, h, <<"ReleaseOut">>, [obj[p] EXCEPT !.stdoutRefs = @ + 1])
  ELSE SysCall(p, h, << >>, obj[p])

\* A sleep ends, or a wait on a handle reaches its time limit: the only object
\* a process has a wait handle on is itself, which does not complete while it
\* waits.
Wake(p) ==
  /\ Step(p) \in {"Sleep", "WaitOne"}
  /\ Advance(p)
  /\ UNCHANGED <<obj, procTable, thrTable, nextPid, fgOwner, reapQueue, countVars>>

\* The types of p's objects that are in the runtime tables.
Published(p) ==
  {t \in {"process", "thread"} :
     p \in (IF t = "process" THEN procTable ELSE thrTable)}

\* ExHandleClose, between the two updates of the owner's count.
CloseSlot(p) ==
  LET i == HandleIndex(act[p].arg)
      slot == obj[p].table[i]
      ok == /\ HandleIsCurrent(obj[p].table, act[p].arg)
            /\ CloseAllowed(slot, Published(p), FALSE)
      cleared == [obj[p] EXCEPT !.table[i] = ClearedSlot(@)]
      rest == Tail(act[p].steps)
  IN  /\ Step(p) = "CloseSlot"
      /\ \/ ~ok /\ Continue(p, Tail(rest)) /\ UNCHANGED obj
         \/ /\ ok /\ slot.object = "process"
            /\ obj' = [obj EXCEPT ![p] = cleared]
            /\ Continue(p, rest)
         \/ /\ ok /\ slot.object # "process"
            /\ obj' = [obj EXCEPT ![p] = ObjectReleased(cleared, slot.object)]
            /\ Continue(p, Tail(rest))
      /\ UNCHANGED <<procTable, thrTable, nextPid, fgOwner, reapQueue, countVars>>

ReleaseOut(p) ==
  /\ Step(p) = "ReleaseOut"
  /\ obj' = [obj EXCEPT ![p].stdoutRefs = @ - 1]
  /\ Advance(p)
  /\ UNCHANGED <<procTable, thrTable, nextPid, fgOwner, reapQueue, countVars>>

\* The updates of a process's own count by its own thread.
OwnCount(p) ==
  /\ \/ Step(p) \in {"RetainOwner", "RetainWaited"} /\ UpdateCount(p, p, 1)
     \/ /\ Step(p) \in {"ReleaseObject", "ReleaseOwner", "ReleaseResolved"}
        /\ UpdateCount(p, p, -1)
  /\ UNCHANGED <<procTable, thrTable, nextPid, fgOwner, reapQueue>>

-----------------------------------------------------------------------------
(* The idle thread reaps: ExUserRuntimeFinalizeThread.                     *)

FinalizeSteps == <<"MarkTerminated", "SignalThread", "Teardown", "Unpublish",
                   "CloseHandles", "ReleaseThread", "SignalProcess", "SetEvent">>

BeginFinalize ==
  /\ IdleMayRun /\ act[Idle].steps = << >> /\ reapQueue # << >>
  /\ act' = [act EXCEPT ![Idle] = [Resting EXCEPT !.steps = FinalizeSteps,
                                                  !.on = Head(reapQueue)]]
  /\ reapQueue' = Tail(reapQueue)
  /\ UNCHANGED <<obj, procTable, thrTable, nextPid, fgOwner, countVars>>

\* Mutant of Finalized: the completion holds no reference.
FinalizedUnretained(r, step) ==
  CASE step = "MarkTerminated" ->
         [r EXCEPT !.state = "TERMINATED", !.retained = TRUE]
    [] step = "SignalThread"  -> [r EXCEPT !.threadEvent = TRUE]
    [] step = "Teardown"      -> PayloadGone(r)
    [] step = "Unpublish"     -> r
    [] step = "CloseHandles"  -> HandlesClosed(r, {}, TRUE)
    [] step = "ReleaseThread" -> ThreadReleased(r)
    [] step = "SignalProcess" -> [r EXCEPT !.signaled = TRUE]
    [] step = "SetEvent"      -> [r EXCEPT !.event = TRUE]

\* The record after a step of the finalizer.
Finalized(r, step) ==
  CASE step = "MarkTerminated" ->
         LET s == [r EXCEPT !.state = "TERMINATED",
                            !.reason = IF @ = "NONE" THEN "SELF" ELSE @]
         IN  IF s.retained THEN s ELSE [Retained(s) EXCEPT !.retained = TRUE]
    [] step = "SignalThread"  -> [r EXCEPT !.threadEvent = TRUE]
    [] step = "Teardown"      -> PayloadGone(r)
    [] step = "Unpublish"     -> r
    [] step = "CloseHandles"  -> HandlesClosed(r, {}, TRUE)
    [] step = "ReleaseThread" -> ThreadReleased(r)
    [] step = "SignalProcess" -> [r EXCEPT !.signaled = TRUE]
    [] step = "SetEvent"      -> [r EXCEPT !.event = TRUE]

\* The handles are closed and the thread is given up by loads and stores of
\* the count; a count that others changed meanwhile is overwritten.
Finalize ==
  LET p == act[Idle].on
      counts == Step(Idle) \in CountSteps
      r == IF counts THEN [obj[p] EXCEPT !.refs = reg[Idle]] ELSE obj[p]
  IN  /\ IdleMayRun /\ Step(Idle) # "none"
      /\ counts => reg[Idle] # NoReg
      /\ obj' = [obj EXCEPT ![p] = Finalized(r, Step(Idle))]
      /\ thrTable' = IF Step(Idle) = "Unpublish" THEN thrTable \ {p} ELSE thrTable
      /\ Advance(Idle)
      /\ reg' = [reg EXCEPT ![Idle] = NoReg]
      /\ overlapped' = \/ overlapped
                       \/ (counts \/ Step(Idle) = "MarkTerminated") /\ Overlaps(Idle, p)
      /\ UNCHANGED <<procTable, nextPid, fgOwner, reapQueue>>

-----------------------------------------------------------------------------
(* What the process list shows: KiMapRuntimeProcessState.                  *)

ThreadStateListed(p) ==
  CASE obj[p].kthread = "NEW"     -> "CREATED"
    [] obj[p].kthread = "STARTED" -> "RUNNABLE"
    [] obj[p].kthread = "EXITED"  -> "TERMINATED"

\* The state of the published thread, and without one the process's own.
ListedState(p) == IF p \in thrTable THEN ThreadStateListed(p) ELSE obj[p].state

-----------------------------------------------------------------------------
CallerStep(a) ==
  \/ \E foreground \in BOOLEAN : Spawn(a, foreground)
  \/ \E p \in Pids : WaitProcess(a, p) \/ KillProcess(a, p)
  \/ SetOwner(a) \/ MarkControl(a) \/ StartThread(a) \/ MarkReady(a)
  \/ RequestKill(a) \/ WaitCompletion(a) \/ RestoreOwner(a)
  \/ Consume(a) \/ ReleaseChild(a)

ForegroundStep(a) ==
  \/ \E p \in Pids : SetForegroundProcess(a, p)
  \/ ReadOwner(a) \/ CheckForeground(a) \/ TakeOwner(a)
  \/ RecordForeground(a) \/ UndoOwner(a)

UserStep(p) ==
  \/ SysExit(p) \/ Wake(p) \/ Return(p) \/ CloseSlot(p)
  \/ p \notin HandleUsers /\ SysSleep(p)
  \/ \E h \in obj[p].seed :
        p \in HandleUsers /\ (SysClose(p, h) \/ SysWaitOne(p, h) \/ SysWrite(p, h))
  \/ ReleaseOut(p) \/ OwnCount(p)

Next ==
  \/ \E a \in Callers : CallerStep(a)
  \/ \E a \in KernelCallers : ForegroundStep(a)
  \/ \E p \in Pids : UserStep(p)
  \/ BeginFinalize \/ Finalize
  \/ \E a \in Actors : LoadCount(a)

Spec == Init /\ [][Next]_vars

-----------------------------------------------------------------------------
(* Properties.                                                             *)

Pending(a, step) == \E i \in 1 .. Len(act[a].steps) : act[a].steps[i] = step

\* The references that the service a is in holds on p: taken, and still to be
\* given up.
HeldBy(a, p) ==
  LET owes(given, taken) ==
        IF act[a].on = p /\ Pending(a, given) /\ ~Pending(a, taken) THEN 1 ELSE 0
  IN  owes("ReleaseChild", "none") + owes("ReleaseConsumed", "Consume")
        + owes("ReleaseOwner", "RetainOwner") + owes("ReleaseObject", "CloseSlot")
        + owes("ReleaseResolved", "RetainWaited")

Holders(p) ==
  LET flag(b) == IF b THEN 1 ELSE 0
      held == {h \in Callers \X (1 .. 2) : h[2] <= HeldBy(h[1], p)}
  IN  flag(obj[p].threadOwns) + flag(obj[p].retained)
        + OpenHandles(obj[p].table, "process") + Cardinality(held)

\* Until two updates of one count overlap, every live process object has
\* exactly the references somebody answers for
\* (its thread, its open handles, the completion, the services under way), so
\* that none leaks, and one that nobody answers for has been freed with its
\* payload: ExObjectRetain and ExObjectRelease over all paths of ex/.
ReferenceCountsExact == overlapped \/
  \A p \in Pids :
     /\ obj[p].alloc = "live" => obj[p].refs = Holders(p) /\ obj[p].refs > 0
     /\ obj[p].alloc = "freed" => Holders(p) = 0 /\ ~obj[p].payload

\* A pointer is used only while the object is there: whoever is inside a
\* service on a process finds the process, and the spawner that still has to
\* mark the process ready finds the thread (ExRuntimeStartThread), as
\* docs/architecture/ex-object-manager-lite.md:13 has it of retained objects.
UsersFindTheirObjects ==
  \A a \in Actors :
     LET p == act[a].on
         uses == {i \in 1 .. Len(act[a].steps) :
                    act[a].steps[i] # "Return"}
     IN  p # 0 /\ uses # {}
           => /\ obj[p].alloc = "live"
              /\ Pending(a, "MarkReady") => obj[p].threadAlloc = "live"

\* The same, until two updates of one count overlap.
ObjectsOutliveTheirUsers == overlapped \/ UsersFindTheirObjects

\* The tables hold no reference, yet what they name exists, until two updates
\* of one count overlap: the lists that
\* ExRuntimeCaptureProcessList and ExRuntimeCaptureThreadList build, and the
\* lookups by number or by kernel thread, never follow a stale entry; and a
\* list shows a process as terminated from the moment its thread has exited.
TablesNameLiveObjects == overlapped \/
  /\ \A p \in procTable :
        /\ obj[p].alloc = "live"
        /\ ListedState(p) = "TERMINATED" <=> obj[p].kthread = "EXITED"
  /\ \A p \in thrTable : obj[p].threadAlloc = "live" /\ p \in procTable

\* A thread the scheduler may still dispatch is published and its process has
\* its address space, until two updates of one count overlap:
\* KiResolveDispatchRoot panics otherwise.
DispatchRootAlwaysResolves == overlapped \/
  \A p \in Pids :
     obj[p].kthread = "STARTED" => MayEnterUser(p)

\* When the finalizer signals the completion it finds the process terminated
\* and retained, until two updates of one count overlap;
\* ExRuntimeSignalProcessCompletion fails otherwise and the
\* reaper panics.  ExRuntimeStartThread writes the state after the thread has
\* started, with no lock.
FinalizerNeverFails == overlapped \/
  (Step(Idle) \in {"SignalProcess", "SetEvent"}
    => LET r == obj[act[Idle].on]
       IN  r.alloc = "live" /\ r.state = "TERMINATED" /\ r.retained)
=============================================================================
