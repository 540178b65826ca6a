------------------------------- MODULE KeIrql -------------------------------
(***************************************************************************)
(* Execution levels and critical sections (ke/irql.c, critical_section.c)  *)
(* across context switches.                                                *)
(*                                                                         *)
(* Every thread has its own KE_IRQL_STATE, but gCriticalSectionDepth and   *)
(* the processor's interrupt flag are global.  A guard lives on the stack  *)
(* of the thread that acquired it, so KiSchedule hands the processor over  *)
(* in the middle of one thread's guards to the middle of another's.  The   *)
(* call sites of KiSchedule decide what the outgoing thread still holds:   *)
(* one guard in a blocking service, the interrupt context in the timer     *)
(* handler and, when a key press ends a line while the CPU idles, the      *)
(* interrupt context, the critical section of the keyboard handler and the *)
(* guard of KeSetEvent.                                                    *)
(*                                                                         *)
(* KeScheduler takes every kernel service for one step; this module is     *)
(* about the mechanism that makes it one.  Which thread is ready is left   *)
(* open: KiSchedule may pick any that has not exited.                      *)
(***************************************************************************)
EXTENDS Integers, Sequences

CONSTANTS
  Threads,    \* the threads other than the idle thread
  Idle,       \* the idle thread, which is also the boot thread
  MaxNesting  \* bound: the guards a thread may hold at once

ASSUME IrqlAssumption == Idle \notin Threads /\ MaxNesting \in Nat

AllThreads == Threads \cup {Idle}
PASSIVE == 0
DISPATCH == 1

VARIABLES
  currentThread,         \* gCurrentThread
  status,                \* how far a thread has come in its life
  level,                 \* IrqlState.CurrentLevel
  dispatchDepth,         \* IrqlState.DispatchDepth
  interruptDepth,        \* IrqlState.InterruptDepth
  guards,                \* the guards and interrupt frames on each stack, innermost last
  gCriticalSectionDepth,
  interruptsEnabled,     \* RFLAGS.IF
  inService              \* the PIC waits for the end of a keyboard interrupt

irqlVars == <<level, dispatchDepth, interruptDepth>>
vars == <<currentThread, status, irqlVars, guards, gCriticalSectionDepth,
          interruptsEnabled, inService>>

Init ==
  /\ currentThread = Idle
  /\ status = [t \in AllThreads |-> IF t = Idle THEN "boot" ELSE "none"]
  /\ level = [t \in AllThreads |-> PASSIVE]
  /\ dispatchDepth = [t \in AllThreads |-> 0]
  /\ interruptDepth = [t \in AllThreads |-> 0]
  /\ guards = [t \in AllThreads |-> << >>]
  /\ gCriticalSectionDepth = 0
  /\ interruptsEnabled = FALSE
  /\ inService = FALSE

cur == currentThread
Top == guards[cur][Len(guards[cur])]
On(kind) == guards[cur] # << >> /\ Top.kind = kind

-----------------------------------------------------------------------------
(* irql.c and critical_section.c.                                          *)

\* The record KeAcquireIrqlGuard fills in; KE_CRITICAL_SECTION embeds one
\* and adds its own EnterDepth.  An interrupt frame carries no guard.
Guard(kind, section) ==
  [kind |-> kind,
   Transitioned |-> level[cur] = PASSIVE,
   SavedInterruptState |-> level[cur] = PASSIVE /\ interruptsEnabled,
   PreviousLevel |-> level[cur],
   EnterDepth |-> dispatchDepth[cur] + 1,
   SectionDepth |-> section]

\* KeAcquireIrqlGuard, with the guard it fills in.
Raise(guard) ==
  /\ Len(guards[cur]) < MaxNesting
  /\ guards' = [guards EXCEPT ![cur] = Append(@, guard)]
  /\ level' = [level EXCEPT ![cur] = DISPATCH]
  /\ dispatchDepth' = [dispatchDepth EXCEPT ![cur] = @ + 1]
  /\ interruptsEnabled' = IF guard.Transitioned THEN FALSE ELSE interruptsEnabled
  /\ UNCHANGED interruptDepth

\* KeReleaseIrqlGuard of the innermost guard.
Lower(guard) ==
  /\ guards' = [guards EXCEPT ![cur] = SubSeq(@, 1, Len(@) - 1)]
  /\ dispatchDepth' = [dispatchDepth EXCEPT ![cur] = @ - 1]
  /\ level' = [level EXCEPT ![cur] = IF dispatchDepth[cur] = 1 THEN guard.PreviousLevel ELSE DISPATCH]
  /\ interruptsEnabled' = IF guard.Transitioned THEN guard.SavedInterruptState
                          ELSE interruptsEnabled
  /\ UNCHANGED interruptDepth

KeAcquireIrqlGuard ==
  /\ ~On("keyboard")
  /\ Raise(Guard("guard", 0))
  /\ UNCHANGED <<currentThread, status, gCriticalSectionDepth, inService>>

KeReleaseIrqlGuard ==
  /\ On("guard")
  /\ Lower(Top)
  /\ UNCHANGED <<currentThread, status, gCriticalSectionDepth, inService>>

KeEnterCriticalSection ==
  /\ ~On("keyboard")
  /\ Raise(Guard("section", gCriticalSectionDepth + 1))
  /\ gCriticalSectionDepth' = gCriticalSectionDepth + 1
  /\ UNCHANGED <<currentThread, status, inService>>

KeLeaveCriticalSection ==
  /\ On("section")
  /\ Lower(Top)
  /\ gCriticalSectionDepth' = gCriticalSectionDepth - 1
  /\ UNCHANGED <<currentThread, status, inService>>

-----------------------------------------------------------------------------
(* Interrupts.  The gates of both vectors clear the interrupt flag, and    *)
(* iretq sets it again.                                                    *)

Frame(kind) ==
  [kind |-> kind, Transitioned |-> FALSE, SavedInterruptState |-> TRUE,
   PreviousLevel |-> level[cur], EnterDepth |-> dispatchDepth[cur] + 1, SectionDepth |-> 0]

KeEnterInterruptContext(vector) ==
  /\ interruptsEnabled
  /\ vector = "keyboard" => ~inService
  /\ Len(guards[cur]) < MaxNesting
  /\ interruptsEnabled' = FALSE
  /\ guards' = [guards EXCEPT ![cur] = Append(@, Frame(vector))]
  /\ dispatchDepth' = [dispatchDepth EXCEPT ![cur] = @ + 1]
  /\ interruptDepth' = [interruptDepth EXCEPT ![cur] = @ + 1]
  /\ level' = [level EXCEPT ![cur] = DISPATCH]
  /\ inService' = (inService \/ vector = "keyboard")
  /\ UNCHANGED <<currentThread, status, gCriticalSectionDepth>>

\* The critical section of KiKeyboardInterruptHandler ...
KeyboardHandlerEnter ==
  /\ On("keyboard") /\ inService
  /\ Raise(Guard("handler", gCriticalSectionDepth + 1))
  /\ gCriticalSectionDepth' = gCriticalSectionDepth + 1
  /\ UNCHANGED <<currentThread, status, inService>>

\* ... whose last act is the end-of-interrupt to the PIC.
KeyboardHandlerLeave ==
  /\ On("handler")
  /\ inService' = FALSE
  /\ Lower(Top)
  /\ gCriticalSectionDepth' = gCriticalSectionDepth - 1
  /\ UNCHANGED <<currentThread, status>>

KeLeaveInterruptContext ==
  /\ On("timer") \/ (On("keyboard") /\ ~inService)
  /\ guards' = [guards EXCEPT ![cur] = SubSeq(@, 1, Len(@) - 1)]
  /\ dispatchDepth' = [dispatchDepth EXCEPT ![cur] = @ - 1]
  /\ interruptDepth' = [interruptDepth EXCEPT ![cur] = @ - 1]
  /\ level' = [level EXCEPT ![cur] = IF dispatchDepth[cur] = 1 THEN PASSIVE ELSE DISPATCH]
  /\ interruptsEnabled' = TRUE
  /\ UNCHANGED <<currentThread, status, gCriticalSectionDepth, inService>>

\* A divide error or page fault in user mode comes through an interrupt gate
\* and never returns: the rest of the thread runs with interrupts off.
TryHandleUserRuntimeFault ==
  /\ cur # Idle /\ status[cur] = "live"
  /\ guards[cur] = << >> /\ interruptsEnabled
  /\ interruptsEnabled' = FALSE
  /\ status' = [status EXCEPT ![cur] = "faulted"]
  /\ UNCHANGED <<currentThread, irqlVars, guards, gCriticalSectionDepth, inService>>

-----------------------------------------------------------------------------
(* Threads and the call sites of KiSchedule.                               *)

\* KiThreadCreateInternal starts a slot with a fresh IRQL state, and the
\* thread becomes ready.
KeInitializeIrqlState(t) ==
  /\ status[t] \in {"none", "exited"}
  /\ status[cur] \in {"boot", "live"} /\ level[cur] = PASSIVE
  /\ status' = [status EXCEPT ![t] = "new"]
  /\ level' = [level EXCEPT ![t] = PASSIVE]
  /\ dispatchDepth' = [dispatchDepth EXCEPT ![t] = 0]
  /\ interruptDepth' = [interruptDepth EXCEPT ![t] = 0]
  /\ guards' = [guards EXCEPT ![t] = << >>]
  /\ UNCHANGED <<currentThread, gCriticalSectionDepth, interruptsEnabled, inService>>

Dispatchable == {t \in AllThreads : status[t] \notin {"none", "exited"}}

\* KeSetCurrentIrqlState and the context switch: the incoming thread goes on
\* where it called KiSchedule, or in KiThreadTrampoline.
KiSchedule(candidates) == currentThread' \in candidates

\* KiThreadTrampoline and the idle loop enable interrupts for the first time.
EnableInterrupts ==
  /\ status[cur] \in {"new", "boot"} /\ guards[cur] = << >>
  /\ interruptsEnabled' = TRUE
  /\ status' = [status EXCEPT ![cur] = "live"]
  /\ UNCHANGED <<currentThread, irqlVars, guards, gCriticalSectionDepth, inService>>

\* Mutant of BlockingService: the critical section is held across the switch.
BlockInsideSection ==
  /\ level[cur] = PASSIVE /\ status[cur] \in {"boot", "live"}
  /\ Raise(Guard("section", gCriticalSectionDepth + 1))
  /\ gCriticalSectionDepth' = gCriticalSectionDepth + 1
  /\ KiSchedule(Dispatchable)
  /\ UNCHANGED <<status, inService>>

\* KeWaitForSingleObject, KeSleep and KeYield at PASSIVE_LEVEL, and KeSetEvent
\* or KeReleaseSemaphore by the idle thread: the guard is held across the
\* switch, the critical section has been left.
BlockingService ==
  /\ level[cur] = PASSIVE /\ status[cur] \in {"boot", "live"}
  /\ Raise(Guard("guard", 0))
  /\ KiSchedule(Dispatchable)
  /\ UNCHANGED <<status, gCriticalSectionDepth, inService>>

KeThreadExit ==
  /\ cur # Idle
  /\ level[cur] = PASSIVE /\ status[cur] \in {"live", "faulted"}
  /\ Raise(Guard("guard", 0))
  /\ status' = [status EXCEPT ![cur] = "exited"]
  /\ KiSchedule(Dispatchable \ {cur})
  /\ UNCHANGED <<gCriticalSectionDepth, inService>>

\* KiSchedulerTimerISR preempts from inside the interrupt context.
TimerPreempt ==
  /\ On("timer")
  /\ KiSchedule(Dispatchable)
  /\ UNCHANGED <<status, irqlVars, guards, gCriticalSectionDepth, interruptsEnabled, inService>>

\* Mutant of KeyboardSignal: any interrupted thread is switched out.
SignalPreemptsAnyone ==
  /\ On("handler")
  /\ Raise(Guard("guard", 0))
  /\ KiSchedule(Dispatchable)
  /\ UNCHANGED <<status, gCriticalSectionDepth, inService>>

\* KiHandleTranslatedInputChar signals the line while the CPU idles: KeSetEvent
\* switches with the keyboard handler's critical section still entered.
KeyboardSignal ==
  /\ cur = Idle /\ On("handler")
  /\ Raise(Guard("guard", 0))
  /\ KiSchedule(Dispatchable)
  /\ UNCHANGED <<status, gCriticalSectionDepth, inService>>

-----------------------------------------------------------------------------
Next ==
  \/ KeAcquireIrqlGuard
  \/ KeReleaseIrqlGuard
  \/ KeEnterCriticalSection
  \/ KeLeaveCriticalSection
  \/ \E vector \in {"timer", "keyboard"} : KeEnterInterruptContext(vector)
  \/ KeyboardHandlerEnter
  \/ KeyboardHandlerLeave
  \/ KeLeaveInterruptContext
  \/ TryHandleUserRuntimeFault
  \/ \E t \in Threads : KeInitializeIrqlState(t)
  \/ EnableInterrupts
  \/ BlockingService
  \/ KeThreadExit
  \/ TimerPreempt
  \/ KeyboardSignal

Spec == Init /\ [][Next]_vars

-----------------------------------------------------------------------------
(* Properties.                                                             *)

Kinds == {"guard", "section", "handler", "timer", "keyboard"}
InterruptKinds == {"timer", "keyboard"}
SectionKinds == {"section", "handler"}

Guards ==
  [kind : Kinds, Transitioned : BOOLEAN, SavedInterruptState : BOOLEAN,
   PreviousLevel : {PASSIVE, DISPATCH}, EnterDepth : Nat, SectionDepth : Nat]

\* Levels, depths, guards and flags keep values of their C types; in
\* particular no depth counter of irql.c or critical_section.c goes below 0.
TypeOK ==
  /\ currentThread \in AllThreads
  /\ status \in [AllThreads -> {"none", "new", "boot", "live", "faulted", "exited"}]
  /\ level \in [AllThreads -> {PASSIVE, DISPATCH}]
  /\ dispatchDepth \in [AllThreads -> Nat]
  /\ interruptDepth \in [AllThreads -> Nat]
  /\ guards \in [AllThreads -> Seq(Guards)]
  /\ gCriticalSectionDepth \in Nat
  /\ interruptsEnabled \in BOOLEAN
  /\ inService \in BOOLEAN

\* KiAssertIrqlState, for the state of every thread: KeSetCurrentIrqlState
\* asserts it of the incoming thread.
IrqlStateValid(t) ==
  /\ interruptDepth[t] <= dispatchDepth[t]
  /\ level[t] = IF dispatchDepth[t] = 0 THEN PASSIVE ELSE DISPATCH

\* What the running thread would assert if it released its innermost guard,
\* left its innermost section or returned from its interrupt now.
ReleaseValid ==
  guards[cur] # << >> =>
    /\ Top.EnterDepth = dispatchDepth[cur]
    /\ Top.Transitioned => dispatchDepth[cur] = 1
    /\ Top.kind \in SectionKinds => Top.SectionDepth = gCriticalSectionDepth
    /\ Top.kind \in InterruptKinds => dispatchDepth[cur] = interruptDepth[cur]

\* No assertion of irql.c and critical_section.c can fire, whichever switches
\* come between the acquisition of a guard and its release: the global
\* section depth that KeLeaveCriticalSection compares with its guard is the
\* one its own thread left, though other threads have entered sections since.
AssertionsHold ==
  /\ \A t \in AllThreads : IrqlStateValid(t)
  /\ ReleaseValid

\* At DISPATCH_LEVEL the processor takes no interrupt, so a guard or a
\* critical section is atomic until its thread calls KiSchedule itself: a
\* flag restored by one thread never leaks into the level of another.
DispatchMasksInterrupts == level[cur] = DISPATCH => ~interruptsEnabled

\* And no path leaves interrupts off for good: back at PASSIVE_LEVEL a live
\* thread runs with interrupts enabled, or the timer could never preempt it.
PassiveRunsInterruptible ==
  level[cur] = PASSIVE /\ status[cur] = "live" => interruptsEnabled

InSection(t) == \E i \in 1 .. Len(guards[t]) : guards[t][i].kind \in SectionKinds

\* A thread that is switched out holds no critical section, except the idle
\* thread inside the keyboard handler, which then keeps the PIC waiting.
SectionsExclude ==
  \A t \in AllThreads : t # cur /\ InSection(t) => t = Idle /\ inService
=============================================================================
