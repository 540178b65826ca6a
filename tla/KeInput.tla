------------------------------- MODULE KeInput ------------------------------
(***************************************************************************)
(* The keyboard input lane (ke/input/input.c), the PS/2 driver under it    *)
(* (drivers/input/ps2_keyboard_driver.c, ke/input/sinks/) and SYS_READLINE *)
(* above it (ex/syscall.c).                                                *)
(*                                                                         *)
(* The lane has one owner at a time.  The interrupt handler edits a line   *)
(* for the owner; a finished line stays until the owner has read it, and   *)
(* meanwhile further keys are dropped.  Whoever controls the foreground    *)
(* may give the lane to another thread at any moment, which empties it.    *)
(*                                                                         *)
(* A read is a sequence of steps: the owner is checked outside the         *)
(* critical sections that copy and consume the line, so that the lane may  *)
(* move in between.  The handler runs with interrupts off.  If it has      *)
(* interrupted the idle thread, though, the event of a finished line makes *)
(* KeSetEvent switch to the reader it releases: the handler is suspended   *)
(* with the idle thread, its interrupt still in service, until the idle    *)
(* thread is picked again.  A character carries the thread it was typed    *)
(* for, which the code does not record.                                    *)
(***************************************************************************)
EXTENDS Integers, Sequences, FiniteSets

CONSTANTS
  Readers,        \* threads of processes that read lines
  NoOwner,        \* the foreground owner 0
  LineCapacity,   \* KE_INPUT_LINE_CAPACITY
  Capacities,     \* bound: the capacities a reader asks with
  Keys,           \* bound: the kinds of key that are pressed
  MaxKeys,        \* bound: keys pressed in a behaviour
  MaxMoves        \* bound: changes of the owner in a behaviour

ASSUME InputAssumption ==
  /\ NoOwner \notin Readers
  /\ LineCapacity \in Nat \ {0} /\ Capacities \subseteq Nat
  /\ Keys \subseteq {"letter", "back", "enter", "shift", "unshift", "release", "function"}
  /\ MaxKeys \in Nat /\ MaxMoves \in Nat

VARIABLES
  input,        \* whether KeInputInit has run, and with what outcome
  lane,         \* the rest of gInputDevice
  event,        \* LineReadyEvent is signaled
  keyboard,     \* the controller: bytes to read, and the keys still to press
  pic,          \* the interrupt controller's request and in-service bits
  handler,      \* what the interrupt handler in progress has interrupted
  work,         \* some thread outside a read is ready or running
  reader,       \* the read each thread is in
  moved         \* changes of the owner so far

vars == <<input, lane, event, keyboard, pic, handler, work, reader, moved>>

EmptyLane(owner) ==
  [owner |-> owner, current |-> << >>, completed |-> << >>, ready |-> FALSE,
   shift |-> FALSE]

\* A thread in user mode.  "moves" counts the changes of the owner since the
\* read last checked it was the owner before it copies.
Outside == [at |-> "user", capacity |-> 0, buffer |-> << >>, moves |-> 0]

Init ==
  /\ input = "no"
  /\ lane = EmptyLane(NoOwner) /\ event = FALSE
  /\ keyboard = [bytes |-> << >>, left |-> MaxKeys]
  /\ pic = [request |-> FALSE, service |-> FALSE]
  /\ handler = "none" /\ work = TRUE
  /\ reader = [t \in Readers |-> Outside]
  /\ moved = 0

-----------------------------------------------------------------------------
(* The keyboard and its driver.                                            *)

\* A key is pressed or released: the controller asks for an interrupt when a
\* byte reaches its empty output buffer.
KeyEvent(key) ==
  /\ keyboard.left > 0
  /\ keyboard' = [bytes |-> Append(keyboard.bytes, key), left |-> keyboard.left - 1]
  /\ pic' = [pic EXCEPT !.request = @ \/ keyboard.bytes = << >>]
  /\ UNCHANGED <<input, lane, event, handler, work, reader, moved>>

\* KeInputInit and Ps2KeyboardDriverInit.  Each command of the driver may time
\* out, after which the kernel panics (init/init.c); otherwise the interrupt controller is
\* programmed, which forgets a request, the line is unmasked and what is in
\* the buffer is thrown away.
InitInput(commandsAccepted) ==
  /\ input = "no"
  /\ input' = IF commandsAccepted THEN "ready" ELSE "failed"
  /\ lane' = EmptyLane(NoOwner) /\ event' = FALSE
  /\ keyboard' = [keyboard EXCEPT !.bytes = << >>]
  /\ pic' = [pic EXCEPT !.request = @ /\ ~commandsAccepted]
  /\ UNCHANGED <<handler, work, reader, moved>>

\* A panic ends everything.
Panicked == input = "failed" /\ UNCHANGED vars

\* Ps2KeyboardDriverReadScanCode: the next byte moves up and asks again.
ReadScanCode ==
  /\ keyboard' = [keyboard EXCEPT !.bytes = Tail(@)]
  /\ pic' = [pic EXCEPT !.request = @ \/ Len(keyboard.bytes) > 1]

-----------------------------------------------------------------------------
(* The processor: the handler has it, or the threads, or the idle thread.  *)

\* The idle thread is picked when no other thread is ready.
IdleRuns == ~work /\ \A t \in Readers : reader[t].at \in {"user", "blocked"}

\* A handler on the idle thread's stack runs when the idle thread does.
HandlerRuns == handler = "thread" \/ (handler = "idle" /\ IdleRuns)

\* The handler has been left by the switch in KeSetEvent and its interrupt is
\* not acknowledged yet.
Suspended == handler = "idle" /\ ~IdleRuns

\* Some other thread is woken by a timer or by a reader, or the last of them
\* blocks; nothing makes threads block.
WorkArrives ==
  /\ input = "ready" /\ ~work /\ ~HandlerRuns
  /\ work' = TRUE
  /\ UNCHANGED <<input, lane, event, keyboard, pic, handler, reader, moved>>

WorkEnds ==
  /\ input = "ready" /\ work /\ ~HandlerRuns
  /\ work' = FALSE
  /\ UNCHANGED <<input, lane, event, keyboard, pic, handler, reader, moved>>

-----------------------------------------------------------------------------
(* The interrupt handler: KiKeyboardInterruptHandler.                      *)

\* KiTranslateSet1ScanCode: the character of a key, "none" without one.
Translate(key, shift) ==
  CASE key = "letter" -> IF shift THEN "A" ELSE "a"
    [] key = "back"   -> "backspace"
    [] key = "enter"  -> "newline"
    [] OTHER          -> "none"

\* KiHandleTranslatedInputChar: the lane after a character.
Typed(l, char) ==
  IF l.owner = NoOwner \/ l.ready \/ char = "none" THEN l
  ELSE IF char = "backspace"
       THEN [l EXCEPT !.current = IF @ = << >> THEN @ ELSE SubSeq(@, 1, Len(@) - 1)]
  ELSE IF char = "newline"
       THEN [l EXCEPT !.completed = l.current, !.ready = TRUE, !.current = << >>]
  ELSE IF Len(l.current) >= LineCapacity THEN l
  ELSE [l EXCEPT !.current = Append(@, [char |-> char, for |-> l.owner])]

\* The interrupt is taken: between two steps of the threads, which have
\* interrupts enabled outside their critical sections.
BeginInterrupt ==
  /\ input = "ready" /\ pic.request /\ ~pic.service /\ handler = "none"
  /\ pic' = [request |-> FALSE, service |-> TRUE]
  /\ handler' = IF IdleRuns THEN "idle" ELSE "thread"
  /\ UNCHANGED <<input, lane, event, keyboard, work, reader, moved>>

\* KeSetEvent releases every thread that is blocked on the line.  If it is
\* called on the idle thread it switches to one of them, which leaves the
\* handler Suspended.
Released(r) == [t \in Readers |-> IF r[t].at = "blocked" THEN [r[t] EXCEPT !.at = "woken"]
                                                         ELSE r[t]]

\* One turn of the loop: a byte is read and acted on.
HandleKey ==
  LET key == Head(keyboard.bytes)
      after == Typed(lane, Translate(key, lane.shift))
  IN  /\ HandlerRuns /\ keyboard.bytes # << >>
      /\ ReadScanCode
      /\ lane' = IF key = "shift" THEN [lane EXCEPT !.shift = TRUE]
                 ELSE IF key = "unshift" THEN [lane EXCEPT !.shift = FALSE]
                 ELSE after
      /\ IF after.ready /\ ~lane.ready
         THEN event' = TRUE /\ reader' = Released(reader)
         ELSE UNCHANGED <<event, reader>>
      /\ UNCHANGED <<input, handler, work, moved>>

\* Mutant of EndInterrupt: the interrupt controller is not told.
EndInterruptUnacknowledged ==
  /\ HandlerRuns /\ keyboard.bytes = << >>
  /\ handler' = "none"
  /\ UNCHANGED <<input, lane, event, keyboard, pic, work, reader, moved>>

\* No byte is left: Ps2KeyboardDriverAcknowledgeInterrupt, and the section ends.
EndInterrupt ==
  /\ HandlerRuns /\ keyboard.bytes = << >>
  /\ pic' = [pic EXCEPT !.service = FALSE]
  /\ handler' = "none"
  /\ UNCHANGED <<input, lane, event, keyboard, work, reader, moved>>

-----------------------------------------------------------------------------
(* The owner.                                                              *)

\* Mutant of SetForegroundOwner: the line being typed is kept.
SetForegroundOwnerKeepsLine(owner) ==
  /\ input = "ready" /\ work /\ ~HandlerRuns /\ moved < MaxMoves
  /\ moved' = moved + 1
  /\ lane' = [lane EXCEPT !.owner = owner, !.completed = << >>, !.ready = FALSE]
  /\ event' = FALSE
  /\ reader' = [t \in Readers |-> [reader[t] EXCEPT !.moves = @ + 1]]
  /\ UNCHANGED <<input, keyboard, pic, handler, work>>

\* KeInputSetForegroundOwnerThreadId, by a parent that spawns, waits for or
\* brings forward a process (module ExRuntime).
SetForegroundOwner(owner) ==
  /\ input = "ready" /\ work /\ ~HandlerRuns /\ moved < MaxMoves
  /\ moved' = moved + 1
  /\ lane' = EmptyLane(owner) /\ event' = FALSE
  /\ reader' = [t \in Readers |->
       IF reader[t].at \in {"copy", "copyOut", "consume"}
       THEN [reader[t] EXCEPT !.moves = @ + 1] ELSE reader[t]]
  /\ UNCHANGED <<input, keyboard, pic, handler, work>>

-----------------------------------------------------------------------------
(* SYS_READLINE: KiHandleReadLine.  Every step but the last may end the    *)
(* call with an error.                                                     *)

Go(t, at) == reader' = [reader EXCEPT ![t].at = at] /\ UNCHANGED work
KeepLane == UNCHANGED <<input, lane, event, keyboard, pic, handler, moved>>

\* The call returns to user mode, where the thread is at work.
GiveUp(t) == reader' = [reader EXCEPT ![t] = Outside] /\ work' = TRUE

\* KiValidateForegroundCurrentThread
IsOwner(t) == lane.owner = t

\* A capacity of zero or above the lane's is refused, and so is a call before
\* there is any input.
ReadLine(t, capacity) ==
  /\ reader[t].at = "user" /\ work /\ ~HandlerRuns
  /\ input = "ready" /\ capacity \in 1 .. LineCapacity
  /\ reader' = [reader EXCEPT ![t] = [Outside EXCEPT !.at = "check",
                                                     !.capacity = capacity]]
  /\ UNCHANGED work
  /\ KeepLane

\* The loop of KeInputWaitForForegroundLine: check, then wait for at most
\* KE_INPUT_OWNER_RECHECK_TIMEOUT_NS, then check again.
CheckOwner(t) ==
  /\ reader[t].at = "check" /\ ~HandlerRuns
  /\ IF IsOwner(t) THEN Go(t, "wait") ELSE GiveUp(t)
  /\ KeepLane

WaitForLine(t) ==
  /\ reader[t].at = "wait" /\ ~HandlerRuns
  /\ Go(t, IF event THEN "woken" ELSE "blocked")
  /\ KeepLane

\* Mutant of RecheckTimeout: the wait has no time limit.
RecheckNever(t) == reader[t].at = "blocked" /\ UNCHANGED vars

RecheckTimeout(t) ==
  /\ reader[t].at = "blocked" /\ ~HandlerRuns
  /\ Go(t, "check")
  /\ KeepLane

\* The checks after the wait and at the start of the copy.
CheckBeforeCopy(t) ==
  /\ reader[t].at = "woken" /\ ~HandlerRuns
  /\ IF IsOwner(t) THEN Go(t, "copy") ELSE GiveUp(t)
  /\ KeepLane

\* KeInputCopyCompletedLineForCurrentThread, its critical section.  A line
\* longer than the reader's buffer stays where it is.
CopyLine(t) ==
  /\ reader[t].at = "copy" /\ ~HandlerRuns
  /\ IF lane.ready /\ Len(lane.completed) <= reader[t].capacity
     THEN /\ reader' = [reader EXCEPT ![t].at = "copyOut", ![t].buffer = lane.completed]
          /\ UNCHANGED work
     ELSE GiveUp(t)
  /\ KeepLane

\* Mutant of CopyOut: the owner is not checked again.
CopyOutUnchecked(t, mapped) ==
  /\ reader[t].at = "copyOut" /\ ~HandlerRuns
  /\ IF mapped THEN Go(t, "consume") ELSE GiveUp(t)
  /\ KeepLane

\* KeUserModeCopyOutBytes, which fails if the user's buffer is not mapped, and
\* the check at the start of KeInputConsumeCompletedLineForCurrentThread.
CopyOut(t, mapped) ==
  /\ reader[t].at = "copyOut" /\ ~HandlerRuns
  /\ IF mapped /\ IsOwner(t) THEN Go(t, "consume") ELSE GiveUp(t)
  /\ KeepLane

\* Its critical section; with a line there the call succeeds.
ConsumeLine(t) ==
  /\ reader[t].at = "consume" /\ ~HandlerRuns
  /\ IF lane.ready
     THEN /\ lane' = [lane EXCEPT !.ready = FALSE, !.completed = << >>]
          /\ event' = FALSE
     ELSE UNCHANGED <<lane, event>>
  /\ GiveUp(t)
  /\ UNCHANGED <<input, keyboard, pic, handler, moved>>

ReadStep(t) ==
  \/ CheckOwner(t) \/ WaitForLine(t) \/ RecheckTimeout(t) \/ CheckBeforeCopy(t)
  \/ CopyLine(t) \/ ConsumeLine(t) \/ \E mapped \in BOOLEAN : CopyOut(t, mapped)

HandlerStep == BeginInterrupt \/ HandleKey \/ EndInterrupt

Next ==
  \/ \E key \in Keys : KeyEvent(key)
  \/ \E accepted \in BOOLEAN : InitInput(accepted)
  \/ HandlerStep \/ WorkArrives \/ WorkEnds \/ Panicked
  \/ \E owner \in Readers \cup {NoOwner} : SetForegroundOwner(owner)
  \/ \E t \in Readers : ReadStep(t) \/ \E n \in Capacities : ReadLine(t, n)

\* An interrupt that is asked for is taken, a handler that has the processor
\* keeps it (interrupts are off), and a reader that can run or whose wait is
\* over runs.  Nothing brings a suspended handler back: other threads need
\* not block.  Nobody has to press keys, start a read or move the lane.
Fairness == WF_vars(HandlerStep) /\ \A t \in Readers : WF_vars(ReadStep(t))

Spec == Init /\ [][Next]_vars /\ Fairness

-----------------------------------------------------------------------------
(* Properties.                                                             *)

TypedFor(line, t) == \A i \in DOMAIN line : line[i].for = t

\* What is in the lane was typed for its present owner, a finished line keeps
\* the next one out and is exactly what the event announces, and neither line
\* outgrows its array, whatever keys come and whoever takes the lane when.
LaneHoldsOwnersLine ==
  /\ TypedFor(lane.current \o lane.completed, lane.owner)
  /\ event = lane.ready
  /\ lane.ready => lane.current = << >>
  /\ ~lane.ready => lane.completed = << >>
  /\ Len(lane.current) <= LineCapacity /\ Len(lane.completed) <= LineCapacity
  /\ lane.owner = NoOwner => ~lane.ready

\* A read that succeeds returns a whole line that was typed for its reader,
\* even if the lane has moved once since the reader checked it owned it (input.c
\* checks outside its critical sections; after two moves a line of another
\* owner may come back).
ReadReturnsReadersLine ==
  [][\A t \in Readers :
        /\ reader[t].at = "consume" /\ reader'[t].at = "user" /\ lane.ready
        /\ reader[t].moves <= 1
        => TypedFor(reader[t].buffer, t)]_vars

\* A read ends once there is a line to return or the lane belongs to another
\* thread, unless the reader gets the lane back first: the wait for the event
\* looks at the owner again and again.
ReadsEnd ==
  \A t \in Readers :
     reader[t].at # "user" /\ (lane.ready \/ ~IsOwner(t))
       ~> reader[t].at = "user" \/ (IsOwner(t) /\ ~lane.ready)

\* Every byte of the keyboard is read, also one that arrives while the handler
\* is about to return or after it has switched away in KeSetEvent, unless the
\* idle thread, and the handler with it, never runs again: until the handler
\* has acknowledged its interrupt there is no other one (input.c:111 before
\* input.c:180).
KeysAreServed ==
  input = "ready" /\ keyboard.bytes # << >> ~> keyboard.bytes = << >> \/ []Suspended
=============================================================================
