--------------------------- MODULE ExRuntimeProofs --------------------------
(***************************************************************************)
(* Proofs about ExRuntime: with counts that change in one instruction, the *)
(* processes, their references, the tables and the finalizer stay          *)
(* consistent for every number of processes and kernel callers, every      *)
(* table size and every pattern of spawns.                                 *)
(*                                                                         *)
(* The inductive invariant RuntimeInv says four things.  Every actor is at *)
(* a step that determines the rest of its script (Scripts), so that what a *)
(* service holds is a function of its step (Weight).  Every process is     *)
(* either absent or a number of steps into its life: before the finalizer  *)
(* (0), at one of its eight steps (1 .. 8), or behind it (9); that number, *)
(* Rank, fixes which of payload, thread object, table entries, handles and *)
(* completion are there (Processes).  The count of a live process is the   *)
(* sum of its parts and of the weights of the services on it (Counts).     *)
(* And the reaper's queue, the finalizer and the spawners agree on whose   *)
(* turn it is (ReaperOk, OneSpawner, CallerOk).                            *)
(***************************************************************************)
EXTENDS ExRuntime, FiniteSetTheorems, SequenceTheorems, TLAPS

-----------------------------------------------------------------------------
(* The scripts.  A step names the rest of its script, so that the step a   *)
(* thread is at says all that is left for it to do.                        *)

\* The steps of each kind of service.
SpawnLabels == {"SetOwner", "MarkControl", "Start", "MarkReady"}
WaitLabels == {"RequestKill", "WaitCompletion", "RestoreOwner", "Consume",
               "ReleaseConsumed", "ReleaseChild"}
LaneLabels == {"ReadOwner", "CheckForeground", "TakeOwner", "RecordForeground",
               "UndoOwner"}
OwnLabels == {"Sleep", "RetainOwner", "CloseSlot", "ReleaseObject", "ReleaseOwner",
              "RetainWaited", "WaitOne", "ReleaseResolved", "ReleaseOut"}
FinalLabels == {"MarkTerminated", "SignalThread", "Teardown", "Unpublish",
                "CloseHandles", "ReleaseThread", "SignalProcess", "SetEvent"}
Labels == {"none", "Return"} \cup SpawnLabels \cup WaitLabels \cup LaneLabels
            \cup OwnLabels \cup FinalLabels

\* The steps an actor can be at; "none" when it is in no service.
LabelsOf(a) ==
  {"none"} \cup (IF a = Idle THEN FinalLabels
                 ELSE SpawnLabels \cup WaitLabels \cup
                      (IF a \in Pids THEN OwnLabels \cup {"Return"} ELSE LaneLabels))

\* What is left of a service from step l on.
Body(l) ==
  CASE l = "SetOwner" -> <<"SetOwner", "MarkControl", "Start", "MarkReady">>
    [] l = "MarkControl" -> <<"MarkControl", "Start", "MarkReady">>
    [] l = "Start" -> <<"Start", "MarkReady">>
    [] l = "RequestKill" -> <<"RequestKill", "WaitCompletion", "RestoreOwner", "Consume",
                              "ReleaseConsumed", "ReleaseChild">>
    [] l = "WaitCompletion" -> <<"WaitCompletion", "RestoreOwner", "Consume", "ReleaseConsumed",
                                 "ReleaseChild">>
    [] l = "RestoreOwner" -> <<"RestoreOwner", "Consume", "ReleaseConsumed", "ReleaseChild">>
    [] l = "Consume" -> <<"Consume", "ReleaseConsumed", "ReleaseChild">>
    [] l = "ReadOwner" -> <<"ReadOwner", "CheckForeground", "TakeOwner", "RecordForeground",
                            "ReleaseChild">>
    [] l = "CheckForeground" -> <<"CheckForeground", "TakeOwner", "RecordForeground",
                                  "ReleaseChild">>
    [] l = "TakeOwner" -> <<"TakeOwner", "RecordForeground", "ReleaseChild">>
    [] l \in {"ReleaseConsumed", "RecordForeground", "UndoOwner"} -> <<l, "ReleaseChild">>
    [] l = "RetainOwner" -> <<"RetainOwner", "CloseSlot", "ReleaseObject", "ReleaseOwner">>
    [] l = "CloseSlot" -> <<"CloseSlot", "ReleaseObject", "ReleaseOwner">>
    [] l = "ReleaseObject" -> <<"ReleaseObject", "ReleaseOwner">>
    [] l = "RetainWaited" -> <<"RetainWaited", "WaitOne", "ReleaseResolved">>
    [] l = "WaitOne" -> <<"WaitOne", "ReleaseResolved">>
    [] l \in {"MarkReady", "ReleaseChild", "Sleep", "ReleaseOwner", "ReleaseResolved",
              "ReleaseOut"} -> <<l>>
    [] l = "MarkTerminated" -> <<"MarkTerminated", "SignalThread", "Teardown", "Unpublish",
                                 "CloseHandles", "ReleaseThread", "SignalProcess", "SetEvent">>
    [] l = "SignalThread" -> <<"SignalThread", "Teardown", "Unpublish", "CloseHandles",
                               "ReleaseThread", "SignalProcess", "SetEvent">>
    [] l = "Teardown" -> <<"Teardown", "Unpublish", "CloseHandles", "ReleaseThread",
                           "SignalProcess", "SetEvent">>
    [] l = "Unpublish" -> <<"Unpublish", "CloseHandles", "ReleaseThread", "SignalProcess",
                            "SetEvent">>
    [] l = "CloseHandles" -> <<"CloseHandles", "ReleaseThread", "SignalProcess", "SetEvent">>
    [] l = "ReleaseThread" -> <<"ReleaseThread", "SignalProcess", "SetEvent">>
    [] l = "SignalProcess" -> <<"SignalProcess", "SetEvent">>
    [] l = "SetEvent" -> <<"SetEvent">>
    [] OTHER -> << >>

\* What is left for actor a at step l.
Script(a, l) == IF l = "none" THEN << >> ELSE Body(l) \o Ending(a)

\* How many references a caller at step l holds on the process it works on.
Weight(l) ==
  CASE l \in {"ReleaseConsumed", "ReleaseObject"} -> 2
    [] l \in (WaitLabels \ {"ReleaseConsumed"}) \cup LaneLabels
             \cup {"CloseSlot", "ReleaseOwner", "WaitOne", "ReleaseResolved"} -> 1
    [] OTHER -> 0

\* The references actor a holds on p, and all of them as pairs <<caller, n>>.
WeightOn(a, p) == IF act[a].on = p THEN Weight(Step(a)) ELSE 0
Held(p) == {x \in Callers \X (1 .. 2) : x[2] <= WeightOn(x[1], p)}

-----------------------------------------------------------------------------
(* One process.                                                            *)

\* A handle slot.
SlotRecords == [object : {"none", "process", "console", "thread"},
                rights : SUBSET {"QUERY", "CLOSE", "WAIT", "WRITE",
                                 "PROCESS_SELF", "THREAD_SELF"},
                generation : Nat]

\* What a slot is for, as the creation of a process fills them.
Role(i) == CASE i = 1 -> "process" [] i = 2 -> "console" [] i = 3 -> "process"
             [] i = 4 -> "thread" [] OTHER -> "none"
\* A slot is empty or holds the kind of handle it is for.
TableOk(t) ==
  \A i \in SlotIndices :
     t[i].object # "none" => t[i].object = Role(i) /\ "CLOSE" \in t[i].rights
\* No handle is open.
Closed(t) == \A i \in SlotIndices : t[i].object = "none"
Bit(b) == IF b THEN 1 ELSE 0
\* 1 when slot i is in use.
Open(t, i) == Bit(t[i].object # "none")

\* The records of ExRuntime, with counts that could be anything.
ObjectRecords ==
  [alloc : {"none", "live", "freed"}, refs : Int, stdoutRefs : Int, parent : Nat,
   state : {"CREATED", "READY", "TERMINATED"},
   reason : {"NONE", "SELF", "KILL"}, kill : BOOLEAN,
   retained : BOOLEAN, signaled : BOOLEAN, event : BOOLEAN, foreground : BOOLEAN,
   restore : Nat, payload : BOOLEAN,
   table : [SlotIndices -> SlotRecords],
   threadAlloc : {"none", "live", "freed"}, threadRefs : Int, threadOwns : BOOLEAN,
   threadEvent : BOOLEAN, kthread : {"NONE", "NEW", "STARTED", "EXITED"}, seed : SUBSET Nat]

\* A process that is not there: not yet, not any more, or never created.
Absent(r, k, listed, thread) ==
  /\ r.alloc # "live" /\ r.threadAlloc # "live"
  /\ ~r.payload /\ ~r.retained /\ ~r.threadOwns /\ ~r.event
  /\ Closed(r.table) /\ ~listed /\ ~thread
  /\ r.kthread \in {"NONE", "EXITED"} /\ (r.kthread = "EXITED" => k = 9)

\* A process that is there, k steps into its finalization; out is 1 while its
\* thread holds the stdout service.
Present(r, k, listed, thread, out) ==
  /\ r.alloc = "live" /\ r.refs > 0
  /\ r.kthread \in {"NEW", "STARTED", "EXITED"}
  /\ r.payload <=> k <= 3
  /\ thread <=> k <= 4
  /\ k >= 6 => Closed(r.table)
  /\ r.threadAlloc = "live" <=> k <= 6
  /\ r.threadOwns <=> k <= 6
  /\ k <= 6 => r.threadRefs = 1 + Open(r.table, 4)
  /\ r.stdoutRefs = 1 + Open(r.table, 2) + out
  /\ r.state = "TERMINATED" <=> k >= 2
  /\ k <= 1 => ~r.retained
  /\ k \in 2 .. 8 => r.retained
  /\ k <= 8 => listed
  /\ k = 9 => (r.retained <=> listed)
  /\ r.event <=> k = 9

-----------------------------------------------------------------------------
(* All of them.                                                            *)

\* The steps of the finalizer in order.
FinalRank(l) ==
  CASE l = "MarkTerminated" -> 1 [] l = "SignalThread" -> 2 [] l = "Teardown" -> 3
    [] l = "Unpublish" -> 4 [] l = "CloseHandles" -> 5 [] l = "ReleaseThread" -> 6
    [] l = "SignalProcess" -> 7 [] l = "SetEvent" -> 8 [] OTHER -> 9

Queued(p) == \E i \in 1 .. Len(reapQueue) : reapQueue[i] = p
\* How far the finalization of p is: 0 before it, 9 after it.
Rank(p) ==
  IF obj[p].kthread # "EXITED" \/ Queued(p) THEN 0
  ELSE IF act[Idle].on = p THEN FinalRank(Step(Idle)) ELSE 9

\* The thread of p is between the start and the end of a write.
Writing(p) == Bit(Step(p) = "ReleaseOut")

\* What an actor carries through a service.
ActRecords == [steps : Seq(Labels), on : Pids \cup {0}, arg : Nat, fg : BOOLEAN]

\* Types.
RuntimeTypes ==
  /\ act \in [Actors -> ActRecords]
  /\ obj \in [Pids -> ObjectRecords]
  /\ procTable \subseteq Pids /\ thrTable \subseteq Pids
  /\ nextPid \in Nat \ {0} /\ fgOwner \in Nat
  /\ reapQueue \in Seq(Pids)

\* Every actor is at a step of its own, with exactly the rest of that script.
Scripts == \A a \in Actors : Step(a) \in LabelsOf(a) /\ act[a].steps = Script(a, Step(a))

\* Actor a is inside a service.
Busy(a) == Step(a) \notin {"none", "Return"}

\* What a caller relies on.
CallerOk(a) ==
  /\ a \in Pids /\ Step(a) # "none" => obj[a].kthread = "STARTED"
  /\ Step(a) \in OwnLabels => act[a].on = a
  /\ Busy(a) => act[a].on \in Pids /\ obj[act[a].on].alloc = "live"
  /\ Step(a) \in SpawnLabels \ {"MarkReady"} => obj[act[a].on].kthread = "NEW"
  /\ Step(a) = "MarkReady" => Rank(act[a].on) = 0 /\ obj[act[a].on].kthread # "NEW"
  /\ Step(a) \in {"RestoreOwner", "Consume", "ReleaseConsumed"} => obj[act[a].on].event

\* A process has one spawner.
OneSpawner ==
  \A a, b \in Callers :
     Step(a) \in SpawnLabels /\ Step(b) \in SpawnLabels /\ act[a].on = act[b].on => a = b

\* The finalizer and its queue.
ReaperOk ==
  /\ \A i \in 1 .. Len(reapQueue) :
        reapQueue[i] \in Pids /\ obj[reapQueue[i]].kthread = "EXITED"
  /\ \A i, j \in 1 .. Len(reapQueue) : reapQueue[i] = reapQueue[j] => i = j
  /\ Step(Idle) # "none" => act[Idle].on \in Pids /\ obj[act[Idle].on].kthread = "EXITED" /\
       ~Queued(act[Idle].on)
  /\ Step(Idle) = "none" => act[Idle].on = 0

\* Every process is there or it is not; numbers not given out are unused.
Processes ==
  \A p \in Pids :
    /\ TableOk(obj[p].table)
    /\ Absent(obj[p], Rank(p), p \in procTable, p \in thrTable) \/
         Present(obj[p], Rank(p), p \in procTable, p \in thrTable, Writing(p))
    /\ p >= nextPid => obj[p].alloc = "none" /\ obj[p].kthread = "NONE"

\* The count of a live process adds up.
Counts ==
  \A p \in Pids :
     obj[p].alloc = "live" =>
       obj[p].refs = Bit(obj[p].threadOwns) + Bit(obj[p].retained)
                       + Open(obj[p].table, 1) + Open(obj[p].table, 3)
                       + Cardinality(Held(p))

-----------------------------------------------------------------------------
(* Facts about the scripts.                                                *)

\* The step after the last one of a service.
Ends(a) == IF a \in Pids THEN "Return" ELSE "none"

\* The step after l; "end" when it is the last one of its service.
After(l) ==
  CASE l = "SetOwner" -> "MarkControl"
    [] l = "MarkControl" -> "Start"
    [] l = "Start" -> "MarkReady"
    [] l = "RequestKill" -> "WaitCompletion"
    [] l = "WaitCompletion" -> "RestoreOwner"
    [] l = "RestoreOwner" -> "Consume"
    [] l = "Consume" -> "ReleaseConsumed"
    [] l = "ReadOwner" -> "CheckForeground"
    [] l = "CheckForeground" -> "TakeOwner"
    [] l = "TakeOwner" -> "RecordForeground"
    [] l \in {"ReleaseConsumed", "RecordForeground", "UndoOwner"} -> "ReleaseChild"
    [] l = "RetainOwner" -> "CloseSlot"
    [] l = "CloseSlot" -> "ReleaseObject"
    [] l = "ReleaseObject" -> "ReleaseOwner"
    [] l = "RetainWaited" -> "WaitOne"
    [] l = "WaitOne" -> "ReleaseResolved"
    [] l \in {"MarkReady", "ReleaseChild", "Sleep", "ReleaseOwner", "ReleaseResolved",
              "ReleaseOut"} -> "end"
    [] l = "MarkTerminated" -> "SignalThread"
    [] l = "SignalThread" -> "Teardown"
    [] l = "Teardown" -> "Unpublish"
    [] l = "Unpublish" -> "CloseHandles"
    [] l = "CloseHandles" -> "ReleaseThread"
    [] l = "ReleaseThread" -> "SignalProcess"
    [] l = "SignalProcess" -> "SetEvent"
    [] l = "SetEvent" -> "end"
    [] OTHER -> "none"

\* The step after l for actor a.
Following(a, l) == IF After(l) = "end" THEN Ends(a) ELSE After(l)

\* x is in the list.
In(x, s) == \E i \in 1 .. Len(s) : s[i] = x

\* Who is who.
LEMMA Actors3 ==
  /\ Idle \in Actors /\ Idle \notin Callers /\ Idle \notin Pids
  /\ Pids \subseteq Callers /\ KernelCallers \subseteq Callers /\ Callers \subseteq Actors
  /\ \A a \in KernelCallers : a \notin Pids /\ a # Idle /\ a # 0
  /\ \A a \in Actors : a \in Callers \/ a = Idle
  /\ \A a \in Callers : a \in Pids \/ a \in KernelCallers
  /\ Pids \subseteq Nat /\ 0 \notin Pids /\ MaxProcesses \in Nat
  /\ \A p : p \in Pids <=> p \in Nat /\ 1 <= p /\ p <= MaxProcesses
  BY RuntimeAssumption DEF Actors, Callers, Pids

\* A list with another behind it.
LEMMA Joined ==
  ASSUME NEW s \in Seq(Labels), NEW e \in Seq(Labels)
  PROVE  /\ s \o e \in Seq(Labels)
         /\ s # << >> => s \o e # << >> /\ Head(s \o e) = Head(s) /\ Tail(s \o e) = Tail(s) \o e
         /\ \A x : (\E i \in 1 .. Len(s \o e) : (s \o e)[i] = x) <=>
                     \/ \E i \in 1 .. Len(s) : s[i] = x
                     \/ \E i \in 1 .. Len(e) : e[i] = x
<1> DEFINE r == s \o e
<1>1. /\ r \in Seq(Labels) /\ Len(r) = Len(s) + Len(e) /\ Len(s) \in Nat /\ Len(e) \in Nat
  OBVIOUS
<1>2. \A i \in 1 .. Len(s) + Len(e) : r[i] = IF i <= Len(s) THEN s[i] ELSE e[i - Len(s)]
  OBVIOUS
<1>3. ASSUME NEW i \in 1 .. Len(e) PROVE Len(s) + i \in 1 .. Len(r) /\ r[Len(s) + i] = e[i]
  <2>1. Len(s) + i \in 1 .. Len(s) + Len(e) /\ ~(Len(s) + i <= Len(s)) /\
        (Len(s) + i) - Len(s) = i
    BY <1>1
  <2> QED BY <1>1, <1>2, <2>1
<1>4. \A x : (\E i \in 1 .. Len(r) : r[i] = x) <=>
                     \/ \E i \in 1 .. Len(s) : s[i] = x
                     \/ \E i \in 1 .. Len(e) : e[i] = x
  <2>1. ASSUME NEW i \in 1 .. Len(r), ~(i <= Len(s)) PROVE i - Len(s) \in 1 .. Len(e)
    BY <1>1, <2>1
  <2>2. \A i \in 1 .. Len(s) : i \in 1 .. Len(r) /\ r[i] = s[i]
    BY <1>1, <1>2
  <2>3. \A i \in 1 .. Len(r) : \/ i \in 1 .. Len(s) /\ r[i] = s[i]
                               \/ i - Len(s) \in 1 .. Len(e) /\ r[i] = e[i - Len(s)]
    BY <1>1, <1>2, <2>1
  <2> HIDE DEF r
  <2> QED BY <1>3, <2>2, <2>3
<1>5. ASSUME s # << >> PROVE r # << >> /\ Head(r) = Head(s) /\ Tail(r) = Tail(s) \o e
  <2>1. Len(s) > 0 /\ r # << >> /\ Head(r) = Head(s)
    BY <1>1, <1>2, <1>5
  <2>2. Tail(s) \in Seq(Labels) /\ Len(Tail(s)) = Len(s) - 1 /\
        \A i \in 1 .. Len(s) - 1 : Tail(s)[i] = s[i + 1]
    BY <2>1, <1>5
  <2>3. Tail(r) \in Seq(Labels) /\ Len(Tail(r)) = Len(r) - 1 /\
        \A i \in 1 .. Len(r) - 1 : Tail(r)[i] = r[i + 1]
    BY <1>1, <2>1
  <2> DEFINE q == Tail(s) \o e
  <2>4. q \in Seq(Labels) /\ Len(q) = Len(Tail(s)) + Len(e)
        /\ \A i \in 1 .. Len(Tail(s)) +
             Len(e) : q[i] = IF i <= Len(Tail(s)) THEN Tail(s)[i] ELSE e[i - Len(Tail(s))]
    BY <2>2
  <2>5. Len(q) = Len(Tail(r))
    BY <1>1, <2>2, <2>3, <2>4
  <2>6. ASSUME NEW i \in 1 .. Len(q) PROVE q[i] = Tail(r)[i]
    <3>1. i \in 1 .. Len(r) - 1 /\ i + 1 \in 1 .. Len(s) + Len(e) /\ Len(Tail(s)) = Len(s) - 1
      BY <1>1, <2>2, <2>4
    <3>2. Tail(r)[i] = r[i + 1] /\ r[i + 1] = IF i + 1 <= Len(s) THEN s[i +
          1] ELSE e[(i + 1) - Len(s)]
      BY <1>2, <2>3, <3>1
    <3>3. q[i] = IF i <= Len(s) - 1 THEN Tail(s)[i] ELSE e[i - (Len(s) - 1)]
      BY <2>4, <3>1
    <3>4. CASE i <= Len(s) - 1
      <4>1. i \in 1 .. Len(s) - 1 /\ i + 1 <= Len(s)
        BY <1>1, <3>1, <3>4
      <4>2. Tail(s)[i] = s[i + 1]
        BY <2>2, <4>1
      <4> QED BY <3>2, <3>3, <3>4, <4>1, <4>2
    <3>5. CASE ~(i <= Len(s) - 1)
      <4>1. ~(i + 1 <= Len(s)) /\ (i + 1) - Len(s) = i - (Len(s) - 1)
        BY <1>1, <3>1, <3>5
      <4> QED BY <3>2, <3>3, <3>5, <4>1
    <3> QED BY <3>4, <3>5
  <2> HIDE DEF q, r
  <2>7. q = Tail(r)
    BY <2>3, <2>4, <2>5, <2>6, SeqEqual
  <2> QED BY <2>1, <2>7 DEF q
<1> QED BY <1>1, <1>4, <1>5

\* What Body says of each step.
LEMMA Bodies ==
  /\ Body("SetOwner") = <<"SetOwner", "MarkControl", "Start", "MarkReady">>
  /\ Body("MarkControl") = <<"MarkControl", "Start", "MarkReady">>
  /\ Body("Start") = <<"Start", "MarkReady">>
  /\ Body("RequestKill") = <<"RequestKill", "WaitCompletion", "RestoreOwner", "Consume",
       "ReleaseConsumed", "ReleaseChild">>
  /\ Body("WaitCompletion") = <<"WaitCompletion", "RestoreOwner", "Consume", "ReleaseConsumed",
       "ReleaseChild">>
  /\ Body("RestoreOwner") = <<"RestoreOwner", "Consume", "ReleaseConsumed", "ReleaseChild">>
  /\ Body("Consume") = <<"Consume", "ReleaseConsumed", "ReleaseChild">>
  /\ Body("ReadOwner") = <<"ReadOwner", "CheckForeground", "TakeOwner", "RecordForeground",
       "ReleaseChild">>
  /\ Body("CheckForeground") = <<"CheckForeground", "TakeOwner", "RecordForeground",
       "ReleaseChild">>
  /\ Body("TakeOwner") = <<"TakeOwner", "RecordForeground", "ReleaseChild">>
  /\ Body("ReleaseConsumed") = <<"ReleaseConsumed", "ReleaseChild">>
  /\ Body("RecordForeground") = <<"RecordForeground", "ReleaseChild">>
  /\ Body("UndoOwner") = <<"UndoOwner", "ReleaseChild">>
  /\ Body("RetainOwner") = <<"RetainOwner", "CloseSlot", "ReleaseObject", "ReleaseOwner">>
  /\ Body("CloseSlot") = <<"CloseSlot", "ReleaseObject", "ReleaseOwner">>
  /\ Body("ReleaseObject") = <<"ReleaseObject", "ReleaseOwner">>
  /\ Body("RetainWaited") = <<"RetainWaited", "WaitOne", "ReleaseResolved">>
  /\ Body("WaitOne") = <<"WaitOne", "ReleaseResolved">>
  /\ Body("MarkReady") = <<"MarkReady">>
  /\ Body("ReleaseChild") = <<"ReleaseChild">>
  /\ Body("Sleep") = <<"Sleep">>
  /\ Body("ReleaseOwner") = <<"ReleaseOwner">>
  /\ Body("ReleaseResolved") = <<"ReleaseResolved">>
  /\ Body("ReleaseOut") = <<"ReleaseOut">>
  /\ Body("MarkTerminated") = <<"MarkTerminated", "SignalThread", "Teardown", "Unpublish",
       "CloseHandles", "ReleaseThread", "SignalProcess", "SetEvent">>
  /\ Body("SignalThread") = <<"SignalThread", "Teardown", "Unpublish", "CloseHandles",
       "ReleaseThread", "SignalProcess", "SetEvent">>
  /\ Body("Teardown") = <<"Teardown", "Unpublish", "CloseHandles", "ReleaseThread",
       "SignalProcess", "SetEvent">>
  /\ Body("Unpublish") = <<"Unpublish", "CloseHandles", "ReleaseThread", "SignalProcess",
       "SetEvent">>
  /\ Body("CloseHandles") = <<"CloseHandles", "ReleaseThread", "SignalProcess", "SetEvent">>
  /\ Body("ReleaseThread") = <<"ReleaseThread", "SignalProcess", "SetEvent">>
  /\ Body("SignalProcess") = <<"SignalProcess", "SetEvent">>
  /\ Body("SetEvent") = <<"SetEvent">>
  /\ Body("Return") = << >>
  BY DEF Body

\* After is one of the steps.
LEMMA Afters ==
  ASSUME NEW l \in Labels \ {"none", "Return"}
  PROVE  After(l) = "end" \/ After(l) \in Labels \ {"none", "Return"}
  BY ZenonT(60) DEF After, Labels, SpawnLabels, WaitLabels, LaneLabels, OwnLabels, FinalLabels

\* A step leads to the rest of its script.
LEMMA BodyProperties ==
  ASSUME NEW l \in Labels \ {"none", "Return"}
  PROVE  /\ Body(l) \in Seq(Labels) /\ Body(l) # << >> /\ Head(Body(l)) = l
         /\ After(l) = "end" => Tail(Body(l)) = << >>
         /\ After(l) # "end" => Tail(Body(l)) = Body(After(l))
<1>0. /\ "SetOwner" \in Labels
      /\ "MarkControl" \in Labels
      /\ "Start" \in Labels
      /\ "RequestKill" \in Labels
      /\ "WaitCompletion" \in Labels
      /\ "RestoreOwner" \in Labels
      /\ "Consume" \in Labels
      /\ "ReadOwner" \in Labels
      /\ "CheckForeground" \in Labels
      /\ "TakeOwner" \in Labels
      /\ "ReleaseConsumed" \in Labels
      /\ "RecordForeground" \in Labels
      /\ "UndoOwner" \in Labels
      /\ "RetainOwner" \in Labels
      /\ "CloseSlot" \in Labels
      /\ "ReleaseObject" \in Labels
      /\ "RetainWaited" \in Labels
      /\ "WaitOne" \in Labels
      /\ "MarkReady" \in Labels
      /\ "ReleaseChild" \in Labels
      /\ "Sleep" \in Labels
      /\ "ReleaseOwner" \in Labels
      /\ "ReleaseResolved" \in Labels
      /\ "ReleaseOut" \in Labels
      /\ "MarkTerminated" \in Labels
      /\ "SignalThread" \in Labels
      /\ "Teardown" \in Labels
      /\ "Unpublish" \in Labels
      /\ "CloseHandles" \in Labels
      /\ "ReleaseThread" \in Labels
      /\ "SignalProcess" \in Labels
      /\ "SetEvent" \in Labels
      /\ "Return" \in Labels
  BY DEF Labels, SpawnLabels, WaitLabels, LaneLabels, OwnLabels, FinalLabels
<1>1. CASE l = "SetOwner"
  <2>1. Body(l) = <<"SetOwner", "MarkControl", "Start", "MarkReady">>
    BY <1>1, Bodies
  <2>2. After(l) = "MarkControl" /\ Body("MarkControl") = <<"MarkControl", "Start",
        "MarkReady">>
    BY <1>1, Bodies DEF After
  <2>3. "SetOwner" \in Labels /\ "MarkControl" \in Labels /\ "Start" \in Labels /\
        "MarkReady" \in Labels /\ l \in Labels
    BY <1>0, <1>1
  <2>4. <<"SetOwner", "MarkControl", "Start", "MarkReady">> \in Seq(Labels)
    BY <2>3
  <2>5. LET s == <<"SetOwner", "MarkControl", "Start", "MarkReady">> IN s # << >> /\
        Head(s) = "SetOwner" /\ Tail(s) = <<"MarkControl", "Start", "MarkReady">>
    OBVIOUS
  <2> QED BY <1>1, <2>1, <2>2, <2>4, <2>5, Zenon
<1>2. CASE l = "MarkControl"
  <2>1. Body(l) = <<"MarkControl", "Start", "MarkReady">>
    BY <1>2, Bodies
  <2>2. After(l) = "Start" /\ Body("Start") = <<"Start", "MarkReady">>
    BY <1>2, Bodies DEF After
  <2>3. "MarkControl" \in Labels /\ "Start" \in Labels /\ "MarkReady" \in Labels /\ l \in Labels
    BY <1>0, <1>2
  <2>4. <<"MarkControl", "Start", "MarkReady">> \in Seq(Labels)
    BY <2>3
  <2>5. LET s == <<"MarkControl", "Start", "MarkReady">> IN s # << >> /\
        Head(s) = "MarkControl" /\ Tail(s) = <<"Start", "MarkReady">>
    OBVIOUS
  <2> QED BY <1>2, <2>1, <2>2, <2>4, <2>5, Zenon
<1>3. CASE l = "Start"
  <2>1. Body(l) = <<"Start", "MarkReady">>
    BY <1>3, Bodies
  <2>2. After(l) = "MarkReady" /\ Body("MarkReady") = <<"MarkReady">>
    BY <1>3, Bodies DEF After
  <2>3. "Start" \in Labels /\ "MarkReady" \in Labels /\ l \in Labels
    BY <1>0, <1>3
  <2>4. <<"Start", "MarkReady">> \in Seq(Labels)
    BY <2>3
  <2>5. LET s == <<"Start", "MarkReady">> IN s # << >> /\ Head(s) = "Start" /\
        Tail(s) = <<"MarkReady">>
    OBVIOUS
  <2> QED BY <1>3, <2>1, <2>2, <2>4, <2>5, Zenon
<1>4. CASE l = "RequestKill"
  <2>1. Body(l) = <<"RequestKill", "WaitCompletion", "RestoreOwner", "Consume",
        "ReleaseConsumed", "ReleaseChild">>
    BY <1>4, Bodies
  <2>2. After(l) = "WaitCompletion" /\ Body("WaitCompletion") = <<"WaitCompletion",
        "RestoreOwner", "Consume", "ReleaseConsumed", "ReleaseChild">>
    BY <1>4, Bodies DEF After
  <2>3. "RequestKill" \in Labels /\ "WaitCompletion" \in Labels /\ "RestoreOwner" \in Labels /\
        "Consume" \in Labels /\ "ReleaseConsumed" \in Labels /\ "ReleaseChild" \in Labels /\
        l \in Labels
    BY <1>0, <1>4
  <2>4. <<"RequestKill", "WaitCompletion", "RestoreOwner", "Consume", "ReleaseConsumed",
        "ReleaseChild">> \in Seq(Labels)
    BY <2>3
  <2>5. LET s == <<"RequestKill", "WaitCompletion", "RestoreOwner", "Consume",
        "ReleaseConsumed", "ReleaseChild">> IN s # << >> /\ Head(s) = "RequestKill" /\
        Tail(s) = <<"WaitCompletion", "RestoreOwner", "Consume", "ReleaseConsumed",
        "ReleaseChild">>
    OBVIOUS
  <2> QED BY <1>4, <2>1, <2>2, <2>4, <2>5, Zenon
<1>5. CASE l = "WaitCompletion"
  <2>1. Body(l) = <<"WaitCompletion", "RestoreOwner", "Consume", "ReleaseConsumed",
        "ReleaseChild">>
    BY <1>5, Bodies
  <2>2. After(l) = "RestoreOwner" /\ Body("RestoreOwner") = <<"RestoreOwner", "Consume",
        "ReleaseConsumed", "ReleaseChild">>
    BY <1>5, Bodies DEF After
  <2>3. "WaitCompletion" \in Labels /\ "RestoreOwner" \in Labels /\ "Consume" \in Labels /\
        "ReleaseConsumed" \in Labels /\ "ReleaseChild" \in Labels /\ l \in Labels
    BY <1>0, <1>5
  <2>4. <<"WaitCompletion", "RestoreOwner", "Consume", "ReleaseConsumed",
        "ReleaseChild">> \in Seq(Labels)
    BY <2>3
  <2>5. LET s == <<"WaitCompletion", "RestoreOwner", "Consume", "ReleaseConsumed",
        "ReleaseChild">> IN s # << >> /\ Head(s) = "WaitCompletion" /\
        Tail(s) = <<"RestoreOwner", "Consume", "ReleaseConsumed", "ReleaseChild">>
    OBVIOUS
  <2> QED BY <1>5, <2>1, <2>2, <2>4, <2>5, Zenon
<1>6. CASE l = "RestoreOwner"
  <2>1. Body(l) = <<"RestoreOwner", "Consume", "ReleaseConsumed", "ReleaseChild">>
    BY <1>6, Bodies
  <2>2. After(l) = "Consume" /\ Body("Consume") = <<"Consume", "ReleaseConsumed",
        "ReleaseChild">>
    BY <1>6, Bodies DEF After
  <2>3. "RestoreOwner" \in Labels /\ "Consume" \in Labels /\ "ReleaseConsumed" \in Labels /\
        "ReleaseChild" \in Labels /\ l \in Labels
    BY <1>0, <1>6
  <2>4. <<"RestoreOwner", "Consume", "ReleaseConsumed", "ReleaseChild">> \in Seq(Labels)
    BY <2>3
  <2>5. LET s == <<"RestoreOwner", "Consume", "ReleaseConsumed",
        "ReleaseChild">> IN s # << >> /\ Head(s) = "RestoreOwner" /\
        Tail(s) = <<"Consume", "ReleaseConsumed", "ReleaseChild">>
    OBVIOUS
  <2> QED BY <1>6, <2>1, <2>2, <2>4, <2>5, Zenon
<1>7. CASE l = "Consume"
  <2>1. Body(l) = <<"Consume", "ReleaseConsumed", "ReleaseChild">>
    BY <1>7, Bodies
  <2>2. After(l) = "ReleaseConsumed" /\ Body("ReleaseConsumed") = <<"ReleaseConsumed",
        "ReleaseChild">>
    BY <1>7, Bodies DEF After
  <2>3. "Consume" \in Labels /\ "ReleaseConsumed" \in Labels /\ "ReleaseChild" \in Labels /\
        l \in Labels
    BY <1>0, <1>7
  <2>4. <<"Consume", "ReleaseConsumed", "ReleaseChild">> \in Seq(Labels)
    BY <2>3
  <2>5. LET s == <<"Consume", "ReleaseConsumed", "ReleaseChild">> IN s # << >> /\
        Head(s) = "Consume" /\ Tail(s) = <<"ReleaseConsumed", "ReleaseChild">>
    OBVIOUS
  <2> QED BY <1>7, <2>1, <2>2, <2>4, <2>5, Zenon
<1>8. CASE l = "ReadOwner"
  <2>1. Body(l) = <<"ReadOwner", "CheckForeground", "TakeOwner", "RecordForeground",
        "ReleaseChild">>
    BY <1>8, Bodies
  <2>2. After(l) = "CheckForeground" /\ Body("CheckForeground") = <<"CheckForeground",
        "TakeOwner", "RecordForeground", "ReleaseChild">>
    BY <1>8, Bodies DEF After
  <2>3. "ReadOwner" \in Labels /\ "CheckForeground" \in Labels /\ "TakeOwner" \in Labels /\
        "RecordForeground" \in Labels /\ "ReleaseChild" \in Labels /\ l \in Labels
    BY <1>0, <1>8
  <2>4. <<"ReadOwner", "CheckForeground", "TakeOwner", "RecordForeground",
        "ReleaseChild">> \in Seq(Labels)
    BY <2>3
  <2>5. LET s == <<"ReadOwner", "CheckForeground", "TakeOwner", "RecordForeground",
        "ReleaseChild">> IN s # << >> /\ Head(s) = "ReadOwner" /\
        Tail(s) = <<"CheckForeground", "TakeOwner", "RecordForeground", "ReleaseChild">>
    OBVIOUS
  <2> QED BY <1>8, <2>1, <2>2, <2>4, <2>5, Zenon
<1>9. CASE l = "CheckForeground"
  <2>1. Body(l) = <<"CheckForeground", "TakeOwner", "RecordForeground", "ReleaseChild">>
    BY <1>9, Bodies
  <2>2. After(l) = "TakeOwner" /\ Body("TakeOwner") = <<"TakeOwner", "RecordForeground",
        "ReleaseChild">>
    BY <1>9, Bodies DEF After
  <2>3. "CheckForeground" \in Labels /\ "TakeOwner" \in Labels /\
        "RecordForeground" \in Labels /\ "ReleaseChild" \in Labels /\ l \in Labels
    BY <1>0, <1>9
  <2>4. <<"CheckForeground", "TakeOwner", "RecordForeground", "ReleaseChild">> \in Seq(Labels)
    BY <2>3
  <2>5. LET s == <<"CheckForeground", "TakeOwner", "RecordForeground",
        "ReleaseChild">> IN s # << >> /\ Head(s) = "CheckForeground" /\
        Tail(s) = <<"TakeOwner", "RecordForeground", "ReleaseChild">>
    OBVIOUS
  <2> QED BY <1>9, <2>1, <2>2, <2>4, <2>5, Zenon
<1>10. CASE l = "TakeOwner"
  <2>1. Body(l) = <<"TakeOwner", "RecordForeground", "ReleaseChild">>
    BY <1>10, Bodies
  <2>2. After(l) = "RecordForeground" /\ Body("RecordForeground") = <<"RecordForeground",
        "ReleaseChild">>
    BY <1>10, Bodies DEF After
  <2>3. "TakeOwner" \in Labels /\ "RecordForeground" \in Labels /\ "ReleaseChild" \in Labels /\
        l \in Labels
    BY <1>0, <1>10
  <2>4. <<"TakeOwner", "RecordForeground", "ReleaseChild">> \in Seq(Labels)
    BY <2>3
  <2>5. LET s == <<"TakeOwner", "RecordForeground", "ReleaseChild">> IN s # << >> /\
        Head(s) = "TakeOwner" /\ Tail(s) = <<"RecordForeground", "ReleaseChild">>
    OBVIOUS
  <2> QED BY <1>10, <2>1, <2>2, <2>4, <2>5, Zenon
<1>11. CASE l = "ReleaseConsumed"
  <2>1. Body(l) = <<"ReleaseConsumed", "ReleaseChild">>
    BY <1>11, Bodies
  <2>2. After(l) = "ReleaseChild" /\ Body("ReleaseChild") = <<"ReleaseChild">>
    BY <1>11, Bodies DEF After
  <2>3. "ReleaseConsumed" \in Labels /\ "ReleaseChild" \in Labels /\ l \in Labels
    BY <1>0, <1>11
  <2>4. <<"ReleaseConsumed", "ReleaseChild">> \in Seq(Labels)
    BY <2>3
  <2>5. LET s == <<"ReleaseConsumed", "ReleaseChild">> IN s # << >> /\
        Head(s) = "ReleaseConsumed" /\ Tail(s) = <<"ReleaseChild">>
    OBVIOUS
  <2> QED BY <1>11, <2>1, <2>2, <2>4, <2>5, Zenon
<1>12. CASE l = "RecordForeground"
  <2>1. Body(l) = <<"RecordForeground", "ReleaseChild">>
    BY <1>12, Bodies
  <2>2. After(l) = "ReleaseChild" /\ Body("ReleaseChild") = <<"ReleaseChild">>
    BY <1>12, Bodies DEF After
  <2>3. "RecordForeground" \in Labels /\ "ReleaseChild" \in Labels /\ l \in Labels
    BY <1>0, <1>12
  <2>4. <<"RecordForeground", "ReleaseChild">> \in Seq(Labels)
    BY <2>3
  <2>5. LET s == <<"RecordForeground", "ReleaseChild">> IN s # << >> /\
        Head(s) = "RecordForeground" /\ Tail(s) = <<"ReleaseChild">>
    OBVIOUS
  <2> QED BY <1>12, <2>1, <2>2, <2>4, <2>5, Zenon
<1>13. CASE l = "UndoOwner"
  <2>1. Body(l) = <<"UndoOwner", "ReleaseChild">>
    BY <1>13, Bodies
  <2>2. After(l) = "ReleaseChild" /\ Body("ReleaseChild") = <<"ReleaseChild">>
    BY <1>13, Bodies DEF After
  <2>3. "UndoOwner" \in Labels /\ "ReleaseChild" \in Labels /\ l \in Labels
    BY <1>0, <1>13
  <2>4. <<"UndoOwner", "ReleaseChild">> \in Seq(Labels)
    BY <2>3
  <2>5. LET s == <<"UndoOwner", "ReleaseChild">> IN s # << >> /\ Head(s) = "UndoOwner" /\
        Tail(s) = <<"ReleaseChild">>
    OBVIOUS
  <2> QED BY <1>13, <2>1, <2>2, <2>4, <2>5, Zenon
<1>14. CASE l = "RetainOwner"
  <2>1. Body(l) = <<"RetainOwner", "CloseSlot", "ReleaseObject", "ReleaseOwner">>
    BY <1>14, Bodies
  <2>2. After(l) = "CloseSlot" /\ Body("CloseSlot") = <<"CloseSlot", "ReleaseObject",
        "ReleaseOwner">>
    BY <1>14, Bodies DEF After
  <2>3. "RetainOwner" \in Labels /\ "CloseSlot" \in Labels /\ "ReleaseObject" \in Labels /\
        "ReleaseOwner" \in Labels /\ l \in Labels
    BY <1>0, <1>14
  <2>4. <<"RetainOwner", "CloseSlot", "ReleaseObject", "ReleaseOwner">> \in Seq(Labels)
    BY <2>3
  <2>5. LET s == <<"RetainOwner", "CloseSlot", "ReleaseObject", "ReleaseOwner">> IN s # << >> /\
        Head(s) = "RetainOwner" /\ Tail(s) = <<"CloseSlot", "ReleaseObject", "ReleaseOwner">>
    OBVIOUS
  <2> QED BY <1>14, <2>1, <2>2, <2>4, <2>5, Zenon
<1>15. CASE l = "CloseSlot"
  <2>1. Body(l) = <<"CloseSlot", "ReleaseObject", "ReleaseOwner">>
    BY <1>15, Bodies
  <2>2. After(l) = "ReleaseObject" /\ Body("ReleaseObject") = <<"ReleaseObject",
        "ReleaseOwner">>
    BY <1>15, Bodies DEF After
  <2>3. "CloseSlot" \in Labels /\ "ReleaseObject" \in Labels /\ "ReleaseOwner" \in Labels /\
        l \in Labels
    BY <1>0, <1>15
  <2>4. <<"CloseSlot", "ReleaseObject", "ReleaseOwner">> \in Seq(Labels)
    BY <2>3
  <2>5. LET s == <<"CloseSlot", "ReleaseObject", "ReleaseOwner">> IN s # << >> /\
        Head(s) = "CloseSlot" /\ Tail(s) = <<"ReleaseObject", "ReleaseOwner">>
    OBVIOUS
  <2> QED BY <1>15, <2>1, <2>2, <2>4, <2>5, Zenon
<1>16. CASE l = "ReleaseObject"
  <2>1. Body(l) = <<"ReleaseObject", "ReleaseOwner">>
    BY <1>16, Bodies
  <2>2. After(l) = "ReleaseOwner" /\ Body("ReleaseOwner") = <<"ReleaseOwner">>
    BY <1>16, Bodies DEF After
  <2>3. "ReleaseObject" \in Labels /\ "ReleaseOwner" \in Labels /\ l \in Labels
    BY <1>0, <1>16
  <2>4. <<"ReleaseObject", "ReleaseOwner">> \in Seq(Labels)
    BY <2>3
  <2>5. LET s == <<"ReleaseObject", "ReleaseOwner">> IN s # << >> /\
        Head(s) = "ReleaseObject" /\ Tail(s) = <<"ReleaseOwner">>
    OBVIOUS
  <2> QED BY <1>16, <2>1, <2>2, <2>4, <2>5, Zenon
<1>17. CASE l = "RetainWaited"
  <2>1. Body(l) = <<"RetainWaited", "WaitOne", "ReleaseResolved">>
    BY <1>17, Bodies
  <2>2. After(l) = "WaitOne" /\ Body("WaitOne") = <<"WaitOne", "ReleaseResolved">>
    BY <1>17, Bodies DEF After
  <2>3. "RetainWaited" \in Labels /\ "WaitOne" \in Labels /\ "ReleaseResolved" \in Labels /\
        l \in Labels
    BY <1>0, <1>17
  <2>4. <<"RetainWaited", "WaitOne", "ReleaseResolved">> \in Seq(Labels)
    BY <2>3
  <2>5. LET s == <<"RetainWaited", "WaitOne", "ReleaseResolved">> IN s # << >> /\
        Head(s) = "RetainWaited" /\ Tail(s) = <<"WaitOne", "ReleaseResolved">>
    OBVIOUS
  <2> QED BY <1>17, <2>1, <2>2, <2>4, <2>5, Zenon
<1>18. CASE l = "WaitOne"
  <2>1. Body(l) = <<"WaitOne", "ReleaseResolved">>
    BY <1>18, Bodies
  <2>2. After(l) = "ReleaseResolved" /\ Body("ReleaseResolved") = <<"ReleaseResolved">>
    BY <1>18, Bodies DEF After
  <2>3. "WaitOne" \in Labels /\ "ReleaseResolved" \in Labels /\ l \in Labels
    BY <1>0, <1>18
  <2>4. <<"WaitOne", "ReleaseResolved">> \in Seq(Labels)
    BY <2>3
  <2>5. LET s == <<"WaitOne", "ReleaseResolved">> IN s # << >> /\ Head(s) = "WaitOne" /\
        Tail(s) = <<"ReleaseResolved">>
    OBVIOUS
  <2> QED BY <1>18, <2>1, <2>2, <2>4, <2>5, Zenon
<1>19. CASE l = "MarkReady"
  <2>1. Body(l) = <<"MarkReady">>
    BY <1>19, Bodies
  <2>2. After(l) = "end"
    BY <1>19 DEF After
  <2>3. "MarkReady" \in Labels /\ l \in Labels
    BY <1>0, <1>19
  <2>4. <<"MarkReady">> \in Seq(Labels)
    BY <2>3
  <2>5. LET s == <<"MarkReady">> IN s # << >> /\ Head(s) = "MarkReady" /\ Tail(s) = << >>
    OBVIOUS
  <2> QED BY <1>19, <2>1, <2>2, <2>4, <2>5, Zenon
<1>20. CASE l = "ReleaseChild"
  <2>1. Body(l) = <<"ReleaseChild">>
    BY <1>20, Bodies
  <2>2. After(l) = "end"
    BY <1>20 DEF After
  <2>3. "ReleaseChild" \in Labels /\ l \in Labels
    BY <1>0, <1>20
  <2>4. <<"ReleaseChild">> \in Seq(Labels)
    BY <2>3
  <2>5. LET s == <<"ReleaseChild">> IN s # << >> /\ Head(s) = "ReleaseChild" /\ Tail(s) = << >>
    OBVIOUS
  <2> QED BY <1>20, <2>1, <2>2, <2>4, <2>5, Zenon
<1>21. CASE l = "Sleep"
  <2>1. Body(l) = <<"Sleep">>
    BY <1>21, Bodies
  <2>2. After(l) = "end"
    BY <1>21 DEF After
  <2>3. "Sleep" \in Labels /\ l \in Labels
    BY <1>0, <1>21
  <2>4. <<"Sleep">> \in Seq(Labels)
    BY <2>3
  <2>5. LET s == <<"Sleep">> IN s # << >> /\ Head(s) = "Sleep" /\ Tail(s) = << >>
    OBVIOUS
  <2> QED BY <1>21, <2>1, <2>2, <2>4, <2>5, Zenon
<1>22. CASE l = "ReleaseOwner"
  <2>1. Body(l) = <<"ReleaseOwner">>
    BY <1>22, Bodies
  <2>2. After(l) = "end"
    BY <1>22 DEF After
  <2>3. "ReleaseOwner" \in Labels /\ l \in Labels
    BY <1>0, <1>22
  <2>4. <<"ReleaseOwner">> \in Seq(Labels)
    BY <2>3
  <2>5. LET s == <<"ReleaseOwner">> IN s # << >> /\ Head(s) = "ReleaseOwner" /\ Tail(s) = << >>
    OBVIOUS
  <2> QED BY <1>22, <2>1, <2>2, <2>4, <2>5, Zenon
<1>23. CASE l = "ReleaseResolved"
  <2>1. Body(l) = <<"ReleaseResolved">>
    BY <1>23, Bodies
  <2>2. After(l) = "end"
    BY <1>23 DEF After
  <2>3. "ReleaseResolved" \in Labels /\ l \in Labels
    BY <1>0, <1>23
  <2>4. <<"ReleaseResolved">> \in Seq(Labels)
    BY <2>3
  <2>5. LET s == <<"ReleaseResolved">> IN s # << >> /\ Head(s) = "ReleaseResolved" /\
        Tail(s) = << >>
    OBVIOUS
  <2> QED BY <1>23, <2>1, <2>2, <2>4, <2>5, Zenon
<1>24. CASE l = "ReleaseOut"
  <2>1. Body(l) = <<"ReleaseOut">>
    BY <1>24, Bodies
  <2>2. After(l) = "end"
    BY <1>24 DEF After
  <2>3. "ReleaseOut" \in Labels /\ l \in Labels
    BY <1>0, <1>24
  <2>4. <<"ReleaseOut">> \in Seq(Labels)
    BY <2>3
  <2>5. LET s == <<"ReleaseOut">> IN s # << >> /\ Head(s) = "ReleaseOut" /\ Tail(s) = << >>
    OBVIOUS
  <2> QED BY <1>24, <2>1, <2>2, <2>4, <2>5, Zenon
<1>25. CASE l = "MarkTerminated"
  <2>1. Body(l) = <<"MarkTerminated", "SignalThread", "Teardown", "Unpublish", "CloseHandles",
        "ReleaseThread", "SignalProcess", "SetEvent">>
    BY <1>25, Bodies
  <2>2. After(l) = "SignalThread" /\ Body("SignalThread") = <<"SignalThread", "Teardown",
        "Unpublish", "CloseHandles", "ReleaseThread", "SignalProcess", "SetEvent">>
    BY <1>25, Bodies DEF After
  <2>3. "MarkTerminated" \in Labels /\ "SignalThread" \in Labels /\ "Teardown" \in Labels /\
        "Unpublish" \in Labels /\ "CloseHandles" \in Labels /\ "ReleaseThread" \in Labels /\
        "SignalProcess" \in Labels /\ "SetEvent" \in Labels /\ l \in Labels
    BY <1>0, <1>25
  <2>4. <<"MarkTerminated", "SignalThread", "Teardown", "Unpublish", "CloseHandles",
        "ReleaseThread", "SignalProcess", "SetEvent">> \in Seq(Labels)
    BY <2>3
  <2>5. LET s == <<"MarkTerminated", "SignalThread", "Teardown", "Unpublish", "CloseHandles",
        "ReleaseThread", "SignalProcess", "SetEvent">> IN s # << >> /\
        Head(s) = "MarkTerminated" /\ Tail(s) = <<"SignalThread", "Teardown", "Unpublish",
        "CloseHandles", "ReleaseThread", "SignalProcess", "SetEvent">>
    OBVIOUS
  <2> QED BY <1>25, <2>1, <2>2, <2>4, <2>5, Zenon
<1>26. CASE l = "SignalThread"
  <2>1. Body(l) = <<"SignalThread", "Teardown", "Unpublish", "CloseHandles", "ReleaseThread",
        "SignalProcess", "SetEvent">>
    BY <1>26, Bodies
  <2>2. After(l) = "Teardown" /\ Body("Teardown") = <<"Teardown", "Unpublish", "CloseHandles",
        "ReleaseThread", "SignalProcess", "SetEvent">>
    BY <1>26, Bodies DEF After
  <2>3. "SignalThread" \in Labels /\ "Teardown" \in Labels /\ "Unpublish" \in Labels /\
        "CloseHandles" \in Labels /\ "ReleaseThread" \in Labels /\ "SignalProcess" \in Labels /\
        "SetEvent" \in Labels /\ l \in Labels
    BY <1>0, <1>26
  <2>4. <<"SignalThread", "Teardown", "Unpublish", "CloseHandles", "ReleaseThread",
        "SignalProcess", "SetEvent">> \in Seq(Labels)
    BY <2>3
  <2>5. LET s == <<"SignalThread", "Teardown", "Unpublish", "CloseHandles", "ReleaseThread",
        "SignalProcess", "SetEvent">> IN s # << >> /\ Head(s) = "SignalThread" /\
        Tail(s) = <<"Teardown", "Unpublish", "CloseHandles", "ReleaseThread", "SignalProcess",
        "SetEvent">>
    OBVIOUS
  <2> QED BY <1>26, <2>1, <2>2, <2>4, <2>5, Zenon
<1>27. CASE l = "Teardown"
  <2>1. Body(l) = <<"Teardown", "Unpublish", "CloseHandles", "ReleaseThread", "SignalProcess",
        "SetEvent">>
    BY <1>27, Bodies
  <2>2. After(l) = "Unpublish" /\ Body("Unpublish") = <<"Unpublish", "CloseHandles",
        "ReleaseThread", "SignalProcess", "SetEvent">>
    BY <1>27, Bodies DEF After
  <2>3. "Teardown" \in Labels /\ "Unpublish" \in Labels /\ "CloseHandles" \in Labels /\
        "ReleaseThread" \in Labels /\ "SignalProcess" \in Labels /\ "SetEvent" \in Labels /\
        l \in Labels
    BY <1>0, <1>27
  <2>4. <<"Teardown", "Unpublish", "CloseHandles", "ReleaseThread", "SignalProcess",
        "SetEvent">> \in Seq(Labels)
    BY <2>3
  <2>5. LET s == <<"Teardown", "Unpublish", "CloseHandles", "ReleaseThread", "SignalProcess",
        "SetEvent">> IN s # << >> /\ Head(s) = "Teardown" /\
        Tail(s) = <<"Unpublish", "CloseHandles", "ReleaseThread", "SignalProcess", "SetEvent">>
    OBVIOUS
  <2> QED BY <1>27, <2>1, <2>2, <2>4, <2>5, Zenon
<1>28. CASE l = "Unpublish"
  <2>1. Body(l) = <<"Unpublish", "CloseHandles", "ReleaseThread", "SignalProcess", "SetEvent">>
    BY <1>28, Bodies
  <2>2. After(l) = "CloseHandles" /\ Body("CloseHandles") = <<"CloseHandles", "ReleaseThread",
        "SignalProcess", "SetEvent">>
    BY <1>28, Bodies DEF After
  <2>3. "Unpublish" \in Labels /\ "CloseHandles" \in Labels /\ "ReleaseThread" \in Labels /\
        "SignalProcess" \in Labels /\ "SetEvent" \in Labels /\ l \in Labels
    BY <1>0, <1>28
  <2>4. <<"Unpublish", "CloseHandles", "ReleaseThread", "SignalProcess",
        "SetEvent">> \in Seq(Labels)
    BY <2>3
  <2>5. LET s == <<"Unpublish", "CloseHandles", "ReleaseThread", "SignalProcess",
        "SetEvent">> IN s # << >> /\ Head(s) = "Unpublish" /\
        Tail(s) = <<"CloseHandles", "ReleaseThread", "SignalProcess", "SetEvent">>
    OBVIOUS
  <2> QED BY <1>28, <2>1, <2>2, <2>4, <2>5, Zenon
<1>29. CASE l = "CloseHandles"
  <2>1. Body(l) = <<"CloseHandles", "ReleaseThread", "SignalProcess", "SetEvent">>
    BY <1>29, Bodies
  <2>2. After(l) = "ReleaseThread" /\ Body("ReleaseThread") = <<"ReleaseThread",
        "SignalProcess", "SetEvent">>
    BY <1>29, Bodies DEF After
  <2>3. "CloseHandles" \in Labels /\ "ReleaseThread" \in Labels /\ "SignalProcess" \in Labels /\
        "SetEvent" \in Labels /\ l \in Labels
    BY <1>0, <1>29
  <2>4. <<"CloseHandles", "ReleaseThread", "SignalProcess", "SetEvent">> \in Seq(Labels)
    BY <2>3
  <2>5. LET s == <<"CloseHandles", "ReleaseThread", "SignalProcess",
        "SetEvent">> IN s # << >> /\ Head(s) = "CloseHandles" /\
        Tail(s) = <<"ReleaseThread", "SignalProcess", "SetEvent">>
    OBVIOUS
  <2> QED BY <1>29, <2>1, <2>2, <2>4, <2>5, Zenon
<1>30. CASE l = "ReleaseThread"
  <2>1. Body(l) = <<"ReleaseThread", "SignalProcess", "SetEvent">>
    BY <1>30, Bodies
  <2>2. After(l) = "SignalProcess" /\ Body("SignalProcess") = <<"SignalProcess", "SetEvent">>
    BY <1>30, Bodies DEF After
  <2>3. "ReleaseThread" \in Labels /\ "SignalProcess" \in Labels /\ "SetEvent" \in Labels /\
        l \in Labels
    BY <1>0, <1>30
  <2>4. <<"ReleaseThread", "SignalProcess", "SetEvent">> \in Seq(Labels)
    BY <2>3
  <2>5. LET s == <<"ReleaseThread", "SignalProcess", "SetEvent">> IN s # << >> /\
        Head(s) = "ReleaseThread" /\ Tail(s) = <<"SignalProcess", "SetEvent">>
    OBVIOUS
  <2> QED BY <1>30, <2>1, <2>2, <2>4, <2>5, Zenon
<1>31. CASE l = "SignalProcess"
  <2>1. Body(l) = <<"SignalProcess", "SetEvent">>
    BY <1>31, Bodies
  <2>2. After(l) = "SetEvent" /\ Body("SetEvent") = <<"SetEvent">>
    BY <1>31, Bodies DEF After
  <2>3. "SignalProcess" \in Labels /\ "SetEvent" \in Labels /\ l \in Labels
    BY <1>0, <1>31
  <2>4. <<"SignalProcess", "SetEvent">> \in Seq(Labels)
    BY <2>3
  <2>5. LET s == <<"SignalProcess", "SetEvent">> IN s # << >> /\ Head(s) = "SignalProcess" /\
        Tail(s) = <<"SetEvent">>
    OBVIOUS
  <2> QED BY <1>31, <2>1, <2>2, <2>4, <2>5, Zenon
<1>32. CASE l = "SetEvent"
  <2>1. Body(l) = <<"SetEvent">>
    BY <1>32, Bodies
  <2>2. After(l) = "end"
    BY <1>32 DEF After
  <2>3. "SetEvent" \in Labels /\ l \in Labels
    BY <1>0, <1>32
  <2>4. <<"SetEvent">> \in Seq(Labels)
    BY <2>3
  <2>5. LET s == <<"SetEvent">> IN s # << >> /\ Head(s) = "SetEvent" /\ Tail(s) = << >>
    OBVIOUS
  <2> QED BY <1>32, <2>1, <2>2, <2>4, <2>5, Zenon
<1> QED BY <1>1, <1>2, <1>3, <1>4, <1>5, <1>6, <1>7, <1>8, <1>9, <1>10, <1>11, <1>12, <1>13,
      <1>14, <1>15, <1>16, <1>17, <1>18, <1>19, <1>20, <1>21, <1>22, <1>23, <1>24, <1>25, <1>26,
      <1>27, <1>28, <1>29, <1>30, <1>31, <1>32 DEF Labels, SpawnLabels, WaitLabels, LaneLabels,
      OwnLabels, FinalLabels

\* The members of a list, one by one.
LEMMA HeadAndTail ==
  ASSUME NEW s \in Seq(Labels), s # << >>, NEW x
  PROVE  In(x, s) <=> x = Head(s) \/ In(x, Tail(s))
<1>1. /\ Len(s) \in Nat \ {0} /\ Head(s) = s[1] /\ Len(Tail(s)) = Len(s) - 1
      /\ \A i \in 1 .. Len(s) - 1 : Tail(s)[i] = s[i + 1]
  OBVIOUS
<1> DEFINE n == Len(s)
           t == Tail(s)
<1> HIDE DEF n, t
<1>2. \A i \in 1 .. n : i = 1 \/ (i - 1 \in 1 .. n - 1 /\ t[i - 1] = s[i])
  BY <1>1 DEF n, t
<1>3. \A i \in 1 .. n - 1 : i + 1 \in 1 .. n /\ t[i] = s[i + 1]
  BY <1>1 DEF n, t
<1>4. 1 \in 1 .. n /\ Len(t) = n - 1
  BY <1>1 DEF n, t
<1>5. In(x, s) <=> x = s[1] \/ In(x, t)
  BY <1>2, <1>3, <1>4 DEF In, n
<1> QED BY <1>1, <1>5 DEF t

\* What is still to do at a step: the step, and what is to do at the next.
LEMMA BodyIn ==
  ASSUME NEW l \in Labels \ {"none", "Return"}, NEW x
  PROVE  In(x, Body(l)) <=> x = l \/ (After(l) # "end" /\ In(x, Body(After(l))))
<1>1. In(x, Body(l)) <=> x = l \/ In(x, Tail(Body(l)))
  BY BodyProperties, HeadAndTail
<1>2. ~In(x, << >>)
  BY DEF In
<1> QED BY <1>1, <1>2, BodyProperties

\* What is still to do, in full.
LEMMA BodyMembers ==
  ASSUME NEW x
  PROVE
    /\ In(x, Body("MarkReady")) <=> x \in {"MarkReady"}
    /\ In(x, Body("ReleaseChild")) <=> x \in {"ReleaseChild"}
    /\ In(x, Body("Sleep")) <=> x \in {"Sleep"}
    /\ In(x, Body("ReleaseOwner")) <=> x \in {"ReleaseOwner"}
    /\ In(x, Body("ReleaseResolved")) <=> x \in {"ReleaseResolved"}
    /\ In(x, Body("ReleaseOut")) <=> x \in {"ReleaseOut"}
    /\ In(x, Body("SetEvent")) <=> x \in {"SetEvent"}
    /\ In(x, Body("Start")) <=> x \in {"Start", "MarkReady"}
    /\ In(x, Body("ReleaseConsumed")) <=> x \in {"ReleaseConsumed", "ReleaseChild"}
    /\ In(x, Body("RecordForeground")) <=> x \in {"RecordForeground", "ReleaseChild"}
    /\ In(x, Body("UndoOwner")) <=> x \in {"UndoOwner", "ReleaseChild"}
    /\ In(x, Body("ReleaseObject")) <=> x \in {"ReleaseObject", "ReleaseOwner"}
    /\ In(x, Body("WaitOne")) <=> x \in {"WaitOne", "ReleaseResolved"}
    /\ In(x, Body("SignalProcess")) <=> x \in {"SignalProcess", "SetEvent"}
    /\ In(x, Body("MarkControl")) <=> x \in {"MarkControl", "Start", "MarkReady"}
    /\ In(x, Body("Consume")) <=> x \in {"Consume", "ReleaseConsumed", "ReleaseChild"}
    /\ In(x, Body("TakeOwner")) <=> x \in {"TakeOwner", "RecordForeground", "ReleaseChild"}
    /\ In(x, Body("CloseSlot")) <=> x \in {"CloseSlot", "ReleaseObject", "ReleaseOwner"}
    /\ In(x, Body("RetainWaited")) <=> x \in {"RetainWaited", "WaitOne", "ReleaseResolved"}
    /\ In(x, Body("ReleaseThread")) <=> x \in {"ReleaseThread", "SignalProcess", "SetEvent"}
    /\ In(x, Body("SetOwner")) <=> x \in {"SetOwner", "MarkControl", "Start", "MarkReady"}
    /\ In(x, Body("RestoreOwner")) <=> x \in {"RestoreOwner", "Consume", "ReleaseConsumed",
         "ReleaseChild"}
    /\ In(x, Body("CheckForeground")) <=> x \in {"CheckForeground", "TakeOwner",
         "RecordForeground", "ReleaseChild"}
    /\ In(x, Body("RetainOwner")) <=> x \in {"RetainOwner", "CloseSlot", "ReleaseObject",
         "ReleaseOwner"}
    /\ In(x, Body("CloseHandles")) <=> x \in {"CloseHandles", "ReleaseThread", "SignalProcess",
         "SetEvent"}
    /\ In(x, Body("WaitCompletion")) <=> x \in {"WaitCompletion", "RestoreOwner", "Consume",
         "ReleaseConsumed", "ReleaseChild"}
    /\ In(x, Body("ReadOwner")) <=> x \in {"ReadOwner", "CheckForeground", "TakeOwner",
         "RecordForeground", "ReleaseChild"}
    /\ In(x, Body("Unpublish")) <=> x \in {"Unpublish", "CloseHandles", "ReleaseThread",
         "SignalProcess", "SetEvent"}
    /\ In(x, Body("RequestKill")) <=> x \in {"RequestKill", "WaitCompletion", "RestoreOwner",
         "Consume", "ReleaseConsumed", "ReleaseChild"}
    /\ In(x, Body("Teardown")) <=> x \in {"Teardown", "Unpublish", "CloseHandles",
         "ReleaseThread", "SignalProcess", "SetEvent"}
    /\ In(x, Body("SignalThread")) <=> x \in {"SignalThread", "Teardown", "Unpublish",
         "CloseHandles", "ReleaseThread", "SignalProcess", "SetEvent"}
    /\ In(x, Body("MarkTerminated")) <=> x \in {"MarkTerminated", "SignalThread", "Teardown",
         "Unpublish", "CloseHandles", "ReleaseThread", "SignalProcess", "SetEvent"}
    /\ ~In(x, Body("Return"))
<1>1. In(x, Body("MarkReady")) <=> x \in {"MarkReady"}
  BY BodyIn DEF After, Labels, SpawnLabels, WaitLabels, LaneLabels, OwnLabels, FinalLabels
<1>2. In(x, Body("ReleaseChild")) <=> x \in {"ReleaseChild"}
  BY BodyIn DEF After, Labels, SpawnLabels, WaitLabels, LaneLabels, OwnLabels, FinalLabels
<1>3. In(x, Body("Sleep")) <=> x \in {"Sleep"}
  BY BodyIn DEF After, Labels, SpawnLabels, WaitLabels, LaneLabels, OwnLabels, FinalLabels
<1>4. In(x, Body("ReleaseOwner")) <=> x \in {"ReleaseOwner"}
  BY BodyIn DEF After, Labels, SpawnLabels, WaitLabels, LaneLabels, OwnLabels, FinalLabels
<1>5. In(x, Body("ReleaseResolved")) <=> x \in {"ReleaseResolved"}
  BY BodyIn DEF After, Labels, SpawnLabels, WaitLabels, LaneLabels, OwnLabels, FinalLabels
<1>6. In(x, Body("ReleaseOut")) <=> x \in {"ReleaseOut"}
  BY BodyIn DEF After, Labels, SpawnLabels, WaitLabels, LaneLabels, OwnLabels, FinalLabels
<1>7. In(x, Body("SetEvent")) <=> x \in {"SetEvent"}
  BY BodyIn DEF After, Labels, SpawnLabels, WaitLabels, LaneLabels, OwnLabels, FinalLabels
<1>8. In(x, Body("Start")) <=> x \in {"Start", "MarkReady"}
  BY BodyIn, <1>1 DEF After, Labels, SpawnLabels, WaitLabels, LaneLabels, OwnLabels, FinalLabels
<1>9. In(x, Body("ReleaseConsumed")) <=> x \in {"ReleaseConsumed", "ReleaseChild"}
  BY BodyIn, <1>2 DEF After, Labels, SpawnLabels, WaitLabels, LaneLabels, OwnLabels, FinalLabels
<1>10. In(x, Body("RecordForeground")) <=> x \in {"RecordForeground", "ReleaseChild"}
  BY BodyIn, <1>2 DEF After, Labels, SpawnLabels, WaitLabels, LaneLabels, OwnLabels, FinalLabels
<1>11. In(x, Body("UndoOwner")) <=> x \in {"UndoOwner", "ReleaseChild"}
  BY BodyIn, <1>2 DEF After, Labels, SpawnLabels, WaitLabels, LaneLabels, OwnLabels, FinalLabels
<1>12. In(x, Body("ReleaseObject")) <=> x \in {"ReleaseObject", "ReleaseOwner"}
  BY BodyIn, <1>4 DEF After, Labels, SpawnLabels, WaitLabels, LaneLabels, OwnLabels, FinalLabels
<1>13. In(x, Body("WaitOne")) <=> x \in {"WaitOne", "ReleaseResolved"}
  BY BodyIn, <1>5 DEF After, Labels, SpawnLabels, WaitLabels, LaneLabels, OwnLabels, FinalLabels
<1>14. In(x, Body("SignalProcess")) <=> x \in {"SignalProcess", "SetEvent"}
  BY BodyIn, <1>7 DEF After, Labels, SpawnLabels, WaitLabels, LaneLabels, OwnLabels, FinalLabels
<1>15. In(x, Body("MarkControl")) <=> x \in {"MarkControl", "Start", "MarkReady"}
  BY BodyIn, <1>8 DEF After, Labels, SpawnLabels, WaitLabels, LaneLabels, OwnLabels, FinalLabels
<1>16. In(x, Body("Consume")) <=> x \in {"Consume", "ReleaseConsumed", "ReleaseChild"}
  BY BodyIn, <1>9 DEF After, Labels, SpawnLabels, WaitLabels, LaneLabels, OwnLabels, FinalLabels
<1>17. In(x, Body("TakeOwner")) <=> x \in {"TakeOwner", "RecordForeground", "ReleaseChild"}
  BY BodyIn, <1>10 DEF After, Labels, SpawnLabels, WaitLabels, LaneLabels, OwnLabels,
      FinalLabels
<1>18. In(x, Body("CloseSlot")) <=> x \in {"CloseSlot", "ReleaseObject", "ReleaseOwner"}
  BY BodyIn, <1>12 DEF After, Labels, SpawnLabels, WaitLabels, LaneLabels, OwnLabels,
      FinalLabels
<1>19. In(x, Body("RetainWaited")) <=> x \in {"RetainWaited", "WaitOne", "ReleaseResolved"}
  BY BodyIn, <1>13 DEF After, Labels, SpawnLabels, WaitLabels, LaneLabels, OwnLabels,
      FinalLabels
<1>20. In(x, Body("ReleaseThread")) <=> x \in {"ReleaseThread", "SignalProcess", "SetEvent"}
  BY BodyIn, <1>14 DEF After, Labels, SpawnLabels, WaitLabels, LaneLabels, OwnLabels,
      FinalLabels
<1>21. In(x, Body("SetOwner")) <=> x \in {"SetOwner", "MarkControl", "Start", "MarkReady"}
  BY BodyIn, <1>15 DEF After, Labels, SpawnLabels, WaitLabels, LaneLabels, OwnLabels,
      FinalLabels
<1>22. In(x, Body("RestoreOwner")) <=> x \in {"RestoreOwner", "Consume", "ReleaseConsumed",
       "ReleaseChild"}
  BY BodyIn, <1>16 DEF After, Labels, SpawnLabels, WaitLabels, LaneLabels, OwnLabels,
      FinalLabels
<1>23. In(x, Body("CheckForeground")) <=> x \in {"CheckForeground", "TakeOwner",
       "RecordForeground", "ReleaseChild"}
  BY BodyIn, <1>17 DEF After, Labels, SpawnLabels, WaitLabels, LaneLabels, OwnLabels,
      FinalLabels
<1>24. In(x, Body("RetainOwner")) <=> x \in {"RetainOwner", "CloseSlot", "ReleaseObject",
       "ReleaseOwner"}
  BY BodyIn, <1>18 DEF After, Labels, SpawnLabels, WaitLabels, LaneLabels, OwnLabels,
      FinalLabels
<1>25. In(x, Body("CloseHandles")) <=> x \in {"CloseHandles", "ReleaseThread", "SignalProcess",
       "SetEvent"}
  BY BodyIn, <1>20 DEF After, Labels, SpawnLabels, WaitLabels, LaneLabels, OwnLabels,
      FinalLabels
<1>26. In(x, Body("WaitCompletion")) <=> x \in {"WaitCompletion", "RestoreOwner", "Consume",
       "ReleaseConsumed", "ReleaseChild"}
  BY BodyIn, <1>22 DEF After, Labels, SpawnLabels, WaitLabels, LaneLabels, OwnLabels,
      FinalLabels
<1>27. In(x, Body("ReadOwner")) <=> x \in {"ReadOwner", "CheckForeground", "TakeOwner",
       "RecordForeground", "ReleaseChild"}
  BY BodyIn, <1>23 DEF After, Labels, SpawnLabels, WaitLabels, LaneLabels, OwnLabels,
      FinalLabels
<1>28. In(x, Body("Unpublish")) <=> x \in {"Unpublish", "CloseHandles", "ReleaseThread",
       "SignalProcess", "SetEvent"}
  BY BodyIn, <1>25 DEF After, Labels, SpawnLabels, WaitLabels, LaneLabels, OwnLabels,
      FinalLabels
<1>29. In(x, Body("RequestKill")) <=> x \in {"RequestKill", "WaitCompletion", "RestoreOwner",
       "Consume", "ReleaseConsumed", "ReleaseChild"}
  BY BodyIn, <1>26 DEF After, Labels, SpawnLabels, WaitLabels, LaneLabels, OwnLabels,
      FinalLabels
<1>30. In(x, Body("Teardown")) <=> x \in {"Teardown", "Unpublish", "CloseHandles",
       "ReleaseThread", "SignalProcess", "SetEvent"}
  BY BodyIn, <1>28 DEF After, Labels, SpawnLabels, WaitLabels, LaneLabels, OwnLabels,
      FinalLabels
<1>31. In(x, Body("SignalThread")) <=> x \in {"SignalThread", "Teardown", "Unpublish",
       "CloseHandles", "ReleaseThread", "SignalProcess", "SetEvent"}
  BY BodyIn, <1>30 DEF After, Labels, SpawnLabels, WaitLabels, LaneLabels, OwnLabels,
      FinalLabels
<1>32. In(x, Body("MarkTerminated")) <=> x \in {"MarkTerminated", "SignalThread", "Teardown",
       "Unpublish", "CloseHandles", "ReleaseThread", "SignalProcess", "SetEvent"}
  BY BodyIn, <1>31 DEF After, Labels, SpawnLabels, WaitLabels, LaneLabels, OwnLabels,
      FinalLabels
<1> QED BY <1>1, <1>2, <1>3, <1>4, <1>5, <1>6, <1>7, <1>8, <1>9, <1>10, <1>11, <1>12, <1>13,
      <1>14, <1>15, <1>16, <1>17, <1>18, <1>19, <1>20, <1>21, <1>22, <1>23, <1>24, <1>25, <1>26,
      <1>27, <1>28, <1>29, <1>30, <1>31, <1>32, Bodies DEF In

\* How a service ends.
LEMMA Endings ==
  ASSUME NEW a
  PROVE  /\ Ending(a) \in Seq(Labels)
         /\ a \in Pids => Ending(a) = <<"Return">> /\ Ends(a) = "Return"
         /\ a \notin Pids => Ending(a) = << >> /\ Ends(a) = "none"
<1>1. <<"Return">> \in Seq(Labels) /\ << >> \in Seq(Labels)
  <2>1. "Return" \in Labels
    BY DEF Labels
  <2> QED BY <2>1
<1> QED BY <1>1 DEF Ending, Ends

\* The steps of an actor.
LEMMA ActorLabels ==
  ASSUME NEW a \in Actors
  PROVE  /\ LabelsOf(a) \subseteq Labels /\ "none" \in LabelsOf(a)
         /\ "Return" \in LabelsOf(a) => a \in Pids
         /\ \A l \in LabelsOf(a) : l # "none" => Following(a, l) \in LabelsOf(a)
         /\ Ends(a) \in LabelsOf(a)
<1>1. LabelsOf(a) \subseteq Labels /\ "none" \in LabelsOf(a) /\ Ends(a) \in LabelsOf(a)
  BY Actors3 DEF LabelsOf, Labels, Ends
<1>2. "Return" \in LabelsOf(a) => a \in Pids
  BY DEF LabelsOf, SpawnLabels, WaitLabels, LaneLabels, FinalLabels
<1>3. ASSUME NEW l \in LabelsOf(a), l # "none" PROVE Following(a, l) \in LabelsOf(a)
  <2>1. CASE l \in SpawnLabels
    <3>1. After(l) \in SpawnLabels \cup {"end"} /\ a # Idle
      BY <2>1 DEF After, SpawnLabels, LabelsOf, FinalLabels
    <3> QED BY <1>1, <3>1 DEF LabelsOf, Following
  <2>2. CASE l \in WaitLabels
    <3>1. After(l) \in WaitLabels \cup {"end"} /\ a # Idle
      BY <2>2 DEF After, WaitLabels, LabelsOf, FinalLabels
    <3> QED BY <1>1, <3>1 DEF LabelsOf, Following
  <2>3. CASE l \in LaneLabels
    <3>1. After(l) \in LaneLabels \cup {"ReleaseChild"} /\ a # Idle /\ a \notin Pids
      BY <2>3 DEF After, LaneLabels, LabelsOf, FinalLabels, OwnLabels, SpawnLabels, WaitLabels
    <3> QED BY <1>1, <3>1 DEF LabelsOf, Following, LaneLabels, WaitLabels
  <2>4. CASE l \in OwnLabels
    <3>1. After(l) \in OwnLabels \cup {"end"} /\ a # Idle /\ a \in Pids
      BY <2>4 DEF After, LaneLabels, LabelsOf, FinalLabels, OwnLabels, SpawnLabels, WaitLabels
    <3> QED BY <1>1, <3>1 DEF LabelsOf, Following
  <2>5. CASE l \in FinalLabels
    <3>1. After(l) \in FinalLabels \cup {"end"} /\ a = Idle
      BY <2>5 DEF After, LaneLabels, LabelsOf, FinalLabels, OwnLabels, SpawnLabels, WaitLabels
    <3> QED BY <1>1, <3>1 DEF LabelsOf, Following
  <2>6. CASE l = "Return"
    BY <1>1, <2>6 DEF Following, After
  <2> QED BY <1>3, <2>1, <2>2, <2>3, <2>4, <2>5, <2>6 DEF LabelsOf
<1> QED BY <1>1, <1>2, <1>3

\* A script begins with its step and goes on with that of the next.
LEMMA ScriptFacts ==
  ASSUME NEW a \in Actors, NEW l \in LabelsOf(a)
  PROVE  /\ Script(a, l) \in Seq(Labels)
         /\ l = "none" => Script(a, l) = << >>
         /\ l # "none" => /\ Script(a, l) # << >> /\ Head(Script(a, l)) = l
                          /\ Tail(Script(a, l)) = Script(a, Following(a, l))
<1>1. CASE l = "none"
  BY <1>1 DEF Script
<1>2. CASE l = "Return"
  <2>1. Ending(a) = <<"Return">> /\ <<"Return">> \in Seq(Labels)
    BY <1>2, ActorLabels, Endings
  <2>2. Script(a, l) = << >> \o <<"Return">>
    BY <1>2, <2>1, Bodies DEF Script
  <2>3. Script(a, l) = <<"Return">>
    BY <2>1, <2>2
  <2>4. Following(a, l) = "none"
    BY <1>2 DEF Following, After
  <2>5. Script(a, Following(a, l)) = << >>
    BY <2>4 DEF Script
  <2>6. LET s == <<"Return">> IN s # << >> /\ Head(s) = "Return" /\ Tail(s) = << >>
    OBVIOUS
  <2> QED BY <1>2, <2>1, <2>3, <2>5, <2>6, Zenon
<1>3. CASE l \notin {"none", "Return"}
  <2>1. l \in Labels \ {"none", "Return"}
    BY <1>3, ActorLabels
  <2> DEFINE s == Body(l)
             e == Ending(a)
  <2>2. Script(a, l) = s \o e
    BY <1>3 DEF Script
  <2>3. s \in Seq(Labels) /\ e \in Seq(Labels) /\ s # << >> /\ Head(s) = l
    BY <2>1, BodyProperties, Endings
  <2>4. s \o e \in Seq(Labels) /\ s \o e # << >> /\ Head(s \o e) = l /\
        Tail(s \o e) = Tail(s) \o e
    BY <2>3, Joined
  <2>5. Tail(s) \o e = Script(a, Following(a, l))
    <3>1. CASE After(l) = "end"
      <4>1. Tail(s) = << >> /\ Following(a, l) = Ends(a)
        BY <2>1, <3>1, BodyProperties DEF Following
      <4>2. << >> \o e = e
        BY <2>3
      <4>3. Script(a, Ends(a)) = e
        <5>1. CASE a \in Pids
          <6>1. Script(a, "Return") = << >> \o e
            BY Bodies DEF Script
          <6> QED BY <4>2, <5>1, <6>1, Endings
        <5>2. CASE a \notin Pids
          BY <5>2, Endings DEF Script
        <5> QED BY <5>1, <5>2
      <4> QED BY <4>1, <4>2, <4>3
    <3>2. CASE After(l) # "end"
      <4>1. Tail(s) = Body(After(l)) /\ Following(a, l) = After(l) /\ After(l) # "none"
        BY <2>1, <3>2, BodyProperties, Afters DEF Following
      <4> QED BY <4>1 DEF Script
    <3> QED BY <3>1, <3>2
  <2> HIDE DEF s, e
  <2> QED BY <1>3, <2>2, <2>4, <2>5
<1> QED BY <1>1, <1>2, <1>3

\* An actor gets another script; the others keep theirs.
LEMMA MoveTo ==
  ASSUME act \in [Actors -> ActRecords], Scripts, NEW a \in Actors, NEW l \in LabelsOf(a),
      NEW r \in ActRecords,
         r.steps = Script(a, l), act' = [act EXCEPT ![a] = r]
  PROVE  /\ act' \in [Actors -> ActRecords] /\ Scripts'
         /\ act'[a] = r /\ Step(a)' = l
         /\ \A b \in Actors : b # a => act'[b] = act[b] /\ Step(b)' = Step(b)
<1>1. act'[a] = r /\ \A b \in Actors : b # a => act'[b] = act[b]
  OBVIOUS
<1>2. act' \in [Actors -> ActRecords]
  OBVIOUS
<1>3. Step(a)' = l
  BY <1>1, ScriptFacts DEF Step
<1>4. \A b \in Actors : b # a => Step(b)' = Step(b)
  BY <1>1 DEF Step
<1>5. Scripts'
  <2> SUFFICES ASSUME NEW b \in Actors PROVE Step(b)' \in LabelsOf(b) /\
      act'[b].steps = Script(b, Step(b)')
    BY DEF Scripts, LabelsOf, Script, Ending
  <2>1. CASE b = a
    BY <1>1, <1>3, <2>1
  <2>2. CASE b # a
    BY <1>1, <1>4, <2>2 DEF Scripts
  <2> QED BY <2>1, <2>2
<1> QED BY <1>1, <1>2, <1>3, <1>4, <1>5

\* A service goes on with step l, or ends.
LEMMA ContinueTo ==
  ASSUME act \in [Actors -> ActRecords], Scripts, NEW a \in Actors, NEW l \in LabelsOf(a),
      Continue(a, Script(a, l))
  PROVE  /\ act' \in [Actors -> ActRecords] /\ Scripts'
         /\ Step(a)' = l
         /\ l # "none" => act'[a].on = act[a].on /\ act'[a].arg = act[a].arg /\
              act'[a].fg = act[a].fg
         /\ l = "none" => act'[a].on = 0
         /\ \A b \in Actors : b # a => act'[b] = act[b] /\ Step(b)' = Step(b)
<1> DEFINE r == Continued(a, Script(a, l))
<1>0. Script(a, l) \in Seq(Labels) /\ (Script(a, l) = << >> <=> l = "none")
  BY ScriptFacts
<1>1. CASE l = "none"
  <2>1. r = Resting /\ Resting.steps = << >> /\ Resting.on = 0
    BY <1>0, <1>1 DEF Continued, Resting
  <2>2. Resting \in ActRecords
    BY DEF Resting, ActRecords
  <2>3. act' = [act EXCEPT ![a] = Resting]
    BY <2>1 DEF Continue
  <2>4. Resting.steps = Script(a, l)
    BY <1>0, <1>1, <2>1
  <2> QED BY <1>1, <2>1, <2>2, <2>3, <2>4, MoveTo
<1>2. CASE l # "none"
  <2>1. r = [act[a] EXCEPT !.steps = Script(a, l)]
    BY <1>0, <1>2 DEF Continued
  <2>2. act[a] \in ActRecords
    OBVIOUS
  <2>3. r \in ActRecords /\ r.steps = Script(a, l) /\ r.on = act[a].on /\ r.arg = act[a].arg /\
        r.fg = act[a].fg
    BY <1>0, <2>1, <2>2 DEF ActRecords
  <2>4. act' = [act EXCEPT ![a] = r]
    BY DEF Continue
  <2> HIDE DEF r
  <2> QED BY <1>2, <2>3, <2>4, MoveTo
<1> QED BY <1>1, <1>2

\* A service takes its next step.
LEMMA AdvanceTo ==
  ASSUME act \in [Actors -> ActRecords], Scripts, NEW a \in Actors, Step(a) # "none", Advance(a)
  PROVE  /\ act' \in [Actors -> ActRecords] /\ Scripts'
         /\ Following(a, Step(a)) \in LabelsOf(a) /\ Step(a)' = Following(a, Step(a))
         /\ Step(a)' # "none" => act'[a].on = act[a].on /\ act'[a].arg = act[a].arg /\
              act'[a].fg = act[a].fg
         /\ Step(a)' = "none" => act'[a].on = 0
         /\ \A b \in Actors : b # a => act'[b] = act[b] /\ Step(b)' = Step(b)
<1>1. PICK l \in LabelsOf(a) : l = Step(a) /\ act[a].steps = Script(a, l)
  BY DEF Scripts
<1>2. Tail(act[a].steps) = Script(a, Following(a, l)) /\ Following(a, l) \in LabelsOf(a)
  BY <1>1, ScriptFacts, ActorLabels
<1>3. PICK m \in LabelsOf(a) : m = Following(a, l)
  BY <1>2
<1>4. Continue(a, Script(a, m))
  BY <1>2, <1>3 DEF Advance
<1> QED BY <1>1, <1>3, <1>4, ContinueTo

\* The steps an actor still has to take.
LEMMA PendingMeans ==
  ASSUME act \in [Actors -> ActRecords], Scripts, NEW a \in Actors, NEW x, x # "Return"
  PROVE  Pending(a, x) <=> Step(a) # "none" /\ In(x, Body(Step(a)))
<1>1. PICK l \in LabelsOf(a) : l = Step(a) /\ act[a].steps = Script(a, l)
  BY DEF Scripts
<1>2. CASE l = "none"
  BY <1>1, <1>2 DEF Script, Pending
<1>3. CASE l # "none"
  <2>1. Body(l) \in Seq(Labels) /\ Ending(a) \in Seq(Labels) /\
        Script(a, l) = Body(l) \o Ending(a)
    <3>1. l \in Labels
      BY ActorLabels
    <3>2. Body(l) \in Seq(Labels)
      <4>1. CASE l = "Return"
        <5>1. Body(l) = << >>
          BY <4>1, Bodies
        <5> QED BY <5>1
      <4>2. CASE l # "Return"
        BY <1>3, <3>1, <4>2, BodyProperties
      <4> QED BY <4>1, <4>2
    <3> QED BY <1>3, <3>2, Endings DEF Script
  <2>2. In(x, Body(l) \o Ending(a)) <=> In(x, Body(l)) \/ In(x, Ending(a))
    BY <2>1, Joined, SMTT(30) DEF In
  <2>3. ~In(x, Ending(a))
    BY Endings DEF In
  <2> QED BY <1>1, <1>3, <2>1, <2>2, <2>3 DEF Pending, In
<1> QED BY <1>2, <1>3

\* HeldBy counts what is pending, and Weight says it step by step.
LEMMA HeldByWeight ==
  ASSUME act \in [Actors -> ActRecords], Scripts, NEW a \in Callers, NEW p
  PROVE  HeldBy(a, p) = WeightOn(a, p) /\ WeightOn(a, p) \in 0 .. 2
<1>0. a \in Actors /\ a # Idle
  BY Actors3
<1>1. PICK l \in LabelsOf(a) : l = Step(a)
  BY <1>0 DEF Scripts
<1>2. l \in {"none", "Return"} \cup SpawnLabels \cup WaitLabels \cup LaneLabels \cup OwnLabels
  BY <1>0, <1>1 DEF LabelsOf
<1> DEFINE Is(x) == l # "none" /\ In(x, Body(l))
<1>3. /\ Pending(a, "ReleaseChild") <=> Is("ReleaseChild")
      /\ Pending(a, "none") <=> Is("none")
      /\ Pending(a, "ReleaseConsumed") <=> Is("ReleaseConsumed")
      /\ Pending(a, "Consume") <=> Is("Consume")
      /\ Pending(a, "ReleaseOwner") <=> Is("ReleaseOwner")
      /\ Pending(a, "RetainOwner") <=> Is("RetainOwner")
      /\ Pending(a, "ReleaseObject") <=> Is("ReleaseObject")
      /\ Pending(a, "CloseSlot") <=> Is("CloseSlot")
      /\ Pending(a, "ReleaseResolved") <=> Is("ReleaseResolved")
      /\ Pending(a, "RetainWaited") <=> Is("RetainWaited")
  BY <1>0, <1>1, PendingMeans
<1>4. /\ Is("ReleaseChild") <=> l \in WaitLabels \cup LaneLabels
      /\ Is("ReleaseConsumed") <=> l \in WaitLabels \ {"ReleaseChild"}
      /\ Is("Consume") <=> l \in WaitLabels \ {"ReleaseConsumed", "ReleaseChild"}
      /\ ~Is("none")
  BY <1>2, BodyMembers DEF SpawnLabels, WaitLabels, LaneLabels, OwnLabels
<1>5. /\ Is("ReleaseOwner") <=> l \in {"RetainOwner", "CloseSlot", "ReleaseObject",
           "ReleaseOwner"}
      /\ Is("RetainOwner") <=> l = "RetainOwner"
      /\ Is("ReleaseObject") <=> l \in {"RetainOwner", "CloseSlot", "ReleaseObject"}
      /\ Is("CloseSlot") <=> l \in {"RetainOwner", "CloseSlot"}
      /\ Is("ReleaseResolved") <=> l \in {"RetainWaited", "WaitOne", "ReleaseResolved"}
      /\ Is("RetainWaited") <=> l = "RetainWaited"
  BY <1>2, BodyMembers DEF SpawnLabels, WaitLabels, LaneLabels, OwnLabels
<1> HIDE DEF Is
<1>6. CASE act[a].on # p
  BY <1>6 DEF HeldBy, WeightOn
<1>7. CASE act[a].on = p
  <2>1. HeldBy(a, p) = Weight(l)
    <3>1. CASE l \in WaitLabels
      <4>1. CASE l \in {"RequestKill", "WaitCompletion", "RestoreOwner", "Consume"}
        <5>1. /\ Pending(a, "ReleaseChild") /\ ~Pending(a, "none") /\ Pending(a, "Consume") /\
                   ~Pending(a, "ReleaseOwner")
              /\ ~Pending(a, "ReleaseObject") /\ ~Pending(a, "ReleaseResolved")
          BY <4>1, <1>3, <1>4, <1>5 DEF WaitLabels
        <5>2. Weight(l) = 1
          BY <4>1 DEF Weight, WaitLabels
        <5> QED BY <5>1, <5>2, <1>7 DEF HeldBy
      <4>2. CASE l = "ReleaseConsumed"
        <5>1. /\ Pending(a, "ReleaseChild") /\ ~Pending(a, "none") /\
                   Pending(a, "ReleaseConsumed") /\ ~Pending(a, "Consume")
              /\ ~Pending(a, "ReleaseOwner") /\ ~Pending(a, "ReleaseObject") /\
                   ~Pending(a, "ReleaseResolved")
          BY <4>2, <1>3, <1>4, <1>5 DEF WaitLabels
        <5>2. Weight(l) = 2
          BY <4>2 DEF Weight, WaitLabels, LaneLabels
        <5> QED BY <5>1, <5>2, <1>7 DEF HeldBy
      <4>3. CASE l = "ReleaseChild"
        BY <4>3, <1>3, <1>4, <1>5, <1>7 DEF HeldBy, Weight, WaitLabels, LaneLabels
      <4> QED BY <3>1, <4>1, <4>2, <4>3 DEF WaitLabels
    <3>2. CASE l \in LaneLabels
      BY <3>2, <1>3, <1>4, <1>5, <1>7 DEF HeldBy, Weight, WaitLabels, LaneLabels
    <3>3. CASE l \in OwnLabels
      <4>1. CASE l \in {"Sleep", "RetainOwner", "RetainWaited", "ReleaseOut"}
        BY <4>1, <1>3, <1>4, <1>5, <1>7 DEF HeldBy, Weight, WaitLabels, LaneLabels
      <4>2. CASE l \in {"CloseSlot", "ReleaseOwner"}
        BY <4>2, <1>3, <1>4, <1>5, <1>7 DEF HeldBy, Weight, WaitLabels, LaneLabels
      <4>3. CASE l \in {"WaitOne", "ReleaseResolved"}
        BY <4>3, <1>3, <1>4, <1>5, <1>7 DEF HeldBy, Weight, WaitLabels, LaneLabels
      <4>4. CASE l = "ReleaseObject"
        BY <4>4, <1>3, <1>4, <1>5, <1>7 DEF HeldBy, Weight, WaitLabels, LaneLabels
      <4> QED BY <3>3, <4>1, <4>2, <4>3, <4>4 DEF OwnLabels
    <3>4. CASE l \in {"none", "Return"} \cup SpawnLabels
      BY <3>4, <1>3, <1>4, <1>5, <1>7 DEF HeldBy, Weight, WaitLabels, LaneLabels, SpawnLabels
    <3> QED BY <1>2, <3>1, <3>2, <3>3, <3>4
  <2>2. Weight(l) \in 0 .. 2
    BY DEF Weight
  <2> QED BY <1>1, <1>7, <2>1, <2>2 DEF WeightOn
<1> QED BY <1>6, <1>7

-----------------------------------------------------------------------------
(* References of the services under way, counted as pairs.                 *)

\* The pairs that Holders counts, for given weights.
Pairs(w) == {x \in Callers \X (1 .. 2) : x[2] <= w[x[1]]}

\* There are finitely many callers.
LEMMA CallersFinite == IsFiniteSet(Callers) /\ IsFiniteSet(Callers \X (1 .. 2))
<1>1. IsFiniteSet(KernelCallers) /\ MaxProcesses \in Nat
  BY RuntimeAssumption
<1>2. IsFiniteSet(Pids) /\ IsFiniteSet(1 .. 2)
  <2>1. 1 \in Int /\ 2 \in Int /\ MaxProcesses \in Int
    BY <1>1
  <2>2. IsFiniteSet(1 .. 2)
    BY <2>1, FS_Interval
  <2>3. IsFiniteSet(1 .. MaxProcesses)
    BY <2>1, FS_Interval
  <2> QED BY <2>2, <2>3 DEF Pids
<1>3. IsFiniteSet(Callers)
  BY <1>1, <1>2, FS_Union DEF Callers
<1> QED BY <1>2, <1>3, FS_Product

\* One caller's references are as many as its weight.
LEMMA PairsOfOne ==
  ASSUME NEW w \in [Callers -> 0 .. 2], NEW a \in Callers
  PROVE  LET others == {x \in Callers \X (1 .. 2) : x[1] # a /\ x[2] <= w[x[1]]} IN
         /\ IsFiniteSet(Pairs(w)) /\ Cardinality(Pairs(w)) \in Nat
         /\ IsFiniteSet(others) /\ Cardinality(others) \in Nat
         /\ Cardinality(Pairs(w)) = Cardinality(others) + w[a]
<1> DEFINE all == Callers \X (1 .. 2)
           others == {x \in all : x[1] # a /\ x[2] <= w[x[1]]}
<1>1. IsFiniteSet(Pairs(w)) /\ IsFiniteSet(others)
  BY CallersFinite, FS_Subset DEF Pairs
<1>2. Cardinality(Pairs(w)) \in Nat /\ Cardinality(others) \in Nat
  BY <1>1, FS_CardinalityType
<1>3. <<a, 1>> \in all /\ <<a, 2>> \in all /\ <<a, 1>> # <<a, 2>> /\ <<a, 1>> \notin others /\
      <<a, 2>> \notin others
  OBVIOUS
<1>4. \A x \in all : x[1] = a => x = <<a, 1>> \/ x = <<a, 2>>
  OBVIOUS
<1>5. ASSUME w[a] = 0 PROVE Cardinality(Pairs(w)) = Cardinality(others) + w[a]
  <2>1. Pairs(w) = others
    BY <1>5 DEF Pairs
  <2> QED BY <1>1, <1>2, <1>5, <2>1
<1>6. ASSUME w[a] = 1 PROVE Cardinality(Pairs(w)) = Cardinality(others) + w[a]
  <2>1. Pairs(w) = others \cup {<<a, 1>>}
    BY <1>3, <1>4, <1>6 DEF Pairs
  <2>2. Cardinality(others \cup {<<a, 1>>}) = Cardinality(others) + 1
    BY <1>1, <1>3, FS_AddElement
  <2> QED BY <1>1, <1>2, <1>6, <2>1, <2>2
<1>7. ASSUME w[a] = 2 PROVE Cardinality(Pairs(w)) = Cardinality(others) + w[a]
  <2>1. Pairs(w) = (others \cup {<<a, 1>>}) \cup {<<a, 2>>}
    BY <1>3, <1>4, <1>7 DEF Pairs
  <2>2. Cardinality(others \cup {<<a, 1>>}) = Cardinality(others) + 1 /\
        IsFiniteSet(others \cup {<<a, 1>>})
    BY <1>1, <1>3, FS_AddElement
  <2>3. <<a, 2>> \notin others \cup {<<a, 1>>}
    BY <1>3
  <2>4. Cardinality((others \cup {<<a, 1>>}) \cup {<<a, 2>>}) = Cardinality(others \cup {<<a,
        1>>}) + 1
    BY <2>2, <2>3, FS_AddElement
  <2> QED BY <1>1, <1>2, <1>7, <2>1, <2>2, <2>4
<1> HIDE DEF others
<1>8. w[a] \in 0 .. 2
  OBVIOUS
<1>9. IsFiniteSet(Pairs(w)) /\ Cardinality(Pairs(w)) \in Nat /\ IsFiniteSet(others) /\
      Cardinality(others) \in Nat
      /\ Cardinality(Pairs(w)) = Cardinality(others) + w[a]
  <2>1. w[a] = 0 \/ w[a] = 1 \/ w[a] = 2
    BY <1>8
  <2>2. Cardinality(Pairs(w)) = Cardinality(others) + w[a]
    BY <1>5, <1>6, <1>7, <2>1
  <2> QED BY <1>1, <1>2, <2>2
<1> QED BY <1>9 DEF others

\* One caller's weight changes, and so does the number of references.
LEMMA PairsMove ==
  ASSUME NEW v \in [Callers -> 0 .. 2], NEW w \in [Callers -> 0 .. 2], NEW a \in Callers,
         \A b \in Callers : b # a => w[b] = v[b]
  PROVE  /\ Cardinality(Pairs(v)) \in Nat /\ Cardinality(Pairs(w)) \in Nat
         /\ Cardinality(Pairs(w)) = Cardinality(Pairs(v)) + w[a] - v[a]
         /\ Cardinality(Pairs(w)) = 0 => \A b \in Callers : w[b] = 0
<1> DEFINE ov == {x \in Callers \X (1 .. 2) : x[1] # a /\ x[2] <= v[x[1]]}
           ow == {x \in Callers \X (1 .. 2) : x[1] # a /\ x[2] <= w[x[1]]}
<1>1. ov = ow
  <2>1. \A x \in Callers \X (1 .. 2) : x[1] \in Callers
    OBVIOUS
  <2> QED BY <2>1
<1>2. /\ Cardinality(Pairs(v)) \in Nat /\ Cardinality(ov) \in Nat
      /\ Cardinality(Pairs(v)) = Cardinality(ov) + v[a]
  BY PairsOfOne
<1>3. /\ Cardinality(Pairs(w)) \in Nat /\ Cardinality(ow) \in Nat /\ IsFiniteSet(Pairs(w))
      /\ Cardinality(Pairs(w)) = Cardinality(ow) + w[a]
  BY PairsOfOne
<1> HIDE DEF ov, ow
<1>4. v[a] \in 0 .. 2 /\ w[a] \in 0 .. 2
  OBVIOUS
<1>5. ASSUME Cardinality(Pairs(w)) = 0, NEW b \in Callers PROVE w[b] = 0
  <2>1. Pairs(w) = {}
    BY <1>3, <1>5, FS_EmptySet
  <2>2. <<b, 1>> \in Callers \X (1 .. 2) /\ w[b] \in 0 .. 2
    OBVIOUS
  <2>3. ~(1 <= w[b])
    BY <2>1, <2>2 DEF Pairs
  <2> QED BY <2>2, <2>3
<1> QED BY <1>1, <1>2, <1>3, <1>4, <1>5

-----------------------------------------------------------------------------
(* Handle tables.                                                          *)

\* Handle tables.
Tables == [SlotIndices -> SlotRecords]

\* The slots there are.
LEMMA Slots ==
  /\ HandleSlots \in Nat /\ HandleSlots >= 4
  /\ \A i : i \in SlotIndices <=> i \in Nat /\ 1 <= i /\ i <= HandleSlots
  /\ 1 \in SlotIndices /\ 2 \in SlotIndices /\ 3 \in SlotIndices /\ 4 \in SlotIndices
  BY HandleAssumption, RuntimeAssumption DEF SlotIndices

\* How many handles there are on each object.
LEMMA OpenCounts ==
  ASSUME NEW t \in Tables, TableOk(t)
  PROVE  /\ OpenHandles(t, "process") = Open(t, 1) + Open(t, 3)
         /\ OpenHandles(t, "console") = Open(t, 2)
         /\ OpenHandles(t, "thread") = Open(t, 4)
<1> DEFINE S(type) == {i \in SlotIndices : t[i].object = type}
<1>1. /\ \A i \in S("process") : i = 1 \/ i = 3
      /\ \A i \in S("console") : i = 2
      /\ \A i \in S("thread") : i = 4
  BY DEF TableOk, Role
<1>2. /\ t[1].object # "none" <=> 1 \in S("process")
      /\ t[2].object # "none" <=> 2 \in S("console")
      /\ t[3].object # "none" <=> 3 \in S("process")
      /\ t[4].object # "none" <=> 4 \in S("thread")
  <2>1. Role(1) = "process" /\ Role(2) = "console" /\ Role(3) = "process" /\ Role(4) = "thread"
    BY DEF Role
  <2> QED BY <2>1, Slots DEF TableOk
<1>3. \A type : OpenHandles(t, type) = Cardinality(S(type))
  BY DEF OpenHandles
<1> HIDE DEF S
<1>4. Cardinality({}) = 0 /\ Cardinality({1}) = 1 /\ Cardinality({2}) = 1 /\
      Cardinality({3}) = 1 /\ Cardinality({4}) = 1
      /\ IsFiniteSet({1})
  BY FS_EmptySet, FS_Singleton
<1>5. Cardinality({1, 3}) = 2
  <2>1. Cardinality({1} \cup {3}) = Cardinality({1}) + 1
    <3>1. 3 \notin {1}
      OBVIOUS
    <3> QED BY <1>4, <3>1, FS_AddElement
  <2>2. {1} \cup {3} = {1, 3}
    OBVIOUS
  <2> QED BY <1>4, <2>1, <2>2
<1>6. OpenHandles(t, "process") = Open(t, 1) + Open(t, 3)
  <2>1. CASE 1 \in S("process") /\ 3 \in S("process")
    <3>1. S("process") = {1, 3}
      BY <1>1, <2>1
    <3> QED BY <1>2, <1>3, <1>5, <2>1, <3>1 DEF Open, Bit
  <2>2. CASE 1 \in S("process") /\ 3 \notin S("process")
    <3>1. S("process") = {1}
      BY <1>1, <2>2
    <3> QED BY <1>2, <1>3, <1>4, <2>2, <3>1 DEF Open, Bit
  <2>3. CASE 1 \notin S("process") /\ 3 \in S("process")
    <3>1. S("process") = {3}
      BY <1>1, <2>3
    <3> QED BY <1>2, <1>3, <1>4, <2>3, <3>1 DEF Open, Bit
  <2>4. CASE 1 \notin S("process") /\ 3 \notin S("process")
    <3>1. S("process") = {}
      BY <1>1, <2>4
    <3> QED BY <1>2, <1>3, <1>4, <2>4, <3>1 DEF Open, Bit
  <2> QED BY <2>1, <2>2, <2>3, <2>4
<1>7. OpenHandles(t, "console") = Open(t, 2)
  <2>1. CASE 2 \in S("console")
    <3>1. S("console") = {2}
      BY <1>1, <2>1
    <3> QED BY <1>2, <1>3, <1>4, <2>1, <3>1 DEF Open, Bit
  <2>2. CASE 2 \notin S("console")
    <3>1. S("console") = {}
      BY <1>1, <2>2
    <3> QED BY <1>2, <1>3, <1>4, <2>2, <3>1 DEF Open, Bit
  <2> QED BY <2>1, <2>2
<1>8. OpenHandles(t, "thread") = Open(t, 4)
  <2>1. CASE 4 \in S("thread")
    <3>1. S("thread") = {4}
      BY <1>1, <2>1
    <3> QED BY <1>2, <1>3, <1>4, <2>1, <3>1 DEF Open, Bit
  <2>2. CASE 4 \notin S("thread")
    <3>1. S("thread") = {}
      BY <1>1, <2>2
    <3> QED BY <1>2, <1>3, <1>4, <2>2, <3>1 DEF Open, Bit
  <2> QED BY <2>1, <2>2
<1> QED BY <1>6, <1>7, <1>8

\* A slot that was cleared.
LEMMA Clearing ==
  ASSUME NEW s \in SlotRecords
  PROVE  ClearedSlot(s) \in SlotRecords /\ ClearedSlot(s).object = "none"
<1>1. s.generation \in Nat
  BY DEF SlotRecords
<1>2. AdvanceGeneration(s.generation) \in Nat
  BY <1>1, HandleAssumption DEF AdvanceGeneration
<1> QED BY <1>2 DEF ClearedSlot, EmptySlot, SlotRecords

\* A table with one slot cleared, and one that was closed whole.
LEMMA ClearingOne ==
  ASSUME NEW t \in Tables, TableOk(t), NEW i \in SlotIndices
  PROVE  LET u == [t EXCEPT ![i] = ClearedSlot(@)] IN
         /\ u \in Tables /\ TableOk(u) /\ u[i].object = "none"
         /\ \A j \in SlotIndices : j # i => u[j] = t[j]
<1>1. t[i] \in SlotRecords
  BY DEF Tables
<1>2. ClearedSlot(t[i]) \in SlotRecords /\ ClearedSlot(t[i]).object = "none"
  BY <1>1, Clearing
<1> DEFINE u == [t EXCEPT ![i] = ClearedSlot(@)]
<1>3. u \in Tables /\ u[i] = ClearedSlot(t[i]) /\ \A j \in SlotIndices : j # i => u[j] = t[j]
  BY <1>2 DEF Tables
<1> HIDE DEF u
<1>4. TableOk(u)
  BY <1>2, <1>3 DEF TableOk
<1> QED BY <1>2, <1>3, <1>4 DEF u

\* Every slot is cleared.
LEMMA ClearingAll ==
  ASSUME NEW t \in Tables
  PROVE  ClosedTable(t) \in Tables /\ Closed(ClosedTable(t)) /\ TableOk(ClosedTable(t))
<1>1. \A i \in SlotIndices : t[i] \in SlotRecords /\ ClearedSlot(t[i]) \in SlotRecords /\
      ClearedSlot(t[i]).object = "none"
  BY Clearing DEF Tables
<1>2. ClosedTable(t) \in Tables /\ Closed(ClosedTable(t))
  BY <1>1 DEF ClosedTable, Tables, Closed
<1> QED BY <1>2 DEF TableOk, Closed

\* The closing of the whole table is refused nothing.
LEMMA ClosingAllowed ==
  ASSUME NEW t \in Tables, TableOk(t), NEW published, NEW allow \in BOOLEAN, allow \/
      published = {}
  PROVE  AllCloseAllowed(t, published, allow)
  BY DEF AllCloseAllowed, CloseAllowed, TableOk

\* A handle goes into the first free slot.
LEMMA Inserting ==
  ASSUME NEW t \in Tables, NEW i \in SlotIndices, t[i].object = "none",
         \A j \in SlotIndices : j < i => t[j].object # "none",
         NEW type \in {"process", "console", "thread"},
         NEW rights \in SUBSET {"QUERY", "CLOSE", "WAIT", "WRITE", "PROCESS_SELF",
             "THREAD_SELF"}
  PROVE  /\ InsertedTable(t, type, rights) \in Tables
         /\ InsertedTable(t, type, rights)[i].object = type
         /\ InsertedTable(t, type, rights)[i].rights = rights
         /\ \A j \in SlotIndices : j # i => InsertedTable(t, type, rights)[j] = t[j]
         /\ InsertedHandle(t) \in Nat
<1>1. FirstFreeSlot(t) = i
  <2>1. i \in FreeSlots(t) /\ \A j \in FreeSlots(t) : i <= j
    BY Slots DEF FreeSlots
  <2>2. \A k \in FreeSlots(t) : (\A j \in FreeSlots(t) : k <= j) => k = i
    BY <2>1, Slots DEF FreeSlots
  <2> QED BY <2>1, <2>2 DEF FirstFreeSlot
<1> DEFINE g == IF t[i].generation = 0 THEN AdvanceGeneration(0) ELSE t[i].generation
<1>2. g \in Nat
  <2>1. t[i].generation \in Nat
    BY DEF Tables, SlotRecords
  <2>2. AdvanceGeneration(0) \in Nat
    BY HandleAssumption DEF AdvanceGeneration
  <2> QED BY <2>1, <2>2
<1>3. InsertedTable(t, type, rights) = [t EXCEPT ![i] = [object |-> type, rights |-> rights,
      generation |-> g]]
  BY <1>1 DEF InsertedTable
<1>4. InsertedHandle(t) = EncodeHandle(i, g)
  BY <1>1 DEF InsertedHandle
<1> HIDE DEF g
<1>5. [object |-> type, rights |-> rights, generation |-> g] \in SlotRecords
  BY <1>2 DEF SlotRecords
<1>6. EncodeHandle(i, g) \in Nat
  <2>1. i \in Nat /\ IndexBase \in Nat
    BY Slots, HandleAssumption
  <2>2. g * IndexBase \in Nat
    BY <1>2, <2>1
  <2> QED BY <2>1, <2>2 DEF EncodeHandle, InvalidHandle
<1> QED BY <1>3, <1>4, <1>5, <1>6 DEF Tables

-----------------------------------------------------------------------------
(* Object records: handles, releases, creation, destruction.               *)

\* Two records that differ at most in their counts and handles.
Alike(s, r) ==
  /\ s.alloc = r.alloc /\ s.parent = r.parent /\ s.state = r.state /\ s.retained = r.retained
  /\ s.event = r.event /\ s.payload = r.payload /\ s.threadAlloc = r.threadAlloc
  /\ s.threadOwns = r.threadOwns /\ s.kthread = r.kthread

\* The record a number starts with.
LEMMA NoObjectType ==
  /\ NoObject \in ObjectRecords /\ Closed(NoObject.table) /\ TableOk(NoObject.table)
  /\ NoObject.table \in Tables
<1>1. EmptySlot \in SlotRecords /\ EmptySlot.object = "none"
  BY DEF EmptySlot, SlotRecords
<1>2. InitializeTable \in Tables /\ Closed(InitializeTable)
  BY <1>1 DEF InitializeTable, Tables, Closed
<1>3. NoObject \in ObjectRecords /\ NoObject.table = InitializeTable
  BY <1>2 DEF NoObject, ObjectRecords, Tables
<1> QED BY <1>2, <1>3 DEF TableOk, Closed

\* A handle on one of the process's objects.
LEMMA InsertingHandle ==
  ASSUME NEW r \in ObjectRecords, NEW i \in SlotIndices, r.table[i].object = "none",
         \A j \in SlotIndices : j < i => r.table[j].object # "none",
         NEW type \in {"process", "console", "thread"},
         NEW rights \in SUBSET {"QUERY", "CLOSE", "WAIT", "WRITE", "PROCESS_SELF",
             "THREAD_SELF"}
  PROVE  LET s == Inserted(r, type, rights) IN
         /\ s \in ObjectRecords /\ Alike(s, r)
         /\ s.table[i].object = type /\ s.table[i].rights = rights
         /\ \A j \in SlotIndices : j # i => s.table[j] = r.table[j]
         /\ s.refs = r.refs + Bit(type = "process")
         /\ s.stdoutRefs = r.stdoutRefs + Bit(type = "console")
         /\ s.threadRefs = r.threadRefs + Bit(type = "thread")
<1>1. r.table \in Tables /\ r.refs \in Int /\ r.stdoutRefs \in Int /\ r.threadRefs \in Int /\
      r.seed \in SUBSET Nat
  BY DEF ObjectRecords, Tables
<1> DEFINE t == InsertedTable(r.table, type, rights)
           d == r.seed \cup {InsertedHandle(r.table)}
           s == Inserted(r, type, rights)
<1>2. /\ t \in Tables /\ t[i].object = type /\ t[i].rights = rights
      /\ \A j \in SlotIndices : j # i => t[j] = r.table[j]
      /\ d \in SUBSET Nat
  <2>1. /\ t \in Tables /\ t[i].object = type /\ t[i].rights = rights
        /\ \A j \in SlotIndices : j # i => t[j] = r.table[j]
        /\ InsertedHandle(r.table) \in Nat
    BY <1>1, Inserting
  <2>2. d \in SUBSET Nat
    BY <1>1, <2>1
  <2> QED BY <2>1, <2>2
<1>3. CASE type = "process"
  <2>1. s = [[r EXCEPT !.table = t, !.seed = d] EXCEPT !.refs = @ + 1]
    BY <1>3 DEF Inserted, Retained
  <2> HIDE DEF t, d
  <2> DEFINE q == [r EXCEPT !.table = t, !.seed = d]
  <2>2. q \in ObjectRecords
    BY <1>2 DEF ObjectRecords, Tables
  <2>3. Alike(q, r) /\ q.table = t /\ q.refs = r.refs /\ q.stdoutRefs = r.stdoutRefs /\
        q.threadRefs = r.threadRefs
    BY DEF ObjectRecords, Alike
  <2> HIDE DEF q
  <2>4. s = [q EXCEPT !.refs = r.refs + 1]
    BY <2>1, <2>3 DEF q
  <2>5. r.refs + 1 \in Int
    BY <1>1
  <2>6. s \in ObjectRecords
    BY <2>2, <2>4, <2>5 DEF ObjectRecords
  <2>7. Alike(s, q) /\ s.table = q.table /\ s.refs = r.refs + 1 /\
        s.stdoutRefs = q.stdoutRefs /\ s.threadRefs = q.threadRefs
    BY <2>2, <2>4 DEF ObjectRecords, Alike
  <2>8. Alike(s, r) /\ s.table = t /\ s.refs = r.refs + 1 /\ s.stdoutRefs = r.stdoutRefs /\
        s.threadRefs = r.threadRefs
    BY <2>3, <2>7 DEF Alike
  <2> HIDE DEF s
  <2> QED BY <1>1, <1>2, <1>3, <2>6, <2>8 DEF Bit, s
<1>4. CASE type = "console"
  <2>1. s = [[r EXCEPT !.table = t, !.seed = d] EXCEPT !.stdoutRefs = @ + 1]
    BY <1>4 DEF Inserted, Retained
  <2> HIDE DEF t, d
  <2> DEFINE q == [r EXCEPT !.table = t, !.seed = d]
  <2>2. q \in ObjectRecords
    BY <1>2 DEF ObjectRecords, Tables
  <2>3. Alike(q, r) /\ q.table = t /\ q.refs = r.refs /\ q.stdoutRefs = r.stdoutRefs /\
        q.threadRefs = r.threadRefs
    BY DEF ObjectRecords, Alike
  <2> HIDE DEF q
  <2>4. s = [q EXCEPT !.stdoutRefs = r.stdoutRefs + 1]
    BY <2>1, <2>3 DEF q
  <2>5. r.stdoutRefs + 1 \in Int
    BY <1>1
  <2>6. s \in ObjectRecords
    BY <2>2, <2>4, <2>5 DEF ObjectRecords
  <2>7. Alike(s, q) /\ s.table = q.table /\ s.stdoutRefs = r.stdoutRefs + 1 /\
        s.refs = q.refs /\ s.threadRefs = q.threadRefs
    BY <2>2, <2>4 DEF ObjectRecords, Alike
  <2>8. Alike(s, r) /\ s.table = t /\ s.refs = r.refs /\ s.stdoutRefs = r.stdoutRefs + 1 /\
        s.threadRefs = r.threadRefs
    BY <2>3, <2>7 DEF Alike
  <2> HIDE DEF s
  <2> QED BY <1>1, <1>2, <1>4, <2>6, <2>8 DEF Bit, s
<1>5. CASE type = "thread"
  <2>1. s = [[r EXCEPT !.table = t, !.seed = d] EXCEPT !.threadRefs = @ + 1]
    BY <1>5 DEF Inserted, Retained
  <2> HIDE DEF t, d
  <2> DEFINE q == [r EXCEPT !.table = t, !.seed = d]
  <2>2. q \in ObjectRecords
    BY <1>2 DEF ObjectRecords, Tables
  <2>3. Alike(q, r) /\ q.table = t /\ q.refs = r.refs /\ q.stdoutRefs = r.stdoutRefs /\
        q.threadRefs = r.threadRefs
    BY DEF ObjectRecords, Alike
  <2> HIDE DEF q
  <2>4. s = [q EXCEPT !.threadRefs = r.threadRefs + 1]
    BY <2>1, <2>3 DEF q
  <2>5. r.threadRefs + 1 \in Int
    BY <1>1
  <2>6. s \in ObjectRecords
    BY <2>2, <2>4, <2>5 DEF ObjectRecords
  <2>7. Alike(s, q) /\ s.table = q.table /\ s.threadRefs = r.threadRefs + 1 /\
        s.refs = q.refs /\ s.stdoutRefs = q.stdoutRefs
    BY <2>2, <2>4 DEF ObjectRecords, Alike
  <2>8. Alike(s, r) /\ s.table = t /\ s.refs = r.refs /\ s.stdoutRefs = r.stdoutRefs /\
        s.threadRefs = r.threadRefs + 1
    BY <2>3, <2>7 DEF Alike
  <2> HIDE DEF s
  <2> QED BY <1>1, <1>2, <1>5, <2>6, <2>8 DEF Bit, s
<1> QED BY <1>3, <1>4, <1>5

\* A reference goes, and it is not the last one.
LEMMA ReleasingOne ==
  ASSUME NEW r \in ObjectRecords, r.refs > 1
  PROVE  /\ Released(r) \in ObjectRecords /\ Alike(Released(r), r) /\
              Released(r).table = r.table
         /\ Released(r).refs = r.refs - 1 /\ Released(r).stdoutRefs = r.stdoutRefs /\
              Released(r).threadRefs = r.threadRefs
<1>1. r.refs \in Int /\ r.refs - 1 \in Int /\ r.refs - 1 > 0
  BY DEF ObjectRecords
<1>2. Released(r) = [r EXCEPT !.refs = r.refs - 1]
  BY <1>1 DEF Released, StoredCount
<1> QED BY <1>1, <1>2 DEF ObjectRecords, Alike

\* The last one goes, and with it the object.
LEMMA ReleasingLast ==
  ASSUME NEW r \in ObjectRecords, NEW n \in Int, n <= 0, r.stdoutRefs = 1
  PROVE  LET s == StoredCount(r, n) IN
         /\ s \in ObjectRecords /\ s.alloc = "freed" /\ s.payload = r.payload /\
              s.kthread = r.kthread
         /\ s.threadAlloc = r.threadAlloc /\ ~s.retained /\ ~s.threadOwns /\ ~s.event
         /\ Closed(s.table) /\ TableOk(s.table)
<1> DEFINE s == StoredCount(r, n)
<1>1. s = [NoObject EXCEPT !.alloc = "freed", !.payload = r.payload, !.kthread = r.kthread,
      !.threadAlloc = r.threadAlloc]
  BY DEF StoredCount
<1>2. r.payload \in BOOLEAN /\ r.kthread \in {"NONE", "NEW", "STARTED", "EXITED"} /\
      r.threadAlloc \in {"none", "live", "freed"}
  BY DEF ObjectRecords
<1>3. NoObject \in ObjectRecords /\ ~NoObject.retained /\ ~NoObject.threadOwns /\
      ~NoObject.event
  BY NoObjectType DEF NoObject
<1>4. /\ s \in ObjectRecords /\ s.alloc = "freed" /\ s.payload = r.payload /\
           s.kthread = r.kthread
      /\ s.threadAlloc = r.threadAlloc /\ ~s.retained /\ ~s.threadOwns /\ ~s.event /\
           s.table = NoObject.table
  BY <1>1, <1>2, <1>3, ZenonT(60) DEF ObjectRecords
<1> HIDE DEF s
<1> QED BY <1>4, NoObjectType DEF s

\* A process that is nothing but itself.
LEMMA NewProcessFacts ==
  ASSUME NEW parent \in Nat
  PROVE  LET n == NewProcess(parent) IN
         /\ n \in ObjectRecords
         /\ n.alloc = "live" /\ n.state = "CREATED" /\ ~n.retained /\ ~n.event /\ ~n.payload
         /\ n.threadAlloc = "none" /\ ~n.threadOwns /\ n.kthread = "NONE"
         /\ n.refs = 1 /\ n.stdoutRefs = 1 /\ n.table = NoObject.table
<1> DEFINE z == NoObject
           a == [z EXCEPT !.alloc = "live"]
           b == [a EXCEPT !.refs = 1]
           c == [b EXCEPT !.stdoutRefs = 1]
           n == [z EXCEPT !.alloc = "live", !.refs = 1, !.stdoutRefs = 1, !.parent = parent]
<1>1. NewProcess(parent) = n
  BY DEF NewProcess
<1>2. /\ z \in ObjectRecords
      /\ z.state = "CREATED" /\ ~z.retained /\ ~z.event /\ ~z.payload
      /\ z.threadAlloc = "none" /\ ~z.threadOwns /\ z.kthread = "NONE"
  BY NoObjectType DEF NoObject
<1> HIDE DEF z
<1>3. n = [c EXCEPT !.parent = parent]
  OBVIOUS
<1>4. /\ n.alloc = "live" /\ n.refs = 1 /\ n.stdoutRefs = 1 /\ n.table = z.table
      /\ n.state = z.state /\ n.retained = z.retained /\ n.event = z.event /\
           n.payload = z.payload
      /\ n.threadAlloc = z.threadAlloc /\ n.threadOwns = z.threadOwns /\ n.kthread = z.kthread
  BY <1>2 DEF ObjectRecords
<1> HIDE DEF n
<1>5. a \in ObjectRecords
  BY <1>2 DEF ObjectRecords
<1> HIDE DEF a
<1>6. b \in ObjectRecords
  BY <1>5 DEF ObjectRecords
<1> HIDE DEF b
<1>7. c \in ObjectRecords
  BY <1>6 DEF ObjectRecords
<1> HIDE DEF c
<1>8. n \in ObjectRecords
  BY <1>3, <1>7 DEF ObjectRecords
<1> QED BY <1>1, <1>2, <1>4, <1>8 DEF z

\* A process before it gets a thread.
LEMMA BuiltProcessFacts ==
  ASSUME NEW parent \in Nat
  PROVE  LET b == BuiltProcess(parent) IN
         /\ b \in ObjectRecords /\ TableOk(b.table)
         /\ b.alloc = "live" /\ b.state = "CREATED" /\ ~b.retained /\ ~b.event /\ b.payload
         /\ b.threadAlloc = "none" /\ ~b.threadOwns /\ b.kthread = "NONE"
         /\ b.refs = 3 /\ b.stdoutRefs = 2
         /\ b.table[1].object = "process" /\ b.table[2].object = "console" /\
              b.table[3].object = "process"
         /\ \A i \in SlotIndices : i > 3 => b.table[i].object = "none"
<1> DEFINE n == [NewProcess(parent) EXCEPT !.payload = TRUE]
           self == Inserted(n, "process", {"QUERY", "CLOSE", "PROCESS_SELF"})
           out == Inserted(self, "console", {"WRITE", "CLOSE"})
           b == Inserted(out, "process", {"WAIT", "CLOSE"})
<1>1. BuiltProcess(parent) = b
  BY DEF BuiltProcess
<1>2. /\ n \in ObjectRecords
      /\ n.alloc = "live" /\ n.state = "CREATED" /\ ~n.retained /\ ~n.event /\ n.payload
      /\ n.threadAlloc = "none" /\ ~n.threadOwns /\ n.kthread = "NONE"
      /\ n.refs = 1 /\ n.stdoutRefs = 1 /\ n.table = NoObject.table
  <2> DEFINE m == NewProcess(parent)
  <2>1. /\ m \in ObjectRecords
        /\ m.alloc = "live" /\ m.state = "CREATED" /\ ~m.retained /\ ~m.event
        /\ m.threadAlloc = "none" /\ ~m.threadOwns /\ m.kthread = "NONE"
        /\ m.refs = 1 /\ m.stdoutRefs = 1 /\ m.table = NoObject.table
    BY NewProcessFacts
  <2> HIDE DEF m
  <2>2. n = [m EXCEPT !.payload = TRUE]
    BY DEF m
  <2> HIDE DEF n
  <2>3. n \in ObjectRecords
    BY <2>1, <2>2 DEF ObjectRecords
  <2> QED BY <2>1, <2>2, <2>3 DEF ObjectRecords
<1>3. \A i \in SlotIndices : n.table[i].object = "none"
  BY <1>2, NoObjectType DEF Closed
<1> HIDE DEF n
<1>4. /\ self \in ObjectRecords /\ Alike(self, n) /\ self.table[1].object = "process" /\
           "CLOSE" \in self.table[1].rights
      /\ \A j \in SlotIndices : j # 1 => self.table[j] = n.table[j]
      /\ self.refs = 2 /\ self.stdoutRefs = 1
  <2>1. \A j \in SlotIndices : j < 1 => n.table[j].object # "none"
    BY Slots
  <2>2. 1 \in SlotIndices /\ n.table[1].object = "none"
    BY <1>3, Slots
  <2>3. /\ self \in ObjectRecords /\ Alike(self, n) /\ self.table[1].object = "process"
        /\ self.table[1].rights = {"QUERY", "CLOSE", "PROCESS_SELF"}
        /\ \A j \in SlotIndices : j # 1 => self.table[j] = n.table[j]
        /\ self.refs = n.refs + Bit("process" = "process") /\ self.stdoutRefs = n.stdoutRefs +
             Bit("process" = "console")
    BY <1>2, <2>1, <2>2, InsertingHandle
  <2> QED BY <1>2, <2>3 DEF Bit
<1> HIDE DEF self
<1>5. /\ out \in ObjectRecords /\ Alike(out, self) /\ out.table[2].object = "console" /\
           "CLOSE" \in out.table[2].rights
      /\ \A j \in SlotIndices : j # 2 => out.table[j] = self.table[j]
      /\ out.refs = 2 /\ out.stdoutRefs = 2
  <2>1. \A j \in SlotIndices : j < 2 => self.table[j].object # "none"
    <3>1. \A j \in SlotIndices : j < 2 => j = 1
      BY Slots
    <3> QED BY <1>4, <3>1
  <2>2. 2 \in SlotIndices /\ self.table[2].object = "none"
    BY <1>3, <1>4, Slots
  <2>3. /\ out \in ObjectRecords /\ Alike(out, self) /\ out.table[2].object = "console"
        /\ out.table[2].rights = {"WRITE", "CLOSE"}
        /\ \A j \in SlotIndices : j # 2 => out.table[j] = self.table[j]
        /\ out.refs = self.refs + Bit("console" = "process") /\
             out.stdoutRefs = self.stdoutRefs + Bit("console" = "console")
    BY <1>4, <2>1, <2>2, InsertingHandle
  <2> QED BY <1>4, <2>3 DEF Bit
<1> HIDE DEF out
<1>6. /\ b \in ObjectRecords /\ Alike(b, out) /\ b.table[3].object = "process" /\
           "CLOSE" \in b.table[3].rights
      /\ \A j \in SlotIndices : j # 3 => b.table[j] = out.table[j]
      /\ b.refs = 3 /\ b.stdoutRefs = 2
  <2>1. \A j \in SlotIndices : j < 3 => out.table[j].object # "none"
    <3>1. \A j \in SlotIndices : j < 3 => j = 1 \/ j = 2
      BY Slots
    <3> QED BY <1>4, <1>5, <3>1
  <2>2. 3 \in SlotIndices /\ out.table[3].object = "none"
    BY <1>3, <1>4, <1>5, Slots
  <2>3. /\ b \in ObjectRecords /\ Alike(b, out) /\ b.table[3].object = "process"
        /\ b.table[3].rights = {"WAIT", "CLOSE"}
        /\ \A j \in SlotIndices : j # 3 => b.table[j] = out.table[j]
        /\ b.refs = out.refs + Bit("process" = "process") /\ b.stdoutRefs = out.stdoutRefs +
             Bit("process" = "console")
    BY <1>5, <2>1, <2>2, InsertingHandle
  <2> QED BY <1>5, <2>3 DEF Bit
<1> HIDE DEF b
<1>7. /\ b.table[1].object = "process" /\ b.table[2].object = "console" /\
           b.table[3].object = "process"
      /\ "CLOSE" \in b.table[1].rights /\ "CLOSE" \in b.table[2].rights /\
           "CLOSE" \in b.table[3].rights
      /\ \A i \in SlotIndices : i > 3 => b.table[i].object = "none"
  <2>1. \A i \in SlotIndices : i > 3 => b.table[i] = n.table[i]
    BY <1>4, <1>5, <1>6, Slots
  <2>2. b.table[1] = self.table[1] /\ b.table[2] = out.table[2]
    BY <1>5, <1>6, Slots
  <2> QED BY <1>3, <1>4, <1>5, <1>6, <2>1, <2>2
<1>8. TableOk(b.table)
  <2>1. \A i \in SlotIndices : i > 3 \/ i = 1 \/ i = 2 \/ i = 3
    BY Slots
  <2>2. Role(1) = "process" /\ Role(2) = "console" /\ Role(3) = "process"
    BY DEF Role
  <2> QED BY <1>7, <2>1, <2>2 DEF TableOk
<1>9. /\ b.alloc = "live" /\ b.state = "CREATED" /\ ~b.retained /\ ~b.event /\ b.payload
      /\ b.threadAlloc = "none" /\ ~b.threadOwns /\ b.kthread = "NONE"
  BY <1>2, <1>4, <1>5, <1>6 DEF Alike
<1> QED BY <1>1, <1>6, <1>7, <1>8, <1>9

\* A process with its thread, as it is published.
LEMMA BuiltThreadFacts ==
  ASSUME NEW parent \in Nat
  PROVE  LET b == BuiltThread(BuiltProcess(parent)) IN
         /\ b \in ObjectRecords /\ TableOk(b.table)
         /\ b.alloc = "live" /\ b.state = "CREATED" /\ ~b.retained /\ ~b.event /\ b.payload
         /\ b.threadAlloc = "live" /\ b.threadOwns /\ b.kthread = "NEW"
         /\ b.refs = 3 /\ b.stdoutRefs = 2 /\ b.threadRefs = 2
         /\ b.table[1].object = "process" /\ b.table[2].object = "console" /\
              b.table[3].object = "process"
         /\ b.table[4].object = "thread" /\ \A i \in SlotIndices : i > 4 =>
              b.table[i].object = "none"
<1> DEFINE p == BuiltProcess(parent)
           n == [p EXCEPT !.threadAlloc = "live", !.threadRefs = 1, !.threadOwns = TRUE,
               !.kthread = "NEW"]
           b == Inserted(n, "thread", {"QUERY", "CLOSE", "THREAD_SELF"})
<1>1. BuiltThread(BuiltProcess(parent)) = b
  BY DEF BuiltThread
<1>2. /\ p \in ObjectRecords /\ TableOk(p.table)
      /\ p.alloc = "live" /\ p.state = "CREATED" /\ ~p.retained /\ ~p.event /\ p.payload
      /\ p.refs = 3 /\ p.stdoutRefs = 2
      /\ p.table[1].object = "process" /\ p.table[2].object = "console" /\
           p.table[3].object = "process"
      /\ \A i \in SlotIndices : i > 3 => p.table[i].object = "none"
  BY BuiltProcessFacts
<1> HIDE DEF p
<1>3. /\ n \in ObjectRecords /\ n.table = p.table
      /\ n.alloc = "live" /\ n.state = "CREATED" /\ ~n.retained /\ ~n.event /\ n.payload
      /\ n.threadAlloc = "live" /\ n.threadOwns /\ n.kthread = "NEW" /\ n.threadRefs = 1
      /\ n.refs = 3 /\ n.stdoutRefs = 2
  <2> DEFINE a == [p EXCEPT !.threadAlloc = "live"]
             c == [a EXCEPT !.threadRefs = 1]
             d == [c EXCEPT !.threadOwns = TRUE]
  <2>1. a \in ObjectRecords
    BY <1>2 DEF ObjectRecords
  <2>2. n = [d EXCEPT !.kthread = "NEW"]
    OBVIOUS
  <2>3. n \in ObjectRecords
    <3> HIDE DEF n, d, c, a
    <3>1. c \in ObjectRecords
      BY <2>1 DEF ObjectRecords, c
    <3>2. d \in ObjectRecords
      BY <3>1 DEF ObjectRecords, d
    <3> QED BY <2>2, <3>2 DEF ObjectRecords
  <2>4. /\ n.table = p.table
        /\ n.alloc = "live" /\ n.state = "CREATED" /\ ~n.retained /\ ~n.event /\ n.payload
        /\ n.threadAlloc = "live" /\ n.threadOwns /\ n.kthread = "NEW" /\ n.threadRefs = 1
        /\ n.refs = 3 /\ n.stdoutRefs = 2
    BY <1>2 DEF ObjectRecords
  <2> QED BY <2>3, <2>4
<1> HIDE DEF n
<1>4. /\ b \in ObjectRecords /\ Alike(b, n) /\ b.table[4].object = "thread" /\
           "CLOSE" \in b.table[4].rights
      /\ \A j \in SlotIndices : j # 4 => b.table[j] = n.table[j]
      /\ b.refs = 3 /\ b.stdoutRefs = 2 /\ b.threadRefs = 2
  <2>1. \A j \in SlotIndices : j < 4 => n.table[j].object # "none"
    <3>1. \A j \in SlotIndices : j < 4 => j = 1 \/ j = 2 \/ j = 3
      BY Slots
    <3> QED BY <1>2, <1>3, <3>1
  <2>2. 4 \in SlotIndices /\ n.table[4].object = "none"
    BY <1>2, <1>3, Slots
  <2>3. /\ b \in ObjectRecords /\ Alike(b, n) /\ b.table[4].object = "thread"
        /\ b.table[4].rights = {"QUERY", "CLOSE", "THREAD_SELF"}
        /\ \A j \in SlotIndices : j # 4 => b.table[j] = n.table[j]
        /\ b.refs = n.refs + Bit("thread" = "process") /\ b.stdoutRefs = n.stdoutRefs +
             Bit("thread" = "console")
        /\ b.threadRefs = n.threadRefs + Bit("thread" = "thread")
    BY <1>3, <2>1, <2>2, InsertingHandle
  <2> QED BY <1>3, <2>3 DEF Bit
<1> HIDE DEF b
<1>5. /\ b.table[1] = p.table[1] /\ b.table[2] = p.table[2] /\ b.table[3] = p.table[3]
      /\ \A i \in SlotIndices : i > 4 => b.table[i].object = "none"
  BY <1>2, <1>3, <1>4, Slots
<1>6. TableOk(b.table)
  <2>1. \A i \in SlotIndices : i = 4 \/ b.table[i] = p.table[i]
    BY <1>3, <1>4
  <2>2. Role(4) = "thread"
    BY DEF Role
  <2> QED BY <1>2, <1>4, <2>1, <2>2 DEF TableOk
<1>7. /\ b.alloc = "live" /\ b.state = "CREATED" /\ ~b.retained /\ ~b.event /\ b.payload
      /\ b.threadAlloc = "live" /\ b.threadOwns /\ b.kthread = "NEW"
  BY <1>3, <1>4 DEF Alike
<1> QED BY <1>1, <1>2, <1>4, <1>5, <1>6, <1>7

\* A handle is open or not.
LEMMA OpenIsBit ==
  ASSUME NEW t, NEW i
  PROVE  /\ Open(t, i) \in {0, 1}
         /\ Open(t, i) = 0 <=> t[i].object = "none"
         /\ Open(t, i) = 1 <=> t[i].object # "none"
  BY DEF Open, Bit

\* A reference to the thread goes, and it is not the last one.
LEMMA ThreadReleasingOne ==
  ASSUME NEW r \in ObjectRecords, r.threadRefs > 1
  PROVE  LET s == ThreadReleased(r) IN
         /\ s \in ObjectRecords /\ Alike(s, r) /\ s.table = r.table
         /\ s.refs = r.refs /\ s.stdoutRefs = r.stdoutRefs /\ s.threadRefs = r.threadRefs - 1
<1>1. r.threadRefs \in Int /\ r.threadRefs - 1 \in Int /\ r.threadRefs - 1 > 0
  BY DEF ObjectRecords
<1> DEFINE s == [r EXCEPT !.threadRefs = r.threadRefs - 1]
<1>2. s.threadRefs = r.threadRefs - 1
  BY DEF ObjectRecords
<1>3. ThreadReleased(r) = s
  BY <1>1, <1>2 DEF ThreadReleased
<1>4. s \in ObjectRecords /\ Alike(s, r) /\ s.table = r.table /\ s.refs = r.refs /\
      s.stdoutRefs = r.stdoutRefs
  BY <1>1 DEF ObjectRecords, Alike
<1> HIDE DEF s
<1> QED BY <1>2, <1>3, <1>4

\* The last one goes; the process it owned keeps another reference.
LEMMA ThreadReleasingLast ==
  ASSUME NEW r \in ObjectRecords, r.threadRefs = 1, r.threadOwns, r.refs > 1
  PROVE  LET s == ThreadReleased(r) IN
         /\ s \in ObjectRecords /\ s.table = r.table
         /\ s.alloc = r.alloc /\ s.parent = r.parent /\ s.state = r.state /\
              s.retained = r.retained
         /\ s.event = r.event /\ s.payload = r.payload /\ s.kthread = r.kthread
         /\ s.threadAlloc = "freed" /\ ~s.threadOwns
         /\ s.refs = r.refs - 1 /\ s.stdoutRefs = r.stdoutRefs
<1> DEFINE a == [r EXCEPT !.threadRefs = @ - 1]
           b == [a EXCEPT !.threadAlloc = "freed"]
           c == [b EXCEPT !.threadOwns = FALSE]
<1>1. a \in ObjectRecords /\ a.threadRefs = 0
  BY DEF ObjectRecords
<1>2. a.threadOwns /\ Alike(a, r) /\ a.table = r.table /\ a.refs = r.refs /\
      a.stdoutRefs = r.stdoutRefs
  BY DEF ObjectRecords, Alike
<1>3. ThreadReleased(r) = IF b.threadOwns THEN Released(c) ELSE b
  BY <1>1 DEF ThreadReleased
<1> HIDE DEF a
<1>4. b \in ObjectRecords
  BY <1>1 DEF ObjectRecords
<1>5. /\ b.threadAlloc = "freed" /\ b.threadOwns /\ b.alloc = a.alloc /\ b.parent = a.parent /\
           b.state = a.state
      /\ b.retained = a.retained /\ b.event = a.event /\ b.payload = a.payload /\
           b.kthread = a.kthread
      /\ b.table = a.table /\ b.refs = a.refs /\ b.stdoutRefs = a.stdoutRefs
  BY <1>1, <1>2 DEF ObjectRecords
<1> HIDE DEF b
<1>6. c \in ObjectRecords
  BY <1>4 DEF ObjectRecords
<1>7. /\ c.threadAlloc = "freed" /\ ~c.threadOwns /\ c.alloc = b.alloc /\ c.parent = b.parent /\
           c.state = b.state
      /\ c.retained = b.retained /\ c.event = b.event /\ c.payload = b.payload /\
           c.kthread = b.kthread
      /\ c.table = b.table /\ c.refs = b.refs /\ c.stdoutRefs = b.stdoutRefs
  BY <1>4, <1>5 DEF ObjectRecords
<1> HIDE DEF c
<1>8. c.refs > 1
  BY <1>2, <1>5, <1>7
<1>9. /\ Released(c) \in ObjectRecords /\ Alike(Released(c), c) /\ Released(c).table = c.table
      /\ Released(c).refs = c.refs - 1 /\ Released(c).stdoutRefs = c.stdoutRefs
  BY <1>6, <1>8, ReleasingOne
<1>10. ThreadReleased(r) = Released(c)
  BY <1>3, <1>5
<1> QED BY <1>2, <1>5, <1>7, <1>9, <1>10 DEF Alike

\* The last one of a thread that owns no process goes.
LEMMA ThreadReleasingBare ==
  ASSUME NEW r \in ObjectRecords, r.threadRefs = 1, ~r.threadOwns
  PROVE  LET s == ThreadReleased(r) IN
         /\ s \in ObjectRecords /\ s.table = r.table /\ s.alloc = r.alloc /\
              s.payload = r.payload
         /\ s.kthread = r.kthread /\ s.threadAlloc = "freed" /\ s.refs = r.refs /\
              s.stdoutRefs = r.stdoutRefs
<1> DEFINE a == [r EXCEPT !.threadRefs = @ - 1]
           b == [a EXCEPT !.threadAlloc = "freed"]
<1>1. a \in ObjectRecords /\ a.threadRefs = 0
  BY DEF ObjectRecords
<1>2. ~a.threadOwns /\ Alike(a, r) /\ a.table = r.table /\ a.refs = r.refs /\
      a.stdoutRefs = r.stdoutRefs
  BY DEF ObjectRecords, Alike
<1>3. ThreadReleased(r) = IF b.threadOwns THEN Released([b EXCEPT !.threadOwns = FALSE]) ELSE b
  BY <1>1 DEF ThreadReleased
<1> HIDE DEF a
<1>4. b \in ObjectRecords
  BY <1>1 DEF ObjectRecords
<1>5. /\ b.threadAlloc = "freed" /\ ~b.threadOwns /\ b.alloc = a.alloc /\
           b.payload = a.payload /\ b.kthread = a.kthread
      /\ b.table = a.table /\ b.refs = a.refs /\ b.stdoutRefs = a.stdoutRefs
  BY <1>1, <1>2 DEF ObjectRecords
<1> HIDE DEF b
<1>6. ThreadReleased(r) = b
  BY <1>3, <1>5
<1> QED BY <1>2, <1>4, <1>5, <1>6 DEF Alike

\* The whole table is closed while somebody else keeps the objects.
LEMMA HandlesClosing ==
  ASSUME NEW r \in ObjectRecords, TableOk(r.table), NEW published, NEW allow \in BOOLEAN,
      allow \/ published = {},
         r.refs > Open(r.table, 1) + Open(r.table, 3), r.table[4].object # "none" =>
             r.threadRefs > 1
  PROVE  LET s == HandlesClosed(r, published, allow) IN
         /\ s \in ObjectRecords /\ Alike(s, r) /\ s.table = ClosedTable(r.table)
         /\ s.refs = r.refs - Open(r.table, 1) - Open(r.table, 3)
         /\ s.stdoutRefs = r.stdoutRefs - Open(r.table, 2)
         /\ s.threadRefs = r.threadRefs - Open(r.table, 4)
<1> DEFINE t == r.table
           o == Open(t, 1) + Open(t, 3)
           held == [[r EXCEPT !.refs = @ + 1] EXCEPT !.table = ClosedTable(@)]
           own == [held EXCEPT !.refs = @ - OpenHandles(t, "process"),
               !.stdoutRefs = @ - OpenHandles(t, "console")]
           all == IF OpenHandles(t, "thread") = 0 THEN own ELSE ThreadReleased(own)
<1>1. t \in Tables /\ r.refs \in Int /\ r.stdoutRefs \in Int /\ r.threadRefs \in Int
  BY DEF ObjectRecords, Tables
<1>2. AllCloseAllowed(t, published, allow)
  BY <1>1, ClosingAllowed
<1>3. HandlesClosed(r, published, allow) = Released(all)
  BY <1>2 DEF HandlesClosed, Retained
<1>4. OpenHandles(t, "process") = o /\ OpenHandles(t, "console") = Open(t, 2) /\
      OpenHandles(t, "thread") = Open(t, 4)
  BY <1>1, OpenCounts
<1>5. o \in Int /\ Open(t, 2) \in {0, 1} /\ Open(t, 4) \in {0, 1} /\
      (Open(t, 4) = 1 => r.threadRefs > 1)
  BY DEF Open, Bit
<1>6. ClosedTable(t) \in Tables
  BY <1>1, ClearingAll
<1>7. held \in ObjectRecords /\ Alike(held, r) /\ held.table = ClosedTable(t) /\
      held.refs = r.refs + 1
      /\ held.stdoutRefs = r.stdoutRefs /\ held.threadRefs = r.threadRefs
  <2> DEFINE a == [r EXCEPT !.refs = @ + 1]
  <2>1. a \in ObjectRecords /\ Alike(a, r) /\ a.table = t /\ a.refs = r.refs + 1 /\
        a.stdoutRefs = r.stdoutRefs /\ a.threadRefs = r.threadRefs
    BY <1>1 DEF ObjectRecords, Alike
  <2>2. held = [a EXCEPT !.table = ClosedTable(t)]
    BY <2>1
  <2> HIDE DEF a, held, t
  <2>3. held \in ObjectRecords /\ Alike(held, a) /\ held.table = ClosedTable(t) /\
        held.refs = a.refs
        /\ held.stdoutRefs = a.stdoutRefs /\ held.threadRefs = a.threadRefs
    BY <1>6, <2>1, <2>2 DEF ObjectRecords, Alike, Tables
  <2> QED BY <2>1, <2>3 DEF Alike
<1>8. own = [held EXCEPT !.refs = r.refs + 1 - o, !.stdoutRefs = r.stdoutRefs - Open(t, 2)]
  <2> HIDE DEF held, t, o
  <2>1. own = [held EXCEPT !.refs = held.refs - OpenHandles(t, "process"),
        !.stdoutRefs = held.stdoutRefs - OpenHandles(t, "console")]
    OBVIOUS
  <2>2. held.refs - OpenHandles(t, "process") = r.refs + 1 - o /\
        held.stdoutRefs - OpenHandles(t, "console") = r.stdoutRefs - Open(t, 2)
    BY <1>1, <1>4, <1>5, <1>7
  <2> QED BY <2>1, <2>2, Zenon
<1> HIDE DEF held, own, o
<1>9. own \in ObjectRecords /\ Alike(own, r) /\ own.table = ClosedTable(t) /\
      own.refs = r.refs + 1 - o
      /\ own.stdoutRefs = r.stdoutRefs - Open(t, 2) /\ own.threadRefs = r.threadRefs
  <2>1. r.refs + 1 - o \in Int /\ r.stdoutRefs - Open(t, 2) \in Int
    BY <1>1, <1>5
  <2> HIDE DEF t
  <2>2. own \in ObjectRecords
    BY <1>7, <1>8, <2>1 DEF ObjectRecords
  <2>3. Alike(own, held) /\ own.table = held.table /\ own.refs = r.refs + 1 - o
        /\ own.stdoutRefs = r.stdoutRefs - Open(t, 2) /\ own.threadRefs = held.threadRefs
    BY <1>7, <1>8 DEF ObjectRecords, Alike
  <2> QED BY <1>7, <2>2, <2>3 DEF Alike
<1>10. /\ all \in ObjectRecords /\ Alike(all, r) /\ all.table = ClosedTable(t) /\
            all.refs = r.refs + 1 - o
       /\ all.stdoutRefs = r.stdoutRefs - Open(t, 2) /\
            all.threadRefs = r.threadRefs - Open(t, 4)
  <2>1. CASE Open(t, 4) = 0
    <3>1. all = own
      BY <1>4, <2>1
    <3> QED BY <1>1, <1>9, <2>1, <3>1
  <2>2. CASE Open(t, 4) = 1
    <3>1. all = ThreadReleased(own)
      BY <1>4, <2>2
    <3>2. own.threadRefs > 1
      BY <1>5, <1>9, <2>2
    <3> HIDE DEF all
    <3>3. /\ all \in ObjectRecords /\ Alike(all, own) /\ all.table = own.table /\
               all.refs = own.refs
          /\ all.stdoutRefs = own.stdoutRefs /\ all.threadRefs = own.threadRefs - 1
      BY <1>9, <3>1, <3>2, ThreadReleasingOne
    <3> QED BY <1>9, <2>2, <3>3 DEF Alike
  <2> QED BY <1>5, <2>1, <2>2
<1> HIDE DEF all
<1>11. all.refs > 1
  <2>1. r.refs > o
    BY DEF o
  <2> QED BY <1>1, <1>5, <1>10, <2>1
<1>12. /\ Released(all) \in ObjectRecords /\ Alike(Released(all), all) /\
            Released(all).table = all.table
       /\ Released(all).refs = all.refs - 1 /\ Released(all).stdoutRefs = all.stdoutRefs /\
            Released(all).threadRefs = all.threadRefs
  BY <1>10, <1>11, ReleasingOne
<1>13. all.refs - 1 = r.refs - Open(t, 1) - Open(t, 3)
  <2>1. Open(t, 1) \in {0, 1} /\ Open(t, 3) \in {0, 1}
    BY DEF Open, Bit
  <2> QED BY <1>1, <1>10, <2>1 DEF o
<1> QED BY <1>3, <1>10, <1>12, <1>13 DEF Alike

\* A record of a process that is gone.
Gone(s) ==
  /\ s.alloc = "freed" /\ s.kthread = "NONE" /\ s.threadAlloc # "live" /\ ~s.payload
  /\ ~s.retained /\ ~s.threadOwns /\ ~s.event /\ Closed(s.table) /\ TableOk(s.table)

\* A process that nobody has seen, destroyed.
LEMMA Destroying ==
  ASSUME NEW r \in ObjectRecords, TableOk(r.table), r.refs = 1 + Open(r.table, 1) +
      Open(r.table, 3),
         r.stdoutRefs = 1 + Open(r.table, 2), r.table[4].object = "none",
             r.threadAlloc # "live", r.kthread = "NONE"
  PROVE  ProcessDestroyed(r) \in ObjectRecords /\ Gone(ProcessDestroyed(r))
<1> DEFINE a == PayloadGone(r)
           h == HandlesClosed(a, {}, FALSE)
<1>1. a \in ObjectRecords
  BY DEF PayloadGone, ObjectRecords
<1>2. /\ a.table = r.table /\ a.refs = r.refs /\ a.stdoutRefs = r.stdoutRefs /\ ~a.payload
      /\ a.threadAlloc = r.threadAlloc /\ a.kthread = r.kthread
  BY DEF PayloadGone, ObjectRecords
<1> HIDE DEF a
<1>3. /\ Open(r.table, 1) \in {0, 1} /\ Open(r.table, 2) \in {0, 1} /\
           Open(r.table, 3) \in {0, 1}
  BY DEF Open, Bit
<1>4. a.refs > Open(a.table, 1) + Open(a.table, 3)
  BY <1>2, <1>3
<1>5. /\ h \in ObjectRecords /\ Alike(h, a) /\ h.refs = a.refs - Open(a.table,
           1) - Open(a.table, 3)
      /\ h.stdoutRefs = a.stdoutRefs - Open(a.table, 2)
  BY <1>1, <1>2, <1>4, HandlesClosing
<1> HIDE DEF h
<1>6. h.refs = 1 /\ h.stdoutRefs = 1 /\ h.refs - 1 = 0
  BY <1>2, <1>3, <1>5
<1>7. ProcessDestroyed(r) = StoredCount(h, 0)
  BY <1>6 DEF ProcessDestroyed, Released, h, a
<1> DEFINE s == StoredCount(h, 0)
<1>8. /\ s \in ObjectRecords /\ s.alloc = "freed" /\ s.payload = h.payload /\
           s.kthread = h.kthread
      /\ s.threadAlloc = h.threadAlloc /\ ~s.retained /\ ~s.threadOwns /\ ~s.event
      /\ Closed(s.table) /\ TableOk(s.table)
  <2>1. 0 \in Int /\ 0 <= 0
    OBVIOUS
  <2> QED BY <1>5, <1>6, <2>1, ReleasingLast
<1> HIDE DEF s
<1>9. Gone(s)
  BY <1>2, <1>5, <1>8 DEF Gone, Alike
<1> QED BY <1>7, <1>8, <1>9 DEF s

\* A creation that failed leaves nothing behind, at whatever stage it failed.
LEMMA FailedCreationFacts ==
  ASSUME NEW parent \in Nat, NEW stage \in {"space", "thread", "publish"}
  PROVE  FailedCreation(parent, stage) \in ObjectRecords /\ Gone(FailedCreation(parent, stage))
<1>1. CASE stage = "space"
  <2> DEFINE n == NewProcess(parent)
             s == StoredCount(n, 0)
  <2>1. /\ n \in ObjectRecords /\ ~n.payload /\ n.threadAlloc = "none" /\ n.kthread = "NONE" /\
             n.refs = 1 /\ n.stdoutRefs = 1
    BY NewProcessFacts
  <2> HIDE DEF n
  <2>2. n.refs - 1 = 0 /\ 0 \in Int /\ 0 <= 0
    BY <2>1
  <2>3. FailedCreation(parent, stage) = s
    BY <1>1, <2>2 DEF FailedCreation, Released, n
  <2>4. /\ s \in ObjectRecords /\ s.alloc = "freed" /\ s.payload = n.payload /\
             s.kthread = n.kthread
        /\ s.threadAlloc = n.threadAlloc /\ ~s.retained /\ ~s.threadOwns /\ ~s.event
        /\ Closed(s.table) /\ TableOk(s.table)
    BY <2>1, <2>2, ReleasingLast
  <2> HIDE DEF s
  <2>5. Gone(s)
    BY <2>1, <2>4 DEF Gone
  <2> QED BY <2>3, <2>4, <2>5
<1>2. CASE stage = "thread"
  <2> DEFINE b == BuiltProcess(parent)
  <2>1. /\ b \in ObjectRecords /\ TableOk(b.table) /\ b.threadAlloc = "none" /\
             b.kthread = "NONE"
        /\ b.refs = 3 /\ b.stdoutRefs = 2
        /\ b.table[1].object = "process" /\ b.table[2].object = "console" /\
             b.table[3].object = "process"
        /\ \A i \in SlotIndices : i > 3 => b.table[i].object = "none"
    BY BuiltProcessFacts
  <2>2. FailedCreation(parent, stage) = ProcessDestroyed(b)
    BY <1>2 DEF FailedCreation
  <2> HIDE DEF b
  <2>3. Open(b.table, 1) = 1 /\ Open(b.table, 2) = 1 /\ Open(b.table, 3) = 1 /\
        b.table[4].object = "none"
    BY <2>1, Slots DEF Open, Bit
  <2>4. ProcessDestroyed(b) \in ObjectRecords /\ Gone(ProcessDestroyed(b))
    BY <2>1, <2>3, Destroying
  <2> QED BY <2>2, <2>4
<1>3. CASE stage = "publish"
  <2> DEFINE b == BuiltThread(BuiltProcess(parent))
             k == CHOOSE i \in SlotIndices : b.table[i].object = "thread"
             u == [b EXCEPT !.table[k] = ClearedSlot(@)]
             closed == ThreadReleased(u)
             v == [closed EXCEPT !.threadOwns = FALSE, !.kthread = "NONE"]
             bare == ThreadReleased(v)
  <2>1. /\ b \in ObjectRecords /\ TableOk(b.table) /\ b.threadAlloc = "live" /\ b.threadOwns
        /\ b.refs = 3 /\ b.stdoutRefs = 2 /\ b.threadRefs = 2
        /\ b.table[1].object = "process" /\ b.table[2].object = "console" /\
             b.table[3].object = "process"
        /\ b.table[4].object = "thread" /\ \A i \in SlotIndices : i > 4 =>
             b.table[i].object = "none"
    BY BuiltThreadFacts
  <2>2. FailedCreation(parent, stage) = ProcessDestroyed(bare)
    BY <1>3 DEF FailedCreation
  <2> HIDE DEF b
  <2>3. k = 4
    <3>1. \A i \in SlotIndices : b.table[i].object = "thread" => i = 4
      <4>1. \A i \in SlotIndices : i > 4 \/ i = 1 \/ i = 2 \/ i = 3 \/ i = 4
        BY Slots
      <4> QED BY <2>1, <4>1
    <3> QED BY <2>1, <3>1, Slots
  <2> HIDE DEF k
  <2>4. b.table \in Tables
    BY <2>1 DEF ObjectRecords, Tables
  <2> DEFINE w == [b.table EXCEPT ![4] = ClearedSlot(@)]
  <2>5. /\ w \in Tables /\ TableOk(w) /\ w[4].object = "none"
        /\ w[1] = b.table[1] /\ w[2] = b.table[2] /\ w[3] = b.table[3]
    <3>1. /\ w \in Tables /\ TableOk(w) /\ w[4].object = "none" /\
               \A j \in SlotIndices : j # 4 => w[j] = b.table[j]
      BY <2>1, <2>4, Slots, ClearingOne
    <3> HIDE DEF w
    <3> QED BY <3>1, Slots
  <2>6. u = [b EXCEPT !.table = w]
    BY <2>3
  <2> HIDE DEF w, u
  <2>7. /\ u \in ObjectRecords /\ u.table = w /\ u.threadAlloc = "live" /\ u.threadOwns /\
             u.threadRefs = 2
        /\ u.refs = 3 /\ u.stdoutRefs = 2
    BY <2>1, <2>5, <2>6 DEF ObjectRecords, Tables
  <2>8. /\ closed \in ObjectRecords /\ closed.table = w /\ closed.threadRefs = 1
        /\ closed.refs = 3 /\ closed.stdoutRefs = 2
    BY <2>7, ThreadReleasingOne
  <2> HIDE DEF closed
  <2>9. /\ v \in ObjectRecords /\ v.table = w /\ v.threadRefs = 1 /\ ~v.threadOwns /\
             v.kthread = "NONE"
        /\ v.refs = 3 /\ v.stdoutRefs = 2
    <3> DEFINE x == [closed EXCEPT !.threadOwns = FALSE]
    <3>1. x \in ObjectRecords /\ x.table = w /\ x.threadRefs = 1 /\ ~x.threadOwns /\
          x.refs = 3 /\ x.stdoutRefs = 2
      BY <2>8 DEF ObjectRecords
    <3>2. v = [x EXCEPT !.kthread = "NONE"]
      OBVIOUS
    <3> HIDE DEF x, v
    <3> QED BY <3>1, <3>2 DEF ObjectRecords
  <2> HIDE DEF v
  <2>10. /\ bare \in ObjectRecords /\ bare.table = w /\ bare.kthread = "NONE" /\
              bare.threadAlloc = "freed"
         /\ bare.refs = 3 /\ bare.stdoutRefs = 2
    BY <2>9, ThreadReleasingBare
  <2> HIDE DEF bare
  <2>11. Open(bare.table, 1) = 1 /\ Open(bare.table, 2) = 1 /\ Open(bare.table, 3) = 1 /\
         bare.table[4].object = "none"
    BY <2>1, <2>5, <2>10 DEF Open, Bit
  <2>12. ProcessDestroyed(bare) \in ObjectRecords /\ Gone(ProcessDestroyed(bare))
    BY <2>5, <2>10, <2>11, Destroying
  <2> QED BY <2>2, <2>12
<1> QED BY <1>1, <1>2, <1>3

-----------------------------------------------------------------------------
(* One step of the finalizer on a record.                                  *)

\* The references of a process, h of them held by services under way.
Counted(r, h) ==
  r.refs = Bit(r.threadOwns) + Bit(r.retained) + Open(r.table, 1) + Open(r.table, 3) + h

\* What one step of the finalizer leaves.
FinalStepKeeps(r, l, listed, thread, h) ==
  LET s == Finalized(r, l) IN
  /\ s \in ObjectRecords /\ TableOk(s.table) /\ s.kthread = r.kthread
  /\ Present(s, FinalRank(l) + 1, listed, thread /\ l # "Unpublish", 0)
  /\ Counted(s, h)

\* The steps that write one field.
LEMMA FinalFields ==
  ASSUME NEW r \in ObjectRecords, TableOk(r.table), NEW l \in {"SignalThread", "Teardown",
      "Unpublish", "SignalProcess", "SetEvent"},
         NEW listed \in BOOLEAN, NEW thread \in BOOLEAN, NEW h \in Nat,
         Present(r, FinalRank(l), listed, thread, 0), Counted(r, h)
  PROVE  FinalStepKeeps(r, l, listed, thread, h)
<1> DEFINE s == Finalized(r, l)
<1>1. CASE l = "SignalThread"
  <2>1. s = [r EXCEPT !.threadEvent = TRUE] /\ FinalRank(l) = 2
    BY <1>1 DEF Finalized, FinalRank
  <2>2. s \in ObjectRecords /\ Alike(s, r) /\ s.table = r.table /\ s.refs = r.refs /\
        s.stdoutRefs = r.stdoutRefs /\ s.threadRefs = r.threadRefs
    BY <2>1 DEF ObjectRecords, Alike
  <2> HIDE DEF s
  <2>3. Present(s, 3, listed, thread, 0)
    BY <2>1, <2>2 DEF Present, Alike
  <2>4. Counted(s, h)
    BY <2>2 DEF Counted, Alike
  <2> QED BY <1>1, <2>1, <2>2, <2>3, <2>4 DEF FinalStepKeeps, s, Alike
<1>2. CASE l = "Teardown"
  <2>1. s = [r EXCEPT !.payload = FALSE] /\ FinalRank(l) = 3
    BY <1>2 DEF Finalized, FinalRank, PayloadGone
  <2>2. /\ s \in ObjectRecords /\ s.table = r.table /\ s.refs = r.refs /\
             s.stdoutRefs = r.stdoutRefs /\ s.threadRefs = r.threadRefs
        /\ s.alloc = r.alloc /\ s.state = r.state /\ s.retained = r.retained /\
             s.event = r.event /\ ~s.payload
        /\ s.threadAlloc = r.threadAlloc /\ s.threadOwns = r.threadOwns /\ s.kthread = r.kthread
    BY <2>1 DEF ObjectRecords
  <2> HIDE DEF s
  <2>3. Present(s, 4, listed, thread, 0)
    BY <2>1, <2>2 DEF Present
  <2>4. Counted(s, h)
    BY <2>2 DEF Counted
  <2> QED BY <1>2, <2>1, <2>2, <2>3, <2>4 DEF FinalStepKeeps, s
<1>3. CASE l = "Unpublish"
  <2>1. s = r /\ FinalRank(l) = 4
    BY <1>3 DEF Finalized, FinalRank
  <2> HIDE DEF s
  <2>3. Present(s, 5, listed, FALSE, 0)
    BY <2>1 DEF Present
  <2>4. FinalRank(l) + 1 = 5 /\ (thread /\ l # "Unpublish") = FALSE
    BY <1>3, <2>1
  <2> QED BY <2>1, <2>3, <2>4 DEF FinalStepKeeps, s
<1>4. CASE l = "SignalProcess"
  <2>1. s = [r EXCEPT !.signaled = TRUE] /\ FinalRank(l) = 7
    BY <1>4 DEF Finalized, FinalRank
  <2>2. s \in ObjectRecords /\ Alike(s, r) /\ s.table = r.table /\ s.refs = r.refs /\
        s.stdoutRefs = r.stdoutRefs /\ s.threadRefs = r.threadRefs
    BY <2>1 DEF ObjectRecords, Alike
  <2> HIDE DEF s
  <2>3. Present(s, 8, listed, thread, 0)
    BY <2>1, <2>2 DEF Present, Alike
  <2>4. Counted(s, h)
    BY <2>2 DEF Counted, Alike
  <2> QED BY <1>4, <2>1, <2>2, <2>3, <2>4 DEF FinalStepKeeps, s, Alike
<1>5. CASE l = "SetEvent"
  <2>1. s = [r EXCEPT !.event = TRUE] /\ FinalRank(l) = 8
    BY <1>5 DEF Finalized, FinalRank
  <2>2. /\ s \in ObjectRecords /\ s.table = r.table /\ s.refs = r.refs /\
             s.stdoutRefs = r.stdoutRefs /\ s.threadRefs = r.threadRefs
        /\ s.alloc = r.alloc /\ s.state = r.state /\ s.retained = r.retained /\ s.event /\
             s.payload = r.payload
        /\ s.threadAlloc = r.threadAlloc /\ s.threadOwns = r.threadOwns /\ s.kthread = r.kthread
    BY <2>1 DEF ObjectRecords
  <2> HIDE DEF s
  <2>3. Present(s, 9, listed, thread, 0)
    BY <2>1, <2>2 DEF Present
  <2>4. Counted(s, h)
    BY <2>2 DEF Counted
  <2> QED BY <1>5, <2>1, <2>2, <2>3, <2>4 DEF FinalStepKeeps, s
<1> QED BY <1>1, <1>2, <1>3, <1>4, <1>5

\* The completion takes its reference.
LEMMA FinalTerminated ==
  ASSUME NEW r \in ObjectRecords, TableOk(r.table), NEW listed \in BOOLEAN,
      NEW thread \in BOOLEAN, NEW h \in Nat,
         Present(r, 1, listed, thread, 0), Counted(r, h)
  PROVE  FinalStepKeeps(r, "MarkTerminated", listed, thread, h)
<1> DEFINE x == IF r.reason = "NONE" THEN "SELF" ELSE r.reason
           a == [r EXCEPT !.state = "TERMINATED"]
           b == [a EXCEPT !.reason = x]
           c == [b EXCEPT !.refs = @ + 1]
           s == Finalized(r, "MarkTerminated")
<1>1. ~r.retained /\ r.refs \in Int /\ x \in {"NONE", "SELF", "KILL"} /\ r.retained \in BOOLEAN
  BY DEF Present, ObjectRecords
<1>2. a \in ObjectRecords
  BY DEF ObjectRecords
<1>3. /\ a.alloc = r.alloc /\ a.state = "TERMINATED" /\ a.retained = r.retained /\
           a.event = r.event /\ a.payload = r.payload
      /\ a.threadAlloc = r.threadAlloc /\ a.threadOwns = r.threadOwns /\ a.kthread = r.kthread
      /\ a.table = r.table /\ a.refs = r.refs /\ a.stdoutRefs = r.stdoutRefs /\
           a.threadRefs = r.threadRefs /\ a.reason = r.reason
  BY DEF ObjectRecords
<1>4. [r EXCEPT !.state = "TERMINATED", !.reason = IF @ = "NONE" THEN "SELF" ELSE @] = b
  BY <1>3
<1> HIDE DEF a, x
<1>5. b \in ObjectRecords
  BY <1>1, <1>2 DEF ObjectRecords
<1>6. Alike(b, a) /\ b.table = a.table /\ b.refs = a.refs /\ b.stdoutRefs = a.stdoutRefs /\
      b.threadRefs = a.threadRefs
  BY <1>2 DEF ObjectRecords, Alike
<1>7. s = [c EXCEPT !.retained = TRUE]
  <2> DEFINE z == [r EXCEPT !.state = "TERMINATED", !.reason = IF @ = "NONE" THEN "SELF" ELSE @]
  <2>1. s = IF z.retained THEN z ELSE [Retained(z) EXCEPT !.retained = TRUE]
    BY DEF Finalized
  <2>2. z = b /\ ~b.retained
    BY <1>1, <1>3, <1>4, <1>6 DEF Alike
  <2> HIDE DEF z, s, b
  <2> QED BY <2>1, <2>2 DEF Retained
<1> HIDE DEF b
<1>8. c \in ObjectRecords /\ Alike(c, b) /\ c.table = b.table /\ c.refs = b.refs + 1 /\
      c.stdoutRefs = b.stdoutRefs /\ c.threadRefs = b.threadRefs
  BY <1>5 DEF ObjectRecords, Alike
<1> HIDE DEF c, s
<1>9. s \in ObjectRecords
  BY <1>7, <1>8 DEF ObjectRecords
<1>10. /\ s.alloc = c.alloc /\ s.state = c.state /\ s.retained /\ s.event = c.event /\
            s.payload = c.payload
       /\ s.threadAlloc = c.threadAlloc /\ s.threadOwns = c.threadOwns /\ s.kthread = c.kthread
       /\ s.table = c.table /\ s.refs = c.refs /\ s.stdoutRefs = c.stdoutRefs /\
            s.threadRefs = c.threadRefs
  BY <1>7, <1>8 DEF ObjectRecords
<1>11. /\ s.alloc = r.alloc /\ s.state = "TERMINATED" /\ s.retained /\ s.event = r.event /\
            s.payload = r.payload
       /\ s.threadAlloc = r.threadAlloc /\ s.threadOwns = r.threadOwns /\ s.kthread = r.kthread
       /\ s.table = r.table /\ s.refs = r.refs + 1 /\ s.stdoutRefs = r.stdoutRefs /\
            s.threadRefs = r.threadRefs
  BY <1>3, <1>6, <1>8, <1>10 DEF Alike
<1>12. Present(s, 2, listed, thread, 0)
  BY <1>1, <1>11 DEF Present
<1>13. Counted(s, h)
  <2>1. Open(r.table, 1) \in {0, 1} /\ Open(r.table, 3) \in {0, 1} /\
        Bit(r.threadOwns) \in {0, 1}
    BY DEF Open, Bit
  <2>2. Bit(r.retained) = 0 /\ Bit(s.retained) = 1 /\ Bit(s.threadOwns) = Bit(r.threadOwns)
    BY <1>1, <1>11 DEF Bit
  <2>3. s.refs = r.refs + 1 /\ Open(s.table, 1) = Open(r.table, 1) /\
        Open(s.table, 3) = Open(r.table, 3)
    BY <1>11
  <2> QED BY <2>1, <2>2, <2>3 DEF Counted
<1>14. FinalRank("MarkTerminated") = 1
  BY DEF FinalRank
<1> QED BY <1>9, <1>11, <1>12, <1>13, <1>14 DEF FinalStepKeeps, s

\* The handles go.
LEMMA FinalHandles ==
  ASSUME NEW r \in ObjectRecords, TableOk(r.table), NEW listed \in BOOLEAN,
      NEW thread \in BOOLEAN, NEW h \in Nat,
         Present(r, 5, listed, thread, 0), Counted(r, h)
  PROVE  FinalStepKeeps(r, "CloseHandles", listed, thread, h)
<1> DEFINE s == Finalized(r, "CloseHandles")
           t == r.table
<1>1. s = HandlesClosed(r, {}, TRUE) /\ FinalRank("CloseHandles") = 5
  BY DEF Finalized, FinalRank
<1>2. /\ r.alloc = "live" /\ r.threadOwns /\ r.retained /\ r.threadRefs = 1 + Open(t, 4) /\
           r.stdoutRefs = 1 + Open(t, 2)
      /\ r.refs \in Int /\ ~r.payload /\ r.threadAlloc = "live" /\ r.state = "TERMINATED" /\
           listed /\ ~thread /\ ~r.event
      /\ r.kthread \in {"NEW", "STARTED", "EXITED"}
  <2>1. r.refs \in Int
    BY DEF ObjectRecords
  <2>2. r.alloc = "live" /\ r.threadOwns /\ r.retained /\ ~r.payload /\
        r.threadAlloc = "live" /\ r.state = "TERMINATED"
    BY DEF Present
  <2>3. listed /\ ~thread /\ ~r.event /\ r.kthread \in {"NEW", "STARTED", "EXITED"}
    BY DEF Present
  <2>4. r.threadRefs = 1 + Open(t, 4) /\ r.stdoutRefs = 1 + Open(t, 2)
    <3>1. Open(t, 2) \in {0, 1}
      BY DEF Open, Bit
    <3>2. r.threadRefs = 1 + Open(t, 4) /\ r.stdoutRefs = 1 + Open(t, 2) + 0
      BY DEF Present
    <3> QED BY <3>1, <3>2
  <2> QED BY <2>1, <2>2, <2>3, <2>4
<1>3. /\ Open(t, 1) \in {0, 1} /\ Open(t, 2) \in {0, 1} /\ Open(t, 3) \in {0, 1} /\
           Open(t, 4) \in {0, 1}
      /\ t[4].object # "none" => Open(t, 4) = 1
  BY DEF Open, Bit
<1>4. r.refs = 2 + Open(t, 1) + Open(t, 3) + h
  <2>1. Bit(r.threadOwns) = 1 /\ Bit(r.retained) = 1
    BY <1>2 DEF Bit
  <2> QED BY <1>3, <2>1 DEF Counted
<1>5. r.refs > Open(t, 1) + Open(t, 3) /\ (t[4].object # "none" => r.threadRefs > 1)
  BY <1>2, <1>3, <1>4
<1>6. /\ s \in ObjectRecords /\ Alike(s, r) /\ s.table = ClosedTable(t)
      /\ s.refs = r.refs - Open(t, 1) - Open(t, 3)
      /\ s.stdoutRefs = r.stdoutRefs - Open(t, 2)
      /\ s.threadRefs = r.threadRefs - Open(t, 4)
  <2>1. TRUE \in BOOLEAN /\ (TRUE \/ {} = {})
    OBVIOUS
  <2> HIDE DEF s
  <2> QED BY <1>1, <1>5, <2>1, HandlesClosing
<1>7. Closed(s.table) /\ TableOk(s.table)
  <2>1. t \in Tables
    BY DEF ObjectRecords, Tables
  <2> QED BY <1>6, <2>1, ClearingAll
<1> HIDE DEF s, t
<1>8. Open(s.table, 1) = 0 /\ Open(s.table, 2) = 0 /\ Open(s.table, 3) = 0 /\
      Open(s.table, 4) = 0
  BY <1>7, Slots DEF Open, Bit, Closed
<1>9. s.refs = 2 + h /\ s.stdoutRefs = 1 /\ s.threadRefs = 1
  BY <1>2, <1>3, <1>4, <1>6
<1>10. Present(s, 6, listed, thread, 0)
  BY <1>2, <1>6, <1>7, <1>8, <1>9 DEF Present, Alike
<1>11. Counted(s, h)
  <2>1. Bit(s.threadOwns) = 1 /\ Bit(s.retained) = 1
    BY <1>2, <1>6 DEF Bit, Alike
  <2> QED BY <1>8, <1>9, <2>1 DEF Counted
<1> QED BY <1>1, <1>6, <1>7, <1>10, <1>11 DEF FinalStepKeeps, s, Alike

\* The thread goes.
LEMMA FinalThread ==
  ASSUME NEW r \in ObjectRecords, TableOk(r.table), NEW listed \in BOOLEAN,
      NEW thread \in BOOLEAN, NEW h \in Nat,
         Present(r, 6, listed, thread, 0), Counted(r, h)
  PROVE  FinalStepKeeps(r, "ReleaseThread", listed, thread, h)
<1> DEFINE s == Finalized(r, "ReleaseThread")
<1>1. s = ThreadReleased(r) /\ FinalRank("ReleaseThread") = 6
  BY DEF Finalized, FinalRank
<1>2. Closed(r.table)
  BY DEF Present
<1>3. Open(r.table, 1) = 0 /\ Open(r.table, 2) = 0 /\ Open(r.table, 3) = 0 /\
      Open(r.table, 4) = 0
  BY <1>2, Slots DEF Open, Bit, Closed
<1>4. /\ r.alloc = "live" /\ r.threadOwns /\ r.retained /\ r.threadRefs = 1 /\ r.stdoutRefs = 1
      /\ r.refs \in Int /\ ~r.payload /\ r.state = "TERMINATED" /\ listed /\ ~thread /\ ~r.event
      /\ r.kthread \in {"NEW", "STARTED", "EXITED"}
  BY <1>3 DEF Present, ObjectRecords
<1>5. r.refs = 2 + h
  <2>1. Bit(r.threadOwns) = 1 /\ Bit(r.retained) = 1
    BY <1>4 DEF Bit
  <2> QED BY <1>3, <2>1 DEF Counted
<1>6. r.refs > 1
  BY <1>5
<1>7. /\ s \in ObjectRecords /\ s.table = r.table
      /\ s.alloc = r.alloc /\ s.state = r.state /\ s.retained = r.retained
      /\ s.event = r.event /\ s.payload = r.payload /\ s.kthread = r.kthread
      /\ s.threadAlloc = "freed" /\ ~s.threadOwns
      /\ s.refs = r.refs - 1 /\ s.stdoutRefs = r.stdoutRefs
  BY <1>1, <1>4, <1>6, ThreadReleasingLast
<1> HIDE DEF s
<1>8. Present(s, 7, listed, thread, 0)
  BY <1>2, <1>3, <1>4, <1>5, <1>7 DEF Present
<1>9. Counted(s, h)
  <2>1. Bit(s.threadOwns) = 0 /\ Bit(s.retained) = 1
    BY <1>4, <1>7 DEF Bit
  <2> QED BY <1>3, <1>5, <1>7, <2>1 DEF Counted
<1> QED BY <1>1, <1>7, <1>8, <1>9 DEF FinalStepKeeps, s

\* Each step of the finalizer leaves the process one step further.
LEMMA FinalStep ==
  ASSUME NEW r \in ObjectRecords, TableOk(r.table), NEW l \in FinalLabels,
         NEW listed \in BOOLEAN, NEW thread \in BOOLEAN, NEW h \in Nat,
         Present(r, FinalRank(l), listed, thread, 0), Counted(r, h)
  PROVE  FinalStepKeeps(r, l, listed, thread, h)
<1>1. CASE l = "MarkTerminated"
  <2>1. FinalRank(l) = 1
    BY <1>1 DEF FinalRank
  <2> QED BY <1>1, <2>1, FinalTerminated
<1>2. CASE l = "CloseHandles"
  <2>1. FinalRank(l) = 5
    BY <1>2 DEF FinalRank
  <2> QED BY <1>2, <2>1, FinalHandles
<1>3. CASE l = "ReleaseThread"
  <2>1. FinalRank(l) = 6
    BY <1>3 DEF FinalRank
  <2> QED BY <1>3, <2>1, FinalThread
<1>4. CASE l \in {"SignalThread", "Teardown", "Unpublish", "SignalProcess", "SetEvent"}
  BY <1>4, FinalFields
<1> QED BY <1>1, <1>2, <1>3, <1>4 DEF FinalLabels

-----------------------------------------------------------------------------
(* The invariant, and what a step of a caller may do to it.                *)

RuntimeInv ==
  /\ RuntimeTypes /\ Scripts /\ \A a \in Callers : CallerOk(a)
  /\ OneSpawner /\ ReaperOk /\ Processes /\ Counts

\* Weights are small numbers.
LEMMA Weights ==
  ASSUME NEW l
  PROVE  /\ Weight(l) \in 0 .. 2
         /\ l \in {"none", "Return"} => Weight(l) = 0
  BY DEF Weight, WaitLabels, LaneLabels

\* What the services under way hold on a process, before and after a step of
\* caller a.
LEMMA HeldMoves ==
  ASSUME NEW a \in Callers, NEW p, \A b \in Callers : b # a => WeightOn(b, p)' = WeightOn(b, p)
  PROVE  /\ Cardinality(Held(p)) \in Nat /\ Cardinality(Held(p)') \in Nat
         /\ Cardinality(Held(p)') = Cardinality(Held(p)) + WeightOn(a, p)' - WeightOn(a, p)
         /\ WeightOn(a, p) \in 0 .. 2 /\ WeightOn(a, p)' \in 0 .. 2
<1> DEFINE v == [b \in Callers |-> WeightOn(b, p)]
           w == [b \in Callers |-> WeightOn(b, p)']
<1>1. \A b \in Callers : WeightOn(b, p) \in 0 .. 2 /\ WeightOn(b, p)' \in 0 .. 2
  BY Weights DEF WeightOn
<1>2. v \in [Callers -> 0 .. 2] /\ w \in [Callers -> 0 .. 2]
  BY <1>1
<1>3. /\ \A b \in Callers : v[b] = WeightOn(b, p) /\ w[b] = WeightOn(b, p)'
      /\ \A b \in Callers : b # a => w[b] = v[b]
  OBVIOUS
<1> HIDE DEF v, w
<1>4. Held(p) = Pairs(v) /\ Held(p)' = Pairs(w)
  <2>1. \A x \in Callers \X (1 .. 2) : x[1] \in Callers
    OBVIOUS
  <2> QED BY <1>3, <2>1 DEF Held, Pairs
<1>5. /\ Cardinality(Pairs(v)) \in Nat /\ Cardinality(Pairs(w)) \in Nat
      /\ Cardinality(Pairs(w)) = Cardinality(Pairs(v)) + w[a] - v[a]
  BY <1>2, <1>3, PairsMove
<1> QED BY <1>1, <1>3, <1>4, <1>5

\* Nobody holds anything when the count says so.
LEMMA NobodyHolds ==
  ASSUME NEW a \in Callers, NEW p
  PROVE  /\ Cardinality(Held(p)) \in Nat
         /\ WeightOn(a, p) \in 0 .. 2 /\ Cardinality(Held(p)) >= WeightOn(a, p)
         /\ Cardinality(Held(p)) = WeightOn(a, p) => \A b \in Callers : b # a =>
              WeightOn(b, p) = 0
<1> DEFINE v == [b \in Callers |-> WeightOn(b, p)]
           w == [b \in Callers |-> IF b = a THEN 0 ELSE WeightOn(b, p)]
<1>1. \A b \in Callers : WeightOn(b, p) \in 0 .. 2
  BY Weights DEF WeightOn
<1>2. v \in [Callers -> 0 .. 2] /\ w \in [Callers -> 0 .. 2]
  BY <1>1
<1>3. /\ \A b \in Callers : v[b] = WeightOn(b, p)
      /\ \A b \in Callers : b # a => w[b] = v[b]
      /\ w[a] = 0
  OBVIOUS
<1> HIDE DEF v, w
<1>4. Held(p) = Pairs(v)
  <2>1. \A x \in Callers \X (1 .. 2) : x[1] \in Callers
    OBVIOUS
  <2> QED BY <1>3, <2>1 DEF Held, Pairs
<1>5. /\ Cardinality(Pairs(v)) \in Nat /\ Cardinality(Pairs(w)) \in Nat
      /\ Cardinality(Pairs(w)) = Cardinality(Pairs(v)) + w[a] - v[a]
      /\ Cardinality(Pairs(w)) = 0 => \A b \in Callers : w[b] = 0
  BY <1>2, <1>3, PairsMove
<1>6. Cardinality(Held(p)) >= WeightOn(a, p)
  BY <1>1, <1>3, <1>4, <1>5
<1>7. ASSUME Cardinality(Held(p)) = WeightOn(a, p) PROVE \A b \in Callers : b # a =>
      WeightOn(b, p) = 0
  <2>1. Cardinality(Pairs(w)) = 0
    BY <1>1, <1>3, <1>4, <1>5, <1>7
  <2> QED BY <1>3, <1>5, <2>1
<1> QED BY <1>1, <1>4, <1>5, <1>6, <1>7

\* The process of an exited thread is k steps into its finalization.
LEMMA RankKeeps ==
  ASSUME reapQueue' = reapQueue, act'[Idle] = act[Idle], NEW p,
         obj'[p].kthread = "EXITED" <=> obj[p].kthread = "EXITED"
  PROVE  Rank(p)' = Rank(p)
<1>1. Step(Idle)' = Step(Idle)
  BY DEF Step
<1>2. Queued(p)' <=> Queued(p)
  BY DEF Queued
<1>3. FinalRank(Step(Idle)') = FinalRank(Step(Idle))
  BY <1>1
<1>4. FinalRank(Step(Idle))' = FinalRank(Step(Idle)')
  BY DEF FinalRank
<1> QED BY <1>1, <1>2, <1>3, <1>4 DEF Rank

\* Nobody but a is inside a service on p.
NoOtherUser(a, p) == \A b \in Callers : b # a => ~(Busy(b) /\ act[b].on = p)

\* A step of caller a that gives process p the record r.
LEMMA CallerKeeps ==
  ASSUME RuntimeInv, NEW a \in Callers, NEW p \in Pids, NEW r \in ObjectRecords,
      TableOk(r.table),
         act' \in [Actors -> ActRecords], Scripts',
         \A b \in Actors : b # a => act'[b] = act[b] /\ Step(b)' = Step(b),
         obj' = [obj EXCEPT ![p] = r], reapQueue' = reapQueue, nextPid' = nextPid,
             thrTable' = thrTable, fgOwner' \in Nat,
         procTable' \subseteq Pids, \A q \in Pids : q # p =>
             (q \in procTable' <=> q \in procTable),
         a \in Pids => obj[a].kthread = "STARTED",
         Busy(a) => act[a].on = p,
         Step(a)' \in OwnLabels => act'[a].on = a,
         Step(a)' \notin {"none", "Return"} => act'[a].on = p /\ r.alloc = "live",
         Step(a)' \in SpawnLabels => Step(a) \in SpawnLabels,
         Step(a)' \in SpawnLabels \ {"MarkReady"} => r.kthread = "NEW",
         Step(a)' = "MarkReady" => Rank(p) = 0 /\ r.kthread # "NEW",
         Step(a)' \in {"RestoreOwner", "Consume", "ReleaseConsumed"} => r.event,
         r.kthread = obj[p].kthread \/ (obj[p].kthread = "NEW" /\ r.kthread = "STARTED" /\
             Step(a) \in SpawnLabels),
         r = obj[p] \/ (r.alloc = "live" /\ (obj[p].event => r.event)) \/ NoOtherUser(a, p),
         r = obj[p] \/ obj[p].alloc = "live",
         r.alloc = "live" => Counted(r, Cardinality(Held(p)) +
             Weight(Step(a)') - Weight(Step(a))),
         Absent(r, Rank(p), p \in procTable', p \in thrTable) \/
             Present(r, Rank(p), p \in procTable', p \in thrTable, Writing(p)')
  PROVE  RuntimeInv'
<1>1. /\ RuntimeTypes /\ Scripts /\ (\A b \in Callers : CallerOk(b)) /\ OneSpawner /\
           ReaperOk /\ Processes /\ Counts
  BY DEF RuntimeInv
<1>2. obj \in [Pids -> ObjectRecords] /\ a \in Actors /\ a # Idle /\ Idle \in Actors /\
      Callers \subseteq Actors /\ Pids \subseteq Callers
  BY <1>1, Actors3 DEF RuntimeTypes
<1>3. obj' \in [Pids -> ObjectRecords] /\ obj'[p] = r /\ \A q \in Pids : q # p =>
      obj'[q] = obj[q]
  BY <1>2
<1>4. RuntimeTypes'
  BY <1>1, <1>3 DEF RuntimeTypes
<1>5. \A q \in Pids : obj'[q].kthread = "EXITED" <=> obj[q].kthread = "EXITED"
  BY <1>3
<1>6. act'[Idle] = act[Idle] /\ Step(Idle)' = Step(Idle)
  BY <1>2
<1>7. \A q \in Pids : Rank(q)' = Rank(q)
  BY <1>5, <1>6, RankKeeps
<1>8. ReaperOk'
  <2>1. \A i \in 1 .. Len(reapQueue') : reapQueue'[i] \in Pids /\
        obj'[reapQueue'[i]].kthread = "EXITED"
    BY <1>1, <1>5 DEF ReaperOk
  <2>2. \A i, j \in 1 .. Len(reapQueue') : reapQueue'[i] = reapQueue'[j] => i = j
    BY <1>1 DEF ReaperOk
  <2>3. Step(Idle)' # "none" => /\ act'[Idle].on \in Pids /\
                                     obj'[act'[Idle].on].kthread = "EXITED"
                                /\ ~(\E i \in 1 .. Len(reapQueue') : reapQueue'[i] = act'[Idle].on)
    BY <1>1, <1>5, <1>6 DEF ReaperOk, Queued
  <2>4. Step(Idle)' = "none" => act'[Idle].on = 0
    BY <1>1, <1>6 DEF ReaperOk
  <2> QED BY <2>1, <2>2, <2>3, <2>4 DEF ReaperOk, Queued
<1>9. OneSpawner'
  <2> SUFFICES ASSUME NEW b \in Callers, NEW c \in Callers, Step(b)' \in SpawnLabels,
      Step(c)' \in SpawnLabels, act'[b].on = act'[c].on
               PROVE  b = c
    BY DEF OneSpawner, SpawnLabels
  <2>1. Step(b) \in SpawnLabels /\ Step(c) \in SpawnLabels
    BY <1>2
  <2>2. Step(a)' \in SpawnLabels => act'[a].on = act[a].on
    <3>1. Step(a)' \in SpawnLabels => Step(a)' \notin {"none", "Return"} /\ Busy(a)
      BY DEF SpawnLabels, Busy
    <3> QED BY <3>1
  <2>3. act[b].on = act[c].on
    BY <1>2, <2>2
  <2> QED BY <1>1, <2>1, <2>3 DEF OneSpawner
<1>10. ASSUME NEW b \in Callers PROVE CallerOk(b)'
  <2>1. CASE b = a
    <3>1. a \in Pids => obj'[a].kthread = "STARTED"
      BY <1>3
    <3>2. Step(a)' \notin {"none", "Return"} => act'[a].on = p /\ obj'[act'[a].on] = r
      BY <1>3
    <3>3. Step(a)' = "MarkReady" => Rank(act[a].on)' = 0
      <4>1. ASSUME Step(a)' = "MarkReady" PROVE Rank(act[a].on)' = 0
        <5>1. act'[a].on = p /\ Rank(p) = 0 /\ Rank(p)' = Rank(p)
          BY <1>7, <3>2, <4>1
        <5> QED BY <5>1 DEF Rank, Queued
      <4> QED BY <4>1
    <3>4. Busy(a)' <=> Step(a)' \notin {"none", "Return"}
      BY DEF Busy
    <3>5. \A l \in SpawnLabels \cup {"RestoreOwner", "Consume",
          "ReleaseConsumed"} : l \notin {"none", "Return"}
      BY DEF SpawnLabels
    <3>6. Step(a)' \in SpawnLabels \ {"MarkReady"} => obj'[act'[a].on].kthread = "NEW"
      BY <3>2, <3>5
    <3>7. Step(a)' = "MarkReady" => obj'[act'[a].on].kthread # "NEW"
      BY <3>2
    <3>8. Step(a)' \in {"RestoreOwner", "Consume", "ReleaseConsumed"} => obj'[act'[a].on].event
      BY <3>2
    <3>9. Busy(a)' => act'[a].on \in Pids /\ obj'[act'[a].on].alloc = "live"
      BY <3>2, <3>4
    <3>10. CallerOk(a)'
      BY <3>1, <3>3, <3>6, <3>7, <3>8, <3>9 DEF CallerOk
    <3> QED BY <2>1, <3>10
  <2>2. CASE b # a
    <3>1. act'[b] = act[b] /\ Step(b)' = Step(b) /\ CallerOk(b)
      BY <1>1, <1>2, <2>2
    <3>2. Busy(b)' <=> Busy(b)
      BY <3>1 DEF Busy
    <3>3. b \in Pids /\ Step(b) # "none" => obj'[b].kthread = "STARTED"
      BY <1>3, <3>1 DEF CallerOk
    <3>4. CASE ~Busy(b)
      BY <3>1, <3>2, <3>3, <3>4 DEF CallerOk, Busy, OwnLabels, SpawnLabels
    <3>5. CASE Busy(b)
      <4>1. PICK q \in Pids : q = act[b].on
        BY <3>1, <3>5 DEF CallerOk
      <4>2. /\ obj'[q].alloc = "live"
            /\ obj[q].event => obj'[q].event
        <5>1. obj[q].alloc = "live"
          BY <3>1, <3>5, <4>1 DEF CallerOk
        <5>2. CASE q = p
          BY <1>3, <2>2, <3>5, <4>1, <5>1, <5>2, ZenonT(60) DEF NoOtherUser
        <5>3. CASE q # p
          BY <1>3, <5>1, <5>3
        <5> QED BY <5>2, <5>3
      <4>3. Step(b) \in SpawnLabels \ {"MarkReady"} => obj'[q].kthread = "NEW"
        <5>1. ASSUME Step(b) \in SpawnLabels \ {"MarkReady"} PROVE obj'[q].kthread = "NEW"
          <6>1. obj[q].kthread = "NEW"
            BY <3>1, <4>1, <5>1 DEF CallerOk
          <6>2. CASE q # p
            BY <1>3, <6>1, <6>2
          <6>3. CASE q = p
            <7>1. ~(Step(a) \in SpawnLabels)
              <8>1. Step(a) \in SpawnLabels => act[a].on = p
                BY DEF Busy, SpawnLabels
              <8> QED BY <1>1, <2>2, <4>1, <5>1, <6>3, <8>1 DEF OneSpawner
            <7> QED BY <1>3, <6>1, <6>3, <7>1
          <6> QED BY <6>2, <6>3
        <5> QED BY <5>1
      <4>4. Step(b) = "MarkReady" => Rank(q)' = 0 /\ obj'[q].kthread # "NEW"
        <5>1. ASSUME Step(b) = "MarkReady" PROVE Rank(q) = 0 /\ obj[q].kthread # "NEW"
          BY <3>1, <4>1, <5>1 DEF CallerOk
        <5> QED BY <1>3, <1>7, <5>1
      <4>5. act'[b].on = q /\ act[b].on = q
        BY <3>1, <4>1
      <4>6. Step(b) = "MarkReady" => Rank(act[b].on)' = 0
        BY <4>4, <4>5 DEF Rank, Queued
      <4>7. Step(b) \in OwnLabels => q = b
        BY <3>1, <4>1 DEF CallerOk
      <4>8. Step(b) \in {"RestoreOwner", "Consume", "ReleaseConsumed"} => obj'[q].event
        BY <3>1, <4>1, <4>2 DEF CallerOk
      <4> QED BY <3>1, <3>3, <4>2, <4>3, <4>4, <4>5, <4>6, <4>7, <4>8 DEF CallerOk
    <3> QED BY <3>4, <3>5
  <2> QED BY <2>1, <2>2
<1>11. \A b \in Callers : b # a => \A q : WeightOn(b, q)' = WeightOn(b, q)
  BY <1>2 DEF WeightOn, Weight
<1>12. WeightOn(a, p) = Weight(Step(a)) /\ WeightOn(a, p)' = Weight(Step(a)')
  <2>1. Step(a) \in {"none", "Return"} => Weight(Step(a)) = 0
    BY Weights
  <2>2. Step(a)' \in {"none", "Return"} => Weight(Step(a)') = 0
    BY Weights
  <2>3. WeightOn(a, p) = Weight(Step(a))
    BY <2>1 DEF WeightOn, Busy
  <2>4. WeightOn(a, p)' = IF act'[a].on = p THEN Weight(Step(a)') ELSE 0
    BY DEF WeightOn, Weight
  <2> QED BY <2>2, <2>3, <2>4
<1>13. \A q \in Pids : q # p => WeightOn(a, q) = 0 /\ WeightOn(a, q)' = 0
  <2>1. Step(a) \in {"none", "Return"} => Weight(Step(a)) = 0
    BY Weights
  <2>2. Step(a)' \in {"none", "Return"} => Weight(Step(a)') = 0
    BY Weights
  <2>3. \A q \in Pids : WeightOn(a, q)' = IF act'[a].on = q THEN Weight(Step(a)') ELSE 0
    BY DEF WeightOn, Weight
  <2> QED BY <2>1, <2>2, <2>3 DEF WeightOn, Busy
<1>14. Counts'
  <2> SUFFICES ASSUME NEW q \in Pids, obj'[q].alloc = "live" PROVE Counted(obj'[q],
      Cardinality(Held(q)'))
    BY DEF Counts, Counted, Bit, Open
  <2>1. /\ Cardinality(Held(q)) \in Nat
        /\ Cardinality(Held(q)') = Cardinality(Held(q)) + WeightOn(a, q)' - WeightOn(a, q)
    BY <1>11, HeldMoves
  <2>2. CASE q = p
    BY <1>3, <1>12, <2>1, <2>2
  <2>3. CASE q # p
    <3>1. Cardinality(Held(q)') = Cardinality(Held(q))
      BY <1>13, <2>1, <2>3
    <3>2. Counted(obj[q], Cardinality(Held(q)))
      BY <1>1, <1>3, <2>3 DEF Counts, Counted
    <3> QED BY <1>3, <2>3, <3>1, <3>2
  <2> QED BY <2>2, <2>3
<1>15. Processes'
  <2> SUFFICES ASSUME NEW q \in Pids
               PROVE  /\ TableOk(obj'[q].table)
                      /\ Absent(obj'[q], Rank(q)', q \in procTable', q \in thrTable') \/
                           Present(obj'[q], Rank(q)', q \in procTable', q \in thrTable',
                           Writing(q)')
                      /\ q >= nextPid' => obj'[q].alloc = "none" /\ obj'[q].kthread = "NONE"
    BY DEF Processes, TableOk, Absent, Present, Closed, Open, Bit, Role
  <2>0. /\ TableOk(obj[q].table)
        /\ Absent(obj[q], Rank(q), q \in procTable, q \in thrTable) \/
             Present(obj[q], Rank(q), q \in procTable, q \in thrTable, Writing(q))
        /\ q >= nextPid => obj[q].alloc = "none" /\ obj[q].kthread = "NONE"
    BY <1>1 DEF Processes
  <2>1. CASE q = p
    BY <1>3, <1>7, <2>0, <2>1
  <2>2. CASE q # p
    <3>1. Writing(q)' = Writing(q)
      <4>1. CASE q = a
        <5>1. Step(a) # "ReleaseOut"
          BY <1>1, <2>2, <4>1 DEF CallerOk, OwnLabels, Busy
        <5>2. Step(a)' # "ReleaseOut"
          BY <2>2, <4>1 DEF OwnLabels
        <5> QED BY <4>1, <5>1, <5>2 DEF Writing, Bit
      <4>2. CASE q # a
        BY <1>2, <4>2 DEF Writing, Bit
      <4> QED BY <4>1, <4>2
    <3>2. obj'[q] = obj[q] /\ Rank(q)' = Rank(q) /\ (q \in procTable') = (q \in procTable) /\
          (q \in thrTable') = (q \in thrTable) /\ nextPid' = nextPid
      BY <1>3, <1>7, <2>2
    <3> QED BY <2>0, <3>1, <3>2, Zenon
  <2> QED BY <2>1, <2>2
<1> QED BY <1>4, <1>8, <1>9, <1>10, <1>14, <1>15 DEF RuntimeInv

\* What a caller in a service knows of the process it works on.
LEMMA BusyMeans ==
  ASSUME RuntimeInv, NEW a \in Callers, Busy(a)
  PROVE  /\ a \in Actors /\ act \in [Actors -> ActRecords] /\ Scripts /\ Step(a) # "none"
         /\ act[a].on \in Pids /\ obj[act[a].on] \in ObjectRecords /\
              obj[act[a].on].alloc = "live"
         /\ a \in Pids => obj[a].kthread = "STARTED"
         /\ Step(a) \in OwnLabels => act[a].on = a
         /\ Step(a) \in SpawnLabels \ {"MarkReady"} => obj[act[a].on].kthread = "NEW"
         /\ Step(a) = "MarkReady" => Rank(act[a].on) = 0 /\ obj[act[a].on].kthread # "NEW"
         /\ Step(a) \in {"RestoreOwner", "Consume", "ReleaseConsumed"} => obj[act[a].on].event
         /\ act[a].arg \in Nat /\ act[a].fg \in BOOLEAN /\ act[a].on \in Nat /\ fgOwner \in Nat
<1>1. a \in Actors /\ Pids \subseteq Nat
  BY Actors3
<1>2. /\ RuntimeTypes /\ Scripts /\ CallerOk(a)
  BY DEF RuntimeInv
<1>3. act[a] \in ActRecords /\ act \in [Actors -> ActRecords] /\
      obj \in [Pids -> ObjectRecords] /\ fgOwner \in Nat
  BY <1>1, <1>2 DEF RuntimeTypes
<1>4. act[a].arg \in Nat /\ act[a].fg \in BOOLEAN
  BY <1>3 DEF ActRecords
<1>5. Step(a) # "none"
  BY DEF Busy
<1>6. act[a].on \in Pids /\ obj[act[a].on].alloc = "live"
  BY <1>2 DEF CallerOk
<1> QED BY <1>1, <1>2, <1>3, <1>4, <1>5, <1>6 DEF CallerOk

\* A live process is there.
LEMMA LiveMeans ==
  ASSUME RuntimeInv, NEW p \in Pids, obj[p].alloc = "live"
  PROVE  /\ TableOk(obj[p].table) /\ Present(obj[p], Rank(p), p \in procTable, p \in thrTable,
              Writing(p))
         /\ Counted(obj[p], Cardinality(Held(p))) /\ obj[p] \in ObjectRecords
<1>1. Processes /\ Counts /\ RuntimeTypes
  BY DEF RuntimeInv
<1>2. TableOk(obj[p].table) /\ Present(obj[p], Rank(p), p \in procTable, p \in thrTable,
      Writing(p))
  BY <1>1 DEF Processes, Absent
<1>3. Counted(obj[p], Cardinality(Held(p)))
  BY <1>1 DEF Counts, Counted
<1>4. obj[p] \in ObjectRecords
  BY <1>1 DEF RuntimeTypes
<1> QED BY <1>2, <1>3, <1>4

-----------------------------------------------------------------------------
(* Steps that leave references and finalization alone.                     *)

\* Changes of a record that leave its references, its place in the tables and
\* its finalization alone.
Quiet(s, r) ==
  /\ s.alloc = r.alloc /\ s.retained = r.retained /\ s.event = r.event /\ s.payload = r.payload
  /\ s.threadAlloc = r.threadAlloc /\ s.threadOwns = r.threadOwns /\ s.kthread = r.kthread
  /\ s.table = r.table /\ s.refs = r.refs /\ s.stdoutRefs = r.stdoutRefs /\
       s.threadRefs = r.threadRefs
  /\ (s.state = "TERMINATED") = (r.state = "TERMINATED")

\* A quiet change leaves the process where it was.
LEMMA QuietIsQuiet ==
  ASSUME NEW r, NEW s, Quiet(s, r), NEW k, NEW listed \in BOOLEAN, NEW thread \in BOOLEAN,
      NEW out, NEW h
  PROVE  /\ Absent(r, k, listed, thread) => Absent(s, k, listed, thread)
         /\ Present(r, k, listed, thread, out) => Present(s, k, listed, thread, out)
         /\ Counted(r, h) => Counted(s, h)
<1>1. Absent(r, k, listed, thread) => Absent(s, k, listed, thread)
  BY DEF Quiet, Absent
<1>2. Present(r, k, listed, thread, out) => Present(s, k, listed, thread, out)
  BY DEF Quiet, Present
<1>3. Counted(r, h) => Counted(s, h)
  BY DEF Quiet, Counted
<1> QED BY <1>1, <1>2, <1>3

\* A quiet step of a service under way, from step l to step m.
QuietStep(a, p, l, m, r) ==
  /\ Busy(a) /\ act[a].on = p /\ Step(a) = l /\ Step(a)' = m
  /\ act' \in [Actors -> ActRecords] /\ Scripts' /\ (m # "none" => act'[a].on = p)
  /\ \A b \in Actors : b # a => act'[b] = act[b] /\ Step(b)' = Step(b)
  /\ obj' = [obj EXCEPT ![p] = r] /\ Quiet(r, obj[p])
  /\ reapQueue' = reapQueue /\ nextPid' = nextPid /\ thrTable' = thrTable
  /\ procTable' = procTable /\ fgOwner' \in Nat
  /\ Weight(m) = Weight(l) /\ m \notin {"MarkReady", "ReleaseOut"} /\ l # "ReleaseOut"
  /\ m \in SpawnLabels => l \in SpawnLabels \ {"MarkReady"}
  /\ m \in OwnLabels => l \in OwnLabels
  /\ m \in {"RestoreOwner", "Consume", "ReleaseConsumed"} => obj[p].event

\* A quiet step of a service keeps the invariant.
LEMMA QuietAdvance ==
  ASSUME RuntimeInv, NEW a \in Callers, NEW p \in Pids, NEW r \in ObjectRecords, NEW l, NEW m,
      QuietStep(a, p, l, m, r)
  PROVE  RuntimeInv'
<1>0. /\ Busy(a) /\ act[a].on = p /\ Step(a) = l /\ Step(a)' = m
      /\ act' \in [Actors -> ActRecords] /\ Scripts' /\ (m # "none" => act'[a].on = p)
      /\ \A b \in Actors : b # a => act'[b] = act[b] /\ Step(b)' = Step(b)
      /\ obj' = [obj EXCEPT ![p] = r] /\ Quiet(r, obj[p])
      /\ reapQueue' = reapQueue /\ nextPid' = nextPid /\ thrTable' = thrTable
      /\ procTable' = procTable /\ fgOwner' \in Nat
      /\ Weight(m) = Weight(l) /\ m \notin {"MarkReady", "ReleaseOut"} /\ l # "ReleaseOut"
      /\ m \in SpawnLabels => l \in SpawnLabels \ {"MarkReady"}
      /\ m \in OwnLabels => l \in OwnLabels
      /\ m \in {"RestoreOwner", "Consume", "ReleaseConsumed"} => obj[p].event
  BY Zenon DEF QuietStep
<1>1. /\ p \in Pids /\ obj[p].alloc = "live" /\ (a \in Pids => obj[a].kthread = "STARTED")
      /\ (l \in OwnLabels => act[a].on = a)
      /\ (l \in SpawnLabels \ {"MarkReady"} => obj[p].kthread = "NEW")
  BY <1>0, BusyMeans
<1>2. /\ TableOk(obj[p].table) /\ Present(obj[p], Rank(p), p \in procTable, p \in thrTable,
           Writing(p))
      /\ Counted(obj[p], Cardinality(Held(p)))
  BY <1>1, LiveMeans
<1>3. /\ TableOk(r.table) /\ Present(r, Rank(p), p \in procTable, p \in thrTable, Writing(p)) /\
           Counted(r, Cardinality(Held(p)))
  <2>1. r.table = obj[p].table
    BY <1>0 DEF Quiet
  <2>2. (p \in procTable) \in BOOLEAN /\ (p \in thrTable) \in BOOLEAN
    OBVIOUS
  <2>3. Present(r, Rank(p), p \in procTable, p \in thrTable, Writing(p))
    BY <1>0, <1>2 DEF Quiet, Present
  <2>4. Counted(r, Cardinality(Held(p)))
    BY <1>0, <1>2, <2>2, QuietIsQuiet, Zenon
  <2> QED BY <1>2, <2>1, <2>3, <2>4
<1>4. Writing(p)' = Writing(p)
  <2>1. CASE p = a
    BY <1>0, <2>1 DEF Writing, Bit
  <2>2. CASE p # a
    BY <1>0, <1>1, <2>2, Actors3 DEF Writing, Bit
  <2> QED BY <2>1, <2>2
<1>5. r.alloc = "live" /\ r.kthread = obj[p].kthread /\ r.event = obj[p].event
  BY <1>0, <1>1 DEF Quiet
<1>6. Cardinality(Held(p)) + Weight(m) - Weight(l) = Cardinality(Held(p))
  <2>1. Cardinality(Held(p)) \in Nat /\ Weight(l) \in 0 .. 2
    BY NobodyHolds, Weights
  <2> QED BY <1>0, <2>1
<1>7. Present(r, Rank(p), p \in procTable', p \in thrTable, Writing(p)')
  BY <1>0, <1>3, <1>4
<1>8. Counted(r, Cardinality(Held(p)) + Weight(Step(a)') - Weight(Step(a)))
  BY <1>0, <1>3, <1>6
<1>9. procTable' \subseteq Pids
  BY <1>0 DEF RuntimeInv, RuntimeTypes
<1>10. Step(a)' \in OwnLabels => act'[a].on = a
  BY <1>0, <1>1 DEF OwnLabels
<1>11. Step(a)' \notin {"none", "Return"} => act'[a].on = p /\ r.alloc = "live"
  BY <1>0, <1>5
<1>12. Step(a)' \in SpawnLabels => Step(a) \in SpawnLabels /\ r.kthread = "NEW"
  BY <1>0, <1>1, <1>5
<1> QED BY <1>0, <1>1, <1>3, <1>5, <1>7, <1>8, <1>9, <1>10, <1>11, <1>12, CallerKeeps

\* A service under way goes on quietly: with its next step, or giving up.
Rest == UNCHANGED <<procTable, thrTable, nextPid, reapQueue>>

\* So does a quiet step to the next step of the service ...
LEMMA QuietWalk ==
  ASSUME RuntimeInv, NEW a \in Callers, NEW l, l = Step(a),
      l \notin {"none", "Return", "ReleaseOut"}, Advance(a), Rest, fgOwner' \in Nat,
         NEW r \in ObjectRecords, Quiet(r, obj[act[a].on]),
             obj' = [obj EXCEPT ![act[a].on] = r],
         NEW m, m = Following(a, l),
         Weight(m) = Weight(l), m \notin {"MarkReady", "ReleaseOut"},
         m \in SpawnLabels => l \in SpawnLabels \ {"MarkReady"}, m \in OwnLabels =>
             l \in OwnLabels,
         m \in {"RestoreOwner", "Consume", "ReleaseConsumed"} => obj[act[a].on].event
  PROVE  RuntimeInv'
<1>1. Busy(a)
  BY DEF Busy
<1>2. a \in Actors /\ act \in [Actors -> ActRecords] /\ Scripts /\ act[a].on \in Pids
  BY <1>1, BusyMeans
<1>3. /\ act' \in [Actors -> ActRecords] /\ Scripts' /\ Step(a)' = m
      /\ m # "none" => act'[a].on = act[a].on
      /\ \A b \in Actors : b # a => act'[b] = act[b] /\ Step(b)' = Step(b)
  BY <1>2, AdvanceTo
<1>4. PICK p \in Pids : p = act[a].on
  BY <1>2
<1>5. reapQueue' = reapQueue /\ nextPid' = nextPid /\ thrTable' = thrTable /\
      procTable' = procTable
  BY DEF Rest
<1>6. obj' = [obj EXCEPT ![p] = r] /\ Quiet(r, obj[p])
  BY <1>4
<1>7. m \in {"RestoreOwner", "Consume", "ReleaseConsumed"} => obj[p].event
  BY <1>4
<1>8. act[a].on = p /\ Step(a) = l /\ l # "ReleaseOut" /\ m \notin {"MarkReady", "ReleaseOut"}
  BY <1>4
<1>9. m # "none" => act'[a].on = p
  BY <1>3, <1>8
<1>10. QuietStep(a, p, l, m, r)
  BY <1>1, <1>3, <1>5, <1>6, <1>7, <1>8, <1>9 DEF QuietStep
<1> QED BY <1>10, QuietAdvance

\* ... and one that leaves the service early.
LEMMA QuietGiveUp ==
  ASSUME RuntimeInv, NEW a \in Callers, Step(a) \in WaitLabels \cup LaneLabels,
      Weight(Step(a)) = 1,
         NEW m \in {"ReleaseChild", "UndoOwner"}, m = "UndoOwner" => a \in KernelCallers,
         Continue(a, Script(a, m)), Rest, UNCHANGED <<obj, fgOwner>>
  PROVE  RuntimeInv'
<1>1. Busy(a)
  BY DEF Busy, WaitLabels, LaneLabels
<1>2. a \in Actors /\ act \in [Actors -> ActRecords] /\ Scripts /\ act[a].on \in Pids /\
      fgOwner \in Nat /\ obj[act[a].on] \in ObjectRecords
  BY <1>1, BusyMeans
<1>3. m \in LabelsOf(a)
  BY Actors3 DEF LabelsOf, WaitLabels, LaneLabels
<1>4. /\ act' \in [Actors -> ActRecords] /\ Scripts' /\ Step(a)' = m
      /\ m # "none" => act'[a].on = act[a].on
      /\ \A b \in Actors : b # a => act'[b] = act[b] /\ Step(b)' = Step(b)
  BY <1>2, <1>3, ContinueTo
<1>5. PICK p \in Pids : p = act[a].on
  BY <1>2
<1>6. PICK l : l = Step(a)
  OBVIOUS
<1>7. PICK r \in ObjectRecords : r = obj[p]
  BY <1>2, <1>5
<1>8. Quiet(r, obj[p])
  BY <1>7 DEF Quiet
<1>9. obj' = [obj EXCEPT ![p] = r]
  <2>1. obj \in [Pids -> ObjectRecords]
    BY DEF RuntimeInv, RuntimeTypes
  <2> QED BY <1>7, <2>1
<1>10. Weight(m) = 1 /\ m \notin SpawnLabels /\ m \notin OwnLabels /\
       m \notin {"MarkReady", "ReleaseOut", "RestoreOwner", "Consume", "ReleaseConsumed"}
  BY DEF Weight, WaitLabels, LaneLabels, SpawnLabels, OwnLabels
<1>11. l # "ReleaseOut"
  BY <1>6 DEF WaitLabels, LaneLabels
<1>12. reapQueue' = reapQueue /\ nextPid' = nextPid /\ thrTable' = thrTable /\
       procTable' = procTable /\ fgOwner' \in Nat
  BY <1>2 DEF Rest
<1>13. m # "none" => act'[a].on = p
  BY <1>4, <1>5
<1>14. Weight(m) = Weight(l)
  BY <1>6, <1>10
<1>15. QuietStep(a, p, l, m, r)
  BY <1>1, <1>4, <1>5, <1>6, <1>8, <1>9, <1>10, <1>11, <1>12, <1>13, <1>14 DEF QuietStep
<1> QED BY <1>15, QuietAdvance

\* The same, when no record changes.
LEMMA QuietMove ==
  ASSUME RuntimeInv, NEW a \in Callers, NEW l, l = Step(a),
      l \notin {"none", "Return", "ReleaseOut"}, Advance(a), Rest, fgOwner' \in Nat,
      UNCHANGED obj,
         NEW m, m = Following(a, l),
         Weight(m) = Weight(l), m \notin {"MarkReady", "ReleaseOut"},
         m \in SpawnLabels => l \in SpawnLabels \ {"MarkReady"}, m \in OwnLabels =>
             l \in OwnLabels,
         m \in {"RestoreOwner", "Consume", "ReleaseConsumed"} => obj[act[a].on].event
  PROVE  RuntimeInv'
<1>1. Busy(a)
  BY DEF Busy
<1>2. act[a].on \in Pids /\ obj[act[a].on] \in ObjectRecords
  BY <1>1, BusyMeans
<1>3. PICK r \in ObjectRecords : r = obj[act[a].on]
  BY <1>2
<1>4. Quiet(r, obj[act[a].on])
  BY <1>3 DEF Quiet
<1>5. obj' = [obj EXCEPT ![act[a].on] = r]
  <2>1. obj \in [Pids -> ObjectRecords]
    BY DEF RuntimeInv, RuntimeTypes
  <2> QED BY <1>2, <1>3, <2>1
<1> QED BY <1>4, <1>5, QuietWalk

\* The steps of a spawner and of a parent that move no reference.
LEMMA SetOwnerKeeps ==
  ASSUME RuntimeInv, NEW a \in Callers, SetOwner(a)
  PROVE  RuntimeInv'
<1>1. Step(a) = "SetOwner" /\ Advance(a) /\ fgOwner' = act[a].on /\ UNCHANGED obj /\ Rest
  BY DEF SetOwner, Rest
<1>2. Following(a, "SetOwner") = "MarkControl"
  BY DEF Following, After
<1>3. fgOwner' \in Nat
  BY <1>1, BusyMeans DEF Busy
<1>4. /\ Weight("MarkControl") = Weight("SetOwner")
      /\ "MarkControl" \in SpawnLabels /\ "SetOwner" \in SpawnLabels \ {"MarkReady"} /\
           "MarkControl" \notin OwnLabels
  BY DEF Weight, SpawnLabels, OwnLabels, WaitLabels, LaneLabels
<1> QED BY <1>1, <1>2, <1>3, <1>4, QuietMove

\* ExRuntimeMarkProcessControl.
LEMMA MarkControlKeeps ==
  ASSUME RuntimeInv, NEW a \in Callers, MarkControl(a)
  PROVE  RuntimeInv'
<1>1. Step(a) = "MarkControl" /\ Advance(a) /\ Rest /\ fgOwner' = fgOwner
  BY DEF MarkControl, Rest
<1>2. Following(a, "MarkControl") = "Start"
  BY DEF Following, After
<1>3. fgOwner \in Nat /\ act[a].on \in Pids /\ act[a].arg \in Nat /\ act[a].fg \in BOOLEAN /\
      obj[act[a].on] \in ObjectRecords
  BY <1>1, BusyMeans DEF Busy
<1>4. PICK p \in Pids : p = act[a].on
  BY <1>3
<1> DEFINE c == [obj[p] EXCEPT !.foreground = act[a].fg, !.restore = act[a].arg]
<1>5. PICK r : r = c
  OBVIOUS
<1>6. obj' = [obj EXCEPT ![p] = r]
  <2>1. obj \in [Pids -> ObjectRecords]
    BY DEF RuntimeInv, RuntimeTypes
  <2>2. obj' = [obj EXCEPT ![p].foreground = act[a].fg, ![p].restore = act[a].arg]
    BY <1>4 DEF MarkControl
  <2> QED BY <1>4, <1>5, <2>1, <2>2
<1>7. r \in ObjectRecords
  BY <1>3, <1>4, <1>5 DEF ObjectRecords
<1>8. Quiet(r, obj[p])
  BY <1>3, <1>4, <1>5 DEF ObjectRecords, Quiet
<1>9. /\ Weight("Start") = Weight("MarkControl")
      /\ "Start" \in SpawnLabels /\ "MarkControl" \in SpawnLabels \ {"MarkReady"} /\
           "Start" \notin OwnLabels
  BY DEF Weight, SpawnLabels, OwnLabels, WaitLabels, LaneLabels
<1>10. obj' = [obj EXCEPT ![act[a].on] = r] /\ Quiet(r, obj[act[a].on])
  BY <1>4, <1>6, <1>8
<1> QED BY <1>1, <1>2, <1>3, <1>7, <1>9, <1>10, QuietWalk

\* What the labels are to the lemmas above.
LEMMA Facts ==
  /\ \A l \in {"none", "Return"} : Weight(l) = 0 /\ l \notin SpawnLabels /\ l \notin OwnLabels
  /\ \A l \in {"RequestKill", "WaitCompletion", "RestoreOwner", "Consume", "ReleaseChild",
       "ReadOwner", "CheckForeground",
               "TakeOwner", "RecordForeground", "UndoOwner"} :
        Weight(l) = 1 /\ l \notin SpawnLabels /\ l \notin OwnLabels /\
            l \in WaitLabels \cup LaneLabels
  /\ Weight("ReleaseConsumed") = 2 /\ "ReleaseConsumed" \notin SpawnLabels /\
       "ReleaseConsumed" \notin OwnLabels
  /\ \A l \in {"CloseSlot", "ReleaseOwner", "WaitOne", "ReleaseResolved"} : Weight(l) = 1 /\
       l \notin SpawnLabels /\ l \in OwnLabels
  /\ \A l \in {"Sleep", "RetainOwner", "RetainWaited", "ReleaseOut"} : Weight(l) = 0 /\
       l \notin SpawnLabels /\ l \in OwnLabels
  /\ Weight("ReleaseObject") = 2 /\ "ReleaseObject" \notin SpawnLabels /\
       "ReleaseObject" \in OwnLabels
  /\ \A l \in SpawnLabels : Weight(l) = 0 /\ l \notin OwnLabels
  BY DEF Weight, SpawnLabels, OwnLabels, WaitLabels, LaneLabels

\* Where a service ends.
LEMMA EndsAre ==
  ASSUME NEW a
  PROVE  Ends(a) \in {"none", "Return"}
  BY DEF Ends

\* ExRuntimeWaitForProcessCompletion returns.
LEMMA WaitCompletionKeeps ==
  ASSUME RuntimeInv, NEW a \in Callers, WaitCompletion(a)
  PROVE  RuntimeInv'
<1>1. Step(a) = "WaitCompletion" /\ Advance(a) /\ fgOwner' = fgOwner /\ UNCHANGED obj /\ Rest /\
      obj[act[a].on].event
  BY DEF WaitCompletion, Rest
<1>2. Following(a, "WaitCompletion") = "RestoreOwner"
  BY DEF Following, After
<1>3. fgOwner' \in Nat
  BY <1>1, BusyMeans DEF Busy
<1> QED BY <1>1, <1>2, <1>3, Facts, QuietMove

\* KiRestoreForegroundOwner.
LEMMA RestoreOwnerKeeps ==
  ASSUME RuntimeInv, NEW a \in Callers, RestoreOwner(a)
  PROVE  RuntimeInv'
<1>1. /\ Step(a) = "RestoreOwner" /\ Advance(a) /\ UNCHANGED obj /\ Rest
      /\ fgOwner' = IF obj[act[a].on].foreground THEN obj[act[a].on].restore ELSE fgOwner
  BY DEF RestoreOwner, Rest
<1>2. Following(a, "RestoreOwner") = "Consume"
  BY DEF Following, After
<1>3. obj[act[a].on] \in ObjectRecords /\ fgOwner \in Nat /\ obj[act[a].on].event
  BY <1>1, BusyMeans DEF Busy
<1>4. obj[act[a].on].restore \in Nat
  BY <1>3 DEF ObjectRecords
<1>5. fgOwner' \in Nat
  BY <1>1, <1>3, <1>4
<1> QED BY <1>1, <1>2, <1>3, <1>5, Facts, QuietMove

\* The lane is taken for a process.
LEMMA TakeOwnerKeeps ==
  ASSUME RuntimeInv, NEW a \in Callers, TakeOwner(a)
  PROVE  RuntimeInv'
<1>1. Step(a) = "TakeOwner" /\ Advance(a) /\ fgOwner' = act[a].on /\ UNCHANGED obj /\ Rest
  BY DEF TakeOwner, Rest
<1>2. Following(a, "TakeOwner") = "RecordForeground"
  BY DEF Following, After
<1>3. fgOwner' \in Nat
  BY <1>1, BusyMeans DEF Busy
<1> QED BY <1>1, <1>2, <1>3, Facts, QuietMove

\* The lane goes back to its earlier owner.
LEMMA UndoOwnerKeeps ==
  ASSUME RuntimeInv, NEW a \in Callers, UndoOwner(a)
  PROVE  RuntimeInv'
<1>1. Step(a) = "UndoOwner" /\ Advance(a) /\ fgOwner' = act[a].arg /\ UNCHANGED obj /\ Rest
  BY DEF UndoOwner, Rest
<1>2. Following(a, "UndoOwner") = "ReleaseChild"
  BY DEF Following, After
<1>3. fgOwner' \in Nat
  BY <1>1, BusyMeans DEF Busy
<1> QED BY <1>1, <1>2, <1>3, Facts, QuietMove

\* A sleep or a wait ends.
LEMMA WakeKeeps ==
  ASSUME RuntimeInv, NEW a \in Pids, Wake(a)
  PROVE  RuntimeInv'
<1>0. a \in Callers
  BY Actors3
<1>1. Step(a) \in {"Sleep", "WaitOne"} /\ Advance(a) /\ fgOwner' = fgOwner /\ UNCHANGED obj /\
      Rest
  BY DEF Wake, Rest
<1>2. Following(a, "Sleep") = Ends(a) /\ Following(a, "WaitOne") = "ReleaseResolved"
  BY DEF Following, After
<1>3. fgOwner' \in Nat
  BY <1>0, <1>1, BusyMeans DEF Busy
<1>4. CASE Step(a) = "Sleep"
  BY <1>0, <1>1, <1>2, <1>3, <1>4, Facts, EndsAre, QuietMove
<1>5. CASE Step(a) = "WaitOne"
  BY <1>0, <1>1, <1>2, <1>3, <1>5, Facts, QuietMove
<1> QED BY <1>1, <1>4, <1>5

\* A caller that gives up still has to release the child.
LEMMA GivingUp ==
  ASSUME NEW a
  PROVE  /\ GiveUp(a) = Script(a, "ReleaseChild")
         /\ <<"UndoOwner">> \o GiveUp(a) = Script(a, "UndoOwner")
<1>1. GiveUp(a) = Script(a, "ReleaseChild")
  BY Bodies DEF GiveUp, Script
<1>2. Script(a, "UndoOwner") = <<"UndoOwner", "ReleaseChild">> \o Ending(a)
  BY Bodies DEF Script
<1>3. <<"UndoOwner">> \in Seq(Labels) /\ <<"ReleaseChild">> \in Seq(Labels) /\
      Ending(a) \in Seq(Labels)
  <2>1. "UndoOwner" \in Labels /\ "ReleaseChild" \in Labels
    BY DEF Labels, LaneLabels, WaitLabels
  <2> QED BY <2>1, Endings
<1>4. <<"UndoOwner">> \o (<<"ReleaseChild">> \o Ending(a)) = (<<"UndoOwner">> \o <<"ReleaseChild">>) \o Ending(a)
  BY <1>3, ConcatAssociative
<1>5. <<"UndoOwner">> \o <<"ReleaseChild">> = <<"UndoOwner", "ReleaseChild">>
  <2> DEFINE s == <<"UndoOwner">> \o <<"ReleaseChild">>
             t == <<"UndoOwner", "ReleaseChild">>
  <2>0. LET x == <<"UndoOwner">>
            y == <<"ReleaseChild">>
        IN  /\ x \in Seq(Labels) /\ y \in Seq(Labels) /\ Len(x) = 1 /\ Len(y) = 1
            /\ x[1] = "UndoOwner" /\ y[1] = "ReleaseChild"
    BY <1>3
  <2>1. s \in Seq(Labels) /\ Len(s) = 2 /\ s[1] = "UndoOwner" /\ s[2] = "ReleaseChild"
    BY <2>0
  <2>2. t \in Seq(Labels) /\ Len(t) = 2 /\ t[1] = "UndoOwner" /\ t[2] = "ReleaseChild"
    <3>1. "UndoOwner" \in Labels /\ "ReleaseChild" \in Labels
      BY DEF Labels, LaneLabels, WaitLabels
    <3> QED BY <3>1
  <2> HIDE DEF s, t
  <2>3. \A i \in 1 .. Len(s) : s[i] = t[i]
    BY <2>1, <2>2
  <2>4. s = t
    BY <2>1, <2>2, <2>3, SeqEqual
  <2> QED BY <2>4 DEF s, t
<1> QED BY <1>1, <1>2, <1>4, <1>5 DEF GiveUp

\* ExRuntimeRequestProcessKill.
LEMMA RequestKillKeeps ==
  ASSUME RuntimeInv, NEW a \in Callers, RequestKill(a)
  PROVE  RuntimeInv'
<1>1. Step(a) = "RequestKill" /\ Rest /\ fgOwner' = fgOwner
  BY DEF RequestKill, Rest
<1>2. fgOwner \in Nat /\ act[a].on \in Pids /\ obj[act[a].on] \in ObjectRecords
  BY <1>1, BusyMeans DEF Busy
<1>3. CASE obj[act[a].on].kill
  <2>1. Continue(a, Script(a, "ReleaseChild")) /\ UNCHANGED <<obj, fgOwner>>
    BY <1>3, GivingUp DEF RequestKill
  <2> QED BY <1>1, <2>1, Facts, QuietGiveUp
<1>4. CASE ~obj[act[a].on].kill
  <2>1. PICK p \in Pids : p = act[a].on
    BY <1>2
  <2>2. obj' = [obj EXCEPT ![p].kill = TRUE] /\ Advance(a)
    BY <1>4, <2>1 DEF RequestKill
  <2>3. PICK r : r = [obj[p] EXCEPT !.kill = TRUE]
    OBVIOUS
  <2>4. obj' = [obj EXCEPT ![act[a].on] = r]
    <3>1. obj \in [Pids -> ObjectRecords]
      BY DEF RuntimeInv, RuntimeTypes
    <3> QED BY <2>1, <2>2, <2>3, <3>1
  <2>5. r \in ObjectRecords
    BY <1>2, <2>1, <2>3 DEF ObjectRecords
  <2>6. Quiet(r, obj[p])
    BY <1>2, <2>1, <2>3 DEF ObjectRecords, Quiet
  <2>7. Following(a, "RequestKill") = "WaitCompletion"
    BY DEF Following, After
  <2>8. Quiet(r, obj[act[a].on])
    BY <2>1, <2>6
  <2>9. /\ Weight("WaitCompletion") = Weight("RequestKill")
        /\ "WaitCompletion" \notin SpawnLabels /\ "WaitCompletion" \notin OwnLabels
    BY Facts
  <2> QED BY <1>1, <1>2, <2>2, <2>4, <2>5, <2>7, <2>8, <2>9, QuietWalk
<1> QED BY <1>3, <1>4

\* The late write of the process state by ExRuntimeStartThread.
LEMMA MarkReadyKeeps ==
  ASSUME RuntimeInv, NEW a \in Callers, MarkReady(a)
  PROVE  RuntimeInv'
<1>1. Step(a) = "MarkReady" /\ Rest /\ fgOwner' = fgOwner /\ Advance(a)
  BY DEF MarkReady, Rest
<1>2. /\ fgOwner \in Nat /\ act[a].on \in Pids /\ obj[act[a].on] \in ObjectRecords
      /\ obj[act[a].on].alloc = "live" /\ Rank(act[a].on) = 0
  BY <1>1, BusyMeans DEF Busy
<1>3. PICK p \in Pids : p = act[a].on
  BY <1>2
<1>4. PICK r : r = [obj[p] EXCEPT !.state = "READY"]
  OBVIOUS
<1>5. obj' = [obj EXCEPT ![act[a].on] = r]
  <2>1. obj \in [Pids -> ObjectRecords]
    BY DEF RuntimeInv, RuntimeTypes
  <2>2. obj' = [obj EXCEPT ![p].state = "READY"]
    BY <1>3 DEF MarkReady
  <2> QED BY <1>3, <1>4, <2>1, <2>2
<1>6. r \in ObjectRecords
  BY <1>2, <1>3, <1>4 DEF ObjectRecords
<1>7. obj[p].state # "TERMINATED"
  <2>1. Present(obj[p], Rank(p), p \in procTable, p \in thrTable, Writing(p))
    BY <1>2, <1>3, LiveMeans
  <2>2. Rank(p) = 0
    BY <1>2, <1>3
  <2> QED BY <2>1, <2>2 DEF Present
<1>8. Quiet(r, obj[act[a].on])
  BY <1>2, <1>3, <1>4, <1>7 DEF ObjectRecords, Quiet
<1>9. Following(a, "MarkReady") = Ends(a) /\ "MarkReady" \in SpawnLabels
  BY DEF Following, After, SpawnLabels
<1> QED BY <1>1, <1>2, <1>5, <1>6, <1>8, <1>9, Facts, EndsAre, QuietWalk, ZenonT(60)

\* The owner to restore is read.
LEMMA ReadOwnerKeeps ==
  ASSUME RuntimeInv, NEW a \in Callers, ReadOwner(a)
  PROVE  RuntimeInv'
<1>1. Step(a) = "ReadOwner" /\ Rest /\ UNCHANGED <<obj, fgOwner>>
      /\ act' = [act EXCEPT ![a] = [Continued(a, Tail(act[a].steps)) EXCEPT !.arg = fgOwner]]
  BY DEF ReadOwner, Rest
<1>2. Busy(a)
  BY <1>1 DEF Busy
<1>3. /\ a \in Actors /\ act \in [Actors -> ActRecords] /\ Scripts /\ act[a].on \in Pids /\
           fgOwner \in Nat
      /\ obj[act[a].on] \in ObjectRecords /\ act[a] \in ActRecords
  BY <1>2, BusyMeans
<1>4. Following(a, "ReadOwner") = "CheckForeground"
  BY DEF Following, After
<1>5. /\ "CheckForeground" \in LabelsOf(a) /\ Tail(act[a].steps) = Script(a, "CheckForeground")
      /\ Script(a, "CheckForeground") \in Seq(Labels) /\ Script(a, "CheckForeground") # << >>
  <2>1. "ReadOwner" \in LabelsOf(a) /\ act[a].steps = Script(a, "ReadOwner")
    BY <1>1, <1>3 DEF Scripts
  <2>2. "CheckForeground" \in LabelsOf(a)
    BY <1>3, <1>4, <2>1, ActorLabels
  <2> QED BY <1>3, <1>4, <2>1, <2>2, ScriptFacts
<1> DEFINE c == [Continued(a, Script(a, "CheckForeground")) EXCEPT !.arg = fgOwner]
           d == [act[a] EXCEPT !.steps = Script(a, "CheckForeground")]
<1>6. c = [d EXCEPT !.arg = fgOwner]
  BY <1>5 DEF Continued
<1>7. c \in ActRecords /\ c.steps = Script(a, "CheckForeground") /\ c.on = act[a].on
  <2>1. d \in ActRecords /\ d.steps = Script(a, "CheckForeground") /\ d.on = act[a].on
    BY <1>3, <1>5 DEF ActRecords
  <2> HIDE DEF c, d
  <2> QED BY <1>3, <1>6, <2>1 DEF ActRecords
<1>8. act' = [act EXCEPT ![a] = c]
  BY <1>1, <1>5
<1> HIDE DEF c
<1>9. /\ act' \in [Actors -> ActRecords] /\ Scripts' /\ act'[a] = c /\
           Step(a)' = "CheckForeground"
      /\ \A b \in Actors : b # a => act'[b] = act[b] /\ Step(b)' = Step(b)
  BY <1>3, <1>5, <1>7, <1>8, MoveTo
<1>10. PICK p \in Pids : p = act[a].on
  BY <1>3
<1>11. PICK r \in ObjectRecords : r = obj[p]
  BY <1>3, <1>10
<1>12. obj' = [obj EXCEPT ![p] = r] /\ Quiet(r, obj[p])
  <2>1. obj \in [Pids -> ObjectRecords]
    BY DEF RuntimeInv, RuntimeTypes
  <2> QED BY <1>1, <1>11, <2>1 DEF Quiet
<1>13. /\ Weight("CheckForeground") = Weight("ReadOwner") /\
            "CheckForeground" \notin SpawnLabels /\ "CheckForeground" \notin OwnLabels
  BY Facts
<1>14. reapQueue' = reapQueue /\ nextPid' = nextPid /\ thrTable' = thrTable /\
       procTable' = procTable /\ fgOwner' \in Nat
  BY <1>1, <1>3 DEF Rest
<1>15. act'[a].on = p
  BY <1>7, <1>9, <1>10
<1>16. QuietStep(a, p, "ReadOwner", "CheckForeground", r)
  BY <1>1, <1>2, <1>9, <1>10, <1>12, <1>13, <1>14, <1>15 DEF QuietStep
<1> QED BY <1>16, QuietAdvance

\* The first look of ExRuntimeSetProcessForeground ...
LEMMA CheckForegroundKeeps ==
  ASSUME RuntimeInv, NEW a \in Callers, CheckForeground(a)
  PROVE  RuntimeInv'
<1>1. Step(a) = "CheckForeground" /\ Rest /\ UNCHANGED <<obj, fgOwner>> /\
      (Advance(a) \/ Continue(a, GiveUp(a)))
  BY DEF CheckForeground, Rest
<1>2. Following(a, "CheckForeground") = "TakeOwner"
  BY DEF Following, After
<1>3. fgOwner' \in Nat
  BY <1>1, BusyMeans DEF Busy
<1>4. CASE Advance(a)
  BY <1>1, <1>2, <1>3, <1>4, Facts, QuietMove
<1>5. CASE Continue(a, GiveUp(a))
  <2>1. Continue(a, Script(a, "ReleaseChild"))
    BY <1>5, GivingUp
  <2> QED BY <1>1, <2>1, Facts, QuietGiveUp
<1> QED BY <1>1, <1>4, <1>5

\* ... and its second one.
LEMMA RecordForegroundKeeps ==
  ASSUME RuntimeInv, NEW a \in KernelCallers, RecordForeground(a)
  PROVE  RuntimeInv'
<1>0. a \in Callers
  BY Actors3
<1>1. Step(a) = "RecordForeground" /\ Rest /\ fgOwner' = fgOwner
  BY DEF RecordForeground, Rest
<1>2. fgOwner \in Nat /\ act[a].on \in Pids /\ obj[act[a].on] \in ObjectRecords /\
      act[a].arg \in Nat
  BY <1>0, <1>1, BusyMeans DEF Busy
<1>3. Following(a, "RecordForeground") = "ReleaseChild"
  BY DEF Following, After
<1>4. CASE ~MainThreadAlive(act[a].on)
  <2>1. Continue(a, Script(a, "UndoOwner")) /\ UNCHANGED <<obj, fgOwner>>
    BY <1>1, <1>4, GivingUp DEF RecordForeground
  <2> QED BY <1>0, <1>1, <2>1, Facts, QuietGiveUp
<1>5. CASE MainThreadAlive(act[a].on) /\ obj[act[a].on].foreground
  <2>1. Advance(a) /\ UNCHANGED obj
    BY <1>5 DEF RecordForeground
  <2> QED BY <1>0, <1>1, <1>2, <1>3, <2>1, Facts, QuietMove
<1>6. CASE MainThreadAlive(act[a].on) /\ ~obj[act[a].on].foreground
  <2>1. PICK p \in Pids : p = act[a].on
    BY <1>2
  <2>2. obj' = [obj EXCEPT ![p].foreground = TRUE, ![p].restore = act[a].arg] /\ Advance(a)
    BY <1>6, <2>1 DEF RecordForeground
  <2> DEFINE q == [obj[p] EXCEPT !.foreground = TRUE]
             c == [q EXCEPT !.restore = act[a].arg]
  <2>3. q \in ObjectRecords
    BY <1>2, <2>1 DEF ObjectRecords
  <2>4. c = [obj[p] EXCEPT !.foreground = TRUE, !.restore = act[a].arg]
    OBVIOUS
  <2>5. Quiet(c, obj[p])
    BY <1>2, <2>1 DEF ObjectRecords, Quiet
  <2>6. c \in ObjectRecords
    <3> HIDE DEF q
    <3> QED BY <1>2, <2>3 DEF ObjectRecords
  <2>7. obj' = [obj EXCEPT ![act[a].on] = c]
    <3>1. obj \in [Pids -> ObjectRecords]
      BY DEF RuntimeInv, RuntimeTypes
    <3> QED BY <2>1, <2>2, <2>4, <3>1
  <2> HIDE DEF q, c
  <2>8. Quiet(c, obj[act[a].on])
    BY <2>1, <2>5
  <2>9. Weight("ReleaseChild") = Weight("RecordForeground") /\
        "ReleaseChild" \notin SpawnLabels /\ "ReleaseChild" \notin OwnLabels
    BY Facts
  <2> QED BY <1>0, <1>1, <1>2, <1>3, <2>2, <2>6, <2>7, <2>8, <2>9, QuietWalk
<1> QED BY <1>4, <1>5, <1>6

-----------------------------------------------------------------------------
(* Steps that change a process and its references.                         *)

\* A step of caller a from step l to step m that gives process p the record r.
Gives(a, p, l, m, r) ==
  /\ TableOk(r.table) /\ act' \in [Actors -> ActRecords] /\ Scripts'
  /\ \A b \in Actors : b # a => act'[b] = act[b] /\ Step(b)' = Step(b)
  /\ Step(a) = l /\ Step(a)' = m
  /\ obj' = [obj EXCEPT ![p] = r]
  /\ reapQueue' = reapQueue /\ nextPid' = nextPid /\ thrTable' = thrTable /\ fgOwner' \in Nat
  /\ procTable' \subseteq Pids /\ \A q \in Pids : q # p =>
       (q \in procTable' <=> q \in procTable)
  /\ a \in Pids => obj[a].kthread = "STARTED"
  /\ l \notin {"none", "Return"} => act[a].on = p
  /\ m \in OwnLabels => act'[a].on = a
  /\ m \notin {"none", "Return"} => act'[a].on = p /\ r.alloc = "live"
  /\ m \in SpawnLabels => l \in SpawnLabels
  /\ m \in SpawnLabels \ {"MarkReady"} => r.kthread = "NEW"
  /\ m = "MarkReady" => Rank(p) = 0 /\ r.kthread # "NEW"
  /\ m \in {"RestoreOwner", "Consume", "ReleaseConsumed"} => r.event
  /\ r.kthread = obj[p].kthread \/ (obj[p].kthread = "NEW" /\ r.kthread = "STARTED" /\
       l \in SpawnLabels)
  /\ r = obj[p] \/ (r.alloc = "live" /\ (obj[p].event => r.event)) \/ NoOtherUser(a, p)
  /\ r = obj[p] \/ obj[p].alloc = "live"
  /\ r.alloc = "live" => Counted(r, Cardinality(Held(p)) + Weight(m) - Weight(l))
  /\ Absent(r, Rank(p), p \in procTable', p \in thrTable) \/
       Present(r, Rank(p), p \in procTable', p \in thrTable, Writing(p)')

\* Such a step keeps the invariant.
LEMMA GivesKeeps ==
  ASSUME RuntimeInv, NEW a \in Callers, NEW p \in Pids, NEW r \in ObjectRecords, NEW l, NEW m,
      Gives(a, p, l, m, r)
  PROVE  RuntimeInv'
<1>1. /\ TableOk(r.table) /\ act' \in [Actors -> ActRecords] /\ Scripts'
      /\ \A b \in Actors : b # a => act'[b] = act[b] /\ Step(b)' = Step(b)
      /\ obj' = [obj EXCEPT ![p] = r]
      /\ reapQueue' = reapQueue /\ nextPid' = nextPid /\ thrTable' = thrTable /\
           fgOwner' \in Nat
      /\ procTable' \subseteq Pids /\ \A q \in Pids : q # p =>
           (q \in procTable' <=> q \in procTable)
      /\ a \in Pids => obj[a].kthread = "STARTED"
      /\ r = obj[p] \/ (r.alloc = "live" /\ (obj[p].event => r.event)) \/ NoOtherUser(a, p)
      /\ r = obj[p] \/ obj[p].alloc = "live"
      /\ Absent(r, Rank(p), p \in procTable', p \in thrTable) \/
           Present(r, Rank(p), p \in procTable', p \in thrTable, Writing(p)')
  BY Zenon DEF Gives
<1>2. /\ Step(a)' \in OwnLabels => act'[a].on = a
      /\ Step(a)' \notin {"none", "Return"} => act'[a].on = p /\ r.alloc = "live"
      /\ Step(a)' \in SpawnLabels => Step(a) \in SpawnLabels
      /\ Step(a)' \in SpawnLabels \ {"MarkReady"} => r.kthread = "NEW"
      /\ Step(a)' = "MarkReady" => Rank(p) = 0 /\ r.kthread # "NEW"
      /\ Step(a)' \in {"RestoreOwner", "Consume", "ReleaseConsumed"} => r.event
      /\ r.kthread = obj[p].kthread \/ (obj[p].kthread = "NEW" /\ r.kthread = "STARTED" /\
           Step(a) \in SpawnLabels)
      /\ r.alloc = "live" => Counted(r, Cardinality(Held(p)) +
           Weight(Step(a)') - Weight(Step(a)))
  BY DEF Gives
<1>3. Busy(a) => act[a].on = p
  BY DEF Gives, Busy
<1> QED BY <1>1, <1>2, <1>3, CallerKeeps

\* The control of a step of caller a from step l to step m, on process p,
\* which gets the record r.
Moves(a, p, l, m, r) ==
  /\ act' \in [Actors -> ActRecords] /\ Scripts'
  /\ \A b \in Actors : b # a => act'[b] = act[b] /\ Step(b)' = Step(b)
  /\ Step(a) = l /\ Step(a)' = m
  /\ obj' = [obj EXCEPT ![p] = r]
  /\ reapQueue' = reapQueue /\ nextPid' = nextPid /\ thrTable' = thrTable /\ fgOwner' \in Nat /\
       procTable' = procTable
  /\ a \in Pids => obj[a].kthread = "STARTED"
  /\ l \notin {"none", "Return"} => act[a].on = p
  /\ m \notin {"none", "Return"} => act'[a].on = p
  /\ m \in OwnLabels => a = p
  /\ m \notin SpawnLabels /\ m \notin {"RestoreOwner", "Consume"}
  /\ m = "ReleaseConsumed" => obj[p].event

\* References move, and the process is otherwise as it was.
LEMMA AlikeGives ==
  ASSUME RuntimeInv, NEW a \in Callers, NEW p \in Pids, NEW r \in ObjectRecords, NEW l, NEW m,
      Moves(a, p, l, m, r),
         obj[p].alloc = "live", Alike(r, obj[p]), TableOk(r.table),
         Present(r, Rank(p), p \in procTable, p \in thrTable, Writing(p)'),
         Counted(r, Cardinality(Held(p)) + Weight(m) - Weight(l))
  PROVE  RuntimeInv'
<1>1. /\ act' \in [Actors -> ActRecords] /\ Scripts'
      /\ \A b \in Actors : b # a => act'[b] = act[b] /\ Step(b)' = Step(b)
      /\ Step(a) = l /\ Step(a)' = m
      /\ obj' = [obj EXCEPT ![p] = r]
      /\ reapQueue' = reapQueue /\ nextPid' = nextPid /\ thrTable' = thrTable /\
           fgOwner' \in Nat /\ procTable' = procTable
      /\ a \in Pids => obj[a].kthread = "STARTED"
      /\ l \notin {"none", "Return"} => act[a].on = p
      /\ m \notin {"none", "Return"} => act'[a].on = p
      /\ m \in OwnLabels => a = p
      /\ m \notin SpawnLabels /\ m \notin {"RestoreOwner", "Consume"}
      /\ m = "ReleaseConsumed" => obj[p].event
  BY Zenon DEF Moves
<1>2. r.alloc = "live" /\ r.kthread = obj[p].kthread /\ r.event = obj[p].event
  BY DEF Alike
<1>3. procTable' \subseteq Pids
  BY <1>1 DEF RuntimeInv, RuntimeTypes
<1>4. m \in OwnLabels => act'[a].on = a
  BY <1>1 DEF OwnLabels
<1>5. m # "MarkReady"
  BY <1>1 DEF SpawnLabels
<1>6. Present(r, Rank(p), p \in procTable', p \in thrTable, Writing(p)')
  BY <1>1
<1>7. Gives(a, p, l, m, r)
  BY <1>1, <1>2, <1>3, <1>4, <1>5, <1>6 DEF Gives
<1> QED BY <1>7, GivesKeeps

\* The last reference goes, and the process with it.
LEMMA FreedGives ==
  ASSUME RuntimeInv, NEW a \in Callers, NEW p \in Pids, NEW r \in ObjectRecords, NEW l, NEW m,
      Moves(a, p, l, m, r),
         m \in {"none", "Return"}, obj[p].alloc = "live", r.alloc = "freed",
             r.kthread = obj[p].kthread, TableOk(r.table),
         NoOtherUser(a, p), Absent(r, Rank(p), p \in procTable, p \in thrTable)
  PROVE  RuntimeInv'
<1>1. /\ act' \in [Actors -> ActRecords] /\ Scripts'
      /\ \A b \in Actors : b # a => act'[b] = act[b] /\ Step(b)' = Step(b)
      /\ Step(a) = l /\ Step(a)' = m
      /\ obj' = [obj EXCEPT ![p] = r]
      /\ reapQueue' = reapQueue /\ nextPid' = nextPid /\ thrTable' = thrTable /\
           fgOwner' \in Nat /\ procTable' = procTable
      /\ a \in Pids => obj[a].kthread = "STARTED"
      /\ l \notin {"none", "Return"} => act[a].on = p
      /\ m \notin SpawnLabels /\ m \notin {"RestoreOwner", "Consume"}
  BY Zenon DEF Moves
<1>2. procTable' \subseteq Pids
  BY <1>1 DEF RuntimeInv, RuntimeTypes
<1>3. m \notin OwnLabels
  BY DEF OwnLabels
<1>4. Absent(r, Rank(p), p \in procTable', p \in thrTable)
  BY <1>1
<1>5. Gives(a, p, l, m, r)
  BY <1>1, <1>2, <1>3, <1>4 DEF Gives
<1> QED BY <1>5, GivesKeeps

\* Nothing happens to the process, whether it is there or not.
LEMMA StillGives ==
  ASSUME RuntimeInv, NEW a \in Callers, NEW p \in Pids, NEW r \in ObjectRecords, NEW l, NEW m,
      Moves(a, p, l, m, r),
         r = obj[p], l \notin {"ReleaseOut"}, m \notin {"ReleaseOut", "ReleaseConsumed"},
             Weight(m) = Weight(l),
         m \in {"none", "Return"} \/ obj[p].alloc = "live"
  PROVE  RuntimeInv'
<1>1. /\ act' \in [Actors -> ActRecords] /\ Scripts'
      /\ \A b \in Actors : b # a => act'[b] = act[b] /\ Step(b)' = Step(b)
      /\ Step(a) = l /\ Step(a)' = m
      /\ obj' = [obj EXCEPT ![p] = r]
      /\ reapQueue' = reapQueue /\ nextPid' = nextPid /\ thrTable' = thrTable /\
           fgOwner' \in Nat /\ procTable' = procTable
      /\ a \in Pids => obj[a].kthread = "STARTED"
      /\ l \notin {"none", "Return"} => act[a].on = p
      /\ m \notin {"none", "Return"} => act'[a].on = p
      /\ m \in OwnLabels => a = p
      /\ m \notin SpawnLabels /\ m \notin {"RestoreOwner", "Consume"}
  BY Zenon DEF Moves
<1>2. procTable' \subseteq Pids
  BY <1>1 DEF RuntimeInv, RuntimeTypes
<1>3. m \in OwnLabels => act'[a].on = a
  BY <1>1 DEF OwnLabels
<1>4. Writing(p)' = Writing(p)
  <2>1. CASE p = a
    BY <1>1, <2>1 DEF Writing, Bit
  <2>2. CASE p # a
    BY <1>1, <2>2, Actors3 DEF Writing, Bit
  <2> QED BY <2>1, <2>2
<1>5. /\ TableOk(r.table)
      /\ Absent(r, Rank(p), p \in procTable, p \in thrTable) \/
           Present(r, Rank(p), p \in procTable, p \in thrTable, Writing(p))
  BY DEF RuntimeInv, Processes
<1>6. Absent(r, Rank(p), p \in procTable', p \in thrTable) \/
      Present(r, Rank(p), p \in procTable', p \in thrTable, Writing(p)')
  BY <1>1, <1>4, <1>5
<1>7. r.alloc = "live" => Counted(r, Cardinality(Held(p)) + Weight(m) - Weight(l))
  <2>1. Cardinality(Held(p)) \in Nat /\ Weight(l) \in 0 .. 2
    BY NobodyHolds, Weights
  <2>2. Cardinality(Held(p)) + Weight(m) - Weight(l) = Cardinality(Held(p))
    BY <2>1
  <2>3. r.alloc = "live" => Counted(r, Cardinality(Held(p)))
    BY LiveMeans
  <2> QED BY <2>2, <2>3
<1>8. m # "MarkReady"
  BY <1>1 DEF SpawnLabels
<1>9. Gives(a, p, l, m, r)
  BY <1>1, <1>2, <1>3, <1>5, <1>6, <1>7, <1>8 DEF Gives
<1> QED BY <1>9, GivesKeeps

\* How far a process can be, and that a thread at work is not being finalized.
LEMMA Ranks ==
  ASSUME NEW p
  PROVE  Rank(p) \in 0 .. 9 /\ (obj[p].kthread # "EXITED" => Rank(p) = 0)
<1>1. FinalRank(Step(Idle)) \in 0 .. 9
  BY DEF FinalRank
<1> QED BY <1>1 DEF Rank

\* A service under way takes its next step.
LEMMA AdvanceMoves ==
  ASSUME RuntimeInv, NEW a \in Callers, NEW p \in Pids, NEW r, NEW l, NEW m,
      l \notin {"none", "Return"}, Step(a) = l, act[a].on = p,
         m = Following(a, l), Advance(a), Rest, fgOwner' = fgOwner,
             obj' = [obj EXCEPT ![p] = r],
         m \in OwnLabels => l \in OwnLabels, m \notin SpawnLabels,
             m \notin {"RestoreOwner", "Consume"},
         m = "ReleaseConsumed" => obj[p].event
  PROVE  Moves(a, p, l, m, r)
<1>1. Busy(a)
  BY DEF Busy
<1>2. /\ a \in Actors /\ act \in [Actors -> ActRecords] /\ Scripts /\ fgOwner \in Nat
      /\ a \in Pids => obj[a].kthread = "STARTED"
      /\ l \in OwnLabels => act[a].on = a
  BY <1>1, BusyMeans
<1>3. /\ act' \in [Actors -> ActRecords] /\ Scripts' /\ Step(a)' = m
      /\ m # "none" => act'[a].on = act[a].on
      /\ \A b \in Actors : b # a => act'[b] = act[b] /\ Step(b)' = Step(b)
  BY <1>2, AdvanceTo
<1>4. reapQueue' = reapQueue /\ nextPid' = nextPid /\ thrTable' = thrTable /\
      procTable' = procTable /\ fgOwner' \in Nat
  BY <1>2 DEF Rest
<1>5. (m \notin {"none", "Return"} => act'[a].on = p) /\ (m \in OwnLabels => a = p)
  BY <1>2, <1>3
<1> QED BY <1>2, <1>3, <1>4, <1>5 DEF Moves

\* A caller that is in no service, and begins one.
LEMMA StartMoves ==
  ASSUME RuntimeInv, NEW a \in Callers, NEW p \in Pids, NEW r, MayCall(a),
      NEW m \in LabelsOf(a), NEW c \in ActRecords,
         c.steps = Script(a, m), act' = [act EXCEPT ![a] = c], Rest, fgOwner' = fgOwner,
             obj' = [obj EXCEPT ![p] = r],
         m \notin {"none", "Return"} => c.on = p,
         m \in OwnLabels => a = p, m \notin SpawnLabels,
             m \notin {"RestoreOwner", "Consume", "ReleaseConsumed"}
  PROVE  Moves(a, p, "none", m, r)
<1>1. a \in Actors /\ (a \in KernelCallers => a \notin Pids)
  BY Actors3
<1>2. act \in [Actors -> ActRecords] /\ Scripts /\ fgOwner \in Nat
  BY DEF RuntimeInv, RuntimeTypes
<1>3. Step(a) = "none" /\ (a \in Pids => obj[a].kthread = "STARTED")
  BY <1>1 DEF MayCall, Step, IsUserThread
<1>4. /\ act' \in [Actors -> ActRecords] /\ Scripts' /\ act'[a] = c /\ Step(a)' = m
      /\ \A b \in Actors : b # a => act'[b] = act[b] /\ Step(b)' = Step(b)
  BY <1>1, <1>2, MoveTo
<1>5. reapQueue' = reapQueue /\ nextPid' = nextPid /\ thrTable' = thrTable /\
      procTable' = procTable /\ fgOwner' \in Nat
  BY <1>2 DEF Rest
<1> QED BY <1>3, <1>4, <1>5 DEF Moves

\* A count that stays positive.
LEMMA Recounting ==
  ASSUME NEW r \in ObjectRecords, NEW n \in Int, n > 0
  PROVE  LET s == [r EXCEPT !.refs = n] IN
         /\ StoredCount(r, n) = s
         /\ s \in ObjectRecords /\ Alike(s, r) /\ s.table = r.table /\ s.refs = n /\
              s.stdoutRefs = r.stdoutRefs /\ s.threadRefs = r.threadRefs
<1>1. StoredCount(r, n) = [r EXCEPT !.refs = n]
  BY DEF StoredCount
<1>2. [r EXCEPT !.refs = n] \in ObjectRecords
  BY DEF ObjectRecords
<1> QED BY <1>1, <1>2 DEF ObjectRecords, Alike

\* A process is there whatever its count, while that is positive.
LEMMA RecountPresent ==
  ASSUME NEW r, NEW s, NEW k, NEW listed, NEW thread, NEW out,
      Present(r, k, listed, thread, out),
         Alike(s, r), s.table = r.table, s.stdoutRefs = r.stdoutRefs,
             s.threadRefs = r.threadRefs, s.refs > 0
  PROVE  Present(s, k, listed, thread, out)
  BY DEF Present, Alike

\* A step that neither starts nor ends a write.
LEMMA WritingKeeps ==
  ASSUME NEW a \in Callers, NEW p \in Pids, NEW l, NEW m, NEW r, Moves(a, p, l, m, r),
      l # "ReleaseOut", m # "ReleaseOut"
  PROVE  Writing(p)' = Writing(p)
<1>1. /\ \A b \in Actors : b # a => act'[b] = act[b] /\ Step(b)' = Step(b)
      /\ Step(a) = l /\ Step(a)' = m
  BY Zenon DEF Moves
<1>2. CASE p = a
  BY <1>1, <1>2 DEF Writing, Bit
<1>3. CASE p # a
  BY <1>1, <1>3, Actors3 DEF Writing, Bit
<1> QED BY <1>2, <1>3

\* A reference is taken or given, and the process stays.
LEMMA CountGives ==
  ASSUME RuntimeInv, NEW a \in Callers, NEW p \in Pids, NEW n \in Int, n > 0, NEW r,
      r = [obj[p] EXCEPT !.refs = n],
         NEW l, NEW m, Moves(a, p, l, m, r), l # "ReleaseOut", m # "ReleaseOut",
             obj[p].alloc = "live",
         n = obj[p].refs + Weight(m) - Weight(l)
  PROVE  RuntimeInv'
<1>1. /\ TableOk(obj[p].table) /\ Present(obj[p], Rank(p), p \in procTable, p \in thrTable,
           Writing(p))
      /\ Counted(obj[p], Cardinality(Held(p))) /\ obj[p] \in ObjectRecords
  BY LiveMeans
<1>2. r \in ObjectRecords /\ Alike(r, obj[p]) /\ r.table = obj[p].table /\ r.refs = n
        /\ r.stdoutRefs = obj[p].stdoutRefs /\ r.threadRefs = obj[p].threadRefs
  BY <1>1, Recounting
<1>3. Present(r, Rank(p), p \in procTable, p \in thrTable, Writing(p)')
  <2>1. Present(r, Rank(p), p \in procTable, p \in thrTable, Writing(p))
    BY <1>1, <1>2, RecountPresent
  <2>2. Writing(p)' = Writing(p)
    BY WritingKeeps
  <2> QED BY <2>1, <2>2
<1>4. Counted(r, Cardinality(Held(p)) + Weight(m) - Weight(l))
  <2>1. Cardinality(Held(p)) \in Nat /\ Weight(l) \in 0 .. 2 /\ Weight(m) \in 0 .. 2
    BY NobodyHolds, Weights
  <2>2. r.threadOwns = obj[p].threadOwns /\ r.retained = obj[p].retained
    BY <1>2 DEF Alike
  <2>3. /\ Open(obj[p].table, 1) \in Int /\ Open(obj[p].table, 3) \in Int /\
             Bit(obj[p].threadOwns) \in Int /\ Bit(obj[p].retained) \in Int
    BY DEF Open, Bit
  <2>4. obj[p].refs = Bit(obj[p].threadOwns) + Bit(obj[p].retained) + Open(obj[p].table, 1) +
        Open(obj[p].table, 3) + Cardinality(Held(p))
    BY <1>1 DEF Counted
  <2>5. n = Bit(obj[p].threadOwns) + Bit(obj[p].retained) + Open(obj[p].table, 1) +
        Open(obj[p].table, 3) + (Cardinality(Held(p)) + Weight(m) - Weight(l))
    BY <2>1, <2>3, <2>4
  <2> QED BY <1>2, <2>2, <2>5 DEF Counted
<1> QED BY <1>1, <1>2, <1>3, <1>4, AlikeGives

\* What an actor that begins a service looks like.
Ended(s) == [Resting EXCEPT !.steps = s]
\* ... on a process ...
Begun(s, p) == [Resting EXCEPT !.steps = s, !.on = p]
\* ... with an argument.
BegunWith(s, p, h) == [Resting EXCEPT !.steps = s, !.on = p, !.arg = h]

\* What a caller carries at the start of a service, and at its end.
LEMMA Beginning ==
  ASSUME NEW s \in Seq(Labels), NEW p \in Pids, NEW h \in Nat
  PROVE  /\ Ended(s) \in ActRecords /\ Ended(s).steps = s
         /\ Begun(s, p) \in ActRecords /\ Begun(s, p).steps = s /\ Begun(s, p).on = p
         /\ BegunWith(s, p, h) \in ActRecords /\ BegunWith(s, p, h).steps = s /\
              BegunWith(s, p, h).on = p
<1>1. Resting \in ActRecords
  BY DEF Resting, ActRecords
<1> DEFINE c1 == [Resting EXCEPT !.steps = s]
           c2 == [c1 EXCEPT !.on = p]
           c3 == [c2 EXCEPT !.arg = h]
<1>2. c1 \in ActRecords /\ c1.steps = s
  BY <1>1 DEF ActRecords
<1>3. c2 \in ActRecords /\ c2.steps = s /\ c2.on = p
  <2> HIDE DEF c1
  <2> QED BY <1>2 DEF ActRecords
<1>4. c3 \in ActRecords /\ c3.steps = s /\ c3.on = p
  <2> HIDE DEF c2
  <2> QED BY <1>3 DEF ActRecords
<1>5. c2 = [Resting EXCEPT !.steps = s, !.on = p] /\ c3 = [Resting EXCEPT !.steps = s, !.on = p,
      !.arg = h]
  OBVIOUS
<1>6. c1 = [Resting EXCEPT !.steps = s]
  OBVIOUS
<1> HIDE DEF c1, c2, c3
<1> QED BY <1>2, <1>3, <1>4, <1>5, <1>6 DEF Ended, Begun, BegunWith

\* The scripts of the services.
LEMMA Services ==
  ASSUME NEW a
  PROVE  /\ WaitSteps \o Ending(a) = Script(a, "WaitCompletion")
         /\ KillSteps \o Ending(a) = Script(a, "RequestKill")
         /\ ForegroundSteps \o Ending(a) = Script(a, "ReadOwner")
         /\ Ending(a) = Script(a, Ends(a))
         /\ FinalizeSteps = Body("MarkTerminated")
<1>1. WaitSteps \o Ending(a) = Script(a, "WaitCompletion") /\
      ForegroundSteps \o Ending(a) = Script(a, "ReadOwner")
  BY Bodies DEF WaitSteps, ForegroundSteps, Script
<1>2. KillSteps = Body("RequestKill")
  <2> DEFINE x == <<"RequestKill">>
             y == <<"WaitCompletion", "RestoreOwner", "Consume", "ReleaseConsumed",
                 "ReleaseChild">>
             s == x \o y
             t == <<"RequestKill", "WaitCompletion", "RestoreOwner", "Consume",
                 "ReleaseConsumed", "ReleaseChild">>
  <2>0. \A l \in WaitLabels : l \in Labels
    BY DEF Labels
  <2>1. "RequestKill" \in Labels /\ "WaitCompletion" \in Labels /\ "RestoreOwner" \in Labels /\
        "Consume" \in Labels
          /\ "ReleaseConsumed" \in Labels /\ "ReleaseChild" \in Labels
    BY <2>0 DEF WaitLabels
  <2>2. x \in Seq(Labels) /\ Len(x) = 1 /\ x[1] = "RequestKill"
    BY <2>1
  <2>3. /\ y \in Seq(Labels) /\ Len(y) = 5 /\ y[1] = "WaitCompletion" /\
             y[2] = "RestoreOwner" /\ y[3] = "Consume"
        /\ y[4] = "ReleaseConsumed" /\ y[5] = "ReleaseChild"
    BY <2>1
  <2>4. /\ t \in Seq(Labels) /\ Len(t) = 6 /\ t[1] = "RequestKill" /\ t[2] = "WaitCompletion" /\
             t[3] = "RestoreOwner" /\ t[4] = "Consume"
        /\ t[5] = "ReleaseConsumed" /\ t[6] = "ReleaseChild"
    BY <2>1
  <2>5. s = x \o y /\ KillSteps = s /\ Body("RequestKill") = t
    BY Bodies DEF KillSteps, WaitSteps
  <2> HIDE DEF x, y, t, s
  <2>6. s \in Seq(Labels) /\ Len(s) = 6 /\
        \A i \in 1 .. 6 : s[i] = IF i <= 1 THEN x[i] ELSE y[i - 1]
    <3>1. s \in Seq(Labels) /\ Len(s) = Len(x) + Len(y) /\ \A i \in 1 .. Len(x) +
          Len(y) : s[i] = IF i <= Len(x) THEN x[i] ELSE y[i - Len(x)]
      BY <2>2, <2>3, <2>5, ConcatProperties
    <3>2. Len(x) = 1 /\ Len(x) + Len(y) = 6
      BY <2>2, <2>3
    <3> QED BY <3>1, <3>2
  <2>7. \A i \in 1 .. 6 : i \in {1, 2, 3, 4, 5, 6}
    OBVIOUS
  <2>8. \A i \in {1, 2, 3, 4, 5, 6} : s[i] = t[i]
    BY <2>2, <2>3, <2>4, <2>6
  <2>9. s = t
    BY <2>4, <2>6, <2>7, <2>8, SeqEqual
  <2> QED BY <2>5, <2>9
<1>3. KillSteps \o Ending(a) = Script(a, "RequestKill")
  BY <1>2 DEF Script
<1>4. Ending(a) = Script(a, Ends(a))
  <2>1. CASE a \in Pids
    <3>1. << >> \o <<"Return">> = <<"Return">>
      OBVIOUS
    <3> QED BY <2>1, <3>1, Bodies, Endings DEF Script
  <2>2. CASE a \notin Pids
    BY <2>2, Endings DEF Script
  <2> QED BY <2>1, <2>2
<1>5. FinalizeSteps = Body("MarkTerminated")
  BY Bodies DEF FinalizeSteps
<1> QED BY <1>1, <1>3, <1>4, <1>5

\* A service on a child begins with a reference to it, or does nothing.
LEMMA CallKeeps ==
  ASSUME RuntimeInv, NEW a \in Callers, NEW p \in Pids, NEW steps,
      NEW m \in {"WaitCompletion", "RequestKill", "ReadOwner"},
         m = "ReadOwner" => a \in KernelCallers, steps \o Ending(a) = Script(a, m),
             CallOnChild(a, p, steps)
  PROVE  RuntimeInv'
<1>0. a \in Actors /\ MayCall(a) /\ Rest /\ fgOwner' = fgOwner
  BY Actors3 DEF CallOnChild, Rest
<1>1. obj \in [Pids -> ObjectRecords] /\ obj[p] \in ObjectRecords
  BY DEF RuntimeInv, RuntimeTypes
<1>2. ASSUME p \in procTable, obj' = [obj EXCEPT ![p] = Retained(@)],
             act' = [act EXCEPT ![a] = [Resting EXCEPT !.steps = steps \o Ending(a), !.on = p]]
      PROVE  RuntimeInv'
  <2>1. obj[p].alloc = "live"
    BY <1>2 DEF RuntimeInv, Processes, Absent, Present
  <2>2. Present(obj[p], Rank(p), p \in procTable, p \in thrTable, Writing(p))
    BY <2>1, LiveMeans
  <2>3. obj[p].refs > 0 /\ obj[p].refs \in Int
    BY <1>1, <2>2 DEF Present, ObjectRecords
  <2>4. m \in LabelsOf(a)
    BY Actors3 DEF LabelsOf, WaitLabels, LaneLabels
  <2>5. Script(a, m) \in Seq(Labels)
    BY <1>0, <2>4, ScriptFacts
  <2>6. PICK c : c = Begun(Script(a, m), p)
    OBVIOUS
  <2>7. c \in ActRecords /\ c.steps = Script(a, m) /\ c.on = p
    <3>1. 0 \in Nat
      OBVIOUS
    <3> QED BY <2>5, <2>6, <3>1, Beginning
  <2>8. act' = [act EXCEPT ![a] = c]
    BY <1>2, <2>6 DEF Begun
  <2>9. PICK r : r = [obj[p] EXCEPT !.refs = obj[p].refs + 1]
    OBVIOUS
  <2>10. obj' = [obj EXCEPT ![p] = r]
    BY <1>1, <1>2, <2>9 DEF Retained
  <2>11. m \notin OwnLabels /\ m \notin SpawnLabels /\
         m \notin {"RestoreOwner", "Consume", "ReleaseConsumed", "ReleaseOut"} /\
         Weight(m) = 1 /\ Weight("none") = 0
    BY Facts
  <2>12. Moves(a, p, "none", m, r)
    BY <1>0, <2>4, <2>7, <2>8, <2>10, <2>11, StartMoves
  <2>13. PICK n \in Int : n = obj[p].refs + 1 /\ n > 0
    BY <2>3
  <2>14. n = obj[p].refs + Weight(m) - Weight("none")
    BY <2>3, <2>11, <2>13
  <2> QED BY <2>1, <2>9, <2>11, <2>12, <2>13, <2>14, CountGives
<1>3. ASSUME act' = [act EXCEPT ![a] = Done(a)], UNCHANGED obj
      PROVE  RuntimeInv'
  <2>1. Ends(a) \in LabelsOf(a) /\ Ends(a) \in {"none", "Return"}
    BY <1>0, ActorLabels, EndsAre
  <2>2. PICK m1 \in LabelsOf(a) : m1 = Ends(a) /\ m1 \in {"none", "Return"}
    BY <2>1
  <2>3. PICK c : c = Ended(Ending(a))
    OBVIOUS
  <2>4. c \in ActRecords /\ c.steps = Script(a, m1)
    <3>1. 0 \in Nat /\ Ending(a) \in Seq(Labels) /\ Ending(a) = Script(a, m1)
      BY <2>2, Endings, Services
    <3> QED BY <2>3, <3>1, Beginning
  <2>5. act' = [act EXCEPT ![a] = c]
    BY <1>3, <2>3 DEF Done, Ended
  <2>6. PICK r \in ObjectRecords : r = obj[p]
    BY <1>1
  <2>7. obj' = [obj EXCEPT ![p] = r]
    BY <1>1, <1>3, <2>6
  <2>8. m1 \notin OwnLabels /\ m1 \notin SpawnLabels /\ Weight(m1) = Weight("none")
    BY <2>2, Facts
  <2>9. Moves(a, p, "none", m1, r)
    BY <1>0, <2>2, <2>4, <2>5, <2>7, <2>8, StartMoves
  <2> QED BY <2>2, <2>6, <2>8, <2>9, StillGives
<1> QED BY <1>2, <1>3 DEF CallOnChild

\* A thread at work has its process.
LEMMA Working ==
  ASSUME RuntimeInv, NEW p \in Pids, obj[p].kthread \in {"NEW", "STARTED"}
  PROVE  obj[p].alloc = "live" /\ Rank(p) = 0 /\ obj[p] \in ObjectRecords
<1>1. obj[p].alloc = "live"
  BY DEF RuntimeInv, Processes, Absent, Present
<1>2. Rank(p) = 0
  BY Ranks
<1> QED BY <1>1, <1>2, LiveMeans

\* A system call begins.
LEMMA SysCallMoves ==
  ASSUME RuntimeInv, NEW p \in Pids, NEW h \in Nat, NEW steps,
      NEW m \in OwnLabels \cup {"Return"},
         steps \o <<"Return">> = Script(p, m), NEW r, SysCall(p, h, steps, r)
  PROVE  Moves(p, p, "none", m, r) /\ obj[p].alloc = "live" /\ Rank(p) = 0 /\
      obj[p] \in ObjectRecords /\ p \in Callers
<1>0. p \in Actors /\ p \in Callers /\ MayCall(p) /\ Rest /\ fgOwner' = fgOwner /\ p # Idle
  BY Actors3 DEF SysCall, Rest
<1>1. obj[p].kthread = "STARTED"
  BY <1>0, Actors3 DEF MayCall, IsUserThread
<1>2. m \in LabelsOf(p)
  BY <1>0 DEF LabelsOf
<1>3. Script(p, m) \in Seq(Labels)
  BY <1>0, <1>2, ScriptFacts
<1>4. PICK c : c = BegunWith(Script(p, m), p, h)
  OBVIOUS
<1>5. c \in ActRecords /\ c.steps = Script(p, m) /\ c.on = p
  BY <1>3, <1>4, Beginning
<1>6. act' = [act EXCEPT ![p] = c] /\ obj' = [obj EXCEPT ![p] = r]
  BY <1>4 DEF SysCall, BegunWith
<1>7. m \notin SpawnLabels /\ m \notin {"RestoreOwner", "Consume", "ReleaseConsumed"}
  BY DEF OwnLabels, SpawnLabels
<1>8. Moves(p, p, "none", m, r)
  BY <1>0, <1>2, <1>5, <1>6, <1>7, StartMoves
<1> QED BY <1>0, <1>1, <1>8, Working

\* The scripts of the system calls.
LEMMA SysServices ==
  ASSUME NEW p \in Pids
  PROVE  /\ <<"Sleep">> \o <<"Return">> = Script(p, "Sleep")
         /\ <<"RetainOwner", "CloseSlot", "ReleaseObject",
              "ReleaseOwner">> \o <<"Return">> = Script(p, "RetainOwner")
         /\ <<"RetainWaited", "WaitOne", "ReleaseResolved">> \o <<"Return">> = Script(p,
              "RetainWaited")
         /\ <<"ReleaseOut">> \o <<"Return">> = Script(p, "ReleaseOut")
         /\ << >> \o <<"Return">> = Script(p, "Return")
<1>1. Ending(p) = <<"Return">>
  BY Endings
<1> QED BY <1>1, Bodies DEF Script

\* One that only changes what its thread does.
LEMMA SysCallKeeps ==
  ASSUME RuntimeInv, NEW p \in Pids, NEW h \in Nat, NEW steps,
      NEW m \in {"Sleep", "RetainOwner", "RetainWaited", "Return"},
         steps \o <<"Return">> = Script(p, m), SysCall(p, h, steps, obj[p])
  PROVE  RuntimeInv'
<1>1. m \in OwnLabels \cup {"Return"}
  BY DEF OwnLabels
<1>2. PICK r : r = obj[p]
  OBVIOUS
<1>3. SysCall(p, h, steps, r)
  BY <1>2
<1>4. Moves(p, p, "none", m, r) /\ obj[p].alloc = "live" /\ obj[p] \in ObjectRecords /\
      p \in Callers
  BY <1>1, <1>3, SysCallMoves
<1>5. Weight(m) = Weight("none")
  BY Facts
<1> QED BY <1>2, <1>4, <1>5, StillGives

\* SYS_SLEEP_MS.
LEMMA SysSleepKeeps ==
  ASSUME RuntimeInv, NEW p \in Pids, SysSleep(p)
  PROVE  RuntimeInv'
<1>1. SysCall(p, InvalidHandle, <<"Sleep">>, obj[p]) /\ InvalidHandle \in Nat
  BY DEF SysSleep, InvalidHandle
<1> QED BY <1>1, SysServices, SysCallKeeps

\* The start of SYS_CLOSE.
LEMMA SysCloseKeeps ==
  ASSUME RuntimeInv, NEW p \in Pids, NEW h \in Nat, SysClose(p, h)
  PROVE  RuntimeInv'
<1>1. SysCall(p, h, <<"RetainOwner", "CloseSlot", "ReleaseObject", "ReleaseOwner">>, obj[p])
  BY DEF SysClose
<1> QED BY <1>1, SysServices, SysCallKeeps

\* The start of SYS_WAIT_ONE.
LEMMA SysWaitOneKeeps ==
  ASSUME RuntimeInv, NEW p \in Pids, NEW h \in Nat, SysWaitOne(p, h)
  PROVE  RuntimeInv'
<1>1. CASE ResolvesWaitable(obj[p].table, h, {"WAIT"})
  <2>1. SysCall(p, h, <<"RetainWaited", "WaitOne", "ReleaseResolved">>, obj[p])
    BY <1>1 DEF SysWaitOne
  <2> QED BY <2>1, SysServices, SysCallKeeps
<1>2. CASE ~ResolvesWaitable(obj[p].table, h, {"WAIT"})
  <2>1. SysCall(p, h, << >>, obj[p])
    BY <1>2 DEF SysWaitOne
  <2> QED BY <2>1, SysServices, SysCallKeeps
<1> QED BY <1>1, <1>2

\* The stdout service is held while the thread writes, and given back.
LEMMA OutGives ==
  ASSUME RuntimeInv, NEW p \in Pids, p \in Callers, NEW l, NEW m, NEW r, Moves(p, p, l, m, r),
      obj[p].alloc = "live",
         \/ l = "none" /\ m = "ReleaseOut" /\ r = [obj[p] EXCEPT !.stdoutRefs = @ + 1]
         \/ l = "ReleaseOut" /\ m = "Return" /\ r = [obj[p] EXCEPT !.stdoutRefs = @ - 1]
  PROVE  RuntimeInv'
<1>1. /\ TableOk(obj[p].table) /\ Present(obj[p], Rank(p), p \in procTable, p \in thrTable,
           Writing(p))
      /\ Counted(obj[p], Cardinality(Held(p))) /\ obj[p] \in ObjectRecords
  BY LiveMeans
<1>2. Step(p) = l /\ Step(p)' = m
  BY Zenon DEF Moves
<1>3. /\ l = "none" => Writing(p) = 0 /\ Writing(p)' = 1
      /\ l = "ReleaseOut" => Writing(p) = 1 /\ Writing(p)' = 0
  BY <1>2 DEF Writing, Bit
<1>4. obj[p].stdoutRefs \in Int /\ Open(obj[p].table, 2) \in Int
  BY <1>1 DEF ObjectRecords, Open, Bit
<1>5. r \in ObjectRecords
  <2>1. PICK n \in Int : r = [obj[p] EXCEPT !.stdoutRefs = n]
    BY <1>4
  <2> QED BY <1>1, <2>1 DEF ObjectRecords
<1>6. Alike(r, obj[p]) /\ r.table = obj[p].table /\ r.refs = obj[p].refs /\
      r.threadRefs = obj[p].threadRefs
  BY <1>1 DEF Alike, ObjectRecords
<1>7. /\ l = "none" => r.stdoutRefs = obj[p].stdoutRefs + 1
      /\ l = "ReleaseOut" => r.stdoutRefs = obj[p].stdoutRefs - 1
  BY <1>1 DEF ObjectRecords
<1>8. obj[p].stdoutRefs = 1 + Open(obj[p].table, 2) + Writing(p)
  BY <1>1 DEF Present
<1>9. r.stdoutRefs = 1 + Open(r.table, 2) + Writing(p)'
  <2>1. Open(r.table, 2) = Open(obj[p].table, 2)
    BY <1>6
  <2> QED BY <1>3, <1>4, <1>7, <1>8, <2>1
<1>10. Present(r, Rank(p), p \in procTable, p \in thrTable, Writing(p)')
  BY <1>1, <1>6, <1>9 DEF Present, Alike
<1>11. Weight(l) = 0 /\ Weight(m) = 0
  BY Facts
<1>12. Counted(r, Cardinality(Held(p)) + Weight(m) - Weight(l))
  <2>1. Cardinality(Held(p)) \in Nat
    BY NobodyHolds
  <2>2. Cardinality(Held(p)) + Weight(m) - Weight(l) = Cardinality(Held(p))
    BY <1>11, <2>1
  <2>3. Counted(r, Cardinality(Held(p)))
    BY <1>1, <1>6 DEF Counted, Alike
  <2> QED BY <2>2, <2>3
<1>13. TableOk(r.table)
  BY <1>1, <1>6
<1> QED BY <1>5, <1>6, <1>10, <1>12, <1>13, AlikeGives

\* SYS_WRITE up to the write.
LEMMA SysWriteKeeps ==
  ASSUME RuntimeInv, NEW p \in Pids, NEW h \in Nat, SysWrite(p, h)
  PROVE  RuntimeInv'
<1>1. CASE Resolves(obj[p].table, h, "console", {"WRITE"})
  <2>1. PICK r : r = [obj[p] EXCEPT !.stdoutRefs = @ + 1]
    OBVIOUS
  <2>2. SysCall(p, h, <<"ReleaseOut">>, r)
    BY <1>1, <2>1 DEF SysWrite
  <2>3. "ReleaseOut" \in OwnLabels
    BY Facts
  <2>4. Moves(p, p, "none", "ReleaseOut", r) /\ obj[p].alloc = "live" /\ p \in Callers
    BY <2>2, <2>3, SysServices, SysCallMoves
  <2> QED BY <2>1, <2>4, OutGives
<1>2. CASE ~Resolves(obj[p].table, h, "console", {"WRITE"})
  <2>1. SysCall(p, h, << >>, obj[p])
    BY <1>2 DEF SysWrite
  <2> QED BY <2>1, SysServices, SysCallKeeps
<1> QED BY <1>1, <1>2

\* SYS_WRITE gives up the stdout service.
LEMMA ReleaseOutKeeps ==
  ASSUME RuntimeInv, NEW p \in Pids, ReleaseOut(p)
  PROVE  RuntimeInv'
<1>1. Step(p) = "ReleaseOut" /\ Advance(p) /\ Rest /\ fgOwner' = fgOwner /\ p \in Callers
  BY Actors3 DEF ReleaseOut, Rest
<1>2. act[p].on = p /\ obj[p] \in ObjectRecords /\ obj[p].alloc = "live"
  <2>1. Busy(p) /\ Step(p) \in OwnLabels
    BY <1>1, Facts DEF Busy
  <2>2. act[p].on = p /\ obj[act[p].on] \in ObjectRecords /\ obj[act[p].on].alloc = "live"
    BY <1>1, <2>1, BusyMeans
  <2> QED BY <2>2
<1>3. PICK r : r = [obj[p] EXCEPT !.stdoutRefs = @ - 1]
  OBVIOUS
<1>4. obj' = [obj EXCEPT ![p] = r]
  <2>1. obj \in [Pids -> ObjectRecords]
    BY DEF RuntimeInv, RuntimeTypes
  <2>2. obj' = [obj EXCEPT ![p].stdoutRefs = @ - 1]
    BY DEF ReleaseOut
  <2> QED BY <1>3, <2>1, <2>2
<1>5. Following(p, "ReleaseOut") = "Return"
  BY DEF Following, After, Ends
<1>6. "Return" \notin OwnLabels /\ "Return" \notin SpawnLabels
  BY Facts
<1>7. Moves(p, p, "ReleaseOut", "Return", r)
  BY <1>1, <1>2, <1>4, <1>5, <1>6, AdvanceMoves
<1> QED BY <1>1, <1>2, <1>3, <1>7, OutGives

\* An update that overlaps no other stores the count that follows.
LEMMA Updating ==
  ASSUME ~overlapped', NEW a, NEW p, NEW d \in Int, UpdateCount(a, p, d)
  PROVE  obj' = [obj EXCEPT ![p] = StoredCount(@, obj[p].refs + d)] /\ Advance(a)
<1>1. reg[a] = obj[p].refs
  BY DEF UpdateCount, Overlaps
<1> QED BY <1>1 DEF UpdateCount

\* The references of a live process are at least those of the caller.
LEMMA Enough ==
  ASSUME RuntimeInv, NEW a \in Callers, NEW p \in Pids, obj[p].alloc = "live", act[a].on = p
  PROVE  /\ obj[p].refs \in Int /\ Cardinality(Held(p)) \in Nat /\ Weight(Step(a)) \in 0 .. 2
         /\ obj[p].refs >= Bit(obj[p].threadOwns) + Bit(obj[p].retained) + Weight(Step(a))
         /\ Bit(obj[p].threadOwns) \in {0, 1} /\ Bit(obj[p].retained) \in {0, 1}
         /\ obj[p].refs = Weight(Step(a)) =>
              /\ ~obj[p].threadOwns /\ ~obj[p].retained /\ obj[p].table[1].object = "none" /\
                   obj[p].table[3].object = "none"
              /\ \A b \in Callers : b # a => WeightOn(b, p) = 0
<1>1. Counted(obj[p], Cardinality(Held(p))) /\ obj[p] \in ObjectRecords
  BY LiveMeans
<1>2. obj[p].refs \in Int /\ obj[p].threadOwns \in BOOLEAN /\ obj[p].retained \in BOOLEAN
  BY <1>1 DEF ObjectRecords
<1> DEFINE o1 == Open(obj[p].table, 1)
           o3 == Open(obj[p].table, 3)
           t == Bit(obj[p].threadOwns)
           k == Bit(obj[p].retained)
           w == Weight(Step(a))
<1>3. o1 \in {0, 1} /\ o3 \in {0, 1} /\ (o1 = 0 => obj[p].table[1].object = "none") /\
      (o3 = 0 => obj[p].table[3].object = "none")
  BY OpenIsBit
<1>4. t \in {0, 1} /\ k \in {0, 1} /\ (t = 0 => ~obj[p].threadOwns) /\
      (k = 0 => ~obj[p].retained)
  BY <1>2 DEF Bit
<1>5. WeightOn(a, p) = w
  BY DEF WeightOn
<1>6. /\ Cardinality(Held(p)) \in Nat
      /\ WeightOn(a, p) \in 0 .. 2 /\ Cardinality(Held(p)) >= WeightOn(a, p)
      /\ Cardinality(Held(p)) = WeightOn(a, p) => \A b \in Callers : b # a => WeightOn(b, p) = 0
  BY NobodyHolds
<1>7. obj[p].refs = t + k + o1 + o3 + Cardinality(Held(p))
  BY <1>1 DEF Counted
<1> HIDE DEF o1, o3, t, k, w
<1>8. obj[p].refs >= t + k + w
  BY <1>3, <1>4, <1>5, <1>6, <1>7
<1>9. obj[p].refs = w => t = 0 /\ k = 0 /\ o1 = 0 /\ o3 = 0 /\ Cardinality(Held(p)) = w
  BY <1>3, <1>4, <1>5, <1>6, <1>7
<1> QED BY <1>2, <1>3, <1>4, <1>5, <1>6, <1>8, <1>9 DEF t, k, w

\* A service moves on with a count of n, which stays positive.
Updates(a, p, l, m, n) ==
  /\ l \notin {"none", "Return", "ReleaseOut"} /\ Step(a) = l /\ act[a].on = p
  /\ m = Following(a, l) /\ m # "ReleaseOut" /\ Advance(a) /\ Rest /\ fgOwner' = fgOwner /\
       n > 0
  /\ obj' = [obj EXCEPT ![p] = StoredCount(@, n)] /\ n = obj[p].refs + Weight(m) - Weight(l)
  /\ m \in OwnLabels => l \in OwnLabels
  /\ m \notin SpawnLabels /\ m \notin {"RestoreOwner", "Consume", "ReleaseConsumed"}

\* Such a step keeps the invariant.
LEMMA UpdateKeeps ==
  ASSUME RuntimeInv, NEW a \in Callers, NEW p \in Pids, NEW l, NEW m, NEW n \in Int,
      Updates(a, p, l, m, n)
  PROVE  RuntimeInv'
<1>0. /\ l \notin {"none", "Return", "ReleaseOut"} /\ Step(a) = l /\ act[a].on = p
      /\ m = Following(a, l) /\ m # "ReleaseOut" /\ Advance(a) /\ Rest /\ fgOwner' = fgOwner /\
           n > 0
      /\ obj' = [obj EXCEPT ![p] = StoredCount(@, n)] /\ n = obj[p].refs + Weight(m) - Weight(l)
      /\ m \in OwnLabels => l \in OwnLabels
      /\ m \notin SpawnLabels /\ m \notin {"RestoreOwner", "Consume", "ReleaseConsumed"}
  BY Zenon DEF Updates
<1>1. obj[p] \in ObjectRecords /\ obj[p].alloc = "live" /\ obj \in [Pids -> ObjectRecords]
  <2>1. Busy(a)
    BY <1>0 DEF Busy
  <2> QED BY <1>0, <2>1, BusyMeans DEF RuntimeInv, RuntimeTypes
<1>2. PICK r : r = [obj[p] EXCEPT !.refs = n]
  OBVIOUS
<1>3. StoredCount(obj[p], n) = r
  BY <1>0, <1>1, <1>2, Recounting
<1>4. obj' = [obj EXCEPT ![p] = r]
  BY <1>0, <1>1, <1>3
<1>5. Moves(a, p, l, m, r)
  BY <1>0, <1>4, AdvanceMoves
<1> QED BY <1>0, <1>1, <1>2, <1>5, CountGives

\* A thread updates the count of its own process.
LEMMA OwnCountKeeps ==
  ASSUME ~overlapped', RuntimeInv, NEW p \in Pids, OwnCount(p)
  PROVE  RuntimeInv'
<1>1. Rest /\ fgOwner' = fgOwner /\ p \in Callers
  BY Actors3 DEF OwnCount, Rest
<1>2. PICK l : l = Step(p)
  OBVIOUS
<1>3. /\ l \in {"RetainOwner", "RetainWaited", "ReleaseObject", "ReleaseOwner",
           "ReleaseResolved"}
      /\ l \in {"RetainOwner", "RetainWaited"} => UpdateCount(p, p, 1)
      /\ l \in {"ReleaseObject", "ReleaseOwner", "ReleaseResolved"} => UpdateCount(p, p, -1)
  BY <1>2 DEF OwnCount
<1>4. l \in OwnLabels /\ l \notin {"none", "Return", "ReleaseOut"}
  BY <1>3 DEF OwnLabels
<1>5. Busy(p)
  BY <1>2, <1>4 DEF Busy
<1>6. act[p].on = p /\ obj[p].alloc = "live" /\ obj[p].kthread = "STARTED"
  <2>1. act[p].on = p /\ obj[act[p].on].alloc = "live" /\ obj[p].kthread = "STARTED"
    BY <1>1, <1>2, <1>4, <1>5, BusyMeans
  <2> QED BY <2>1
<1>7. obj[p].threadOwns
  <2>1. Rank(p) = 0
    BY <1>6, Working
  <2>2. Present(obj[p], Rank(p), p \in procTable, p \in thrTable, Writing(p))
    BY <1>6, LiveMeans
  <2> QED BY <2>1, <2>2 DEF Present
<1>8. obj[p].refs \in Int /\ obj[p].refs >= 1 + Weight(l) /\ Weight(l) \in 0 .. 2
  <2>1. Bit(obj[p].threadOwns) = 1
    BY <1>7 DEF Bit
  <2> QED BY <1>1, <1>2, <1>6, <2>1, Enough
<1>9. CASE l \in {"RetainOwner", "RetainWaited"}
  <2>1. obj' = [obj EXCEPT ![p] = StoredCount(@, obj[p].refs + 1)] /\ Advance(p)
    BY <1>3, <1>9, Updating
  <2>2. PICK m : m = Following(p, l)
    OBVIOUS
  <2>3. m \in {"CloseSlot", "WaitOne"}
    BY <1>9, <2>2 DEF Following, After
  <2>4. PICK n \in Int : n = obj[p].refs + 1 /\ n > 0
    BY <1>8
  <2>5. obj' = [obj EXCEPT ![p] = StoredCount(@, n)]
    BY <2>1, <2>4
  <2>6. Weight(m) = 1 /\ Weight(l) = 0 /\ m \notin SpawnLabels
    BY <1>9, <2>3, Facts
  <2>7. n = obj[p].refs + Weight(m) - Weight(l)
    BY <1>8, <2>4, <2>6
  <2> QED
    <3>1. Updates(p, p, l, m, n)
      BY <1>1, <1>2, <1>4, <1>6, <2>1, <2>2, <2>3, <2>4, <2>5, <2>6, <2>7 DEF Updates
    <3> QED BY <1>1, <3>1, UpdateKeeps
<1>10. CASE l \in {"ReleaseObject", "ReleaseOwner", "ReleaseResolved"}
  <2>1. obj' = [obj EXCEPT ![p] = StoredCount(@, obj[p].refs + (-1))] /\ Advance(p)
    BY <1>3, <1>10, Updating
  <2>2. PICK m : m = Following(p, l)
    OBVIOUS
  <2>3. m = IF l = "ReleaseObject" THEN "ReleaseOwner" ELSE "Return"
    BY <1>10, <2>2 DEF Following, After, Ends
  <2>6. Weight(m) = Weight(l) - 1 /\ m \notin SpawnLabels /\ Weight(l) > 0
    BY <1>10, <2>3, Facts
  <2>4. PICK n \in Int : n = obj[p].refs + (-1) /\ n > 0
    BY <1>8, <2>6
  <2>5. obj' = [obj EXCEPT ![p] = StoredCount(@, n)]
    BY <2>1, <2>4
  <2>7. n = obj[p].refs + Weight(m) - Weight(l)
    BY <1>8, <2>4, <2>6
  <2>8. m \notin {"RestoreOwner", "Consume", "ReleaseConsumed", "ReleaseOut"}
    BY <2>3
  <2> QED
    <3>1. Updates(p, p, l, m, n)
      BY <1>1, <1>2, <1>4, <1>6, <2>1, <2>2, <2>4, <2>5, <2>6, <2>7, <2>8 DEF Updates
    <3> QED BY <1>1, <3>1, UpdateKeeps
<1> QED BY <1>3, <1>9, <1>10

\* Nobody is inside a service on a process whose finalization is over, unless
\* it holds a reference.
LEMMA NobodyUses ==
  ASSUME RuntimeInv, NEW a \in Callers, NEW p \in Pids, obj[p].kthread = "EXITED", Rank(p) # 0,
         \A b \in Callers : b # a => WeightOn(b, p) = 0
  PROVE  NoOtherUser(a, p)
<1> SUFFICES ASSUME NEW b \in Callers, b # a, Busy(b), act[b].on = p
             PROVE  FALSE
  BY DEF NoOtherUser
<1>1. /\ b \in Actors /\ Scripts /\ (b \in Pids => obj[b].kthread = "STARTED")
      /\ Step(b) \in OwnLabels => act[b].on = b
      /\ Step(b) \in SpawnLabels \ {"MarkReady"} => obj[act[b].on].kthread = "NEW"
      /\ Step(b) = "MarkReady" => Rank(act[b].on) = 0
  BY BusyMeans
<1>2. Weight(Step(b)) = 0
  BY DEF WeightOn
<1>3. Step(b) \in LabelsOf(b) /\ b # Idle
  BY <1>1, Actors3 DEF Scripts
<1>4. Step(b) \in SpawnLabels \cup WaitLabels \cup LaneLabels \cup OwnLabels
  BY <1>3 DEF LabelsOf, Busy
<1>5. Step(b) \notin WaitLabels \cup LaneLabels
  <2>1. \A l \in WaitLabels \cup LaneLabels : Weight(l) # 0
    BY DEF Weight, WaitLabels, LaneLabels
  <2> QED BY <1>2, <2>1
<1>6. CASE Step(b) \in OwnLabels
  <2>1. b = p
    BY <1>1, <1>6
  <2> QED BY <1>1, <2>1
<1>7. CASE Step(b) = "MarkReady"
  BY <1>1, <1>7
<1>8. CASE Step(b) \in SpawnLabels \ {"MarkReady"}
  BY <1>1, <1>8
<1> QED BY <1>4, <1>5, <1>6, <1>7, <1>8

\* The last reference to a process is given up: its thread is gone, nobody
\* works on it, and it leaves nothing behind.
LEMMA LastRelease ==
  ASSUME RuntimeInv, NEW a \in Callers, NEW p \in Pids, Step(a) = "ReleaseChild", act[a].on = p,
      obj[p].refs = 1, obj[p].alloc = "live"
  PROVE  LET r == StoredCount(obj[p], 0) IN
         /\ r \in ObjectRecords /\ r.alloc = "freed" /\ r.kthread = obj[p].kthread /\
              TableOk(r.table)
         /\ NoOtherUser(a, p) /\ Absent(r, Rank(p), p \in procTable, p \in thrTable)
<1>1. Weight(Step(a)) = 1
  BY Facts
<1>2. /\ ~obj[p].threadOwns /\ ~obj[p].retained
      /\ \A b \in Callers : b # a => WeightOn(b, p) = 0
  BY <1>1, Enough
<1>3. Present(obj[p], Rank(p), p \in procTable, p \in thrTable, Writing(p)) /\
      obj[p] \in ObjectRecords
  BY LiveMeans
<1>4. Rank(p) \in 0 .. 9 /\ (obj[p].kthread # "EXITED" => Rank(p) = 0)
  BY Ranks
<1>5. Rank(p) = 9
  <2>1. (obj[p].threadOwns <=> Rank(p) <= 6) /\ (Rank(p) \in 2 .. 8 => obj[p].retained)
    BY <1>3 DEF Present
  <2> QED BY <1>2, <1>4, <2>1
<1>6. obj[p].kthread = "EXITED"
  BY <1>4, <1>5
<1>7. NoOtherUser(a, p)
  BY <1>2, <1>5, <1>6, NobodyUses
<1>8. Writing(p) = 0
  <2>1. Step(p) # "ReleaseOut"
    <3>1. p \in Callers /\ CallerOk(p)
      BY Actors3 DEF RuntimeInv
    <3>2. Step(p) = "none"
      BY <1>6, <3>1 DEF CallerOk
    <3> QED BY <3>2
  <2> QED BY <2>1 DEF Writing, Bit
<1>9. Closed(obj[p].table) /\ obj[p].stdoutRefs = 1 + Open(obj[p].table, 2) + 0
  BY <1>3, <1>5, <1>8 DEF Present
<1>10. obj[p].stdoutRefs = 1
  <2>1. Open(obj[p].table, 2) = 0
    BY <1>9, Slots, OpenIsBit DEF Closed
  <2> QED BY <1>9, <2>1
<1> DEFINE r == StoredCount(obj[p], 0)
<1>11. /\ r \in ObjectRecords /\ r.alloc = "freed" /\ r.payload = obj[p].payload /\
            r.kthread = obj[p].kthread
       /\ r.threadAlloc = obj[p].threadAlloc /\ ~r.retained /\ ~r.threadOwns /\ ~r.event
       /\ Closed(r.table) /\ TableOk(r.table)
  <2>1. 0 \in Int /\ 0 <= 0
    OBVIOUS
  <2> QED BY <1>3, <1>10, <2>1, ReleasingLast
<1>12. ~obj[p].payload /\ obj[p].threadAlloc # "live" /\ ~(p \in procTable) /\ ~(p \in thrTable)
  BY <1>2, <1>3, <1>5 DEF Present
<1> HIDE DEF r
<1>13. Absent(r, Rank(p), p \in procTable, p \in thrTable)
  BY <1>5, <1>6, <1>11, <1>12 DEF Absent
<1> QED BY <1>7, <1>11, <1>13 DEF r

\* A parent gives up a reference on a child, which may be the last one.
LEMMA ReleaseChildKeeps ==
  ASSUME ~overlapped', RuntimeInv, NEW a \in Callers, ReleaseChild(a)
  PROVE  RuntimeInv'
<1>1. Step(a) \in {"ReleaseConsumed", "ReleaseChild"} /\ Rest /\ fgOwner' = fgOwner /\
      UpdateCount(a, act[a].on, -1)
  BY DEF ReleaseChild, Rest
<1>2. Busy(a)
  BY <1>1 DEF Busy
<1>3. act[a].on \in Pids /\ obj[act[a].on].alloc = "live"
  BY <1>2, BusyMeans
<1>4. PICK p \in Pids : p = act[a].on
  BY <1>3
<1>5. obj' = [obj EXCEPT ![p] = StoredCount(@, obj[p].refs + (-1))] /\ Advance(a)
  BY <1>1, <1>4, Updating
<1>6. obj[p].alloc = "live" /\ obj \in [Pids -> ObjectRecords]
  BY <1>3, <1>4 DEF RuntimeInv, RuntimeTypes
<1>7. obj[p].refs \in Int /\ obj[p].refs >= Weight(Step(a)) /\ Weight(Step(a)) \in 0 .. 2
  BY <1>4, <1>6, Enough
<1>8. PICK m : m = Following(a, Step(a))
  OBVIOUS
<1>9. CASE Step(a) = "ReleaseConsumed"
  <2>1. m = "ReleaseChild"
    BY <1>8, <1>9 DEF Following, After
  <2>2. Weight("ReleaseConsumed") = 2 /\ Weight(m) = 1 /\ m \notin SpawnLabels /\
        m \notin OwnLabels
    BY <2>1, Facts
  <2>3. PICK n \in Int : n = obj[p].refs + (-1) /\ n > 0
    BY <1>7, <1>9, <2>2
  <2>4. obj' = [obj EXCEPT ![p] = StoredCount(@, n)]
    BY <1>5, <2>3
  <2>5. n = obj[p].refs + Weight(m) - Weight("ReleaseConsumed")
    BY <1>7, <2>2, <2>3
  <2>6. m = Following(a, "ReleaseConsumed")
    BY <1>8, <1>9
  <2> QED
    <3>1. Updates(a, p, "ReleaseConsumed", m, n)
      BY <1>1, <1>4, <1>5, <1>9, <2>1, <2>2, <2>3, <2>4, <2>5, <2>6 DEF Updates
    <3> QED BY <3>1, UpdateKeeps
<1>10. CASE Step(a) = "ReleaseChild" /\ obj[p].refs > 1
  <2>1. m \in {"none", "Return"} /\ m = Following(a, "ReleaseChild")
    BY <1>8, <1>10, EndsAre DEF Following, After
  <2>2. Weight("ReleaseChild") = 1 /\ Weight(m) = 0 /\ m \notin SpawnLabels /\
        m \notin OwnLabels
    BY <2>1, Facts
  <2>3. PICK n \in Int : n = obj[p].refs + (-1) /\ n > 0
    BY <1>7, <1>10
  <2>4. obj' = [obj EXCEPT ![p] = StoredCount(@, n)]
    BY <1>5, <2>3
  <2>5. n = obj[p].refs + Weight(m) - Weight("ReleaseChild")
    BY <1>7, <2>2, <2>3
  <2> QED
    <3>1. Updates(a, p, "ReleaseChild", m, n)
      BY <1>1, <1>4, <1>5, <1>10, <2>1, <2>2, <2>3, <2>4, <2>5 DEF Updates
    <3> QED BY <3>1, UpdateKeeps
<1>11. CASE Step(a) = "ReleaseChild" /\ ~(obj[p].refs > 1)
  <2>1. m \in {"none", "Return"} /\ m = Following(a, "ReleaseChild")
    BY <1>8, <1>11, EndsAre DEF Following, After
  <2>2. m \notin SpawnLabels /\ m \notin OwnLabels /\ Weight("ReleaseChild") = 1
    BY <2>1, Facts
  <2>3. obj[p].refs = 1
    BY <1>7, <1>11, <2>2
  <2>4. obj[p].refs + (-1) = 0
    BY <2>3
  <2>5. PICK r : r = StoredCount(obj[p], 0)
    OBVIOUS
  <2>6. obj' = [obj EXCEPT ![p] = r]
    BY <1>5, <1>6, <2>4, <2>5
  <2>7. /\ r \in ObjectRecords /\ r.alloc = "freed" /\ r.kthread = obj[p].kthread /\
             TableOk(r.table)
        /\ NoOtherUser(a, p) /\ Absent(r, Rank(p), p \in procTable, p \in thrTable)
    BY <1>4, <1>6, <1>11, <2>3, <2>5, LastRelease
  <2>8. Moves(a, p, "ReleaseChild", m, r)
    BY <1>1, <1>4, <1>5, <1>11, <2>1, <2>2, <2>6, AdvanceMoves
  <2> QED BY <1>6, <2>1, <2>7, <2>8, FreedGives
<1> QED BY <1>1, <1>9, <1>10, <1>11

\* A thread goes back to user mode.
LEMMA ReturnKeeps ==
  ASSUME RuntimeInv, NEW p \in Pids, Step(p) = "Return", Advance(p),
      UNCHANGED <<obj, reapQueue, procTable, thrTable, nextPid, fgOwner>>
  PROVE  RuntimeInv'
<1>1. p \in Callers /\ p \in Actors
  BY Actors3
<1>2. /\ act \in [Actors -> ActRecords] /\ obj \in [Pids -> ObjectRecords] /\ fgOwner \in Nat /\
           Scripts /\ CallerOk(p)
  BY <1>1 DEF RuntimeInv, RuntimeTypes
<1>3. Following(p, "Return") = "none"
  BY DEF Following, After
<1>4. /\ act' \in [Actors -> ActRecords] /\ Scripts' /\ Step(p)' = "none"
      /\ \A b \in Actors : b # p => act'[b] = act[b] /\ Step(b)' = Step(b)
  BY <1>1, <1>2, <1>3, AdvanceTo
<1>5. obj[p].kthread = "STARTED"
  BY <1>2 DEF CallerOk
<1>6. PICK r \in ObjectRecords : r = obj[p]
  BY <1>2
<1>7. obj' = [obj EXCEPT ![p] = r]
  BY <1>2, <1>6
<1>8. "none" \notin OwnLabels /\ "none" \notin SpawnLabels /\ Weight("none") = Weight("Return")
  BY Facts
<1>9. Moves(p, p, "Return", "none", r)
  BY <1>2, <1>4, <1>5, <1>7, <1>8 DEF Moves
<1> QED BY <1>1, <1>6, <1>8, <1>9, StillGives

\* The thread of a new process becomes ready.
LEMMA StartThreadKeeps ==
  ASSUME RuntimeInv, NEW a \in Callers, StartThread(a)
  PROVE  RuntimeInv'
<1>1. Step(a) = "Start" /\ Advance(a) /\ Rest /\ fgOwner' = fgOwner
  BY DEF StartThread, Rest
<1>2. Busy(a) /\ "Start" \in SpawnLabels /\ "Start" \in SpawnLabels \ {"MarkReady"}
  BY <1>1 DEF Busy, SpawnLabels
<1>3. /\ a \in Actors /\ act \in [Actors -> ActRecords] /\ Scripts /\ fgOwner \in Nat
      /\ act[a].on \in Pids /\ obj[act[a].on] \in ObjectRecords /\ obj[act[a].on].alloc = "live"
      /\ a \in Pids => obj[a].kthread = "STARTED"
      /\ obj[act[a].on].kthread = "NEW"
  BY <1>1, <1>2, BusyMeans
<1>4. Following(a, "Start") = "MarkReady"
  BY DEF Following, After
<1>5. /\ act' \in [Actors -> ActRecords] /\ Scripts' /\ Step(a)' = "MarkReady" /\
           act'[a].on = act[a].on
      /\ \A b \in Actors : b # a => act'[b] = act[b] /\ Step(b)' = Step(b)
  BY <1>1, <1>3, <1>4, AdvanceTo
<1>6. PICK p \in Pids : p = act[a].on
  BY <1>3
<1>7. PICK r : r = [obj[p] EXCEPT !.kthread = "STARTED"]
  OBVIOUS
<1>8. r \in ObjectRecords
  BY <1>3, <1>6, <1>7 DEF ObjectRecords
<1>9. obj' = [obj EXCEPT ![p] = r]
  <2>1. obj \in [Pids -> ObjectRecords]
    BY DEF RuntimeInv, RuntimeTypes
  <2>2. obj' = [obj EXCEPT ![p].kthread = "STARTED"]
    BY <1>6 DEF StartThread
  <2> QED BY <1>7, <2>1, <2>2
<1>10. /\ r.alloc = obj[p].alloc /\ r.event = obj[p].event /\ r.kthread = "STARTED" /\
            r.table = obj[p].table
       /\ r.refs = obj[p].refs /\ r.stdoutRefs = obj[p].stdoutRefs /\
            r.threadRefs = obj[p].threadRefs /\ r.payload = obj[p].payload
       /\ r.threadAlloc = obj[p].threadAlloc /\ r.threadOwns = obj[p].threadOwns /\
            r.state = obj[p].state /\ r.retained = obj[p].retained
  BY <1>3, <1>6, <1>7 DEF ObjectRecords
<1>11. obj[p].alloc = "live" /\ obj[p].kthread = "NEW" /\ Rank(p) = 0
  BY <1>3, <1>6, Ranks
<1>12. /\ TableOk(obj[p].table) /\ Present(obj[p], Rank(p), p \in procTable, p \in thrTable,
            Writing(p))
       /\ Counted(obj[p], Cardinality(Held(p)))
  BY <1>11, LiveMeans
<1>13. Writing(p)' = Writing(p)
  <2>1. CASE p = a
    BY <1>1, <1>5, <2>1 DEF Writing, Bit
  <2>2. CASE p # a
    BY <1>5, <2>2, Actors3 DEF Writing, Bit
  <2> QED BY <2>1, <2>2
<1>14. Present(r, Rank(p), p \in procTable, p \in thrTable, Writing(p))
  BY <1>10, <1>12 DEF Present
<1>15. reapQueue' = reapQueue /\ nextPid' = nextPid /\ thrTable' = thrTable /\
       procTable' = procTable /\ fgOwner' \in Nat /\ procTable' \subseteq Pids
  BY <1>1, <1>3 DEF Rest, RuntimeInv, RuntimeTypes
<1>16. Present(r, Rank(p), p \in procTable', p \in thrTable, Writing(p)')
  BY <1>13, <1>14, <1>15
<1>17. Weight("Start") = 0 /\ Weight("MarkReady") = 0 /\ "MarkReady" \notin OwnLabels /\
       "MarkReady" \in SpawnLabels
  BY Facts DEF SpawnLabels
<1>18. Counted(r, Cardinality(Held(p)) + Weight("MarkReady") - Weight("Start"))
  <2>1. Cardinality(Held(p)) \in Nat
    BY NobodyHolds
  <2>2. Cardinality(Held(p)) + Weight("MarkReady") - Weight("Start") = Cardinality(Held(p))
    BY <1>17, <2>1
  <2>3. Counted(r, Cardinality(Held(p)))
    BY <1>10, <1>12 DEF Counted
  <2> QED BY <2>2, <2>3
<1>19. TableOk(r.table)
  BY <1>10, <1>12
<1>20. Gives(a, p, "Start", "MarkReady", r)
  BY <1>1, <1>2, <1>3, <1>5, <1>6, <1>9, <1>10, <1>11, <1>15, <1>16, <1>17, <1>18,
      <1>19 DEF Gives
<1> QED BY <1>8, <1>20, GivesKeeps

\* The completion is consumed once: its reference passes to the consumer.
LEMMA ConsumeKeeps ==
  ASSUME RuntimeInv, NEW a \in Callers, Consume(a)
  PROVE  RuntimeInv'
<1>1. Step(a) = "Consume" /\ UNCHANGED <<thrTable, nextPid, fgOwner, reapQueue>>
  BY DEF Consume
<1>2. Busy(a)
  BY <1>1 DEF Busy
<1>3. /\ a \in Actors /\ act \in [Actors -> ActRecords] /\ Scripts /\ fgOwner \in Nat
      /\ act[a].on \in Pids /\ obj[act[a].on] \in ObjectRecords /\
           obj[act[a].on].alloc = "live" /\ obj[act[a].on].event
      /\ a \in Pids => obj[a].kthread = "STARTED"
  BY <1>1, <1>2, BusyMeans
<1>4. PICK p \in Pids : p = act[a].on
  BY <1>3
<1>5. ASSUME Continue(a, GiveUp(a)), UNCHANGED <<obj, procTable>> PROVE RuntimeInv'
  <2>1. Continue(a, Script(a, "ReleaseChild")) /\ Rest /\ UNCHANGED <<obj, fgOwner>>
    BY <1>1, <1>5, GivingUp DEF Rest
  <2> QED BY <1>1, <2>1, Facts, QuietGiveUp
<1>6. ASSUME obj[p].retained, p \in procTable, procTable' = procTable \ {p},
      obj' = [obj EXCEPT ![p].retained = FALSE], Advance(a)
      PROVE  RuntimeInv'
  <2>1. Following(a, "Consume") = "ReleaseConsumed"
    BY DEF Following, After
  <2>2. /\ act' \in [Actors -> ActRecords] /\ Scripts' /\ Step(a)' = "ReleaseConsumed" /\
             act'[a].on = act[a].on
        /\ \A b \in Actors : b # a => act'[b] = act[b] /\ Step(b)' = Step(b)
    BY <1>1, <1>3, <1>6, <2>1, AdvanceTo
  <2>3. PICK r : r = [obj[p] EXCEPT !.retained = FALSE]
    OBVIOUS
  <2>4. r \in ObjectRecords
    BY <1>3, <1>4, <2>3 DEF ObjectRecords
  <2>5. obj' = [obj EXCEPT ![p] = r] /\ procTable \subseteq Pids
    <3>1. obj \in [Pids -> ObjectRecords] /\ procTable \subseteq Pids
      BY DEF RuntimeInv, RuntimeTypes
    <3> QED BY <1>6, <2>3, <3>1
  <2>6. /\ r.alloc = obj[p].alloc /\ r.event = obj[p].event /\ r.kthread = obj[p].kthread /\
             r.table = obj[p].table
        /\ r.refs = obj[p].refs /\ r.stdoutRefs = obj[p].stdoutRefs /\
             r.threadRefs = obj[p].threadRefs /\ r.payload = obj[p].payload
        /\ r.threadAlloc = obj[p].threadAlloc /\ r.threadOwns = obj[p].threadOwns /\
             r.state = obj[p].state /\ r.retained = FALSE
    BY <1>3, <1>4, <2>3 DEF ObjectRecords
  <2>7. /\ TableOk(obj[p].table) /\ Present(obj[p], Rank(p), p \in procTable, p \in thrTable,
             Writing(p))
        /\ Counted(obj[p], Cardinality(Held(p)))
    BY <1>3, <1>4, LiveMeans
  <2>8. Rank(p) = 9
    BY <1>3, <1>4, <2>7 DEF Present
  <2>9. Writing(p)' = Writing(p)
    <3>1. CASE p = a
      BY <1>1, <2>2, <3>1 DEF Writing, Bit
    <3>2. CASE p # a
      BY <2>2, <3>2, Actors3 DEF Writing, Bit
    <3> QED BY <3>1, <3>2
  <2>10. Present(r, Rank(p), FALSE, p \in thrTable, Writing(p))
    BY <2>6, <2>7, <2>8 DEF Present
  <2>11. (p \in procTable') = FALSE /\ procTable' \subseteq Pids /\ \A q \in Pids : q # p =>
         (q \in procTable' <=> q \in procTable)
    BY <1>6, <2>5
  <2>12. Present(r, Rank(p), p \in procTable', p \in thrTable, Writing(p)')
    BY <2>9, <2>10, <2>11
  <2>13. Weight("Consume") = 1 /\ Weight("ReleaseConsumed") = 2 /\
         "ReleaseConsumed" \notin OwnLabels /\ "ReleaseConsumed" \notin SpawnLabels
    BY Facts
  <2>14. Counted(r, Cardinality(Held(p)) + Weight("ReleaseConsumed") - Weight("Consume"))
    <3>1. Cardinality(Held(p)) \in Nat
      BY NobodyHolds
    <3>2. Cardinality(Held(p)) +
          Weight("ReleaseConsumed") - Weight("Consume") = Cardinality(Held(p)) + 1
      BY <2>13, <3>1
    <3>3. Bit(obj[p].retained) = 1 /\ Bit(r.retained) = 0 /\
          Bit(r.threadOwns) = Bit(obj[p].threadOwns) /\ Bit(r.threadOwns) \in {0, 1}
      BY <1>6, <2>6 DEF Bit
    <3>4. Open(r.table, 1) = Open(obj[p].table, 1) /\
          Open(r.table, 3) = Open(obj[p].table, 3) /\ Open(r.table, 1) \in {0, 1} /\
          Open(r.table, 3) \in {0, 1}
      BY <2>6, OpenIsBit
    <3>5. obj[p].refs = Bit(obj[p].threadOwns) + Bit(obj[p].retained) + Open(obj[p].table, 1) +
          Open(obj[p].table, 3) + Cardinality(Held(p))
      BY <2>7 DEF Counted
    <3>6. r.refs = Bit(r.threadOwns) + Bit(r.retained) + Open(r.table, 1) + Open(r.table, 3) +
          (Cardinality(Held(p)) + 1)
      BY <2>6, <3>1, <3>3, <3>4, <3>5
    <3> QED BY <3>2, <3>6 DEF Counted
  <2>15. r.alloc = "live" /\ r.event /\ TableOk(r.table) /\ act'[a].on = p
    BY <1>3, <1>4, <2>2, <2>6, <2>7
  <2>16. Gives(a, p, "Consume", "ReleaseConsumed", r)
    BY <1>1, <1>3, <1>4, <2>2, <2>5, <2>6, <2>11, <2>12, <2>13, <2>14, <2>15 DEF Gives
  <2> QED BY <2>4, <2>16, GivesKeeps
<1> QED BY <1>4, <1>5, <1>6 DEF Consume

\* A thread that closes a handle goes on with step m.
LEMMA CloseMoves ==
  ASSUME RuntimeInv, NEW p \in Pids, NEW m \in {"ReleaseObject", "ReleaseOwner"}, NEW r,
      Step(p) = "CloseSlot",
         Continue(p, Script(p, m)), Rest, fgOwner' = fgOwner, obj' = [obj EXCEPT ![p] = r]
  PROVE  Moves(p, p, "CloseSlot", m, r)
<1>1. Busy(p) /\ Step(p) \in OwnLabels /\ p \in Callers /\ p # Idle
  BY Facts, Actors3 DEF Busy
<1>2. /\ p \in Actors /\ act \in [Actors -> ActRecords] /\ Scripts /\ fgOwner \in Nat
      /\ obj[p].kthread = "STARTED" /\ act[p].on = p
  BY <1>1, BusyMeans
<1>3. m \in LabelsOf(p) /\ m # "none"
  BY <1>1, Facts DEF LabelsOf
<1>4. /\ act' \in [Actors -> ActRecords] /\ Scripts' /\ Step(p)' = m
      /\ act'[p].on = act[p].on
      /\ \A b \in Actors : b # p => act'[b] = act[b] /\ Step(b)' = Step(b)
  BY <1>2, <1>3, ContinueTo
<1>5. reapQueue' = reapQueue /\ nextPid' = nextPid /\ thrTable' = thrTable /\
      procTable' = procTable /\ fgOwner' \in Nat
  BY <1>2 DEF Rest
<1>6. m \notin SpawnLabels /\ m \in OwnLabels
  BY Facts
<1> QED BY <1>2, <1>4, <1>5, <1>6 DEF Moves

\* The handle of slot i goes, and the object behind it loses a reference: at
\* once, or for the process itself in the next step of the close.
LEMMA CloseGives ==
  ASSUME RuntimeInv, NEW p \in Pids, Step(p) = "CloseSlot", NEW i \in SlotIndices,
      obj[p].table[i].object # "none",
         NEW c, c = [obj[p] EXCEPT !.table[i] = ClearedSlot(@)],
         NEW m, NEW r, Moves(p, p, "CloseSlot", m, r),
         \/ obj[p].table[i].object = "process" /\ m = "ReleaseObject" /\ r = c
         \/ obj[p].table[i].object # "process" /\ m = "ReleaseOwner" /\
              r = ObjectReleased(c, obj[p].table[i].object)
  PROVE  RuntimeInv'
<1>1. Busy(p) /\ Step(p) \in OwnLabels /\ p \in Callers
  BY Facts, Actors3 DEF Busy
<1>2. /\ obj[p].kthread = "STARTED" /\ act[p].on = p
  BY <1>1, BusyMeans
<1>3. obj[p].alloc = "live" /\ Rank(p) = 0 /\ obj[p] \in ObjectRecords
  BY <1>2, Working
<1>4. /\ TableOk(obj[p].table) /\ Present(obj[p], Rank(p), p \in procTable, p \in thrTable,
           Writing(p))
      /\ Counted(obj[p], Cardinality(Held(p)))
  BY <1>3, LiveMeans
<1>5. PICK t \in Tables : t = obj[p].table
  BY <1>3 DEF ObjectRecords, Tables
<1> DEFINE u == [t EXCEPT ![i] = ClearedSlot(@)]
<1>6. /\ u \in Tables /\ TableOk(u) /\ u[i].object = "none"
      /\ \A j \in SlotIndices : j # i => u[j] = t[j]
  BY <1>4, <1>5, ClearingOne
<1>7. c = [obj[p] EXCEPT !.table = u]
  BY <1>3, <1>5 DEF ObjectRecords
<1> HIDE DEF u
<1>8. /\ c \in ObjectRecords /\ Alike(c, obj[p]) /\ c.table = u
      /\ c.refs = obj[p].refs /\ c.stdoutRefs = obj[p].stdoutRefs /\
           c.threadRefs = obj[p].threadRefs
  <2>1. c \in ObjectRecords
    BY <1>3, <1>6, <1>7 DEF ObjectRecords, Tables
  <2> QED BY <1>3, <1>7, <2>1 DEF ObjectRecords, Alike
<1>9. /\ t[i].object = Role(i) /\ Role(i) \in {"process", "console", "thread"} /\
           i \in {1, 2, 3, 4}
      /\ (Role(i) = "process" <=> i \in {1, 3}) /\ (Role(i) = "console" <=> i = 2) /\
           (Role(i) = "thread" <=> i = 4)
  <2>1. t[i].object = Role(i) /\ Role(i) # "none"
    BY <1>4, <1>5 DEF TableOk
  <2> QED BY <2>1 DEF Role
<1>10. /\ \A j \in {1, 2, 3, 4} : Open(u, j) = IF j = i THEN 0 ELSE Open(t, j)
       /\ Open(t, i) = 1
       /\ \A j \in {1, 2, 3, 4} : Open(t, j) \in {0, 1}
  <2>1. \A j \in {1, 2, 3, 4} : j # i => u[j] = t[j]
    BY <1>6, Slots
  <2> QED BY <1>5, <1>6, <2>1, OpenIsBit DEF Open, Bit
<1>11. /\ obj[p].stdoutRefs = 1 + Open(t, 2) + Writing(p) /\ obj[p].threadRefs = 1 +
            Open(t, 4) /\ obj[p].refs > 0
       /\ obj[p].stdoutRefs \in Int /\ obj[p].threadRefs \in Int /\ obj[p].refs \in Int
  BY <1>3, <1>4, <1>5 DEF Present, ObjectRecords
<1>12. Writing(p)' = Writing(p) /\ Writing(p) = 0
  <2>1. Writing(p)' = Writing(p)
    BY <1>1, WritingKeeps
  <2> QED BY <2>1 DEF Writing, Bit
<1>13. /\ Cardinality(Held(p)) \in Nat
       /\ Weight("CloseSlot") = 1 /\ Weight("ReleaseObject") = 2 /\ Weight("ReleaseOwner") = 1
  BY <1>1, NobodyHolds, Facts
<1>14. obj[p].refs = Bit(obj[p].threadOwns) + Bit(obj[p].retained) + Open(t, 1) + Open(t, 3) +
       Cardinality(Held(p))
  BY <1>4, <1>5 DEF Counted
<1>15. Bit(obj[p].threadOwns) \in {0, 1} /\ Bit(obj[p].retained) \in {0, 1}
  BY DEF Bit
<1>16. /\ r \in ObjectRecords /\ Alike(r, obj[p]) /\ r.table = u /\ r.refs = obj[p].refs
       /\ r.stdoutRefs = obj[p].stdoutRefs - Bit(i = 2) /\
            r.threadRefs = obj[p].threadRefs - Bit(i = 4)
  <2>1. CASE i \in {1, 3}
    <3>1. r = c
      BY <1>5, <1>9, <2>1
    <3>2. Bit(i = 2) = 0 /\ Bit(i = 4) = 0
      BY <2>1 DEF Bit
    <3> QED BY <1>8, <1>11, <3>1, <3>2
  <2>2. CASE i = 2
    <3>1. r = ObjectReleased(c, "console")
      BY <1>5, <1>9, <2>2
    <3>2. r = [c EXCEPT !.stdoutRefs = @ - 1]
      BY <3>1 DEF ObjectReleased
    <3>3. r \in ObjectRecords
      <4>1. PICK n \in Int : n = c.stdoutRefs - 1
        BY <1>8, <1>11
      <4>2. r = [c EXCEPT !.stdoutRefs = n]
        BY <3>2, <4>1
      <4> QED BY <1>8, <4>2, ZenonT(60) DEF ObjectRecords
    <3>4. Alike(r, c) /\ r.table = c.table /\ r.refs = c.refs /\
          r.stdoutRefs = c.stdoutRefs - 1 /\ r.threadRefs = c.threadRefs
      BY <1>8, <3>2 DEF ObjectRecords, Alike
    <3>5. Bit(i = 2) = 1 /\ Bit(i = 4) = 0
      BY <2>2 DEF Bit
    <3>6. Alike(r, obj[p])
      BY <1>8, <3>4 DEF Alike
    <3> QED BY <1>8, <1>11, <3>3, <3>4, <3>5, <3>6
  <2>3. CASE i = 4
    <3>1. r = ObjectReleased(c, "thread")
      BY <1>5, <1>9, <2>3
    <3>2. r = ThreadReleased(c)
      BY <3>1 DEF ObjectReleased
    <3>3. c.threadRefs > 1
      BY <1>8, <1>10, <1>11, <2>3
    <3>4. r \in ObjectRecords /\ Alike(r, c) /\ r.table = c.table /\ r.refs = c.refs /\
          r.stdoutRefs = c.stdoutRefs /\ r.threadRefs = c.threadRefs - 1
      BY <1>8, <3>2, <3>3, ThreadReleasingOne
    <3>5. Bit(i = 2) = 0 /\ Bit(i = 4) = 1
      BY <2>3 DEF Bit
    <3>6. Alike(r, obj[p])
      BY <1>8, <3>4 DEF Alike
    <3> QED BY <1>8, <1>11, <3>4, <3>5, <3>6
  <2> QED BY <1>9, <2>1, <2>2, <2>3
<1>17. r.stdoutRefs = 1 + Open(u, 2) + Writing(p)' /\ r.threadRefs = 1 + Open(u, 4)
  <2>1. Bit(i = 2) = Open(t, 2) - Open(u, 2) /\ Bit(i = 4) = Open(t, 4) - Open(u, 4)
    BY <1>10 DEF Bit
  <2>2. Open(u, 2) \in {0, 1} /\ Open(u, 4) \in {0, 1}
    BY OpenIsBit
  <2> QED BY <1>10, <1>11, <1>12, <1>16, <2>1, <2>2
<1>18. Present(r, Rank(p), p \in procTable, p \in thrTable, Writing(p)')
  BY <1>3, <1>4, <1>16, <1>17 DEF Present, Alike
<1>19. Counted(r, Cardinality(Held(p)) + Weight(m) - Weight("CloseSlot"))
  <2>1. r.threadOwns = obj[p].threadOwns /\ r.retained = obj[p].retained
    BY <1>16 DEF Alike
  <2>2. Cardinality(Held(p)) + Weight(m) - Weight("CloseSlot") = Cardinality(Held(p)) +
        Bit(i \in {1, 3})
    BY <1>5, <1>9, <1>13 DEF Bit
  <2>3. Open(u, 1) + Open(u, 3) + Bit(i \in {1, 3}) = Open(t, 1) + Open(t, 3)
    BY <1>9, <1>10 DEF Bit
  <2>4. Bit(i \in {1, 3}) \in {0, 1} /\ Open(u, 1) \in {0, 1} /\ Open(u, 3) \in {0, 1} /\
        Open(t, 1) \in {0, 1} /\ Open(t, 3) \in {0, 1}
    BY OpenIsBit DEF Bit
  <2>5. r.refs = Bit(obj[p].threadOwns) + Bit(obj[p].retained) + Open(u, 1) + Open(u, 3) +
        (Cardinality(Held(p)) + Bit(i \in {1, 3}))
    BY <1>13, <1>14, <1>15, <1>16, <2>3, <2>4
  <2> QED BY <1>16, <2>1, <2>2, <2>5 DEF Counted
<1>20. TableOk(r.table)
  BY <1>6, <1>16
<1> QED BY <1>1, <1>3, <1>16, <1>18, <1>19, <1>20, AlikeGives

\* ExHandleClose between the two updates of the count.
LEMMA CloseSlotKeeps ==
  ASSUME RuntimeInv, NEW p \in Pids, CloseSlot(p)
  PROVE  RuntimeInv'
<1>1. Step(p) = "CloseSlot" /\ Rest /\ fgOwner' = fgOwner
  BY DEF CloseSlot, Rest
<1>2. Busy(p) /\ Step(p) \in OwnLabels /\ p \in Callers
  BY <1>1, Facts, Actors3 DEF Busy
<1>3. /\ p \in Actors /\ Scripts /\ obj[p].kthread = "STARTED" /\
           obj \in [Pids -> ObjectRecords]
  BY <1>2, BusyMeans DEF RuntimeInv, RuntimeTypes
<1>4. obj[p].alloc = "live" /\ obj[p] \in ObjectRecords
  BY <1>3, Working
<1>5. Tail(act[p].steps) = Script(p, "ReleaseObject") /\
      Tail(Tail(act[p].steps)) = Script(p, "ReleaseOwner")
  <2>1. "CloseSlot" \in LabelsOf(p) /\ act[p].steps = Script(p, "CloseSlot")
    BY <1>1, <1>3 DEF Scripts
  <2>2. Following(p, "CloseSlot") = "ReleaseObject" /\
        Following(p, "ReleaseObject") = "ReleaseOwner"
    BY DEF Following, After
  <2>3. "ReleaseObject" \in LabelsOf(p)
    BY <1>3, <2>1, <2>2, ActorLabels
  <2>4. Tail(Script(p, "CloseSlot")) = Script(p, "ReleaseObject")
    BY <1>3, <2>1, <2>2, ScriptFacts
  <2>5. Tail(Script(p, "ReleaseObject")) = Script(p, "ReleaseOwner")
    BY <1>3, <2>2, <2>3, ScriptFacts
  <2> QED BY <2>1, <2>4, <2>5
<1> DEFINE i == HandleIndex(act[p].arg)
           slot == obj[p].table[i]
           ok == /\ HandleIsCurrent(obj[p].table, act[p].arg)
                 /\ CloseAllowed(slot, Published(p), FALSE)
           cleared == [obj[p] EXCEPT !.table[i] = ClearedSlot(@)]
<1>6. \/ ~ok /\ Continue(p, Script(p, "ReleaseOwner")) /\ UNCHANGED obj
      \/ /\ ok /\ slot.object = "process"
         /\ obj' = [obj EXCEPT ![p] = cleared]
         /\ Continue(p, Script(p, "ReleaseObject"))
      \/ /\ ok /\ slot.object # "process"
         /\ obj' = [obj EXCEPT ![p] = ObjectReleased(cleared, slot.object)]
         /\ Continue(p, Script(p, "ReleaseOwner"))
  BY <1>5 DEF CloseSlot
<1>7. ok => i \in SlotIndices /\ slot.object # "none"
  BY DEF HandleIsCurrent, HandleDecodes
<1>8. PICK j : j = i
  OBVIOUS
<1>9. PICK c : c = cleared
  OBVIOUS
<1>10. c = [obj[p] EXCEPT !.table[j] = ClearedSlot(@)] /\ slot = obj[p].table[j]
  BY <1>8, <1>9
<1> HIDE DEF i, slot, ok, cleared
<1>11. ASSUME Continue(p, Script(p, "ReleaseOwner")), UNCHANGED obj PROVE RuntimeInv'
  <2>1. PICK r \in ObjectRecords : r = obj[p]
    BY <1>4
  <2>2. obj' = [obj EXCEPT ![p] = r]
    BY <1>3, <1>11, <2>1
  <2>3. Moves(p, p, "CloseSlot", "ReleaseOwner", r)
    BY <1>1, <1>11, <2>2, CloseMoves
  <2>4. Weight("ReleaseOwner") = Weight("CloseSlot")
    BY Facts
  <2> QED BY <1>2, <1>4, <2>1, <2>3, <2>4, StillGives
<1>12. ASSUME ok, slot.object = "process", obj' = [obj EXCEPT ![p] = cleared],
       Continue(p, Script(p, "ReleaseObject")) PROVE RuntimeInv'
  <2>1. obj' = [obj EXCEPT ![p] = c]
    BY <1>9, <1>12
  <2>2. Moves(p, p, "CloseSlot", "ReleaseObject", c)
    BY <1>1, <1>12, <2>1, CloseMoves
  <2>3. j \in SlotIndices /\ obj[p].table[j].object = "process"
    BY <1>7, <1>8, <1>10, <1>12
  <2> QED BY <1>1, <1>10, <2>2, <2>3, CloseGives
<1>13. ASSUME ok, slot.object # "process", obj' = [obj EXCEPT ![p] = ObjectReleased(cleared,
       slot.object)], Continue(p, Script(p, "ReleaseOwner")) PROVE RuntimeInv'
  <2>1. PICK r : r = ObjectReleased(c, obj[p].table[j].object)
    OBVIOUS
  <2>2. obj' = [obj EXCEPT ![p] = r]
    BY <1>9, <1>10, <1>13, <2>1
  <2>3. Moves(p, p, "CloseSlot", "ReleaseOwner", r)
    BY <1>1, <1>13, <2>2, CloseMoves
  <2>4. j \in SlotIndices /\ obj[p].table[j].object # "process" /\
        obj[p].table[j].object # "none"
    BY <1>7, <1>8, <1>10, <1>13
  <2> QED BY <1>1, <1>10, <2>1, <2>3, <2>4, CloseGives
<1> QED BY <1>6, <1>11, <1>12, <1>13

-----------------------------------------------------------------------------
(* Creation and exit.                                                      *)

\* A process number is given out, with record r.
Creates(a, p, m, r) ==
  /\ MayCall(a) /\ p = nextPid /\ nextPid' = nextPid + 1 /\ fgOwner' = fgOwner /\
       reapQueue' = reapQueue
  /\ TableOk(r.table) /\ r.kthread \in {"NONE", "NEW"}
  /\ act' \in [Actors -> ActRecords] /\ Scripts' /\ Step(a)' = m
  /\ \A b \in Actors : b # a => act'[b] = act[b] /\ Step(b)' = Step(b)
  /\ m \in {"none", "Return", "SetOwner", "MarkControl"}
  /\ m \in {"SetOwner", "MarkControl"} => act'[a].on = p /\ r.kthread = "NEW" /\
       r.alloc = "live"
  /\ obj' = [obj EXCEPT ![p] = r]
  /\ procTable' \subseteq Pids /\ \A q \in Pids : q # p =>
       (q \in procTable' <=> q \in procTable)
  /\ thrTable' \subseteq Pids /\ \A q \in Pids : q # p => (q \in thrTable' <=> q \in thrTable)
  /\ r.alloc = "live" => Counted(r, 0)
  /\ Absent(r, 0, p \in procTable', p \in thrTable') \/
       Present(r, 0, p \in procTable', p \in thrTable', 0)

\* Such a step keeps the invariant.
LEMMA CreateKeeps ==
  ASSUME RuntimeInv, NEW a \in Callers, NEW p \in Pids, NEW m, NEW r \in ObjectRecords,
      Creates(a, p, m, r)
  PROVE  RuntimeInv'
<1>0. /\ MayCall(a) /\ p = nextPid /\ nextPid' = nextPid + 1 /\ fgOwner' = fgOwner /\
           reapQueue' = reapQueue
      /\ TableOk(r.table) /\ r.kthread \in {"NONE", "NEW"}
      /\ act' \in [Actors -> ActRecords] /\ Scripts' /\ Step(a)' = m
      /\ \A b \in Actors : b # a => act'[b] = act[b] /\ Step(b)' = Step(b)
      /\ m \in {"none", "Return", "SetOwner", "MarkControl"}
      /\ m \in {"SetOwner", "MarkControl"} => act'[a].on = p /\ r.kthread = "NEW" /\
           r.alloc = "live"
      /\ obj' = [obj EXCEPT ![p] = r]
      /\ procTable' \subseteq Pids /\ \A q \in Pids : q # p =>
           (q \in procTable' <=> q \in procTable)
      /\ thrTable' \subseteq Pids /\ \A q \in Pids : q # p =>
           (q \in thrTable' <=> q \in thrTable)
      /\ r.alloc = "live" => Counted(r, 0)
      /\ Absent(r, 0, p \in procTable', p \in thrTable') \/
           Present(r, 0, p \in procTable', p \in thrTable', 0)
  BY Zenon DEF Creates
<1>1. /\ RuntimeTypes /\ Scripts /\ (\A b \in Callers : CallerOk(b)) /\ OneSpawner /\
           ReaperOk /\ Processes /\ Counts
  BY DEF RuntimeInv
<1>2. obj \in [Pids -> ObjectRecords] /\ a \in Actors /\ a # Idle /\ Idle \in Actors /\
      Callers \subseteq Actors /\ Pids \subseteq Callers
      /\ nextPid \in Nat \ {0} /\ fgOwner \in Nat /\ reapQueue \in Seq(Pids) /\
           Pids \subseteq Nat
  BY <1>1, Actors3 DEF RuntimeTypes
<1>3. obj' \in [Pids -> ObjectRecords] /\ obj'[p] = r /\ \A q \in Pids : q # p =>
      obj'[q] = obj[q]
  BY <1>0, <1>2
<1>4. RuntimeTypes'
  <2>1. nextPid' \in Nat \ {0}
    BY <1>0, <1>2
  <2> QED BY <1>0, <1>2, <1>3, <2>1 DEF RuntimeTypes
<1>5. obj[p].alloc = "none" /\ obj[p].kthread = "NONE"
  <2>1. p >= nextPid
    BY <1>0, <1>2
  <2> QED BY <1>1, <2>1 DEF Processes
<1>6. Step(a) = "none" /\ (a \in Pids => obj[a].kthread = "STARTED" /\ a # p)
  BY <1>0, <1>5, Actors3 DEF MayCall, Step, IsUserThread
<1>7. \A q \in Pids : obj'[q].kthread = "EXITED" <=> obj[q].kthread = "EXITED"
  BY <1>0, <1>3, <1>5
<1>8. act'[Idle] = act[Idle] /\ Step(Idle)' = Step(Idle)
  BY <1>0, <1>2
<1>9. \A q \in Pids : Rank(q)' = Rank(q)
  BY <1>0, <1>7, <1>8, RankKeeps
<1>10. Rank(p) = 0
  BY <1>5, Ranks
<1>11. ReaperOk'
  <2>1. \A i \in 1 .. Len(reapQueue') : reapQueue'[i] \in Pids /\
        obj'[reapQueue'[i]].kthread = "EXITED"
    BY <1>0, <1>1, <1>7 DEF ReaperOk
  <2>2. \A i, j \in 1 .. Len(reapQueue') : reapQueue'[i] = reapQueue'[j] => i = j
    BY <1>0, <1>1 DEF ReaperOk
  <2>3. Step(Idle)' # "none" => /\ act'[Idle].on \in Pids /\
                                     obj'[act'[Idle].on].kthread = "EXITED"
                                /\ ~(\E i \in 1 .. Len(reapQueue') : reapQueue'[i] = act'[Idle].on)
    BY <1>0, <1>1, <1>7, <1>8 DEF ReaperOk, Queued
  <2>4. Step(Idle)' = "none" => act'[Idle].on = 0
    BY <1>1, <1>8 DEF ReaperOk
  <2> QED BY <2>1, <2>2, <2>3, <2>4 DEF ReaperOk, Queued
<1>12. \A b \in Callers : Busy(b) => act[b].on \in Pids /\ act[b].on # p
  BY <1>1, <1>5 DEF CallerOk
<1>13. OneSpawner'
  <2> SUFFICES ASSUME NEW b \in Callers, NEW c \in Callers, Step(b)' \in SpawnLabels,
      Step(c)' \in SpawnLabels, act'[b].on = act'[c].on
               PROVE  b = c
    BY DEF OneSpawner, SpawnLabels
  <2>1. Step(a)' \in SpawnLabels => act'[a].on = p
    BY <1>0 DEF SpawnLabels
  <2>2. \A d \in Callers : d # a /\ Step(d)' \in SpawnLabels => act'[d].on # p /\
        act'[d].on = act[d].on /\ Step(d) \in SpawnLabels
    BY <1>0, <1>2, <1>12 DEF Busy, SpawnLabels
  <2> QED BY <1>1, <2>1, <2>2 DEF OneSpawner
<1>14. ASSUME NEW b \in Callers PROVE CallerOk(b)'
  <2>1. CASE b = a
    <3>1. a \in Pids => obj'[a].kthread = "STARTED"
      BY <1>3, <1>6
    <3>2. m \in {"SetOwner", "MarkControl"} => act'[a].on \in Pids /\ obj'[act'[a].on] = r /\
          r.kthread = "NEW" /\ r.alloc = "live"
      BY <1>0, <1>3
    <3>3. m \notin OwnLabels /\ m # "MarkReady" /\ m \notin {"RestoreOwner", "Consume",
          "ReleaseConsumed"}
      BY <1>0 DEF OwnLabels
    <3>4. Busy(a)' => m \in {"SetOwner", "MarkControl"}
      BY <1>0 DEF Busy
    <3>5. m \in SpawnLabels => m \in {"SetOwner", "MarkControl"}
      BY <1>0 DEF SpawnLabels
    <3>6. CallerOk(a)'
      BY <1>0, <3>1, <3>2, <3>3, <3>4, <3>5 DEF CallerOk
    <3> QED BY <2>1, <3>6
  <2>2. CASE b # a
    <3>1. act'[b] = act[b] /\ Step(b)' = Step(b) /\ CallerOk(b)
      BY <1>0, <1>1, <1>2, <2>2
    <3>2. Busy(b)' <=> Busy(b)
      BY <3>1 DEF Busy
    <3>3. b \in Pids /\ Step(b) # "none" => obj'[b].kthread = "STARTED"
      BY <1>3, <1>5, <3>1 DEF CallerOk
    <3>4. CASE ~Busy(b)
      BY <3>1, <3>2, <3>3, <3>4 DEF CallerOk, Busy, OwnLabels, SpawnLabels
    <3>5. CASE Busy(b)
      <4>1. PICK q \in Pids : q = act[b].on /\ q # p
        BY <1>12, <3>5
      <4>2. obj'[q] = obj[q] /\ Rank(q)' = Rank(q)
        BY <1>3, <1>9, <4>1
      <4>3. act'[b].on = q /\ act[b].on = q
        BY <3>1, <4>1
      <4>4. Step(b) = "MarkReady" => Rank(act[b].on)' = 0
        <5>1. Step(b) = "MarkReady" => Rank(q) = 0
          BY <3>1, <4>1 DEF CallerOk
        <5> QED BY <4>2, <4>3, <5>1 DEF Rank, Queued
      <4>5. Step(b) = "MarkReady" => obj[q].kthread # "NEW"
        BY <3>1, <4>1 DEF CallerOk
      <4>6. Step(b) \in OwnLabels => q = b
        BY <3>1, <4>1 DEF CallerOk
      <4>7. /\ Step(b) \in {"RestoreOwner", "Consume", "ReleaseConsumed"} => obj[q].event
            /\ Step(b) \in SpawnLabels \ {"MarkReady"} => obj[q].kthread = "NEW"
            /\ obj[q].alloc = "live"
        BY <3>1, <3>5, <4>1 DEF CallerOk
      <4> QED BY <3>1, <3>3, <4>2, <4>3, <4>4, <4>5, <4>6, <4>7 DEF CallerOk
    <3> QED BY <3>4, <3>5
  <2> QED BY <2>1, <2>2
<1>15. \A q \in Pids : WeightOn(a, q) = 0 /\ WeightOn(a, q)' = 0
  <2>1. Weight(Step(a)) = 0
    BY <1>6, Weights
  <2>2. Weight(Step(a)') = 0
    <3>1. \A l \in {"SetOwner", "MarkControl"} : l \in SpawnLabels
      BY DEF SpawnLabels
    <3> QED BY <1>0, <3>1, Facts
  <2>3. \A q \in Pids : WeightOn(a, q)' = IF act'[a].on = q THEN Weight(Step(a)') ELSE 0
    BY DEF WeightOn, Weight
  <2> QED BY <2>1, <2>2, <2>3 DEF WeightOn
<1>16. \A b \in Callers : b # a => \A q : WeightOn(b, q)' = WeightOn(b, q)
  BY <1>0, <1>2 DEF WeightOn, Weight
<1>17. \A q \in Pids : Cardinality(Held(q)') = Cardinality(Held(q)) /\
       Cardinality(Held(q)) \in Nat
  <2> SUFFICES ASSUME NEW q \in Pids PROVE Cardinality(Held(q)') = Cardinality(Held(q)) /\
      Cardinality(Held(q)) \in Nat
    OBVIOUS
  <2>1. /\ Cardinality(Held(q)) \in Nat
        /\ Cardinality(Held(q)') = Cardinality(Held(q)) + WeightOn(a, q)' - WeightOn(a, q)
    BY <1>16, HeldMoves
  <2> QED BY <1>15, <2>1
<1>18. Cardinality(Held(p)) = 0
  <2>1. \A b \in Callers : WeightOn(b, p) = 0
    BY <1>12, Weights DEF WeightOn, Busy
  <2>2. Held(p) = {}
    BY <2>1 DEF Held
  <2> QED BY <2>2, FS_EmptySet
<1>19. Counts'
  <2> SUFFICES ASSUME NEW q \in Pids, obj'[q].alloc = "live" PROVE Counted(obj'[q],
      Cardinality(Held(q)'))
    BY DEF Counts, Counted, Bit, Open
  <2>1. CASE q = p
    BY <1>0, <1>3, <1>17, <1>18, <2>1
  <2>2. CASE q # p
    <3>1. Counted(obj[q], Cardinality(Held(q)))
      BY <1>1, <1>3, <2>2 DEF Counts, Counted
    <3> QED BY <1>3, <1>17, <2>2, <3>1
  <2> QED BY <2>1, <2>2
<1>20. \A q \in Pids : Writing(q)' = Writing(q)
  <2>1. Step(a)' # "ReleaseOut" /\ Step(a) # "ReleaseOut"
    BY <1>0, <1>6
  <2> QED BY <1>0, <1>2, <2>1 DEF Writing, Bit
<1>21. Writing(p) = 0
  <2>1. Step(p) = "none"
    BY <1>1, <1>2, <1>5 DEF CallerOk
  <2> QED BY <2>1 DEF Writing, Bit
<1>22. Processes'
  <2> SUFFICES ASSUME NEW q \in Pids
               PROVE  /\ TableOk(obj'[q].table)
                      /\ Absent(obj'[q], Rank(q)', q \in procTable', q \in thrTable') \/
                           Present(obj'[q], Rank(q)', q \in procTable', q \in thrTable',
                           Writing(q)')
                      /\ q >= nextPid' => obj'[q].alloc = "none" /\ obj'[q].kthread = "NONE"
    BY DEF Processes, TableOk, Absent, Present, Closed, Open, Bit, Role
  <2>1. CASE q = p
    <3>1. Rank(p)' = 0 /\ Writing(p)' = 0
      BY <1>9, <1>10, <1>20, <1>21
    <3>2. ~(p >= nextPid')
      BY <1>0, <1>2
    <3> QED BY <1>0, <1>3, <2>1, <3>1, <3>2
  <2>2. CASE q # p
    <3>1. obj'[q] = obj[q] /\ Rank(q)' = Rank(q) /\ Writing(q)' = Writing(q) /\
          (q \in procTable') = (q \in procTable) /\ (q \in thrTable') = (q \in thrTable)
      BY <1>0, <1>3, <1>9, <1>20, <2>2
    <3>2. /\ TableOk(obj[q].table)
          /\ Absent(obj[q], Rank(q), q \in procTable, q \in thrTable) \/
               Present(obj[q], Rank(q), q \in procTable, q \in thrTable, Writing(q))
          /\ q >= nextPid => obj[q].alloc = "none" /\ obj[q].kthread = "NONE"
      BY <1>1 DEF Processes
    <3>3. q >= nextPid' => q >= nextPid
      BY <1>0, <1>2
    <3> QED BY <3>1, <3>2, <3>3, Zenon
  <2> QED BY <2>1, <2>2
<1> QED BY <1>0, <1>4, <1>11, <1>13, <1>14, <1>19, <1>22 DEF RuntimeInv

\* A process is created and published, or its creation is unwound.
LEMMA SpawnKeeps ==
  ASSUME RuntimeInv, NEW a \in Callers, NEW foreground \in BOOLEAN, Spawn(a, foreground)
  PROVE  RuntimeInv'
<1>1. /\ MayCall(a) /\ <<a, nextPid, foreground>> \in Spawns /\ nextPid' = nextPid + 1 /\
           UNCHANGED <<fgOwner, reapQueue>>
  BY DEF Spawn
<1>2. /\ a \in Actors /\ a # Idle /\ act \in [Actors -> ActRecords] /\
           obj \in [Pids -> ObjectRecords] /\ Scripts
      /\ procTable \subseteq Pids /\ thrTable \subseteq Pids /\ fgOwner \in Nat
  BY Actors3 DEF RuntimeInv, RuntimeTypes
<1>3. PICK p \in Pids : p = nextPid
  <2>1. <<a, nextPid, foreground>> \in Callers \X Pids \X BOOLEAN
    BY <1>1, RuntimeAssumption
  <2> QED BY <2>1
<1>4. PICK parent \in Nat : parent = CallerPid(a)
  BY Actors3 DEF CallerPid
<1>5. obj[p].alloc = "none" /\ obj[p].kthread = "NONE" /\ p \notin procTable /\
      p \notin thrTable
  <2>1. p >= nextPid
    BY <1>3, Actors3
  <2> QED BY <2>1 DEF RuntimeInv, Processes, Absent, Present
<1>6. ASSUME Publish(p), obj' = [obj EXCEPT ![p] = BuiltThread(BuiltProcess(parent))],
             act' = [act EXCEPT ![a] =
                 [steps |-> SpawnSteps(foreground) \o Ending(a),
                  on |-> p, arg |-> fgOwner, fg |-> foreground]]
      PROVE  RuntimeInv'
  <2>1. PICK m \in {"SetOwner", "MarkControl"} : SpawnSteps(foreground) \o Ending(a) = Script(a,
        m)
    <3>1. foreground => SpawnSteps(foreground) \o Ending(a) = Script(a, "SetOwner")
      BY Bodies DEF SpawnSteps, Script
    <3>2. ~foreground => SpawnSteps(foreground) \o Ending(a) = Script(a, "MarkControl")
      BY Bodies DEF SpawnSteps, Script
    <3> QED BY <3>1, <3>2
  <2>2. m \in LabelsOf(a) /\ m # "none"
    BY <1>2 DEF LabelsOf, SpawnLabels
  <2>3. PICK s \in Seq(Labels) : s = Script(a, m)
    BY <1>2, <2>2, ScriptFacts
  <2>4. PICK c : c = [steps |-> s, on |-> p, arg |-> fgOwner, fg |-> foreground]
    OBVIOUS
  <2>5. c \in ActRecords /\ c.steps = Script(a, m) /\ c.on = p
    BY <1>2, <2>3, <2>4 DEF ActRecords
  <2>6. act' = [act EXCEPT ![a] = c]
    BY <1>6, <2>1, <2>3, <2>4
  <2>7. /\ act' \in [Actors -> ActRecords] /\ Scripts' /\ act'[a] = c /\ Step(a)' = m
        /\ \A b \in Actors : b # a => act'[b] = act[b] /\ Step(b)' = Step(b)
    BY <1>2, <2>2, <2>5, <2>6, MoveTo
  <2>8. PICK r : r = BuiltThread(BuiltProcess(parent))
    OBVIOUS
  <2>9. /\ r \in ObjectRecords /\ TableOk(r.table)
        /\ r.alloc = "live" /\ r.state = "CREATED" /\ ~r.retained /\ ~r.event /\ r.payload
        /\ r.threadAlloc = "live" /\ r.threadOwns /\ r.kthread = "NEW"
        /\ r.refs = 3 /\ r.stdoutRefs = 2 /\ r.threadRefs = 2
        /\ r.table[1].object = "process" /\ r.table[2].object = "console" /\
             r.table[3].object = "process"
        /\ r.table[4].object = "thread"
    BY <2>8, BuiltThreadFacts
  <2>10. Open(r.table, 1) = 1 /\ Open(r.table, 2) = 1 /\ Open(r.table, 3) = 1 /\
         Open(r.table, 4) = 1
    BY <2>9 DEF Open, Bit
  <2>11. Bit(r.threadOwns) = 1 /\ Bit(r.retained) = 0
    <3>1. r.threadOwns /\ ~r.retained
      BY <2>9
    <3> QED BY <3>1 DEF Bit
  <2>12. Counted(r, 0)
    <3>1. r.refs = 3
      BY <2>9
    <3>2. 3 = 1 + 0 + 1 + 1 + 0
      OBVIOUS
    <3>3. Counted(r, 0) <=> 3 = 1 + 0 + 1 + 1 + 0
      BY <2>10, <2>11, <3>1, Zenon DEF Counted
    <3> QED BY <3>2, <3>3
  <2>13. Present(r, 0, TRUE, TRUE, 0)
    BY <2>9, <2>10 DEF Present
  <2>14. procTable' = procTable \cup {p} /\ thrTable' = thrTable \cup {p}
    BY <1>6 DEF Publish
  <2>15. (p \in procTable') = TRUE /\ (p \in thrTable') = TRUE
    BY <2>14
  <2>16. Present(r, 0, p \in procTable', p \in thrTable', 0)
    BY <2>13, <2>15
  <2>17. obj' = [obj EXCEPT ![p] = r]
    BY <1>6, <2>8
  <2>18. procTable' \subseteq Pids /\ thrTable' \subseteq Pids /\
         (\A q \in Pids : q # p => (q \in procTable' <=> q \in procTable))
         /\ (\A q \in Pids : q # p => (q \in thrTable' <=> q \in thrTable))
    BY <1>2, <2>14
  <2>19. act'[a].on = p
    BY <2>5, <2>7
  <2>20. Creates(a, p, m, r)
    BY <1>1, <1>3, <2>7, <2>9, <2>12, <2>16, <2>17, <2>18, <2>19 DEF Creates
  <2> QED BY <2>9, <2>20, CreateKeeps
<1>7. ASSUME NEW stage \in {"space", "thread", "publish"},
      obj' = [obj EXCEPT ![p] = FailedCreation(parent, stage)],
             act' = [act EXCEPT ![a] = Done(a)], UNCHANGED <<procTable, thrTable>>
      PROVE  RuntimeInv'
  <2>1. PICK m \in LabelsOf(a) : m = Ends(a) /\ m \in {"none", "Return"}
    BY <1>2, ActorLabels, EndsAre
  <2>2. PICK c : c = Ended(Ending(a))
    OBVIOUS
  <2>3. c \in ActRecords /\ c.steps = Script(a, m)
    <3>1. 0 \in Nat /\ Ending(a) \in Seq(Labels) /\ Ending(a) = Script(a, m)
      BY <2>1, Endings, Services
    <3> QED BY <2>2, <3>1, Beginning
  <2>4. act' = [act EXCEPT ![a] = c]
    BY <1>7, <2>2 DEF Done, Ended
  <2>5. /\ act' \in [Actors -> ActRecords] /\ Scripts' /\ Step(a)' = m
        /\ \A b \in Actors : b # a => act'[b] = act[b] /\ Step(b)' = Step(b)
    BY <1>2, <2>3, <2>4, MoveTo
  <2>6. PICK r : r = FailedCreation(parent, stage)
    OBVIOUS
  <2>7. r \in ObjectRecords /\ Gone(r)
    BY <2>6, FailedCreationFacts
  <2>8. obj' = [obj EXCEPT ![p] = r] /\ procTable' = procTable /\ thrTable' = thrTable
    BY <1>7, <2>6
  <2>9. (p \in procTable') = FALSE /\ (p \in thrTable') = FALSE
    BY <1>5, <2>8
  <2>10. Absent(r, 0, FALSE, FALSE) /\ TableOk(r.table) /\ r.kthread = "NONE" /\
         r.alloc # "live"
    BY <2>7 DEF Gone, Absent
  <2>11. Absent(r, 0, p \in procTable', p \in thrTable')
    BY <2>9, <2>10
  <2>12. m \notin {"SetOwner", "MarkControl"}
    BY <2>1
  <2>13. Creates(a, p, m, r)
    BY <1>1, <1>2, <1>3, <2>1, <2>5, <2>8, <2>10, <2>11, <2>12 DEF Creates
  <2> QED BY <2>7, <2>13, CreateKeeps
<1> QED BY <1>3, <1>4, <1>6, <1>7 DEF Spawn

\* A thread ends and goes to the reaper.
LEMMA ExitKeeps ==
  ASSUME RuntimeInv, NEW p \in Pids, Step(p) \in {"none", "Return"}, obj[p].kthread = "STARTED",
         NEW reason \in {"SELF", "KILL"}, ThreadExits(p, reason),
             UNCHANGED <<procTable, thrTable, nextPid, fgOwner>>
  PROVE  RuntimeInv'
<1>1. /\ RuntimeTypes /\ Scripts /\ (\A b \in Callers : CallerOk(b)) /\ OneSpawner /\
           ReaperOk /\ Processes /\ Counts
  BY DEF RuntimeInv
<1>2. /\ obj \in [Pids -> ObjectRecords] /\ act \in [Actors -> ActRecords] /\ Idle \in Actors /\
           Callers \subseteq Actors /\ Pids \subseteq Callers
      /\ p \in Callers /\ p \in Actors /\ p # Idle /\ reapQueue \in Seq(Pids) /\ 0 \notin Pids
  BY <1>1, Actors3 DEF RuntimeTypes
<1>3. PICK r : r = [obj[p] EXCEPT !.reason = IF @ = "NONE" THEN reason ELSE @,
      !.kthread = "EXITED"]
  OBVIOUS
<1>4. r \in ObjectRecords
  <2>1. PICK x \in {"NONE", "SELF",
        "KILL"} : x = IF obj[p].reason = "NONE" THEN reason ELSE obj[p].reason
    BY <1>2 DEF ObjectRecords
  <2> DEFINE q == [obj[p] EXCEPT !.reason = x]
  <2>0. obj[p] \in ObjectRecords
    BY <1>2
  <2>2. q \in ObjectRecords
    BY <2>0 DEF ObjectRecords
  <2>3. r = [q EXCEPT !.kthread = "EXITED"]
    BY <1>3, <2>1
  <2> HIDE DEF q
  <2> QED BY <2>2, <2>3 DEF ObjectRecords
<1>5. /\ r.alloc = obj[p].alloc /\ r.event = obj[p].event /\ r.kthread = "EXITED" /\
           r.table = obj[p].table
      /\ r.refs = obj[p].refs /\ r.stdoutRefs = obj[p].stdoutRefs /\
           r.threadRefs = obj[p].threadRefs /\ r.payload = obj[p].payload
      /\ r.threadAlloc = obj[p].threadAlloc /\ r.threadOwns = obj[p].threadOwns /\
           r.state = obj[p].state /\ r.retained = obj[p].retained
  BY <1>2, <1>3 DEF ObjectRecords
<1>6. obj' = [obj EXCEPT ![p] = r]
  <2>1. obj' = [obj EXCEPT ![p].reason = IF @ = "NONE" THEN reason ELSE @,
        ![p].kthread = "EXITED"]
    BY DEF ThreadExits
  <2> QED BY <1>2, <1>3, <2>1
<1>7. obj' \in [Pids -> ObjectRecords] /\ obj'[p] = r /\ \A q \in Pids : q # p =>
      obj'[q] = obj[q]
  BY <1>2, <1>4, <1>6
<1>8. /\ act' \in [Actors -> ActRecords] /\ Scripts' /\ act'[p] = Resting /\ Step(p)' = "none"
      /\ \A b \in Actors : b # p => act'[b] = act[b] /\ Step(b)' = Step(b)
  <2>1. Resting \in ActRecords /\ Resting.steps = << >>
    BY DEF Resting, ActRecords
  <2>2. PICK l \in LabelsOf(p) : l = "none"
    BY DEF LabelsOf
  <2>3. PICK c \in ActRecords : c = Resting
    BY <2>1
  <2>4. c.steps = Script(p, l) /\ act' = [act EXCEPT ![p] = c]
    BY <2>1, <2>2, <2>3 DEF ThreadExits, Script
  <2>5. /\ act' \in [Actors -> ActRecords] /\ Scripts' /\ act'[p] = c /\ Step(p)' = l
        /\ \A b \in Actors : b # p => act'[b] = act[b] /\ Step(b)' = Step(b)
    BY <1>1, <1>2, <2>4, MoveTo
  <2> QED BY <2>2, <2>3, <2>5
<1>9. /\ reapQueue' \in Seq(Pids) /\ Len(reapQueue') = Len(reapQueue) + 1 /\
           Len(reapQueue) \in Nat
      /\ \A i \in 1 .. Len(reapQueue) : reapQueue'[i] = reapQueue[i]
      /\ reapQueue'[Len(reapQueue) + 1] = p
  <2>1. reapQueue' = Append(reapQueue, p)
    BY DEF ThreadExits
  <2> QED BY <1>2, <2>1
<1>10. RuntimeTypes'
  BY <1>1, <1>7, <1>8, <1>9 DEF RuntimeTypes
<1>11. \A i \in 1 .. Len(reapQueue) : reapQueue[i] # p
  BY <1>1 DEF ReaperOk
<1>12. \A i \in 1 .. Len(reapQueue') : i \in 1 .. Len(reapQueue) \/ i = Len(reapQueue) + 1
  BY <1>9
<1>13. act'[Idle] = act[Idle] /\ Step(Idle)' = Step(Idle)
  BY <1>2, <1>8
<1>14. Queued(p)' /\ \A q : q # p => (Queued(q)' <=> Queued(q))
  <2>1. Len(reapQueue) + 1 \in 1 .. Len(reapQueue') /\
        \A i \in 1 .. Len(reapQueue) : i \in 1 .. Len(reapQueue')
    BY <1>9
  <2> QED BY <1>9, <1>12, <2>1 DEF Queued
<1>15. Rank(p)' = 0 /\ Rank(p) = 0
  BY <1>14, Ranks DEF Rank
<1>16. \A q \in Pids : Rank(q)' = Rank(q)
  <2> SUFFICES ASSUME NEW q \in Pids, q # p PROVE Rank(q)' = Rank(q)
    BY <1>15
  <2>1. obj'[q] = obj[q] /\ (Queued(q)' <=> Queued(q))
    BY <1>7, <1>14
  <2>2. FinalRank(Step(Idle))' = FinalRank(Step(Idle))
    BY <1>13 DEF FinalRank
  <2> QED BY <1>13, <2>1, <2>2 DEF Rank
<1>17. ReaperOk'
  <2>1. \A i \in 1 .. Len(reapQueue') : reapQueue'[i] \in Pids /\
        obj'[reapQueue'[i]].kthread = "EXITED"
    <3>1. \A i \in 1 .. Len(reapQueue) : reapQueue[i] \in Pids /\
          obj'[reapQueue[i]].kthread = "EXITED"
      BY <1>1, <1>7, <1>11 DEF ReaperOk
    <3>2. p \in Pids /\ obj'[p].kthread = "EXITED"
      BY <1>5, <1>7
    <3> QED BY <1>9, <1>12, <3>1, <3>2
  <2>2. \A i, j \in 1 .. Len(reapQueue') : reapQueue'[i] = reapQueue'[j] => i = j
    <3>1. \A i, j \in 1 .. Len(reapQueue) : reapQueue[i] = reapQueue[j] => i = j
      BY <1>1 DEF ReaperOk
    <3> QED BY <1>9, <1>11, <1>12, <3>1
  <2>3. Step(Idle) # "none" => act[Idle].on \in Pids /\ obj[act[Idle].on].kthread = "EXITED" /\
        ~Queued(act[Idle].on)
    BY <1>1 DEF ReaperOk
  <2>4. Step(Idle) # "none" => act[Idle].on # p
    BY <2>3
  <2>5. Step(Idle) # "none" => obj'[act[Idle].on].kthread = "EXITED" /\
        ~(\E i \in 1 .. Len(reapQueue') : reapQueue'[i] = act[Idle].on)
    BY <1>7, <1>9, <1>12, <2>3, <2>4 DEF Queued
  <2>6. Step(Idle)' = "none" => act'[Idle].on = 0
    BY <1>1, <1>13 DEF ReaperOk
  <2> QED BY <1>13, <2>1, <2>2, <2>3, <2>5, <2>6 DEF ReaperOk, Queued
<1>18. OneSpawner'
  <2> SUFFICES ASSUME NEW b \in Callers, NEW c \in Callers, Step(b)' \in SpawnLabels,
      Step(c)' \in SpawnLabels, act'[b].on = act'[c].on
               PROVE  b = c
    BY DEF OneSpawner, SpawnLabels
  <2>1. b # p /\ c # p
    BY <1>8 DEF SpawnLabels
  <2> QED BY <1>1, <1>2, <1>8, <2>1 DEF OneSpawner
<1>19. ASSUME NEW b \in Callers PROVE CallerOk(b)'
  <2>1. CASE b = p
    <3>1. CallerOk(p)'
      BY <1>8 DEF CallerOk, Busy, OwnLabels, SpawnLabels
    <3> QED BY <2>1, <3>1
  <2>2. CASE b # p
    <3>1. act'[b] = act[b] /\ Step(b)' = Step(b) /\ CallerOk(b)
      BY <1>1, <1>2, <1>8, <2>2
    <3>2. Busy(b)' <=> Busy(b)
      BY <3>1 DEF Busy
    <3>3. b \in Pids /\ Step(b) # "none" => obj'[b].kthread = "STARTED"
      BY <1>7, <2>2, <3>1 DEF CallerOk
    <3>4. CASE ~Busy(b)
      BY <3>1, <3>2, <3>3, <3>4 DEF CallerOk, Busy, OwnLabels, SpawnLabels
    <3>5. CASE Busy(b)
      <4>1. PICK q \in Pids : q = act[b].on
        BY <3>1, <3>5 DEF CallerOk
      <4>2. /\ Step(b) \in {"RestoreOwner", "Consume", "ReleaseConsumed"} => obj[q].event
            /\ Step(b) \in SpawnLabels \ {"MarkReady"} => obj[q].kthread = "NEW"
            /\ Step(b) = "MarkReady" => Rank(q) = 0 /\ obj[q].kthread # "NEW"
            /\ Step(b) \in OwnLabels => q = b
            /\ obj[q].alloc = "live"
        BY <3>1, <3>5, <4>1 DEF CallerOk
      <4>3. /\ obj'[q].alloc = "live" /\ obj'[q].event = obj[q].event
            /\ obj[q].kthread = "NEW" <=> obj'[q].kthread = "NEW"
        BY <1>5, <1>7, <4>2
      <4>4. act'[b].on = q /\ act[b].on = q /\ Rank(q)' = Rank(q)
        BY <1>16, <3>1, <4>1
      <4>5. Step(b) = "MarkReady" => Rank(act[b].on)' = 0
        BY <4>2, <4>4 DEF Rank, Queued
      <4> QED BY <3>1, <3>3, <4>2, <4>3, <4>4, <4>5 DEF CallerOk
    <3> QED BY <3>4, <3>5
  <2> QED BY <2>1, <2>2
<1>20. \A b \in Callers, q \in Pids : WeightOn(b, q)' = WeightOn(b, q)
  <2>1. \A q \in Pids : WeightOn(p, q) = 0 /\ WeightOn(p, q)' = 0
    <3>1. Weight(Step(p)) = 0 /\ Weight(Step(p)') = 0
      BY <1>8, Weights
    <3>2. \A q \in Pids : WeightOn(p, q)' = IF act'[p].on = q THEN Weight(Step(p)') ELSE 0
      BY DEF WeightOn, Weight
    <3> QED BY <3>1, <3>2 DEF WeightOn
  <2>2. \A b \in Callers : b # p => \A q : WeightOn(b, q)' = WeightOn(b, q)
    BY <1>2, <1>8 DEF WeightOn, Weight
  <2> QED BY <2>1, <2>2
<1>21. \A q \in Pids : Held(q)' = Held(q)
  <2>1. \A x \in Callers \X (1 .. 2) : x[1] \in Callers
    OBVIOUS
  <2> QED BY <1>20, <2>1 DEF Held
<1>22. Counts'
  <2> SUFFICES ASSUME NEW q \in Pids, obj'[q].alloc = "live" PROVE Counted(obj'[q],
      Cardinality(Held(q)'))
    BY DEF Counts, Counted, Bit, Open
  <2>1. obj[q].alloc = "live"
    BY <1>5, <1>7
  <2>2. Counted(obj[q], Cardinality(Held(q)))
    BY <1>1, <2>1 DEF Counts, Counted
  <2>3. obj'[q].refs = obj[q].refs /\ obj'[q].table = obj[q].table /\
        obj'[q].threadOwns = obj[q].threadOwns /\ obj'[q].retained = obj[q].retained
    BY <1>5, <1>7
  <2>4. Counted(obj'[q], Cardinality(Held(q)))
    BY <2>2, <2>3 DEF Counted
  <2> QED BY <1>21, <2>4
<1>23. \A q \in Pids : Writing(q)' = Writing(q)
  <2>1. Step(p)' # "ReleaseOut" /\ Step(p) # "ReleaseOut"
    BY <1>8
  <2> QED BY <1>2, <1>8, <2>1 DEF Writing, Bit
<1>24. Processes'
  <2> SUFFICES ASSUME NEW q \in Pids
               PROVE  /\ TableOk(obj'[q].table)
                      /\ Absent(obj'[q], Rank(q)', q \in procTable', q \in thrTable') \/
                           Present(obj'[q], Rank(q)', q \in procTable', q \in thrTable',
                           Writing(q)')
                      /\ q >= nextPid' => obj'[q].alloc = "none" /\ obj'[q].kthread = "NONE"
    BY DEF Processes, TableOk, Absent, Present, Closed, Open, Bit, Role
  <2>1. /\ TableOk(obj[q].table)
        /\ Absent(obj[q], Rank(q), q \in procTable, q \in thrTable) \/
             Present(obj[q], Rank(q), q \in procTable, q \in thrTable, Writing(q))
        /\ q >= nextPid => obj[q].alloc = "none" /\ obj[q].kthread = "NONE"
    BY <1>1 DEF Processes
  <2>2. Rank(q)' = Rank(q) /\ Writing(q)' = Writing(q) /\
        (q \in procTable') = (q \in procTable) /\ (q \in thrTable') = (q \in thrTable) /\
        nextPid' = nextPid
    BY <1>16, <1>23
  <2>3. CASE q = p
    <3>1. ~(p >= nextPid)
      BY <2>1, <2>3
    <3>2. Present(obj[p], Rank(p), p \in procTable, p \in thrTable, Writing(p)) /\
          TableOk(obj[p].table)
      BY <2>1, <2>3 DEF Absent
    <3>3. Present(r, Rank(p), p \in procTable, p \in thrTable, Writing(p)) /\ TableOk(r.table)
      BY <1>5, <3>2 DEF Present
    <3> QED BY <1>7, <2>2, <2>3, <3>1, <3>3
  <2>4. CASE q # p
    <3>1. obj'[q] = obj[q]
      BY <1>7, <2>4
    <3> QED BY <2>1, <2>2, <3>1, Zenon
  <2> QED BY <2>3, <2>4
<1> QED BY <1>8, <1>10, <1>17, <1>18, <1>19, <1>22, <1>24 DEF RuntimeInv

-----------------------------------------------------------------------------
(* The finalizer.                                                          *)

\* While the idle thread runs, no spawner is about to mark a process ready.
LEMMA NoMarker ==
  ASSUME RuntimeInv, IdleMayRun, NEW b \in Callers
  PROVE  Step(b) # "MarkReady"
<1> SUFFICES ASSUME Step(b) = "MarkReady" PROVE FALSE
  OBVIOUS
<1>1. ~Runnable(b)
  BY DEF IdleMayRun
<1>2. act[b].steps # << >>
  BY DEF Step
<1>3. b \in Pids => IsUserThread(b)
  BY DEF RuntimeInv, CallerOk, IsUserThread
<1> QED BY <1>1, <1>2, <1>3 DEF Runnable

\* A step of the idle thread on the process p of an exited thread.
Finalizes(p, r) ==
  /\ IdleMayRun /\ obj[p].kthread = "EXITED" /\ r.kthread = "EXITED" /\ r.alloc = "live" /\
       obj[p].alloc = "live" /\ obj[p].event = FALSE
  /\ TableOk(r.table) /\ obj' = [obj EXCEPT ![p] = r]
  /\ act' \in [Actors -> ActRecords] /\ Scripts' /\ \A b \in Callers : act'[b] = act[b] /\
       Step(b)' = Step(b)
  /\ procTable' = procTable /\ nextPid' = nextPid /\ fgOwner' = fgOwner /\
       reapQueue' \in Seq(Pids)
  /\ thrTable' \subseteq Pids /\ \A q \in Pids : q # p => (q \in thrTable' <=> q \in thrTable)
  /\ ReaperOk' /\ \A q \in Pids : q # p => Rank(q)' = Rank(q)
  /\ Counted(r, Cardinality(Held(p)))
  /\ Present(r, Rank(p)', p \in procTable, p \in thrTable', 0)

\* Such a step keeps the invariant.
LEMMA FinalizesKeeps ==
  ASSUME RuntimeInv, NEW p \in Pids, NEW r \in ObjectRecords, Finalizes(p, r)
  PROVE  RuntimeInv'
<1>0. /\ IdleMayRun /\ obj[p].kthread = "EXITED" /\ r.kthread = "EXITED" /\ r.alloc = "live" /\
           obj[p].alloc = "live" /\ obj[p].event = FALSE
      /\ TableOk(r.table) /\ obj' = [obj EXCEPT ![p] = r]
      /\ act' \in [Actors -> ActRecords] /\ Scripts' /\ \A b \in Callers : act'[b] = act[b] /\
           Step(b)' = Step(b)
      /\ procTable' = procTable /\ nextPid' = nextPid /\ fgOwner' = fgOwner /\
           reapQueue' \in Seq(Pids)
      /\ thrTable' \subseteq Pids /\ \A q \in Pids : q # p =>
           (q \in thrTable' <=> q \in thrTable)
      /\ ReaperOk' /\ \A q \in Pids : q # p => Rank(q)' = Rank(q)
      /\ Counted(r, Cardinality(Held(p)))
      /\ Present(r, Rank(p)', p \in procTable, p \in thrTable', 0)
  BY Zenon DEF Finalizes
<1>1. /\ RuntimeTypes /\ Scripts /\ (\A b \in Callers : CallerOk(b)) /\ OneSpawner /\
           ReaperOk /\ Processes /\ Counts
  BY DEF RuntimeInv
<1>2. obj \in [Pids -> ObjectRecords] /\ Pids \subseteq Callers
  BY <1>1, Actors3 DEF RuntimeTypes
<1>3. obj' \in [Pids -> ObjectRecords] /\ obj'[p] = r /\ \A q \in Pids : q # p =>
      obj'[q] = obj[q]
  BY <1>0, <1>2
<1>4. RuntimeTypes'
  BY <1>0, <1>1, <1>3 DEF RuntimeTypes
<1>5. OneSpawner'
  BY <1>0, <1>1 DEF OneSpawner, SpawnLabels
<1>6. ASSUME NEW b \in Callers PROVE CallerOk(b)'
  <2>1. act'[b] = act[b] /\ Step(b)' = Step(b) /\ CallerOk(b)
    BY <1>0, <1>1
  <2>2. Busy(b)' <=> Busy(b)
    BY <2>1 DEF Busy
  <2>3. b \in Pids /\ Step(b) # "none" => obj'[b].kthread = "STARTED"
    <3>1. b \in Pids /\ Step(b) # "none" => obj[b].kthread = "STARTED"
      BY <2>1 DEF CallerOk
    <3> QED BY <1>0, <1>3, <3>1
  <2>4. CASE ~Busy(b)
    BY <2>1, <2>2, <2>3, <2>4 DEF CallerOk, Busy, OwnLabels, SpawnLabels
  <2>5. CASE Busy(b)
    <3>1. PICK q \in Pids : q = act[b].on
      BY <2>1, <2>5 DEF CallerOk
    <3>2. /\ Step(b) \in {"RestoreOwner", "Consume", "ReleaseConsumed"} => obj[q].event
          /\ Step(b) \in SpawnLabels \ {"MarkReady"} => obj[q].kthread = "NEW"
          /\ Step(b) \in OwnLabels => q = b
          /\ obj[q].alloc = "live"
      BY <2>1, <2>5, <3>1 DEF CallerOk
    <3>3. Step(b) # "MarkReady"
      BY <1>0, NoMarker
    <3>4. /\ obj'[q].alloc = "live"
          /\ Step(b) \in {"RestoreOwner", "Consume", "ReleaseConsumed"} => obj'[q].event
          /\ Step(b) \in SpawnLabels \ {"MarkReady"} => obj'[q].kthread = "NEW"
      BY <1>0, <1>3, <3>2
    <3> QED BY <2>1, <2>3, <3>1, <3>2, <3>3, <3>4 DEF CallerOk
  <2> QED BY <2>4, <2>5
<1>7. \A q \in Pids : Held(q)' = Held(q)
  <2>1. \A b \in Callers, q \in Pids : WeightOn(b, q)' = WeightOn(b, q)
    BY <1>0 DEF WeightOn, Weight
  <2>2. \A x \in Callers \X (1 .. 2) : x[1] \in Callers
    OBVIOUS
  <2> QED BY <2>1, <2>2 DEF Held
<1>8. Counts'
  <2> SUFFICES ASSUME NEW q \in Pids, obj'[q].alloc = "live" PROVE Counted(obj'[q],
      Cardinality(Held(q)'))
    BY DEF Counts, Counted, Bit, Open
  <2>1. CASE q = p
    BY <1>0, <1>3, <1>7, <2>1
  <2>2. CASE q # p
    <3>1. Counted(obj[q], Cardinality(Held(q)))
      BY <1>1, <1>3, <2>2 DEF Counts, Counted
    <3> QED BY <1>3, <1>7, <2>2, <3>1
  <2> QED BY <2>1, <2>2
<1>9. \A q \in Pids : Writing(q)' = Writing(q)
  BY <1>0, <1>2 DEF Writing, Bit
<1>10. Writing(p) = 0
  <2>1. Step(p) = "none"
    BY <1>0, <1>1, <1>2 DEF CallerOk
  <2> QED BY <2>1 DEF Writing, Bit
<1>11. Processes'
  <2> SUFFICES ASSUME NEW q \in Pids
               PROVE  /\ TableOk(obj'[q].table)
                      /\ Absent(obj'[q], Rank(q)', q \in procTable', q \in thrTable') \/
                           Present(obj'[q], Rank(q)', q \in procTable', q \in thrTable',
                           Writing(q)')
                      /\ q >= nextPid' => obj'[q].alloc = "none" /\ obj'[q].kthread = "NONE"
    BY DEF Processes, TableOk, Absent, Present, Closed, Open, Bit, Role
  <2>1. /\ TableOk(obj[q].table)
        /\ Absent(obj[q], Rank(q), q \in procTable, q \in thrTable) \/
             Present(obj[q], Rank(q), q \in procTable, q \in thrTable, Writing(q))
        /\ q >= nextPid => obj[q].alloc = "none" /\ obj[q].kthread = "NONE"
    BY <1>1 DEF Processes
  <2>2. CASE q = p
    <3>1. ~(p >= nextPid)
      BY <1>0, <2>1, <2>2
    <3>2. Present(r, Rank(p)', p \in procTable', p \in thrTable', Writing(p)')
      BY <1>0, <1>9, <1>10
    <3> QED BY <1>0, <1>3, <2>2, <3>1, <3>2
  <2>3. CASE q # p
    <3>1. obj'[q] = obj[q] /\ Rank(q)' = Rank(q) /\ Writing(q)' = Writing(q) /\
          (q \in procTable') = (q \in procTable) /\ (q \in thrTable') = (q \in thrTable) /\
          nextPid' = nextPid
      BY <1>0, <1>3, <1>9, <2>3
    <3> QED BY <2>1, <3>1, Zenon
  <2> QED BY <2>2, <2>3
<1> QED BY <1>0, <1>4, <1>5, <1>6, <1>8, <1>11 DEF RuntimeInv

\* The process the reaper takes from its queue.
LEMMA BeginFinalizeKeeps ==
  ASSUME RuntimeInv, BeginFinalize
  PROVE  RuntimeInv'
<1>1. /\ RuntimeTypes /\ Scripts /\ (\A b \in Callers : CallerOk(b)) /\ ReaperOk /\ Processes
  BY DEF RuntimeInv
<1>2. /\ obj \in [Pids -> ObjectRecords] /\ act \in [Actors -> ActRecords] /\ Idle \in Actors /\
           Callers \subseteq Actors
      /\ Idle \notin Callers /\ Idle \notin Pids /\ reapQueue \in Seq(Pids) /\
           thrTable \subseteq Pids /\ 0 \notin Pids
  BY <1>1, Actors3 DEF RuntimeTypes
<1>3. /\ IdleMayRun /\ act[Idle].steps = << >> /\ reapQueue # << >> /\
           reapQueue' = Tail(reapQueue)
      /\ UNCHANGED <<obj, procTable, thrTable, nextPid, fgOwner>>
  BY DEF BeginFinalize
<1>4. /\ Len(reapQueue) \in Nat \ {0} /\ Head(reapQueue) = reapQueue[1] /\
           Len(reapQueue') = Len(reapQueue) - 1
      /\ reapQueue' \in Seq(Pids) /\
           \A i \in 1 .. Len(reapQueue) - 1 : reapQueue'[i] = reapQueue[i + 1]
  BY <1>2, <1>3
<1>5. PICK p \in Pids : p = Head(reapQueue) /\ p = reapQueue[1] /\ obj[p].kthread = "EXITED"
  <2>1. 1 \in 1 .. Len(reapQueue)
    BY <1>4
  <2>2. reapQueue[1] \in Pids /\ obj[reapQueue[1]].kthread = "EXITED"
    BY <1>1, <2>1 DEF ReaperOk
  <2> QED BY <1>4, <2>2
<1>6. Step(Idle) = "none" /\ act[Idle].on = 0
  <2>1. Step(Idle) = "none"
    BY <1>3 DEF Step
  <2> QED BY <1>1, <2>1 DEF ReaperOk
<1>7. /\ act' \in [Actors -> ActRecords] /\ Scripts' /\ act'[Idle].on = p /\
           Step(Idle)' = "MarkTerminated"
      /\ \A b \in Callers : act'[b] = act[b] /\ Step(b)' = Step(b)
  <2>1. PICK l \in LabelsOf(Idle) : l = "MarkTerminated"
    BY DEF LabelsOf, FinalLabels
  <2>2. Script(Idle, l) = FinalizeSteps /\ FinalizeSteps \in Seq(Labels)
    <3>1. Script(Idle, l) = Body("MarkTerminated") \o Ending(Idle) /\ Ending(Idle) = << >>
      BY <1>2, <2>1, Endings DEF Script
    <3>2. Body("MarkTerminated") \in Seq(Labels)
      <4>1. "MarkTerminated" \in Labels \ {"none", "Return"}
        BY DEF Labels, FinalLabels
      <4> QED BY <4>1, BodyProperties
    <3>3. Body("MarkTerminated") \o << >> = Body("MarkTerminated")
      BY <3>2
    <3> QED BY <3>1, <3>2, <3>3, Services
  <2>3. PICK c : c = Begun(FinalizeSteps, p)
    OBVIOUS
  <2>4. c \in ActRecords /\ c.steps = Script(Idle, l) /\ c.on = p
    <3>1. 0 \in Nat
      OBVIOUS
    <3> QED BY <2>2, <2>3, <3>1, Beginning
  <2>5. act' = [act EXCEPT ![Idle] = c]
    BY <1>5, <2>3 DEF BeginFinalize, Begun
  <2>6. /\ act' \in [Actors -> ActRecords] /\ Scripts' /\ act'[Idle] = c /\ Step(Idle)' = l
        /\ \A b \in Actors : b # Idle => act'[b] = act[b] /\ Step(b)' = Step(b)
    BY <1>1, <1>2, <2>4, <2>5, MoveTo
  <2> QED BY <1>2, <2>1, <2>4, <2>6
<1>8. \A i \in 1 .. Len(reapQueue') : i + 1 \in 1 .. Len(reapQueue) /\ i + 1 # 1 /\
      reapQueue'[i] = reapQueue[i + 1]
  BY <1>4
<1>9. \A i, j \in 1 .. Len(reapQueue) : reapQueue[i] = reapQueue[j] => i = j
  BY <1>1 DEF ReaperOk
<1>10. ~Queued(p)' /\ Queued(p) /\ \A q : q # p => (Queued(q)' <=> Queued(q))
  <2>1. 1 \in 1 .. Len(reapQueue)
    BY <1>4
  <2>2. \A i \in 1 .. Len(reapQueue') : reapQueue'[i] # p
    BY <1>5, <1>8, <1>9, <2>1
  <2>3. \A i \in 1 .. Len(reapQueue) : i # 1 => i - 1 \in 1 .. Len(reapQueue') /\
        reapQueue'[i - 1] = reapQueue[i]
    <3>1. \A i \in 1 .. Len(reapQueue) : i # 1 => i - 1 \in 1 .. Len(reapQueue') /\
          i - 1 \in 1 .. Len(reapQueue) - 1 /\ (i - 1) + 1 = i
      BY <1>4
    <3> QED BY <1>4, <3>1
  <2>4. ~Queued(p)' /\ Queued(p)
    BY <1>5, <2>1, <2>2 DEF Queued
  <2>5. ASSUME NEW q, q # p, Queued(q)' PROVE Queued(q)
    <3>1. PICK i \in 1 .. Len(reapQueue') : reapQueue'[i] = q
      BY <2>5 DEF Queued
    <3>2. i + 1 \in 1 .. Len(reapQueue) /\ reapQueue[i + 1] = q
      BY <1>8, <3>1
    <3> QED BY <3>2 DEF Queued
  <2>6. ASSUME NEW q, q # p, Queued(q) PROVE Queued(q)'
    <3>1. PICK i \in 1 .. Len(reapQueue) : reapQueue[i] = q
      BY <2>6 DEF Queued
    <3>2. i # 1
      BY <1>5, <2>6, <3>1
    <3>3. i - 1 \in 1 .. Len(reapQueue') /\ reapQueue'[i - 1] = q
      BY <2>3, <3>1, <3>2
    <3> QED BY <3>3 DEF Queued
  <2> QED BY <2>4, <2>5, <2>6
<1>11. Rank(p) = 0 /\ Rank(p)' = 1
  <2>1. Rank(p) = 0
    BY <1>10 DEF Rank
  <2>2. obj'[p].kthread = "EXITED"
    BY <1>3, <1>5
  <2>3. FinalRank(Step(Idle))' = 1
    BY <1>7 DEF FinalRank
  <2> QED BY <1>7, <1>10, <2>1, <2>2, <2>3 DEF Rank
<1>12. \A q \in Pids : q # p => Rank(q)' = Rank(q)
  <2> SUFFICES ASSUME NEW q \in Pids, q # p PROVE Rank(q)' = Rank(q)
    OBVIOUS
  <2>1. act'[Idle].on # q /\ act[Idle].on # q /\ (Queued(q)' <=> Queued(q)) /\ obj' = obj
    BY <1>2, <1>3, <1>6, <1>7, <1>10
  <2> QED BY <2>1 DEF Rank
<1>13. ReaperOk'
  <2>1. \A i \in 1 .. Len(reapQueue') : reapQueue'[i] \in Pids /\
        obj'[reapQueue'[i]].kthread = "EXITED"
    BY <1>1, <1>3, <1>8 DEF ReaperOk
  <2>2. \A i, j \in 1 .. Len(reapQueue') : reapQueue'[i] = reapQueue'[j] => i = j
    <3> SUFFICES ASSUME NEW i \in 1 .. Len(reapQueue'), NEW j \in 1 .. Len(reapQueue'),
        reapQueue'[i] = reapQueue'[j] PROVE i = j
      OBVIOUS
    <3>1. i + 1 = j + 1
      BY <1>8, <1>9
    <3>2. i \in Int /\ j \in Int
      OBVIOUS
    <3> QED BY <3>1, <3>2
  <2>3. act'[Idle].on \in Pids /\ obj'[act'[Idle].on].kthread = "EXITED" /\
        ~(\E i \in 1 .. Len(reapQueue') : reapQueue'[i] = act'[Idle].on)
    BY <1>3, <1>5, <1>7, <1>10 DEF Queued
  <2>4. Step(Idle)' # "none"
    BY <1>7
  <2> QED BY <2>1, <2>2, <2>3, <2>4 DEF ReaperOk, Queued
<1>14. PICK r \in ObjectRecords : r = obj[p]
  BY <1>2
<1>15. obj[p].alloc = "live"
  BY <1>1, <1>5, <1>11 DEF Processes, Absent, Present
<1>16. /\ TableOk(obj[p].table) /\ Present(obj[p], Rank(p), p \in procTable, p \in thrTable,
            Writing(p))
       /\ Counted(obj[p], Cardinality(Held(p)))
  BY <1>15, LiveMeans
<1>17. Writing(p) = 0
  <2>1. Step(p) = "none"
    BY <1>1, <1>5, Actors3 DEF CallerOk
  <2> QED BY <2>1 DEF Writing, Bit
<1>18. Present(r, 0, p \in procTable, p \in thrTable, 0)
  BY <1>11, <1>14, <1>16, <1>17
<1>19. Present(r, 1, p \in procTable, p \in thrTable, 0) /\ r.event = FALSE
  <2>1. r.event \in BOOLEAN
    BY <1>14 DEF ObjectRecords
  <2> QED BY <1>18, <2>1 DEF Present
<1>20. obj' = [obj EXCEPT ![p] = r]
  BY <1>2, <1>3, <1>14
<1>21. Present(r, Rank(p)', p \in procTable, p \in thrTable', 0)
  BY <1>3, <1>11, <1>19
<1>22. Finalizes(p, r)
  BY <1>2, <1>3, <1>4, <1>5, <1>7, <1>12, <1>13, <1>14, <1>15, <1>16, <1>19, <1>20,
      <1>21 DEF Finalizes
<1> QED BY <1>22, FinalizesKeeps

\* The ranks of the finalizer's steps follow one another.
LEMMA NextRank ==
  ASSUME NEW l \in FinalLabels
  PROVE  /\ FinalRank(l) \in 1 .. 8 /\ FinalRank(Following(Idle, l)) = FinalRank(l) + 1
         /\ Following(Idle, l) = "none" <=> l = "SetEvent"
         /\ l = "SetEvent" => FinalRank(l) = 8
<1>1. Ends(Idle) = "none"
  BY Actors3 DEF Ends
<1>2. /\ After("MarkTerminated") = "SignalThread" /\ After("SignalThread") = "Teardown" /\
           After("Teardown") = "Unpublish"
      /\ After("Unpublish") = "CloseHandles" /\ After("CloseHandles") = "ReleaseThread"
      /\ After("ReleaseThread") = "SignalProcess" /\ After("SignalProcess") = "SetEvent" /\
           After("SetEvent") = "end"
  BY DEF After
<1>3. /\ FinalRank("MarkTerminated") = 1 /\ FinalRank("SignalThread") = 2 /\
           FinalRank("Teardown") = 3
      /\ FinalRank("Unpublish") = 4 /\ FinalRank("CloseHandles") = 5 /\
           FinalRank("ReleaseThread") = 6
      /\ FinalRank("SignalProcess") = 7 /\ FinalRank("SetEvent") = 8 /\ FinalRank("none") = 9
  BY DEF FinalRank
<1>4. Following(Idle, l) = IF l = "SetEvent" THEN "none" ELSE After(l)
  BY <1>1, <1>2 DEF Following, FinalLabels
<1> QED BY <1>2, <1>3, <1>4 DEF FinalLabels

\* A step of the finalizer.
LEMMA FinalizeKeeps ==
  ASSUME ~overlapped', RuntimeInv, Finalize
  PROVE  RuntimeInv'
<1>1. /\ RuntimeTypes /\ Scripts /\ (\A b \in Callers : CallerOk(b)) /\ ReaperOk /\ Processes
  BY DEF RuntimeInv
<1>2. /\ obj \in [Pids -> ObjectRecords] /\ act \in [Actors -> ActRecords] /\ Idle \in Actors /\
           Callers \subseteq Actors
      /\ Idle \notin Callers /\ reapQueue \in Seq(Pids) /\ thrTable \subseteq Pids /\
           0 \notin Pids /\ Pids \subseteq Callers
  BY <1>1, Actors3 DEF RuntimeTypes
<1>3. PICK l \in FinalLabels : l = Step(Idle)
  <2>1. Step(Idle) \in LabelsOf(Idle) /\ Step(Idle) # "none"
    BY <1>1, <1>2 DEF Scripts, Finalize
  <2> QED BY <2>1 DEF LabelsOf
<1>4. PICK p \in Pids : p = act[Idle].on /\ obj[p].kthread = "EXITED" /\ ~Queued(p)
  <2>1. Step(Idle) # "none"
    BY DEF Finalize
  <2> QED BY <1>1, <2>1 DEF ReaperOk
<1>5. PICK r \in ObjectRecords : r = obj[p]
  BY <1>2
<1>6. /\ IdleMayRun /\ obj' = [obj EXCEPT ![p] = Finalized(@, l)]
      /\ thrTable' = (IF l = "Unpublish" THEN thrTable \ {p} ELSE thrTable)
      /\ Advance(Idle) /\ procTable' = procTable /\ nextPid' = nextPid /\ fgOwner' = fgOwner /\
           reapQueue' = reapQueue
  <2> DEFINE q == [obj[p] EXCEPT !.refs = reg[Idle]]
  <2>1. l \in CountSteps => reg[Idle] = obj[p].refs
    BY <1>3, <1>4 DEF Finalize, Overlaps
  <2>2. l \in CountSteps => q = obj[p]
    BY <1>5, <2>1 DEF ObjectRecords
  <2>3. /\ IdleMayRun
        /\ obj' = [obj EXCEPT ![p] = Finalized(IF l \in CountSteps THEN q ELSE obj[p], l)]
        /\ thrTable' = (IF l = "Unpublish" THEN thrTable \ {p} ELSE thrTable)
        /\ Advance(Idle) /\ procTable' = procTable /\ nextPid' = nextPid /\ fgOwner' = fgOwner /\
             reapQueue' = reapQueue
    BY <1>3, <1>4, Zenon DEF Finalize
  <2>4. (IF l \in CountSteps THEN q ELSE obj[p]) = obj[p]
    BY <2>2
  <2> HIDE DEF q
  <2> QED BY <2>3, <2>4, Zenon
<1>7. Rank(p) = FinalRank(l) /\ FinalRank(l) \in 1 .. 8
  <2>1. Rank(p) = FinalRank(l)
    BY <1>3, <1>4 DEF Rank
  <2> QED BY <2>1, NextRank
<1>8. obj[p].alloc = "live"
  BY <1>1, <1>4, <1>7 DEF Processes, Absent, Present
<1>9. /\ TableOk(obj[p].table) /\ Present(obj[p], Rank(p), p \in procTable, p \in thrTable,
           Writing(p))
      /\ Counted(obj[p], Cardinality(Held(p)))
  BY <1>8, LiveMeans
<1>10. Writing(p) = 0
  <2>1. Step(p) = "none"
    BY <1>1, <1>2, <1>4 DEF CallerOk
  <2> QED BY <2>1 DEF Writing, Bit
<1>11. PICK h \in Nat : h = Cardinality(Held(p))
  BY <1>2, NobodyHolds
<1>12. (p \in procTable) \in BOOLEAN /\ (p \in thrTable) \in BOOLEAN
  OBVIOUS
<1>14. TableOk(r.table) /\ Present(r, FinalRank(l), p \in procTable, p \in thrTable, 0) /\
       Counted(r, h)
  BY <1>5, <1>7, <1>9, <1>10, <1>11
<1>15. FinalStepKeeps(r, l, p \in procTable, p \in thrTable, h)
  BY <1>12, <1>14, FinalStep
<1>16. PICK s : s = Finalized(r, l)
  OBVIOUS
<1>17. /\ s \in ObjectRecords /\ TableOk(s.table) /\ s.kthread = r.kthread
       /\ Present(s, FinalRank(l) + 1, p \in procTable, p \in thrTable /\ l # "Unpublish", 0) /\
            Counted(s, h)
  BY <1>15, <1>16, Zenon DEF FinalStepKeeps
<1>18. obj' = [obj EXCEPT ![p] = s]
  BY <1>2, <1>5, <1>6, <1>16
<1>19. /\ act' \in [Actors -> ActRecords] /\ Scripts' /\ Step(Idle)' = Following(Idle, l)
       /\ Step(Idle)' # "none" => act'[Idle].on = p
       /\ Step(Idle)' = "none" => act'[Idle].on = 0
       /\ \A b \in Actors : b # Idle => act'[b] = act[b] /\ Step(b)' = Step(b)
  <2>1. Step(Idle) # "none"
    BY DEF Finalize
  <2>2. /\ act' \in [Actors -> ActRecords] /\ Scripts' /\
             Step(Idle)' = Following(Idle, Step(Idle))
        /\ Step(Idle)' # "none" => act'[Idle].on = act[Idle].on
        /\ Step(Idle)' = "none" => act'[Idle].on = 0
        /\ \A b \in Actors : b # Idle => act'[b] = act[b] /\ Step(b)' = Step(b)
    BY <1>1, <1>2, <1>6, <2>1, AdvanceTo
  <2> QED BY <1>3, <1>4, <2>2
<1>20. \A q : Queued(q)' <=> Queued(q)
  BY <1>6 DEF Queued
<1>21. \A q \in Pids : obj'[q].kthread = obj[q].kthread
  BY <1>2, <1>5, <1>17, <1>18
<1>22. Rank(p)' = FinalRank(l) + 1
  <2>1. obj'[p].kthread = "EXITED" /\ ~Queued(p)'
    BY <1>4, <1>20, <1>21
  <2>2. FinalRank(Following(Idle, l)) = FinalRank(l) + 1 /\
        (Following(Idle, l) = "none" <=> l = "SetEvent") /\ (l = "SetEvent" => FinalRank(l) = 8)
    BY NextRank
  <2>3. CASE l = "SetEvent"
    <3>1. act'[Idle].on # p /\ FinalRank(l) + 1 = 9
      BY <1>2, <1>19, <2>2, <2>3
    <3> QED BY <2>1, <3>1 DEF Rank
  <2>4. CASE l # "SetEvent"
    <3>1. act'[Idle].on = p /\ Step(Idle)' = Following(Idle, l)
      BY <1>19, <2>2, <2>4
    <3>2. FinalRank(Step(Idle))' = FinalRank(Step(Idle)')
      BY DEF FinalRank
    <3>3. FinalRank(Step(Idle))' = FinalRank(l) + 1
      BY <2>2, <3>1, <3>2
    <3> QED BY <2>1, <3>1, <3>3 DEF Rank
  <2> QED BY <2>3, <2>4
<1>23. \A q \in Pids : q # p => Rank(q)' = Rank(q)
  <2> SUFFICES ASSUME NEW q \in Pids, q # p PROVE Rank(q)' = Rank(q)
    OBVIOUS
  <2>1. act'[Idle].on # q /\ act[Idle].on # q /\ (Queued(q)' <=> Queued(q)) /\
        obj'[q].kthread = obj[q].kthread
    BY <1>2, <1>4, <1>19, <1>20, <1>21
  <2> QED BY <2>1 DEF Rank
<1>24. ReaperOk'
  <2>1. \A i \in 1 .. Len(reapQueue') : reapQueue'[i] \in Pids /\
        obj'[reapQueue'[i]].kthread = "EXITED"
    BY <1>1, <1>6, <1>21 DEF ReaperOk
  <2>2. \A i, j \in 1 .. Len(reapQueue') : reapQueue'[i] = reapQueue'[j] => i = j
    BY <1>1, <1>6 DEF ReaperOk
  <2>3. Step(Idle)' # "none" => /\ act'[Idle].on \in Pids /\
                                     obj'[act'[Idle].on].kthread = "EXITED"
                                /\ ~(\E i \in 1 .. Len(reapQueue') : reapQueue'[i] = act'[Idle].on)
    BY <1>4, <1>6, <1>19, <1>21 DEF Queued
  <2>4. Step(Idle)' = "none" => act'[Idle].on = 0
    BY <1>19
  <2> QED BY <2>1, <2>2, <2>3, <2>4 DEF ReaperOk, Queued
<1>25. thrTable' \subseteq Pids /\ \A q \in Pids : q # p => (q \in thrTable' <=> q \in thrTable)
  BY <1>2, <1>6
<1>26. (p \in thrTable') = (p \in thrTable /\ l # "Unpublish")
  BY <1>6
<1>27. Present(s, Rank(p)', p \in procTable, p \in thrTable', 0)
  BY <1>17, <1>22, <1>26, Zenon
<1>28. obj[p].event = FALSE /\ s.alloc = "live" /\ s.kthread = "EXITED"
  <2>1. obj[p].event \in BOOLEAN
    BY <1>5 DEF ObjectRecords
  <2>2. ~obj[p].event
    BY <1>7, <1>9 DEF Present
  <2>3. s.alloc = "live"
    BY <1>17 DEF Present
  <2> QED BY <1>4, <1>5, <1>17, <2>1, <2>2, <2>3
<1>29. Counted(s, Cardinality(Held(p))) /\ reapQueue' \in Seq(Pids)
  BY <1>2, <1>6, <1>11, <1>17
<1>30. \A b \in Callers : act'[b] = act[b] /\ Step(b)' = Step(b)
  BY <1>2, <1>19
<1>31. PICK t \in ObjectRecords : t = s
  BY <1>17
<1>32. Finalizes(p, t)
  BY <1>4, <1>6, <1>8, <1>17, <1>18, <1>19, <1>23, <1>24, <1>25, <1>27, <1>28, <1>29, <1>30,
      <1>31 DEF Finalizes
<1> QED BY <1>32, FinalizesKeeps

-----------------------------------------------------------------------------
(* The invariant of the specification.                                     *)

\* The kernel starts with no processes.
LEMMA InitInv ==
  ASSUME Init
  PROVE  RuntimeInv
<1>1. /\ obj = [p \in Pids |-> NoObject] /\ procTable = {} /\ thrTable = {} /\ nextPid = 1 /\
           fgOwner = 0
      /\ reapQueue = << >> /\ act = [a \in Actors |-> Resting]
  BY DEF Init
<1>2. NoObject \in ObjectRecords /\ Closed(NoObject.table) /\ TableOk(NoObject.table)
  BY NoObjectType
<1>3. /\ NoObject.alloc = "none" /\ NoObject.kthread = "NONE" /\
           NoObject.threadAlloc = "none" /\ ~NoObject.payload
      /\ ~NoObject.retained /\ ~NoObject.threadOwns /\ ~NoObject.event
  BY DEF NoObject
<1>4. Resting \in ActRecords /\ Resting.steps = << >> /\ Resting.on = 0
  BY DEF Resting, ActRecords
<1>5. \A a \in Actors : act[a] = Resting /\ Step(a) = "none"
  BY <1>1, <1>4 DEF Step
<1>6. RuntimeTypes
  BY <1>1, <1>2, <1>4 DEF RuntimeTypes
<1>7. Scripts
  BY <1>4, <1>5 DEF Scripts, LabelsOf, Script
<1>8. \A a \in Callers : CallerOk(a)
  BY <1>5, Actors3 DEF CallerOk, Busy, SpawnLabels, OwnLabels
<1>9. OneSpawner
  BY <1>5, Actors3 DEF OneSpawner, SpawnLabels
<1>10. ReaperOk
  BY <1>1, <1>4, <1>5, Actors3 DEF ReaperOk
<1>11. Processes
  <2> SUFFICES ASSUME NEW p \in Pids
               PROVE  /\ TableOk(obj[p].table) /\ Absent(obj[p], Rank(p), p \in procTable,
                           p \in thrTable)
                      /\ obj[p].alloc = "none" /\ obj[p].kthread = "NONE"
    BY DEF Processes
  <2>1. obj[p] = NoObject /\ p \notin procTable /\ p \notin thrTable
    BY <1>1
  <2>2. Absent(NoObject, Rank(p), p \in procTable, p \in thrTable)
    BY <1>2, <1>3, <2>1 DEF Absent
  <2> QED BY <1>2, <1>3, <2>1, <2>2
<1>12. Counts
  BY <1>1, <1>3 DEF Counts
<1> QED BY <1>6, <1>7, <1>8, <1>9, <1>10, <1>11, <1>12 DEF RuntimeInv

\* Nothing changes, or a thread loads a count.
LEMMA StutterKeeps ==
  ASSUME RuntimeInv, UNCHANGED <<obj, procTable, thrTable, nextPid, fgOwner, reapQueue, act>>
  PROVE  RuntimeInv'
<1>1. /\ obj' = obj /\ procTable' = procTable /\ thrTable' = thrTable /\ nextPid' = nextPid /\
           fgOwner' = fgOwner
      /\ reapQueue' = reapQueue /\ act' = act
  OBVIOUS
<1>2. /\ RuntimeTypes /\ Scripts /\ (\A b \in Callers : CallerOk(b)) /\ OneSpawner /\
           ReaperOk /\ Processes /\ Counts
  BY DEF RuntimeInv
<1>3. \A a : Step(a)' = Step(a)
  BY <1>1 DEF Step
<1>4. \A p : Rank(p)' = Rank(p)
  BY <1>1, RankKeeps
<1>5. \A p : Writing(p)' = Writing(p) /\ Held(p)' = Held(p)
  BY <1>1, <1>3 DEF Writing, Held, WeightOn, Weight
<1>6. RuntimeTypes' /\ ReaperOk' /\ OneSpawner'
  <2>1. RuntimeTypes'
    BY <1>1, <1>2 DEF RuntimeTypes
  <2>2. ReaperOk'
    BY <1>1, <1>2, <1>3 DEF ReaperOk, Queued
  <2>3. OneSpawner'
    BY <1>1, <1>2, <1>3 DEF OneSpawner
  <2> QED BY <2>1, <2>2, <2>3
<1>7. Scripts'
  BY <1>1, <1>2, <1>3 DEF Scripts
<1>8. ASSUME NEW b \in Callers PROVE CallerOk(b)'
  <2>1. PICK p : p = act[b].on
    OBVIOUS
  <2>2. CallerOk(b) /\ Rank(p)' = Rank(p) /\ Step(b)' = Step(b) /\ act' = act /\ obj' = obj
    BY <1>1, <1>2, <1>3, <1>4
  <2> QED BY <2>1, <2>2 DEF CallerOk, Busy
<1>9. Processes'
  BY <1>1, <1>2, <1>4, <1>5 DEF Processes
<1>10. Counts'
  BY <1>1, <1>2, <1>5 DEF Counts
<1> QED BY <1>6, <1>7, <1>8, <1>9, <1>10 DEF RuntimeInv

\* The end of a process by its own doing.
LEMMA SysExitKeeps ==
  ASSUME RuntimeInv, NEW p \in Pids, SysExit(p)
  PROVE  RuntimeInv'
<1>1. p \notin KernelCallers
  BY Actors3
<1>2. MayCall(p) /\ ThreadExits(p, "SELF") /\ UNCHANGED <<procTable, thrTable, nextPid,
      fgOwner>>
  BY DEF SysExit
<1>3. Step(p) = "none" /\ obj[p].kthread = "STARTED"
  BY <1>1, <1>2 DEF MayCall, Step, IsUserThread
<1> QED BY <1>2, <1>3, ExitKeeps

\* The way back to user mode, and the end there of a process that was killed.
LEMMA ReturningKeeps ==
  ASSUME RuntimeInv, NEW p \in Pids, Return(p)
  PROVE  RuntimeInv'
<1>1. Step(p) = "Return" /\ UNCHANGED <<procTable, thrTable, nextPid, fgOwner>>
  BY DEF Return
<1>2. CASE obj[p].kill
  <2>1. ThreadExits(p, "KILL")
    BY <1>2 DEF Return
  <2>2. p \in Callers /\ CallerOk(p)
    BY Actors3 DEF RuntimeInv
  <2>3. obj[p].kthread = "STARTED"
    BY <1>1, <2>2 DEF CallerOk
  <2> QED BY <1>1, <2>1, <2>3, ExitKeeps
<1>3. CASE ~obj[p].kill
  <2>1. Advance(p) /\ UNCHANGED <<obj, reapQueue>>
    BY <1>3 DEF Return
  <2> QED BY <1>1, <2>1, ReturnKeeps
<1> QED BY <1>2, <1>3

\* The services on a child.
LEMMA ServicesKeep ==
  ASSUME RuntimeInv, NEW a \in Callers, NEW p \in Pids,
         WaitProcess(a, p) \/ KillProcess(a, p) \/ (a \in KernelCallers /\
             SetForegroundProcess(a, p))
  PROVE  RuntimeInv'
<1>1. /\ WaitSteps \o Ending(a) = Script(a, "WaitCompletion")
      /\ KillSteps \o Ending(a) = Script(a, "RequestKill")
      /\ ForegroundSteps \o Ending(a) = Script(a, "ReadOwner")
  BY Services
<1>2. CASE WaitProcess(a, p)
  <2>1. CallOnChild(a, p, WaitSteps)
    BY <1>2 DEF WaitProcess
  <2>2. PICK m \in {"WaitCompletion", "RequestKill", "ReadOwner"} : m = "WaitCompletion"
    OBVIOUS
  <2> QED BY <1>1, <2>1, <2>2, CallKeeps
<1>3. CASE KillProcess(a, p)
  <2>1. CallOnChild(a, p, KillSteps)
    BY <1>3 DEF KillProcess
  <2>2. PICK m \in {"WaitCompletion", "RequestKill", "ReadOwner"} : m = "RequestKill"
    OBVIOUS
  <2> QED BY <1>1, <2>1, <2>2, CallKeeps
<1>4. CASE a \in KernelCallers /\ SetForegroundProcess(a, p)
  <2>1. CallOnChild(a, p, ForegroundSteps)
    BY <1>4 DEF SetForegroundProcess
  <2>2. PICK m \in {"WaitCompletion", "RequestKill", "ReadOwner"} : m = "ReadOwner"
    OBVIOUS
  <2> QED BY <1>1, <1>4, <2>1, <2>2, CallKeeps
<1> QED BY <1>2, <1>3, <1>4

\* The calls a process makes with one of its handles.
LEMMA HandleCallsKeep ==
  ASSUME RuntimeInv, NEW p \in Pids, NEW h \in obj[p].seed, SysClose(p, h) \/
      SysWaitOne(p, h) \/ SysWrite(p, h)
  PROVE  RuntimeInv'
<1>1. obj[p] \in ObjectRecords
  BY DEF RuntimeInv, RuntimeTypes
<1>2. obj[p].seed \subseteq Nat
  BY <1>1 DEF ObjectRecords
<1>3. PICK k \in Nat : k = h
  BY <1>2
<1> QED BY <1>3, SysCloseKeeps, SysWaitOneKeeps, SysWriteKeeps

\* Every step keeps the invariant, as long as no two updates overlap.
LEMMA NextInv ==
  ASSUME ~overlapped', RuntimeInv, [Next]_vars
  PROVE  RuntimeInv'
<1>1. ASSUME NEW a \in Callers, CallerStep(a) PROVE RuntimeInv'
  <2>1. ASSUME NEW foreground \in BOOLEAN, Spawn(a, foreground) PROVE RuntimeInv'
    BY <2>1, SpawnKeeps
  <2>2. ASSUME NEW p \in Pids, WaitProcess(a, p) \/ KillProcess(a, p) PROVE RuntimeInv'
    BY <2>2, ServicesKeep
  <2>3. ASSUME SetOwner(a) PROVE RuntimeInv'
    BY <2>3, SetOwnerKeeps
  <2>4. ASSUME MarkControl(a) PROVE RuntimeInv'
    BY <2>4, MarkControlKeeps
  <2>5. ASSUME StartThread(a) PROVE RuntimeInv'
    BY <2>5, StartThreadKeeps
  <2>6. ASSUME MarkReady(a) PROVE RuntimeInv'
    BY <2>6, MarkReadyKeeps
  <2>7. ASSUME RequestKill(a) PROVE RuntimeInv'
    BY <2>7, RequestKillKeeps
  <2>8. ASSUME WaitCompletion(a) PROVE RuntimeInv'
    BY <2>8, WaitCompletionKeeps
  <2>9. ASSUME RestoreOwner(a) PROVE RuntimeInv'
    BY <2>9, RestoreOwnerKeeps
  <2>10. ASSUME Consume(a) PROVE RuntimeInv'
    BY <2>10, ConsumeKeeps
  <2>11. ASSUME ReleaseChild(a) PROVE RuntimeInv'
    BY <2>11, ReleaseChildKeeps
  <2> QED BY <1>1, <2>1, <2>2, <2>3, <2>4, <2>5, <2>6, <2>7, <2>8, <2>9, <2>10,
        <2>11 DEF CallerStep
<1>2. ASSUME NEW a \in KernelCallers, ForegroundStep(a) PROVE RuntimeInv'
  <2>0. a \in Callers
    BY Actors3
  <2>1. ASSUME NEW p \in Pids, SetForegroundProcess(a, p) PROVE RuntimeInv'
    BY <2>0, <2>1, ServicesKeep
  <2>2. ASSUME ReadOwner(a) PROVE RuntimeInv'
    BY <2>0, <2>2, ReadOwnerKeeps
  <2>3. ASSUME CheckForeground(a) PROVE RuntimeInv'
    BY <2>0, <2>3, CheckForegroundKeeps
  <2>4. ASSUME TakeOwner(a) PROVE RuntimeInv'
    BY <2>0, <2>4, TakeOwnerKeeps
  <2>5. ASSUME RecordForeground(a) PROVE RuntimeInv'
    BY <2>5, RecordForegroundKeeps
  <2>6. ASSUME UndoOwner(a) PROVE RuntimeInv'
    BY <2>0, <2>6, UndoOwnerKeeps
  <2> QED BY <1>2, <2>1, <2>2, <2>3, <2>4, <2>5, <2>6 DEF ForegroundStep
<1>3. ASSUME NEW p \in Pids, UserStep(p) PROVE RuntimeInv'
  <2>1. ASSUME SysExit(p) PROVE RuntimeInv'
    BY <2>1, SysExitKeeps
  <2>2. ASSUME Wake(p) PROVE RuntimeInv'
    BY <2>2, WakeKeeps
  <2>3. ASSUME Return(p) PROVE RuntimeInv'
    BY <2>3, ReturningKeeps
  <2>4. ASSUME CloseSlot(p) PROVE RuntimeInv'
    BY <2>4, CloseSlotKeeps
  <2>5. ASSUME SysSleep(p) PROVE RuntimeInv'
    BY <2>5, SysSleepKeeps
  <2>6. ASSUME NEW h \in obj[p].seed, SysClose(p, h) \/ SysWaitOne(p, h) \/
        SysWrite(p, h) PROVE RuntimeInv'
    BY <2>6, HandleCallsKeep
  <2>7. ASSUME ReleaseOut(p) PROVE RuntimeInv'
    BY <2>7, ReleaseOutKeeps
  <2>8. ASSUME OwnCount(p) PROVE RuntimeInv'
    BY <2>8, OwnCountKeeps
  <2> QED BY <1>3, <2>1, <2>2, <2>3, <2>4, <2>5, <2>6, <2>7, <2>8 DEF UserStep
<1>4. ASSUME BeginFinalize \/ Finalize PROVE RuntimeInv'
  BY <1>4, BeginFinalizeKeeps, FinalizeKeeps
<1>5. ASSUME UNCHANGED vars \/ (\E a \in Actors : LoadCount(a)) PROVE RuntimeInv'
  BY <1>5, StutterKeeps DEF LoadCount, vars
<1> QED BY <1>1, <1>2, <1>3, <1>4, <1>5 DEF Next

\* Updates that have overlapped stay recorded.
LEMMA OverlapStays ==
  ASSUME overlapped, [Next]_vars
  PROVE  overlapped'
<1>1. ASSUME NEW a \in Callers, CallerStep(a) PROVE overlapped'
  <2>1. ASSUME NEW foreground \in BOOLEAN, Spawn(a, foreground) PROVE overlapped'
    BY <2>1 DEF Spawn, countVars
  <2>2. ASSUME NEW p \in Pids, WaitProcess(a, p) \/ KillProcess(a, p) PROVE overlapped'
    BY <2>2 DEF WaitProcess, KillProcess, CallOnChild
  <2>3. ASSUME SetOwner(a) \/ MarkControl(a) \/ StartThread(a) \/ MarkReady(a) PROVE overlapped'
    BY <2>3 DEF SetOwner, MarkControl, StartThread, MarkReady, countVars
  <2>4. ASSUME RequestKill(a) \/ WaitCompletion(a) \/ RestoreOwner(a) PROVE overlapped'
    BY <2>4 DEF RequestKill, WaitCompletion, RestoreOwner, countVars
  <2>5. ASSUME Consume(a) \/ ReleaseChild(a) PROVE overlapped'
    BY <2>5 DEF Consume, ReleaseChild, UpdateCount, countVars
  <2> QED BY <1>1, <2>1, <2>2, <2>3, <2>4, <2>5 DEF CallerStep
<1>2. ASSUME NEW a \in KernelCallers, ForegroundStep(a) PROVE overlapped'
  BY <1>2 DEF ForegroundStep, SetForegroundProcess, CallOnChild, ReadOwner, CheckForeground, TakeOwner,
              RecordForeground, UndoOwner, countVars
<1>3. ASSUME NEW p \in Pids, UserStep(p) PROVE overlapped'
  <2>1. ASSUME NEW h, NEW steps, NEW r, SysCall(p, h, steps, r) PROVE overlapped'
    BY <2>1 DEF SysCall, countVars
  <2>2. ASSUME NEW h, SysClose(p, h) \/ SysWaitOne(p, h) \/ SysWrite(p, h) PROVE overlapped'
    BY <2>1, <2>2, Zenon DEF SysClose, SysWaitOne, SysWrite
  <2>3. ASSUME SysSleep(p) PROVE overlapped'
    BY <2>1, <2>3, Zenon DEF SysSleep
  <2>4. ASSUME SysExit(p) \/ Wake(p) \/ Return(p) PROVE overlapped'
    BY <2>4 DEF SysExit, Wake, Return, countVars
  <2>5. ASSUME CloseSlot(p) \/ ReleaseOut(p) \/ OwnCount(p) PROVE overlapped'
    BY <2>5, Zenon DEF CloseSlot, ReleaseOut, OwnCount, UpdateCount, countVars
  <2> QED BY <1>3, <2>2, <2>3, <2>4, <2>5 DEF UserStep
<1>4. ASSUME BeginFinalize \/ Finalize PROVE overlapped'
  BY <1>4 DEF BeginFinalize, Finalize, countVars
<1>5. ASSUME UNCHANGED vars \/ (\E a \in Actors : LoadCount(a)) PROVE overlapped'
  BY <1>5 DEF LoadCount, vars, countVars
<1> QED BY <1>1, <1>2, <1>3, <1>4, <1>5 DEF Next

\* The invariant holds until two updates of one count overlap.
THEOREM RuntimeInvariant == Spec => [](overlapped \/ RuntimeInv)
<1>1. Init => overlapped \/ RuntimeInv
  BY InitInv
<1>2. (overlapped \/ RuntimeInv) /\ [Next]_vars => overlapped' \/ RuntimeInv'
  BY NextInv, OverlapStays
<1> QED BY <1>1, <1>2, PTL DEF Spec

-----------------------------------------------------------------------------
(* What the invariant means.                                               *)

\* A process that is gone is held by nobody.
LEMMA GoneIsUnheld ==
  ASSUME RuntimeInv, NEW p \in Pids, obj[p].alloc # "live"
  PROVE  Held(p) = {}
<1> SUFFICES ASSUME NEW b \in Callers, NEW i \in 1 .. 2, i <= WeightOn(b, p) PROVE FALSE
  BY DEF Held
<1>1. WeightOn(b, p) # 0 /\ WeightOn(b, p) \in 0 .. 2
  BY Weights DEF WeightOn
<1>2. act[b].on = p /\ Weight(Step(b)) # 0
  BY <1>1 DEF WeightOn
<1>3. Busy(b)
  BY <1>2, Weights DEF Busy
<1> QED BY <1>2, <1>3, BusyMeans

\* What Holders adds up is what the invariant counts.
LEMMA HoldersAre ==
  ASSUME RuntimeInv, NEW p \in Pids
  PROVE  /\ Holders(p) = Bit(obj[p].threadOwns) + Bit(obj[p].retained)
                           + (Open(obj[p].table, 1) + Open(obj[p].table, 3)) +
                               Cardinality(Held(p))
         /\ Cardinality(Held(p)) \in Nat
         /\ Open(obj[p].table, 1) \in {0, 1} /\ Open(obj[p].table, 3) \in {0, 1}
         /\ Bit(obj[p].threadOwns) \in {0, 1} /\ Bit(obj[p].retained) \in {0, 1}
<1>1. act \in [Actors -> ActRecords] /\ Scripts /\ obj[p] \in ObjectRecords /\
      TableOk(obj[p].table)
  BY DEF RuntimeInv, RuntimeTypes, Processes
<1>2. PICK t \in Tables : t = obj[p].table
  BY <1>1 DEF ObjectRecords, Tables
<1>3. OpenHandles(obj[p].table, "process") = Open(obj[p].table, 1) + Open(obj[p].table, 3)
  BY <1>1, <1>2, OpenCounts
<1>4. {h \in Callers \X (1 .. 2) : h[2] <= HeldBy(h[1], p)} = Held(p)
  <2>1. \A a \in Callers : HeldBy(a, p) = WeightOn(a, p)
    BY <1>1, HeldByWeight
  <2>2. \A x \in Callers \X (1 .. 2) : x[1] \in Callers
    OBVIOUS
  <2> QED BY <2>1, <2>2 DEF Held
<1>5. Cardinality(Held(p)) \in Nat
  <2>1. p \in Callers
    BY Actors3
  <2> QED BY <2>1, NobodyHolds
<1>6. Holders(p) = Bit(obj[p].threadOwns) + Bit(obj[p].retained) +
      OpenHandles(obj[p].table, "process") + Cardinality(Held(p))
  BY <1>4, Zenon DEF Holders, Bit
<1>7. /\ Open(obj[p].table, 1) \in {0, 1} /\ Open(obj[p].table, 3) \in {0, 1}
      /\ Bit(obj[p].threadOwns) \in {0, 1} /\ Bit(obj[p].retained) \in {0, 1}
  BY DEF Open, Bit
<1> QED BY <1>3, <1>5, <1>6, <1>7

\* The invariant gives the exact reference counts ...
LEMMA CountsExact ==
  ASSUME RuntimeInv
  PROVE  ReferenceCountsExact
<1> SUFFICES ASSUME NEW p \in Pids
             PROVE  /\ obj[p].alloc = "live" => obj[p].refs = Holders(p) /\ obj[p].refs > 0
                    /\ obj[p].alloc = "freed" => Holders(p) = 0 /\ ~obj[p].payload
  BY DEF ReferenceCountsExact
<1>1. CASE obj[p].alloc = "live"
  <2>1. Counted(obj[p], Cardinality(Held(p))) /\ obj[p].refs > 0
    <3>1. Present(obj[p], Rank(p), p \in procTable, p \in thrTable, Writing(p)) /\
          Counted(obj[p], Cardinality(Held(p)))
      BY <1>1, LiveMeans
    <3> QED BY <3>1 DEF Present
  <2>2. obj[p].refs = Holders(p)
    BY <2>1, HoldersAre DEF Counted
  <2> QED BY <1>1, <2>1, <2>2
<1>2. CASE obj[p].alloc = "freed"
  <2>1. Absent(obj[p], Rank(p), p \in procTable, p \in thrTable)
    BY <1>2 DEF RuntimeInv, Processes, Present
  <2>2. ~obj[p].payload /\ ~obj[p].retained /\ ~obj[p].threadOwns /\ Closed(obj[p].table)
    BY <2>1 DEF Absent
  <2>3. Bit(obj[p].threadOwns) = 0 /\ Bit(obj[p].retained) = 0
    BY <2>2 DEF Bit
  <2>4. Open(obj[p].table, 1) = 0 /\ Open(obj[p].table, 3) = 0
    BY <2>2, Slots DEF Open, Bit, Closed
  <2>5. Cardinality(Held(p)) = 0
    BY <1>2, GoneIsUnheld, FS_EmptySet
  <2>6. Holders(p) = 0
    BY <2>3, <2>4, <2>5, HoldersAre
  <2> QED BY <1>2, <2>2, <2>6
<1> QED BY <1>1, <1>2

\* ... the objects that outlive their users ...
LEMMA UsersFindObjects ==
  ASSUME RuntimeInv
  PROVE  ObjectsOutliveTheirUsers
<1> SUFFICES ASSUME NEW a \in Actors, NEW i \in 1 .. Len(act[a].steps),
    act[a].steps[i] # "Return"
             PROVE  /\ obj[act[a].on].alloc = "live"
                    /\ Pending(a, "MarkReady") => obj[act[a].on].threadAlloc = "live"
  BY DEF ObjectsOutliveTheirUsers, UsersFindTheirObjects
<1>1. act \in [Actors -> ActRecords] /\ Scripts /\ ReaperOk /\ Processes
  BY DEF RuntimeInv, RuntimeTypes
<1>2. PICK l \in LabelsOf(a) : l = Step(a) /\ act[a].steps = Script(a, l)
  BY <1>1 DEF Scripts
<1>3. PICK x : x = act[a].steps[i] /\ Pending(a, x) /\ x # "Return"
  BY DEF Pending
<1>4. l # "none" /\ In(x, Body(l))
  BY <1>1, <1>2, <1>3, PendingMeans
<1>5. l # "Return"
  BY <1>4, Bodies DEF In
<1>6. CASE a = Idle
  <2>1. l \in FinalLabels
    BY <1>2, <1>4, <1>6 DEF LabelsOf
  <2>2. PICK p \in Pids : p = act[Idle].on /\ obj[p].kthread = "EXITED" /\ ~Queued(p)
    BY <1>1, <1>2, <1>4, <1>6 DEF ReaperOk
  <2>3. Rank(p) = FinalRank(l)
    BY <1>2, <1>6, <2>2 DEF Rank
  <2>4. Rank(p) \in 1 .. 8
    BY <2>1, <2>3, NextRank
  <2>5. obj[p].alloc = "live"
    BY <1>1, <2>2, <2>4 DEF Processes, Absent, Present
  <2>6. ~Pending(a, "MarkReady")
    <3>1. Pending(a, "MarkReady") => In("MarkReady", Body(l))
      BY <1>1, <1>2, PendingMeans
    <3>2. ~In("MarkReady", Body(l))
      BY <2>1, BodyMembers DEF FinalLabels
    <3> QED BY <3>1, <3>2
  <2> QED BY <1>6, <2>2, <2>5, <2>6
<1>7. CASE a # Idle
  <2>1. a \in Callers /\ Busy(a)
    BY <1>2, <1>4, <1>5, <1>7, Actors3 DEF Busy
  <2>2. PICK p \in Pids : p = act[a].on /\ obj[p].alloc = "live"
    BY <2>1, BusyMeans
  <2>3. ASSUME Pending(a, "MarkReady") PROVE obj[p].threadAlloc = "live"
    <3>1. In("MarkReady", Body(l))
      BY <1>1, <1>2, <2>3, PendingMeans
    <3>2. l \in SpawnLabels
      <4>1. l \in Labels
        BY ActorLabels
      <4> QED BY <1>4, <1>5, <3>1, <4>1, BodyMembers DEF Labels, SpawnLabels, WaitLabels,
            LaneLabels, OwnLabels, FinalLabels
    <3>3. Rank(p) = 0
      <4>1. CASE l = "MarkReady"
        BY <1>2, <2>1, <2>2, <4>1, BusyMeans
      <4>2. CASE l # "MarkReady"
        <5>1. obj[p].kthread = "NEW"
          BY <1>2, <2>1, <2>2, <3>2, <4>2, BusyMeans
        <5> QED BY <5>1 DEF Rank
      <4> QED BY <4>1, <4>2
    <3>4. Present(obj[p], Rank(p), p \in procTable, p \in thrTable, Writing(p))
      BY <2>2, LiveMeans
    <3> QED BY <3>3, <3>4 DEF Present
  <2> QED BY <2>2, <2>3
<1> QED BY <1>6, <1>7

\* ... the tables that name what is there ...
LEMMA TablesAreLive ==
  ASSUME RuntimeInv
  PROVE  TablesNameLiveObjects
<1>0. Processes /\ procTable \subseteq Pids /\ thrTable \subseteq Pids
  BY DEF RuntimeInv, RuntimeTypes
<1>1. ASSUME NEW p \in procTable PROVE obj[p].alloc = "live" /\
      (ListedState(p) = "TERMINATED" <=> obj[p].kthread = "EXITED")
  <2>1. p \in Pids
    BY <1>0
  <2>2. obj[p].alloc = "live"
    BY <1>0, <2>1 DEF Processes, Absent, Present
  <2>3. Present(obj[p], Rank(p), p \in procTable, p \in thrTable, Writing(p)) /\
        obj[p] \in ObjectRecords
    BY <2>1, <2>2, LiveMeans
  <2>4. obj[p].kthread \in {"NEW", "STARTED", "EXITED"}
    BY <2>3 DEF Present
  <2>5. CASE p \in thrTable
    BY <2>2, <2>4, <2>5 DEF ListedState, ThreadStateListed
  <2>6. CASE p \notin thrTable
    <3>1. Rank(p) \in 0 .. 9
      BY DEF Rank, FinalRank
    <3>2. ~(Rank(p) <= 4) /\ (obj[p].state = "TERMINATED" <=> Rank(p) >= 2)
      BY <2>3, <2>6 DEF Present
    <3>3. obj[p].state = "TERMINATED"
      BY <3>1, <3>2
    <3>4. obj[p].kthread = "EXITED"
      BY <3>2 DEF Rank
    <3> QED BY <2>2, <2>6, <3>3, <3>4 DEF ListedState
  <2> QED BY <2>2, <2>5, <2>6
<1>2. ASSUME NEW p \in thrTable PROVE obj[p].threadAlloc = "live" /\ p \in procTable
  <2>1. p \in Pids
    BY <1>0
  <2>2. obj[p].alloc = "live"
    BY <1>0, <2>1 DEF Processes, Absent, Present
  <2>3. Present(obj[p], Rank(p), p \in procTable, p \in thrTable, Writing(p))
    BY <2>1, <2>2, LiveMeans
  <2>4. Rank(p) <= 4 /\ Rank(p) \in 0 .. 9
    BY <2>3 DEF Present, Rank, FinalRank
  <2> QED BY <2>3, <2>4 DEF Present
<1> QED BY <1>1, <1>2 DEF TablesNameLiveObjects

\* ... the address space of every thread that may run ...
LEMMA RootsResolve ==
  ASSUME RuntimeInv
  PROVE  DispatchRootAlwaysResolves
<1> SUFFICES ASSUME NEW p \in Pids, obj[p].kthread = "STARTED" PROVE MayEnterUser(p)
  BY DEF DispatchRootAlwaysResolves
<1>1. obj[p].alloc = "live"
  BY DEF RuntimeInv, Processes, Absent, Present
<1>2. Present(obj[p], Rank(p), p \in procTable, p \in thrTable, Writing(p)) /\
      obj[p] \in ObjectRecords
  BY <1>1, LiveMeans
<1>3. Rank(p) = 0
  BY DEF Rank
<1>4. p \in thrTable /\ obj[p].payload
  BY <1>2, <1>3 DEF Present
<1> QED BY <1>4 DEF MayEnterUser, DispatchRoot

\* ... and a completion that can always be signalled.
LEMMA FinalizerSucceeds ==
  ASSUME RuntimeInv
  PROVE  FinalizerNeverFails
<1> SUFFICES ASSUME Step(Idle) \in {"SignalProcess", "SetEvent"}
             PROVE  /\ obj[act[Idle].on].alloc = "live" /\
                         obj[act[Idle].on].state = "TERMINATED" /\ obj[act[Idle].on].retained
  BY DEF FinalizerNeverFails
<1>1. PICK p \in Pids : p = act[Idle].on /\ obj[p].kthread = "EXITED" /\ ~Queued(p)
  <2>1. Step(Idle) # "none"
    OBVIOUS
  <2> QED BY <2>1 DEF RuntimeInv, ReaperOk
<1>2. Rank(p) = FinalRank(Step(Idle))
  BY <1>1 DEF Rank
<1>3. Rank(p) \in 7 .. 8
  BY <1>2 DEF FinalRank
<1>4. obj[p].alloc = "live"
  BY <1>1, <1>3 DEF RuntimeInv, Processes, Absent, Present
<1>5. Present(obj[p], Rank(p), p \in procTable, p \in thrTable, Writing(p))
  BY <1>4, LiveMeans
<1> QED BY <1>1, <1>3, <1>4, <1>5 DEF Present

-----------------------------------------------------------------------------
(* The theorems.                                                           *)

\* Until two updates of one count overlap, every live process has exactly the
\* references somebody answers for, and one nobody answers for has been freed
\* with its payload: ExObjectRetain and ExObjectRelease over all paths of ex/.
THEOREM CountsAreExact == Spec => []ReferenceCountsExact
<1>1. overlapped \/ RuntimeInv => ReferenceCountsExact
  BY CountsExact DEF ReferenceCountsExact
<1> QED BY <1>1, RuntimeInvariant, PTL

\* Until then, whoever is inside a service on a process finds the process, and
\* the spawner that still has to mark it ready finds the thread
\* (ExRuntimeStartThread).
THEOREM UsersAreOutlived == Spec => []ObjectsOutliveTheirUsers
<1>1. overlapped \/ RuntimeInv => ObjectsOutliveTheirUsers
  BY UsersFindObjects DEF ObjectsOutliveTheirUsers
<1> QED BY <1>1, RuntimeInvariant, PTL

\* Until then, what the runtime tables name exists, and a list shows a process
\* as terminated from the moment its thread has exited.
THEOREM TablesNameTheLiving == Spec => []TablesNameLiveObjects
<1>1. overlapped \/ RuntimeInv => TablesNameLiveObjects
  BY TablesAreLive DEF TablesNameLiveObjects
<1> QED BY <1>1, RuntimeInvariant, PTL

\* Until then, a thread the scheduler may dispatch is published and has its
\* address space: the panic of KiResolveDispatchRoot is out of reach.
THEOREM RootsAlwaysResolve == Spec => []DispatchRootAlwaysResolves
<1>1. overlapped \/ RuntimeInv => DispatchRootAlwaysResolves
  BY RootsResolve DEF DispatchRootAlwaysResolves
<1> QED BY <1>1, RuntimeInvariant, PTL

\* Until then, ExRuntimeSignalProcessCompletion finds the process terminated
\* and retained: the reaper's panic is out of reach.
THEOREM FinalizerAlwaysSucceeds == Spec => []FinalizerNeverFails
<1>1. overlapped \/ RuntimeInv => FinalizerNeverFails
  BY FinalizerSucceeds DEF FinalizerNeverFails
<1> QED BY <1>1, RuntimeInvariant, PTL
=============================================================================
