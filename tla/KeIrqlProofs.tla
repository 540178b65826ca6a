---------------------------- MODULE KeIrqlProofs ----------------------------
(***************************************************************************)
(* Proofs about KeIrql: for any number of threads and any nesting, the     *)
(* assertions on levels and depths hold and the interrupt flag agrees with *)
(* the level of the running thread.                                        *)
(*                                                                         *)
(* The inductive invariant describes every stack of guards from its bottom *)
(* up.  Only the innermost guard of the running thread can be released, so *)
(* what it will find is told by the guards below it, and by what a thread  *)
(* that is switched out may still hold.                                    *)
(***************************************************************************)
EXTENDS KeIrql, SequenceTheorems, TLAPS

\* The guards of one stack: depths count from the bottom, an interrupt frame
\* and the guard that turned interrupts off are the bottom one, and the
\* handler's section lies directly on the keyboard's frame.
StackOf(s) ==
  \A i \in 1 .. Len(s) :
    /\ s[i].EnterDepth = i
    /\ s[i].Transitioned <=> (i = 1 /\ s[i].kind \notin InterruptKinds)
    /\ s[i].kind \in InterruptKinds => i = 1
    /\ s[i].PreviousLevel = IF i = 1 THEN PASSIVE ELSE DISPATCH
    /\ s[i].kind = "handler" => i = 2 /\ s[1].kind = "keyboard"

\* The counters of a KE_IRQL_STATE are those of its thread's stack.
Counts(t) ==
  /\ dispatchDepth[t] = Len(guards[t])
  /\ level[t] = IF Len(guards[t]) = 0 THEN PASSIVE ELSE DISPATCH
  /\ interruptDepth[t] = IF Len(guards[t]) # 0 /\ guards[t][1].kind \in InterruptKinds THEN 1 ELSE 0

\* A live thread's bottom guard found interrupts on, and a live thread that
\* is switched out holds a guard that will turn them on again.
SavedOn(t) ==
  status[t] = "live" =>
    /\ Len(guards[t]) # 0 => guards[t][1].SavedInterruptState
    /\ t # currentThread => Len(guards[t]) # 0

\* The interrupt flag follows the stack of the running thread.
Flag ==
  /\ Len(guards[currentThread]) # 0 => ~interruptsEnabled
  /\ status[currentThread] = "live" /\ Len(guards[currentThread]) = 0 => interruptsEnabled
  /\ status[currentThread] \notin {"none", "exited"}

Stacks ==
  /\ \A t \in AllThreads : StackOf(guards[t]) /\ Counts(t) /\ SavedOn(t)
  /\ status[Idle] \notin {"none", "exited"}
  /\ Flag

\* What follows is about the global section depth.  It is stated of the
\* stacks G, the running thread a, the depth g and the PIC's state srv, so
\* that a switch can be taken as a second step after the push of a guard.
Section(s, i) == s[i].kind \in SectionKinds

\* The innermost section of s up to position k has depth d; without one, d
\* is the depth base that the stack started from.
Inner(s, k, d, base) ==
  \/ d = base /\ \A j \in 1 .. k : ~Section(s, j)
  \/ \E j \in 1 .. k : /\ Section(s, j) /\ s[j].SectionDepth = d
                       /\ \A l \in j + 1 .. k : ~Section(s, l)

\* The idle thread, switched out inside the keyboard handler.
InHandler(s, srv) ==
  /\ Len(s) = 3 /\ s[1].kind = "keyboard" /\ s[3].kind = "guard"
  /\ s[2].kind = "handler" /\ s[2].SectionDepth = 1
  /\ srv

\* What the stack of a thread that is switched out may hold.
Parked(G, t, srv) ==
  \/ \A i \in 1 .. Len(G[t]) : G[t][i].kind \in {"guard", "timer"}
  \/ t = Idle /\ InHandler(G[t], srv)

\* The depth that the sections of the running thread are stacked upon.
Base(G, a, srv) == IF a # Idle /\ InHandler(G[Idle], srv) THEN 1 ELSE 0

Sections(G, a, g, srv) ==
  /\ Inner(G[a], Len(G[a]), g, Base(G, a, srv))
  /\ \A i \in 1 .. Len(G[a]) :
       Section(G[a], i) => Inner(G[a], i - 1, G[a][i].SectionDepth - 1, Base(G, a, srv))
  /\ \A t \in AllThreads : t # a => Parked(G, t, srv)
  /\ Len(G[a]) # 0 /\ G[a][1].kind = "keyboard" /\ a # Idle => ~InHandler(G[Idle], srv)
  /\ \A i \in 1 .. Len(G[a]) : G[a][i].kind = "handler" => srv

IrqlInv ==
  /\ TypeOK
  /\ Stacks
  /\ Sections(guards, currentThread, gCriticalSectionDepth, inService)

-----------------------------------------------------------------------------
(* Stacks.                                                                 *)

\* Pushing a guard leaves the others where they are.
LEMMA Push ==
  ASSUME NEW S, NEW s \in Seq(S), NEW x \in S
  PROVE  /\ Append(s, x) \in Seq(S)
         /\ Len(Append(s, x)) = Len(s) + 1 /\ Len(s) \in Nat
         /\ \A i \in 1 .. Len(s) : Append(s, x)[i] = s[i]
         /\ Append(s, x)[Len(s) + 1] = x
OBVIOUS

\* So does popping one.
LEMMA Pop ==
  ASSUME NEW S, NEW s \in Seq(S), Len(s) # 0
  PROVE  /\ SubSeq(s, 1, Len(s) - 1) \in Seq(S)
         /\ Len(SubSeq(s, 1, Len(s) - 1)) = Len(s) - 1 /\ Len(s) \in Nat \ {0}
         /\ \A i \in 1 .. Len(s) - 1 : SubSeq(s, 1, Len(s) - 1)[i] = s[i]
<1> DEFINE m == Len(s) - 1
<1>1. m \in Nat /\ \A i \in 1 .. m : s[i] \in S
  OBVIOUS
<1>2. /\ SubSeq(s, 1, m) \in Seq(S)
      /\ Len(SubSeq(s, 1, m)) = IF 1 <= m THEN m - 1 + 1 ELSE 0
      /\ \A i \in 1 .. m - 1 + 1 : SubSeq(s, 1, m)[i] = s[1 + i - 1]
  <2>1. 1 \in Int /\ m \in Int
    BY <1>1
  <2> HIDE DEF m
  <2> QED BY <2>1, <1>1, SubSeqProperties
<1>3. Len(SubSeq(s, 1, m)) = m
  <2> HIDE DEF m
  <2> QED BY <1>1, <1>2
<1>4. ASSUME NEW i \in 1 .. m PROVE SubSeq(s, 1, m)[i] = s[i]
  <2>1. i \in 1 .. m - 1 + 1 /\ 1 + i - 1 = i
    BY <1>1
  <2> HIDE DEF m
  <2> QED BY <2>1, <1>2
<1>5. Len(s) \in Nat \ {0}
  OBVIOUS
<1> HIDE DEF m
<1> QED BY <1>2, <1>3, <1>4, <1>5 DEF m

\* The frames and guards that the code pushes keep a stack well formed.
LEMMA PushStack ==
  ASSUME NEW s \in Seq(Guards), StackOf(s), NEW x \in Guards,
         x.EnterDepth = Len(s) + 1,
         x.Transitioned <=> (Len(s) = 0 /\ x.kind \notin InterruptKinds),
         x.kind \in InterruptKinds => Len(s) = 0,
         x.PreviousLevel = IF Len(s) = 0 THEN PASSIVE ELSE DISPATCH,
         x.kind = "handler" => Len(s) = 1 /\ s[1].kind = "keyboard"
  PROVE  StackOf(Append(s, x))
<1> DEFINE n == Append(s, x)
<1>1. /\ Len(n) = Len(s) + 1 /\ Len(s) \in Nat
      /\ \A i \in 1 .. Len(s) : n[i] = s[i]
      /\ n[Len(s) + 1] = x
  BY Push
<1> HIDE DEF n
<1> SUFFICES ASSUME NEW i \in 1 .. Len(n)
             PROVE  /\ n[i].EnterDepth = i
                    /\ n[i].Transitioned <=> (i = 1 /\ n[i].kind \notin InterruptKinds)
                    /\ n[i].kind \in InterruptKinds => i = 1
                    /\ n[i].PreviousLevel = IF i = 1 THEN PASSIVE ELSE DISPATCH
                    /\ n[i].kind = "handler" => i = 2 /\ n[1].kind = "keyboard"
  BY DEF StackOf, n
<1>2. CASE i = Len(s) + 1
  BY <1>1, <1>2
<1>3. CASE i \in 1 .. Len(s)
  <2>1. n[i] = s[i] /\ n[1] = s[1]
    BY <1>1, <1>3
  <2> QED BY <2>1, <1>3 DEF StackOf
<1> QED BY <1>1, <1>2, <1>3

\* Popping keeps a stack well formed.
LEMMA PopStack ==
  ASSUME NEW s \in Seq(Guards), StackOf(s), Len(s) # 0
  PROVE  StackOf(SubSeq(s, 1, Len(s) - 1))
<1> DEFINE n == SubSeq(s, 1, Len(s) - 1)
<1>1. /\ Len(n) = Len(s) - 1 /\ Len(s) \in Nat \ {0}
      /\ \A i \in 1 .. Len(s) - 1 : n[i] = s[i]
  BY Pop
<1> HIDE DEF n
<1>2. \A i \in 1 .. Len(n) : n[i] = s[i] /\ n[1] = s[1] /\ i \in 1 .. Len(s)
  BY <1>1
<1> QED BY <1>2 DEF StackOf, n

-----------------------------------------------------------------------------
(* Section depths.                                                         *)

\* Inner looks at the first k guards only.
LEMMA InnerSame ==
  ASSUME NEW s, NEW n, NEW k \in Nat, NEW d, NEW base, Inner(s, k, d, base),
         \A j \in 1 .. k : n[j] = s[j]
  PROVE  Inner(n, k, d, base)
BY DEF Inner, Section

\* Pushing x: a section deepens g by one, anything else leaves it.
LEMMA PushInner ==
  ASSUME NEW s \in Seq(Guards), NEW x \in Guards, NEW g \in Nat, NEW h \in Nat, NEW base \in Nat,
         Inner(s, Len(s), g, base),
         \A i \in 1 .. Len(s) : Section(s, i) => Inner(s, i - 1, s[i].SectionDepth - 1, base),
         IF x.kind \in SectionKinds THEN h = g + 1 /\ x.SectionDepth = h ELSE h = g
  PROVE  LET n == Append(s, x)
         IN  /\ Inner(n, Len(n), h, base)
             /\ \A i \in 1 .. Len(n) : Section(n, i) => Inner(n, i - 1, n[i].SectionDepth - 1, base)
<1> DEFINE n == Append(s, x)
<1>1. /\ Len(n) = Len(s) + 1 /\ Len(s) \in Nat
      /\ \A i \in 1 .. Len(s) : n[i] = s[i]
      /\ n[Len(s) + 1] = x
  BY Push
<1> HIDE DEF n
<1>2. Inner(n, Len(s), g, base)
  BY <1>1, InnerSame
<1>3. Inner(n, Len(n), h, base)
  <2>1. CASE x.kind \in SectionKinds
    BY <2>1, <1>1 DEF Inner, Section
  <2>2. CASE x.kind \notin SectionKinds
    BY <2>2, <1>1, <1>2 DEF Inner, Section
  <2> QED BY <2>1, <2>2
<1>4. ASSUME NEW i \in 1 .. Len(n), Section(n, i)
      PROVE  Inner(n, i - 1, n[i].SectionDepth - 1, base)
  <2>1. CASE i = Len(s) + 1
    <3>1. x.kind \in SectionKinds /\ n[i].SectionDepth - 1 = g /\ i - 1 = Len(s)
      BY <2>1, <1>1, <1>4 DEF Section
    <3> QED BY <3>1, <1>2
  <2>2. CASE i \in 1 .. Len(s)
    <3>1. Section(s, i) /\ n[i] = s[i]
      BY <2>2, <1>1, <1>4 DEF Section
    <3>2. Inner(s, i - 1, s[i].SectionDepth - 1, base)
      BY <3>1, <2>2
    <3>3. i - 1 \in Nat /\ \A j \in 1 .. i - 1 : n[j] = s[j]
      BY <1>1, <2>2
    <3> QED BY <3>1, <3>2, <3>3, InnerSame
  <2> QED BY <2>1, <2>2, <1>1
<1> QED BY <1>3, <1>4 DEF n

\* Popping a section takes one from the depth, and the section found at the
\* top is the innermost one, so its own depth was g.
LEMMA PopInner ==
  ASSUME NEW s \in Seq(Guards), NEW g \in Nat, NEW base \in Nat, Len(s) # 0,
         Inner(s, Len(s), g, base),
         \A i \in 1 .. Len(s) : Section(s, i) => Inner(s, i - 1, s[i].SectionDepth - 1, base)
  PROVE  LET n == SubSeq(s, 1, Len(s) - 1)
             h == IF Section(s, Len(s)) THEN g - 1 ELSE g
         IN  /\ Section(s, Len(s)) => s[Len(s)].SectionDepth = g
             /\ Inner(n, Len(n), h, base)
             /\ \A i \in 1 .. Len(n) : Section(n, i) => Inner(n, i - 1, n[i].SectionDepth - 1, base)
<1> DEFINE n == SubSeq(s, 1, Len(s) - 1)
<1> DEFINE h == IF Section(s, Len(s)) THEN g - 1 ELSE g
<1>1. /\ Len(n) = Len(s) - 1 /\ Len(s) \in Nat \ {0}
      /\ \A i \in 1 .. Len(s) - 1 : n[i] = s[i]
  BY Pop
<1> HIDE DEF n
<1>2. Section(s, Len(s)) => s[Len(s)].SectionDepth = g
  <2> SUFFICES ASSUME Section(s, Len(s)) PROVE s[Len(s)].SectionDepth = g
    OBVIOUS
  <2>1. PICK j \in 1 .. Len(s) : /\ Section(s, j) /\ s[j].SectionDepth = g
                                 /\ \A l \in j + 1 .. Len(s) : ~Section(s, l)
    BY <1>1 DEF Inner
  <2>2. j = Len(s)
    BY <2>1, <1>1
  <2> QED BY <2>1, <2>2
<1>3. Inner(s, Len(s) - 1, h, base)
  <2>1. CASE Section(s, Len(s))
    BY <2>1, <1>1, <1>2
  <2>2. CASE ~Section(s, Len(s))
    <3>1. Inner(s, Len(s), h, base)
      BY <2>2
    <3>2. CASE h = base /\ \A j \in 1 .. Len(s) : ~Section(s, j)
      BY <3>2, <1>1 DEF Inner
    <3>3. CASE \E j \in 1 .. Len(s) : /\ Section(s, j) /\ s[j].SectionDepth = h
                                      /\ \A l \in j + 1 .. Len(s) : ~Section(s, l)
      <4>1. PICK j \in 1 .. Len(s) : /\ Section(s, j) /\ s[j].SectionDepth = h
                                     /\ \A l \in j + 1 .. Len(s) : ~Section(s, l)
        BY <3>3
      <4>2. j \in 1 .. Len(s) - 1 /\ \A l \in j + 1 .. Len(s) - 1 : ~Section(s, l)
        BY <4>1, <2>2, <1>1
      <4> QED BY <4>1, <4>2 DEF Inner
    <3> QED BY <3>1, <3>2, <3>3 DEF Inner
  <2> QED BY <2>1, <2>2
<1>4. Inner(n, Len(n), h, base)
  <2>1. Len(s) - 1 \in Nat /\ \A j \in 1 .. Len(s) - 1 : n[j] = s[j]
    BY <1>1
  <2>2. Inner(n, Len(s) - 1, h, base)
    BY <1>3, <2>1, InnerSame
  <2> QED BY <2>2, <1>1
<1>5. ASSUME NEW i \in 1 .. Len(n), Section(n, i)
      PROVE  Inner(n, i - 1, n[i].SectionDepth - 1, base)
  <2>1. i \in 1 .. Len(s) /\ n[i] = s[i] /\ Section(s, i) /\ i - 1 \in Nat
    BY <1>1, <1>5 DEF Section
  <2>2. \A j \in 1 .. i - 1 : n[j] = s[j]
    BY <1>1
  <2>3. Inner(s, i - 1, n[i].SectionDepth - 1, base)
    BY <2>1
  <2> QED BY <2>1, <2>2, <2>3, InnerSame
<1> QED BY <1>2, <1>4, <1>5 DEF n

\* A stack of guards and timer frames holds no section.
LEMMA ParkedInner ==
  ASSUME NEW s \in Seq(Guards), \A i \in 1 .. Len(s) : s[i].kind \in {"guard", "timer"},
         NEW base \in Nat
  PROVE  /\ \A d \in Nat : Inner(s, Len(s), d, base) <=> d = base
         /\ \A i \in 1 .. Len(s) : ~Section(s, i) /\ s[i].kind # "handler" /\ s[i].kind # "keyboard"
         /\ \A srv \in BOOLEAN : ~InHandler(s, srv)
<1>1. \A i \in 1 .. Len(s) : ~Section(s, i) /\ s[i].kind # "handler" /\ s[i].kind # "keyboard"
  BY DEF Section, SectionKinds
<1>2. \A d \in Nat : Inner(s, Len(s), d, base) <=> d = base
  BY <1>1 DEF Inner
<1>3. \A srv \in BOOLEAN : ~InHandler(s, srv)
  BY <1>1 DEF InHandler
<1> QED BY <1>1, <1>2, <1>3

\* A switch from a to b hands the section depth over: what the outgoing
\* thread leaves behind is the depth the incoming one starts from.
LEMMA Switch ==
  ASSUME NEW G \in [AllThreads -> Seq(Guards)], NEW g \in Nat, NEW srv \in BOOLEAN,
         NEW a \in AllThreads, NEW b \in AllThreads,
         Sections(G, a, g, srv), Parked(G, a, srv)
  PROVE  Sections(G, b, g, srv)
<1>1. Parked(G, Idle, srv) /\ Parked(G, b, srv) /\ Idle \in AllThreads
  BY DEF Sections, AllThreads
<1>2. g = IF InHandler(G[Idle], srv) THEN 1 ELSE 0
  <2>1. Inner(G[a], Len(G[a]), g, Base(G, a, srv)) /\ Base(G, a, srv) \in Nat /\ G[a] \in Seq(Guards)
    BY DEF Sections, Base
  <2>2. CASE \A i \in 1 .. Len(G[a]) : G[a][i].kind \in {"guard", "timer"}
    <3>1. g = Base(G, a, srv) /\ ~InHandler(G[a], srv)
      BY <2>1, <2>2, ParkedInner
    <3> QED BY <3>1 DEF Base
  <2>3. CASE a = Idle /\ InHandler(G[a], srv)
    <3>1. Len(G[a]) = 3 /\ Section(G[a], 2) /\ ~Section(G[a], 3) /\ G[a][2].SectionDepth = 1
      BY <2>3 DEF InHandler, Section, SectionKinds
    <3>2. PICK j \in 1 .. 3 : /\ Section(G[a], j) /\ G[a][j].SectionDepth = g
                              /\ \A l \in j + 1 .. 3 : ~Section(G[a], l)
      BY <2>1, <3>1 DEF Inner
    <3>3. j = 2
      BY <3>1, <3>2
    <3> QED BY <3>1, <3>2, <3>3, <2>3
  <2> QED BY <2>2, <2>3 DEF Parked
<1>3. /\ Inner(G[b], Len(G[b]), g, Base(G, b, srv))
      /\ \A i \in 1 .. Len(G[b]) :
           Section(G[b], i) => Inner(G[b], i - 1, G[b][i].SectionDepth - 1, Base(G, b, srv))
      /\ \A i \in 1 .. Len(G[b]) : G[b][i].kind = "handler" => srv
      /\ Len(G[b]) # 0 /\ G[b][1].kind = "keyboard" => b = Idle
  <2>1. CASE \A i \in 1 .. Len(G[b]) : G[b][i].kind \in {"guard", "timer"}
    <3>1. /\ \A d \in Nat : Inner(G[b], Len(G[b]), d, Base(G, b, srv)) <=> d = Base(G, b, srv)
          /\ \A i \in 1 .. Len(G[b]) : ~Section(G[b], i) /\ G[b][i].kind # "handler" /\ G[b][i].kind # "keyboard"
          /\ ~InHandler(G[b], srv)
      <4>1. Base(G, b, srv) \in Nat /\ G[b] \in Seq(Guards)
        BY DEF Base
      <4> QED BY <2>1, <4>1, ParkedInner
    <3>2. g = Base(G, b, srv)
      BY <1>2, <3>1 DEF Base
    <3>3. Len(G[b]) # 0 => 1 \in 1 .. Len(G[b])
      OBVIOUS
    <3> QED BY <3>1, <3>2, <3>3
  <2>2. CASE b = Idle /\ InHandler(G[b], srv)
    <3>1. /\ Len(G[b]) = 3 /\ Section(G[b], 2) /\ ~Section(G[b], 3) /\ ~Section(G[b], 1)
          /\ G[b][2].SectionDepth = 1 /\ srv /\ Base(G, b, srv) = 0 /\ g = 1
      BY <2>2, <1>2 DEF InHandler, Section, SectionKinds, Base
    <3>2. Inner(G[b], Len(G[b]), g, Base(G, b, srv))
      <4>1. 2 \in 1 .. 3 /\ \A l \in 2 + 1 .. 3 : l = 3
        OBVIOUS
      <4> QED BY <3>1, <4>1 DEF Inner
    <3>3. Inner(G[b], 1, 0, Base(G, b, srv))
      <4>1. \A j \in 1 .. 1 : j = 1
        OBVIOUS
      <4> QED BY <3>1, <4>1 DEF Inner
    <3>4. \A i \in 1 .. Len(G[b]) : i = 1 \/ i = 2 \/ i = 3
      BY <3>1
    <3>5. G[b][2].SectionDepth - 1 = 0 /\ 2 - 1 = 1
      BY <3>1
    <3>6. \A i \in 1 .. Len(G[b]) :
            Section(G[b], i) => Inner(G[b], i - 1, G[b][i].SectionDepth - 1, Base(G, b, srv))
      BY <3>1, <3>3, <3>4, <3>5
    <3> QED BY <2>2, <3>1, <3>2, <3>6
  <2> QED BY <1>1, <2>1, <2>2 DEF Parked
<1>4. \A t \in AllThreads : t # b => Parked(G, t, srv)
  BY DEF Sections
<1>5. Len(G[b]) # 0 /\ G[b][1].kind = "keyboard" /\ b # Idle => ~InHandler(G[Idle], srv)
  BY <1>3
<1> QED BY <1>3, <1>4, <1>5 DEF Sections

\* Pushing a guard, a section, a timer frame or, on a keyboard frame, the
\* handler's section.
LEMMA PushSections ==
  ASSUME NEW G \in [AllThreads -> Seq(Guards)], NEW g \in Nat, NEW h \in Nat, NEW srv \in BOOLEAN,
         NEW a \in AllThreads, NEW x \in Guards,
         Sections(G, a, g, srv), StackOf(G[a]),
         x.kind # "keyboard", x.kind = "handler" => srv,
         IF x.kind \in SectionKinds THEN h = g + 1 /\ x.SectionDepth = h ELSE h = g
  PROVE  Sections([G EXCEPT ![a] = Append(@, x)], a, h, srv)
<1> DEFINE H == [G EXCEPT ![a] = Append(@, x)]
<1> DEFINE base == Base(G, a, srv)
<1>1. H[a] = Append(G[a], x) /\ (\A t \in AllThreads : t # a => H[t] = G[t])
  OBVIOUS
<1>2. base \in Nat /\ Base(H, a, srv) = base /\ Idle \in AllThreads
  BY <1>1 DEF Base, AllThreads
<1>3. /\ Len(H[a]) = Len(G[a]) + 1 /\ Len(G[a]) \in Nat
      /\ \A i \in 1 .. Len(G[a]) : H[a][i] = G[a][i]
      /\ H[a][Len(G[a]) + 1] = x
  BY <1>1, Push
<1>4. /\ Inner(H[a], Len(H[a]), h, base)
      /\ \A i \in 1 .. Len(H[a]) : Section(H[a], i) => Inner(H[a], i - 1, H[a][i].SectionDepth - 1, base)
  <2>1. /\ Inner(G[a], Len(G[a]), g, base)
        /\ \A i \in 1 .. Len(G[a]) : Section(G[a], i) => Inner(G[a], i - 1, G[a][i].SectionDepth - 1, base)
    BY DEF Sections
  <2> HIDE DEF base, H
  <2> QED BY ZenonT(30), <2>1, <1>1, <1>2, PushInner
<1> HIDE DEF H, base
<1>5. \A t \in AllThreads : t # a => Parked(H, t, srv)
  BY <1>1 DEF Sections, Parked
<1>6. Len(H[a]) # 0 /\ H[a][1].kind = "keyboard" /\ a # Idle => ~InHandler(H[Idle], srv)
  <2>1. CASE Len(G[a]) = 0
    BY <2>1, <1>3
  <2>2. CASE Len(G[a]) # 0
    <3>1. H[a][1] = G[a][1]
      BY <2>2, <1>3
    <3> QED BY <3>1, <2>2, <1>1, <1>2 DEF Sections
  <2> QED BY <2>1, <2>2
<1>7. \A i \in 1 .. Len(H[a]) : H[a][i].kind = "handler" => srv
  BY <1>3 DEF Sections
<1> QED BY <1>2, <1>4, <1>5, <1>6, <1>7 DEF Sections, H

\* Popping the innermost guard or frame, with the PIC acknowledged when it is
\* the handler's section.
LEMMA PopSections ==
  ASSUME NEW G \in [AllThreads -> Seq(Guards)], NEW g \in Nat, NEW srv \in BOOLEAN, NEW psrv \in BOOLEAN,
         NEW a \in AllThreads, Sections(G, a, g, srv), StackOf(G[a]), Len(G[a]) # 0,
         psrv = IF G[a][Len(G[a])].kind = "handler" THEN FALSE ELSE srv
  PROVE  /\ Section(G[a], Len(G[a])) => G[a][Len(G[a])].SectionDepth = g
         /\ Sections([G EXCEPT ![a] = SubSeq(@, 1, Len(@) - 1)], a,
                     IF Section(G[a], Len(G[a])) THEN g - 1 ELSE g, psrv)
<1> DEFINE H == [G EXCEPT ![a] = SubSeq(@, 1, Len(@) - 1)]
<1> DEFINE base == Base(G, a, srv)
<1> DEFINE n == Len(G[a])
<1> DEFINE h == IF Section(G[a], n) THEN g - 1 ELSE g
<1>1. H[a] = SubSeq(G[a], 1, n - 1) /\ (\A t \in AllThreads : t # a => H[t] = G[t])
  OBVIOUS
<1>2. /\ Len(H[a]) = n - 1 /\ n \in Nat \ {0}
      /\ \A i \in 1 .. n - 1 : H[a][i] = G[a][i]
  BY <1>1, Pop
<1>3. G[a][n].kind = "handler" => /\ n = 2 /\ G[a][1].kind = "keyboard" /\ n \in 1 .. n
  <2>1. n \in 1 .. n
    BY <1>2
  <2> QED BY <2>1 DEF StackOf
<1>4. /\ Section(G[a], n) => G[a][n].SectionDepth = g
      /\ Inner(H[a], Len(H[a]), h, base)
      /\ \A i \in 1 .. Len(H[a]) : Section(H[a], i) => Inner(H[a], i - 1, H[a][i].SectionDepth - 1, base)
  <2>1. /\ Inner(G[a], n, g, base) /\ base \in Nat /\ G[a] \in Seq(Guards)
        /\ \A i \in 1 .. n : Section(G[a], i) => Inner(G[a], i - 1, G[a][i].SectionDepth - 1, base)
    BY DEF Sections, Base
  <2>2. Len(G[a]) # 0
    OBVIOUS
  <2> HIDE DEF base, H
  <2>3. LET m == SubSeq(G[a], 1, Len(G[a]) - 1)
            k == IF Section(G[a], Len(G[a])) THEN g - 1 ELSE g
        IN  /\ Section(G[a], Len(G[a])) => G[a][Len(G[a])].SectionDepth = g
            /\ Inner(m, Len(m), k, base)
            /\ \A i \in 1 .. Len(m) : Section(m, i) => Inner(m, i - 1, m[i].SectionDepth - 1, base)
    BY <2>1, <2>2, PopInner
  <2> QED BY <2>3, <1>1
<1> HIDE DEF H, base, n, h
<1>5. a # Idle /\ G[a][n].kind = "handler" => ~InHandler(G[Idle], srv)
  BY <1>2, <1>3 DEF Sections, n
<1>6. Idle \in AllThreads /\ (a # Idle => H[Idle] = G[Idle])
  BY <1>1 DEF AllThreads
<1>7. a # Idle => (InHandler(H[Idle], psrv) <=> InHandler(G[Idle], srv))
  <2>1. CASE G[a][n].kind = "handler"
    BY <2>1, <1>5, <1>6 DEF InHandler, n
  <2>2. CASE G[a][n].kind # "handler"
    BY <2>2, <1>6 DEF n
  <2> QED BY <2>1, <2>2
<1>8. Base(H, a, psrv) = base
  BY <1>7 DEF Base, base
<1>9. \A t \in AllThreads : t # a => Parked(H, t, psrv)
  <2> SUFFICES ASSUME NEW t \in AllThreads, t # a PROVE Parked(H, t, psrv)
    OBVIOUS
  <2>1. Parked(G, t, srv) /\ H[t] = G[t]
    BY <1>1 DEF Sections
  <2>2. t = Idle => (InHandler(H[Idle], psrv) <=> InHandler(G[Idle], srv))
    BY <1>7
  <2> QED BY <2>1, <2>2 DEF Parked
<1>10. Len(H[a]) # 0 /\ H[a][1].kind = "keyboard" /\ a # Idle => ~InHandler(H[Idle], psrv)
  <2>1. Len(H[a]) # 0 => H[a][1] = G[a][1] /\ Len(G[a]) # 0
    <3>1. Len(H[a]) # 0 => 1 \in 1 .. n - 1
      BY <1>2
    <3> QED BY <3>1, <1>2
  <2> QED BY <2>1, <1>7 DEF Sections
<1>11. \A i \in 1 .. Len(H[a]) : H[a][i].kind = "handler" => psrv
  <2> SUFFICES ASSUME NEW i \in 1 .. Len(H[a]), H[a][i].kind = "handler" PROVE psrv
    OBVIOUS
  <2>1. i \in 1 .. n /\ i # n /\ G[a][i].kind = "handler"
    BY <1>2
  <2>2. i = 2 /\ srv
    BY <2>1 DEF StackOf, Sections, n
  <2>3. G[a][n].kind # "handler"
    BY <2>1, <2>2, <1>3
  <2> QED BY <2>2, <2>3 DEF n
<1> QED BY <1>4, <1>8, <1>9, <1>10, <1>11 DEF Sections, H, h, n

-----------------------------------------------------------------------------
(* The steps of the running thread on its own stack.                       *)

\* What TypeOK and Stacks say of the running thread.
LEMMA Running ==
  ASSUME TypeOK, Stacks
  PROVE  /\ currentThread \in AllThreads /\ Idle \in AllThreads
         /\ guards \in [AllThreads -> Seq(Guards)]
         /\ guards[currentThread] \in Seq(Guards) /\ Len(guards[currentThread]) \in Nat
         /\ StackOf(guards[currentThread]) /\ Counts(currentThread) /\ SavedOn(currentThread)
         /\ level[currentThread] = PASSIVE <=> Len(guards[currentThread]) = 0
         /\ level[currentThread] \in {PASSIVE, DISPATCH}
         /\ interruptsEnabled => Len(guards[currentThread]) = 0
         /\ dispatchDepth[currentThread] = Len(guards[currentThread])
BY DEF TypeOK, Stacks, Flag, Counts, AllThreads, PASSIVE, DISPATCH

\* The types of what Raise, Lower and the interrupt entry and exit assign.
IrqlTypes ==
  /\ level \in [AllThreads -> {PASSIVE, DISPATCH}]
  /\ dispatchDepth \in [AllThreads -> Nat]
  /\ interruptDepth \in [AllThreads -> Nat]
  /\ guards \in [AllThreads -> Seq(Guards)]
  /\ interruptsEnabled \in BOOLEAN

\* Every stack is well formed and counted.
AllStacks == \A t \in AllThreads : StackOf(guards[t]) /\ Counts(t)

\* A push that raises the running thread c to DISPATCH_LEVEL.
LEMMA PushStep ==
  ASSUME TypeOK, Stacks, NEW c \in AllThreads, c = currentThread, NEW x \in Guards,
         guards' = [guards EXCEPT ![c] = Append(@, x)],
         x.EnterDepth = Len(guards[c]) + 1,
         x.Transitioned <=> (Len(guards[c]) = 0 /\ x.kind \notin InterruptKinds),
         x.kind \in InterruptKinds => Len(guards[c]) = 0,
         x.PreviousLevel = level[c],
         x.kind = "handler" => Len(guards[c]) = 1 /\ guards[c][1].kind = "keyboard",
         level' = [level EXCEPT ![c] = DISPATCH],
         dispatchDepth' = [dispatchDepth EXCEPT ![c] = @ + 1],
         interruptDepth' = IF x.kind \in InterruptKinds
                           THEN [interruptDepth EXCEPT ![c] = @ + 1] ELSE interruptDepth,
         interruptsEnabled' = FALSE
  PROVE  /\ IrqlTypes' /\ AllStacks'
         /\ \A t \in AllThreads : t # c => guards'[t] = guards[t]
         /\ Len(guards'[c]) = Len(guards[c]) + 1 /\ Len(guards[c]) \in Nat
         /\ guards'[c][1] = IF Len(guards[c]) = 0 THEN x ELSE guards[c][1]
         /\ \A i \in 1 .. Len(guards[c]) : guards'[c][i] = guards[c][i]
         /\ guards'[c][Len(guards[c]) + 1] = x
<1> DEFINE s == guards[c]
<1> DEFINE n == Append(s, x)
<1>0. /\ guards \in [AllThreads -> Seq(Guards)] /\ s \in Seq(Guards)
      /\ Len(s) \in Nat /\ StackOf(s) /\ Counts(c)
      /\ x.PreviousLevel = IF Len(s) = 0 THEN PASSIVE ELSE DISPATCH
  BY Running DEF Counts
<1>1. /\ n \in Seq(Guards) /\ Len(n) = Len(s) + 1
      /\ \A i \in 1 .. Len(s) : n[i] = s[i]
      /\ n[Len(s) + 1] = x
  BY <1>0, Push
<1>2. StackOf(n)
  <2> HIDE DEF s
  <2> QED BY <1>0, PushStack DEF s
<1>3. guards'[c] = n /\ \A t \in AllThreads : t # c => guards'[t] = guards[t]
  BY <1>0
<1> HIDE DEF n
<1>4. n[1] = IF Len(s) = 0 THEN x ELSE s[1]
  <2>1. CASE Len(s) = 0
    BY <2>1, <1>1
  <2>2. CASE Len(s) # 0
    <3>1. 1 \in 1 .. Len(s)
      BY <2>2, <1>0
    <3> QED BY <2>2, <3>1, <1>1
  <2> QED BY <2>1, <2>2
<1>5. IrqlTypes'
  <2>1. guards' \in [AllThreads -> Seq(Guards)]
    BY <1>0, <1>1 DEF n
  <2>2. /\ level' \in [AllThreads -> {PASSIVE, DISPATCH}]
        /\ dispatchDepth' \in [AllThreads -> Nat] /\ interruptDepth' \in [AllThreads -> Nat]
    BY <1>0 DEF TypeOK
  <2> QED BY <2>1, <2>2 DEF IrqlTypes
<1>6. Counts(c)'
  <2>1. dispatchDepth'[c] = Len(s) + 1 /\ level'[c] = DISPATCH
    BY <1>0 DEF TypeOK, Counts
  <2>2. interruptDepth'[c] = IF n[1].kind \in InterruptKinds THEN 1 ELSE 0
    <3>1. interruptDepth[c] = IF Len(s) # 0 /\ s[1].kind \in InterruptKinds THEN 1 ELSE 0
      BY <1>0 DEF Counts
    <3>2. CASE x.kind \in InterruptKinds
      <4>1. interruptDepth'[c] = interruptDepth[c] + 1
        BY <3>2, <1>0 DEF TypeOK
      <4> QED BY <3>1, <3>2, <4>1, <1>4
    <3>3. CASE x.kind \notin InterruptKinds
      BY <3>1, <3>3, <1>4
    <3> QED BY <3>2, <3>3
  <2>3. Len(guards'[c]) = Len(s) + 1 /\ Len(s) + 1 # 0
    BY <1>0, <1>1, <1>3
  <2> QED BY <2>1, <2>2, <2>3, <1>3 DEF Counts
<1>7. \A t \in AllThreads : t # c => Counts(t)'
  <2> SUFFICES ASSUME NEW t \in AllThreads, t # c PROVE Counts(t)'
    OBVIOUS
  <2>1. /\ guards'[t] = guards[t] /\ level'[t] = level[t] /\ dispatchDepth'[t] = dispatchDepth[t]
        /\ interruptDepth'[t] = interruptDepth[t]
    BY <1>3 DEF TypeOK
  <2>2. Counts(t)
    BY DEF Stacks
  <2> QED BY <2>1, <2>2 DEF Counts
<1>8. AllStacks'
  <2> SUFFICES ASSUME NEW t \in AllThreads PROVE StackOf(guards'[t]) /\ Counts(t)'
    BY DEF AllStacks
  <2>1. CASE t = c
    BY <2>1, <1>2, <1>3, <1>6
  <2>2. CASE t # c
    BY <2>2, <1>3, <1>7 DEF Stacks
  <2> QED BY <2>1, <2>2
<1> QED BY <1>0, <1>1, <1>3, <1>4, <1>5, <1>8

\* A pop: the level falls to PASSIVE_LEVEL with the last guard.
LEMMA PopStep ==
  ASSUME TypeOK, Stacks, NEW c \in AllThreads, c = currentThread, Len(guards[c]) # 0,
         guards' = [guards EXCEPT ![c] = SubSeq(@, 1, Len(@) - 1)],
         level' = [level EXCEPT ![c] = IF Len(guards[c]) = 1 THEN PASSIVE ELSE DISPATCH],
         dispatchDepth' = [dispatchDepth EXCEPT ![c] = @ - 1],
         interruptDepth' = IF guards[c][Len(guards[c])].kind \in InterruptKinds
                           THEN [interruptDepth EXCEPT ![c] = @ - 1] ELSE interruptDepth,
         interruptsEnabled' \in BOOLEAN
  PROVE  /\ IrqlTypes' /\ AllStacks'
         /\ \A t \in AllThreads : t # c => guards'[t] = guards[t]
         /\ Len(guards'[c]) = Len(guards[c]) - 1 /\ Len(guards[c]) \in Nat \ {0}
         /\ Len(guards'[c]) # 0 => guards'[c][1] = guards[c][1]
<1> DEFINE s == guards[c]
<1> DEFINE n == SubSeq(s, 1, Len(s) - 1)
<1>0. /\ guards \in [AllThreads -> Seq(Guards)] /\ s \in Seq(Guards)
      /\ Len(s) \in Nat /\ StackOf(s) /\ Counts(c)
  BY Running
<1>1. /\ n \in Seq(Guards) /\ Len(n) = Len(s) - 1 /\ Len(s) \in Nat \ {0}
      /\ \A i \in 1 .. Len(s) - 1 : n[i] = s[i]
  BY <1>0, Pop
<1>2. StackOf(n)
  <2> HIDE DEF s
  <2> QED BY <1>0, PopStack DEF s
<1>3. guards'[c] = n /\ \A t \in AllThreads : t # c => guards'[t] = guards[t]
  BY <1>0
<1> HIDE DEF n
<1>4. Len(n) # 0 => n[1] = s[1] /\ Len(s) # 1
  <2> HIDE DEF s
  <2>1. Len(s) \in Nat /\ Len(n) = Len(s) - 1
    BY <1>1
  <2>2. Len(n) # 0 => 1 \in 1 .. Len(s) - 1 /\ Len(s) # 1
    BY <2>1, <1>1
  <2>3. 1 \in 1 .. Len(s) - 1 => n[1] = s[1]
    BY <1>1
  <2> QED BY <2>2, <2>3
<1>5. s[Len(s)].kind \in InterruptKinds => Len(s) = 1
  <2>1. Len(s) \in 1 .. Len(s)
    BY <1>1
  <2> QED BY <2>1, <1>0 DEF StackOf
<1>6. interruptDepth[c] = IF s[1].kind \in InterruptKinds THEN 1 ELSE 0
  BY <1>0 DEF Counts
<1>7. IrqlTypes'
  <2>1. guards' \in [AllThreads -> Seq(Guards)]
    BY <1>0, <1>1 DEF n
  <2>2. level' \in [AllThreads -> {PASSIVE, DISPATCH}]
    BY DEF TypeOK
  <2>3. dispatchDepth' \in [AllThreads -> Nat]
    <3>1. dispatchDepth[c] - 1 \in Nat
      BY <1>0, <1>1 DEF Counts
    <3> QED BY <3>1 DEF TypeOK
  <2>4. interruptDepth' \in [AllThreads -> Nat]
    <3>1. s[Len(s)].kind \in InterruptKinds => interruptDepth[c] - 1 \in Nat
      BY <1>5, <1>6
    <3> QED BY <3>1 DEF TypeOK
  <2> QED BY <2>1, <2>2, <2>3, <2>4 DEF IrqlTypes
<1>8. Counts(c)'
  <2>1. dispatchDepth'[c] = Len(n) /\ level'[c] = IF Len(n) = 0 THEN PASSIVE ELSE DISPATCH
    BY <1>0, <1>1 DEF TypeOK, Counts
  <2>2. interruptDepth'[c] = IF Len(n) # 0 /\ n[1].kind \in InterruptKinds THEN 1 ELSE 0
    <3>1. CASE s[Len(s)].kind \in InterruptKinds
      <4>1. interruptDepth'[c] = 0
        BY <3>1, <1>5, <1>6 DEF TypeOK
      <4>2. Len(n) = 0
        BY <3>1, <1>5, <1>1
      <4> QED BY <4>1, <4>2
    <3>2. CASE s[Len(s)].kind \notin InterruptKinds
      <4>1. CASE Len(n) = 0
        <5>1. Len(s) = 1
          BY <4>1, <1>1
        <5> QED BY <5>1, <4>1, <3>2, <1>6
      <4>2. CASE Len(n) # 0
        BY <4>2, <3>2, <1>4, <1>6
      <4> QED BY <4>1, <4>2
    <3> QED BY <3>1, <3>2
  <2> QED BY <2>1, <2>2, <1>3 DEF Counts
<1>9. \A t \in AllThreads : t # c => Counts(t)'
  <2> SUFFICES ASSUME NEW t \in AllThreads, t # c PROVE Counts(t)'
    OBVIOUS
  <2>1. /\ guards'[t] = guards[t] /\ level'[t] = level[t] /\ dispatchDepth'[t] = dispatchDepth[t]
        /\ interruptDepth'[t] = interruptDepth[t]
    BY <1>3 DEF TypeOK
  <2>2. Counts(t)
    BY DEF Stacks
  <2> QED BY <2>1, <2>2 DEF Counts
<1>10. AllStacks'
  <2> SUFFICES ASSUME NEW t \in AllThreads PROVE StackOf(guards'[t]) /\ Counts(t)'
    BY DEF AllStacks
  <2>1. CASE t = c
    BY <2>1, <1>2, <1>3, <1>8
  <2>2. CASE t # c
    BY <2>2, <1>3, <1>9 DEF Stacks
  <2> QED BY <2>1, <2>2
<1> QED BY <1>1, <1>3, <1>4, <1>7, <1>10

\* What a thread's own step must leave of SavedOn and Flag, when the thread
\* keeps a guard: then any dispatchable thread b may run next.
LEMMA Dispatched ==
  ASSUME TypeOK, Stacks, NEW c \in AllThreads, c = currentThread,
         NEW b \in AllThreads, currentThread' = b,
         IrqlTypes', AllStacks', interruptsEnabled' = FALSE,
         \A t \in AllThreads : t # c => guards'[t] = guards[t] /\ status'[t] = status[t],
         Len(guards'[c]) # 0, status[c] = "live" => guards'[c][1].SavedInterruptState,
         status'[c] \in {status[c], "exited"}, c = Idle => status'[c] = status[c],
         status'[b] \notin {"none", "exited"}
  PROVE  Stacks'
<1>1. \A t \in AllThreads : SavedOn(t)'
  <2> SUFFICES ASSUME NEW t \in AllThreads, status'[t] = "live"
               PROVE  /\ Len(guards'[t]) # 0 => guards'[t][1].SavedInterruptState
                      /\ Len(guards'[t]) # 0
    BY DEF SavedOn
  <2>1. CASE t = c
    BY <2>1
  <2>2. CASE t # c
    <3>1. SavedOn(t)
      BY DEF Stacks
    <3> QED BY <3>1, <2>2 DEF SavedOn
  <2> QED BY <2>1, <2>2
<1>2. Flag'
  <2>1. status'[b] = "live" => Len(guards'[b]) # 0
    <3>1. CASE b = c
      BY <3>1
    <3>2. CASE b # c
      <4>1. SavedOn(b)
        BY DEF Stacks
      <4> QED BY <4>1, <3>2 DEF SavedOn
    <3> QED BY <3>1, <3>2
  <2> QED BY <2>1 DEF Flag
<1>3. status'[Idle] \notin {"none", "exited"}
  <2>1. Idle \in AllThreads
    BY DEF AllThreads
  <2> QED BY <2>1 DEF Stacks
<1> QED BY <1>1, <1>2, <1>3 DEF Stacks, AllStacks

\* The guard that the code fills in.
LEMMA GuardFields ==
  ASSUME TypeOK, Stacks, NEW c \in AllThreads, c = currentThread,
         NEW kind \in {"guard", "section", "handler"}, NEW d \in Nat
  PROVE  LET x == Guard(kind, d)
         IN  /\ x \in Guards /\ x.kind = kind /\ x.SectionDepth = d
             /\ x.EnterDepth = Len(guards[c]) + 1 /\ x.PreviousLevel = level[c]
             /\ x.Transitioned <=> Len(guards[c]) = 0
             /\ Len(guards[c]) = 0 /\ status[c] = "live" => x.SavedInterruptState
             /\ kind \notin InterruptKinds
<1>1. /\ Len(guards[c]) \in Nat /\ dispatchDepth[c] = Len(guards[c])
      /\ level[c] \in {PASSIVE, DISPATCH} /\ (level[c] = PASSIVE <=> Len(guards[c]) = 0)
      /\ (Len(guards[c]) = 0 /\ status[c] = "live" => interruptsEnabled)
      /\ interruptsEnabled \in BOOLEAN
  BY Running DEF Stacks, Flag, TypeOK
<1> DEFINE x == Guard(kind, d)
<1>2. /\ x.kind = kind /\ x.SectionDepth = d
      /\ x.EnterDepth = Len(guards[c]) + 1 /\ x.PreviousLevel = level[c]
      /\ x.Transitioned = (level[c] = PASSIVE)
      /\ x.SavedInterruptState = (level[c] = PASSIVE /\ interruptsEnabled)
  BY <1>1 DEF Guard, cur
<1>3. x \in Guards
  <2>1. Len(guards[c]) + 1 \in Nat /\ kind \in Kinds
    BY <1>1 DEF Kinds
  <2> QED BY <2>1, <1>1 DEF Guard, Guards, cur
<1>4. kind \notin InterruptKinds
  BY DEF InterruptKinds
<1> HIDE DEF x
<1> QED BY <1>1, <1>2, <1>3, <1>4 DEF x

\* KeAcquireIrqlGuard in every setting: the thread pushes a guard, and goes on
\* or lets another thread b run.
LEMMA RaiseStep ==
  ASSUME TypeOK, Stacks, NEW c \in AllThreads, c = currentThread,
         NEW kind \in {"guard", "section", "handler"}, NEW d \in Nat,
         Raise(Guard(kind, d)),
         kind = "handler" => Len(guards[c]) = 1 /\ guards[c][1].kind = "keyboard",
         NEW b \in AllThreads, currentThread' = b,
         \A t \in AllThreads : t # c => status'[t] = status[t],
         status'[c] \in {status[c], "exited"}, c = Idle => status'[c] = status[c],
         status'[b] \notin {"none", "exited"}
  PROVE  /\ IrqlTypes' /\ Stacks'
         /\ Guard(kind, d) \in Guards /\ Guard(kind, d).kind = kind /\ Guard(kind, d).SectionDepth = d
         /\ guards' = [guards EXCEPT ![c] = Append(@, Guard(kind, d))]
         /\ Len(guards'[c]) = Len(guards[c]) + 1 /\ Len(guards[c]) \in Nat
         /\ \A i \in 1 .. Len(guards[c]) : guards'[c][i] = guards[c][i]
         /\ guards'[c][Len(guards[c]) + 1].kind = kind
<1> DEFINE x == Guard(kind, d)
<1>1. /\ x \in Guards /\ x.kind = kind /\ x.SectionDepth = d
      /\ x.EnterDepth = Len(guards[c]) + 1 /\ x.PreviousLevel = level[c]
      /\ x.Transitioned <=> Len(guards[c]) = 0
      /\ Len(guards[c]) = 0 /\ status[c] = "live" => x.SavedInterruptState
      /\ kind \notin InterruptKinds
  BY GuardFields
<1> HIDE DEF x
<1>2. /\ guards' = [guards EXCEPT ![c] = Append(@, x)]
      /\ level' = [level EXCEPT ![c] = DISPATCH]
      /\ dispatchDepth' = [dispatchDepth EXCEPT ![c] = @ + 1]
      /\ interruptsEnabled' = IF x.Transitioned THEN FALSE ELSE interruptsEnabled
      /\ interruptDepth' = interruptDepth
  BY DEF Raise, cur, x
<1>3. interruptsEnabled' = FALSE
  BY <1>1, <1>2, Running DEF TypeOK
<1>4. /\ IrqlTypes' /\ AllStacks'
      /\ \A t \in AllThreads : t # c => guards'[t] = guards[t]
      /\ Len(guards'[c]) = Len(guards[c]) + 1 /\ Len(guards[c]) \in Nat
      /\ guards'[c][1] = IF Len(guards[c]) = 0 THEN x ELSE guards[c][1]
      /\ \A i \in 1 .. Len(guards[c]) : guards'[c][i] = guards[c][i]
      /\ guards'[c][Len(guards[c]) + 1] = x
  BY <1>1, <1>2, <1>3, PushStep
<1>5. Len(guards'[c]) # 0 /\ (status[c] = "live" => guards'[c][1].SavedInterruptState)
  <2>1. SavedOn(c)
    BY DEF Stacks
  <2> QED BY <2>1, <1>1, <1>4 DEF SavedOn
<1>6. Stacks'
  BY <1>3, <1>4, <1>5, Dispatched
<1> QED BY <1>1, <1>2, <1>4, <1>6 DEF x

\* A pop that turns interrupts on again exactly when a live thread's last
\* guard goes.
LEMMA Returned ==
  ASSUME TypeOK, Stacks, NEW c \in AllThreads, c = currentThread,
         UNCHANGED <<currentThread, status>>, IrqlTypes', AllStacks',
         \A t \in AllThreads : t # c => guards'[t] = guards[t],
         Len(guards[c]) # 0,
         Len(guards'[c]) # 0 => guards'[c][1] = guards[c][1] /\ interruptsEnabled' = FALSE,
         Len(guards'[c]) = 0 /\ status[c] = "live" => interruptsEnabled' = TRUE
  PROVE  Stacks'
<1>1. \A t \in AllThreads : SavedOn(t)'
  <2> SUFFICES ASSUME NEW t \in AllThreads PROVE SavedOn(t)'
    OBVIOUS
  <2>1. SavedOn(t) /\ status'[t] = status[t]
    BY DEF Stacks
  <2>2. CASE t = c
    BY <2>1, <2>2 DEF SavedOn
  <2>3. CASE t # c
    BY <2>1, <2>3 DEF SavedOn
  <2> QED BY <2>2, <2>3
<1>2. Flag'
  BY DEF Flag, Stacks
<1> QED BY <1>1, <1>2 DEF Stacks, AllStacks

\* KeReleaseIrqlGuard of the innermost guard.
LEMMA LowerStep ==
  ASSUME TypeOK, Stacks, NEW c \in AllThreads, c = currentThread,
         Len(guards[c]) # 0, guards[c][Len(guards[c])].kind \notin InterruptKinds,
         Lower(Top), UNCHANGED <<currentThread, status>>
  PROVE  /\ IrqlTypes' /\ Stacks'
         /\ guards' = [guards EXCEPT ![c] = SubSeq(@, 1, Len(@) - 1)]
<1> DEFINE n == Len(guards[c])
<1> DEFINE top == guards[c][n]
<1>1. /\ guards \in [AllThreads -> Seq(Guards)] /\ guards[c] \in Seq(Guards) /\ n \in Nat \ {0}
      /\ n \in 1 .. n /\ top \in Guards /\ StackOf(guards[c]) /\ dispatchDepth[c] = n
  BY Running
<1>2. /\ top.Transitioned <=> n = 1
      /\ n = 1 => top.PreviousLevel = PASSIVE
      /\ top.SavedInterruptState \in BOOLEAN
  BY <1>1 DEF StackOf, Guards
<1>3. /\ guards' = [guards EXCEPT ![c] = SubSeq(@, 1, Len(@) - 1)]
      /\ dispatchDepth' = [dispatchDepth EXCEPT ![c] = @ - 1]
      /\ level' = [level EXCEPT ![c] = IF n = 1 THEN PASSIVE ELSE DISPATCH]
      /\ interruptsEnabled' = IF n = 1 THEN top.SavedInterruptState ELSE interruptsEnabled
      /\ interruptDepth' = interruptDepth
  BY <1>1, <1>2 DEF Lower, Top, cur
<1>4. interruptsEnabled' \in BOOLEAN
  BY <1>2, <1>3 DEF TypeOK
<1>5. /\ IrqlTypes' /\ AllStacks'
      /\ \A t \in AllThreads : t # c => guards'[t] = guards[t]
      /\ Len(guards'[c]) = n - 1
      /\ Len(guards'[c]) # 0 => guards'[c][1] = guards[c][1]
  BY <1>3, <1>4, PopStep
<1>6. Len(guards'[c]) # 0 => interruptsEnabled' = FALSE
  BY <1>1, <1>3, <1>5, Running DEF TypeOK
<1>7. Len(guards'[c]) = 0 /\ status[c] = "live" => interruptsEnabled' = TRUE
  <2>1. SavedOn(c)
    BY DEF Stacks
  <2>2. Len(guards'[c]) = 0 => n = 1
    <3>1. n \in Nat /\ Len(guards'[c]) = n - 1
      BY <1>1, <1>5
    <3> HIDE DEF n
    <3> QED BY <3>1
  <2> QED BY <2>1, <2>2, <1>2, <1>3 DEF SavedOn
<1>8. Stacks'
  BY <1>5, <1>6, <1>7, Returned
<1> QED BY <1>3, <1>5, <1>8

\* The innermost frame or guard, and what a stack below it must look like.
LEMMA Innermost ==
  ASSUME TypeOK, Stacks, NEW c \in AllThreads, c = currentThread, NEW kind \in Kinds, On(kind)
  PROVE  /\ Len(guards[c]) # 0 /\ guards[c][Len(guards[c])].kind = kind
         /\ Len(guards[c]) \in 1 .. Len(guards[c])
         /\ kind \in InterruptKinds => Len(guards[c]) = 1
         /\ kind = "handler" => Len(guards[c]) = 2 /\ guards[c][1].kind = "keyboard"
<1>1. guards[c] \in Seq(Guards) /\ StackOf(guards[c])
  BY Running
<1>2. guards[c] # << >> /\ guards[c][Len(guards[c])].kind = kind
  BY DEF On, Top, cur
<1>3. Len(guards[c]) # 0 /\ Len(guards[c]) \in 1 .. Len(guards[c])
  BY <1>1, <1>2
<1> QED BY <1>1, <1>2, <1>3 DEF StackOf

\* The depth of the innermost section is positive.
LEMMA SectionPositive ==
  ASSUME NEW G \in [AllThreads -> Seq(Guards)], NEW g \in Nat, NEW srv \in BOOLEAN,
         NEW a \in AllThreads, Sections(G, a, g, srv), Len(G[a]) # 0, Section(G[a], Len(G[a])),
         G[a][Len(G[a])].SectionDepth = g
  PROVE  g - 1 \in Nat
<1>0. G[a] \in Seq(Guards)
  OBVIOUS
<1>1. Len(G[a]) \in 1 .. Len(G[a]) /\ Len(G[a]) \in Nat /\ Base(G, a, srv) \in Nat
  BY DEF Base
<1>2. Inner(G[a], Len(G[a]) - 1, g - 1, Base(G, a, srv))
  BY <1>1 DEF Sections
<1>3. \A j \in 1 .. Len(G[a]) - 1 : G[a][j].SectionDepth \in Nat
  <2> SUFFICES ASSUME NEW j \in 1 .. Len(G[a]) - 1 PROVE G[a][j].SectionDepth \in Nat
    OBVIOUS
  <2>1. j \in 1 .. Len(G[a])
    BY <1>1
  <2>2. G[a][j] \in Guards
    BY <1>0, <2>1
  <2> QED BY <2>2 DEF Guards
<1> QED BY <1>1, <1>2, <1>3 DEF Inner

-----------------------------------------------------------------------------
(* The invariant.                                                          *)

\* The boot thread starts with an empty stack and no section.
LEMMA IrqlInitial == Init => IrqlInv
<1> SUFFICES ASSUME Init PROVE IrqlInv
  OBVIOUS
<1>0. Idle \in AllThreads /\ guards = [t \in AllThreads |-> << >>] /\ currentThread = Idle
  BY DEF Init, AllThreads
<1>1. TypeOK
  <2>1. status \in [AllThreads -> {"none", "new", "boot", "live", "faulted", "exited"}]
    BY DEF Init
  <2>2. guards \in [AllThreads -> Seq(Guards)]
    BY <1>0
  <2> QED BY <1>0, <2>1, <2>2 DEF Init, TypeOK
<1>2. \A t \in AllThreads : guards[t] = << >> /\ Len(guards[t]) = 0
  BY <1>0
<1>3. Stacks
  <2>1. \A t \in AllThreads : status[t] # "live" /\ status[Idle] = "boot"
    BY <1>0 DEF Init
  <2>2. \A t \in AllThreads : Counts(t)
    BY <1>2 DEF Init, Counts
  <2>3. \A t \in AllThreads : StackOf(guards[t])
    BY <1>2 DEF StackOf
  <2>4. \A t \in AllThreads : SavedOn(t)
    BY <2>1 DEF SavedOn
  <2>5. Flag
    BY <1>0, <1>2, <2>1 DEF Flag
  <2> QED BY <1>0, <2>1, <2>2, <2>3, <2>4, <2>5 DEF Stacks
<1>4. Sections(guards, currentThread, gCriticalSectionDepth, inService)
  <2>1. \A t \in AllThreads : \A i \in 1 .. Len(guards[t]) : FALSE
    BY <1>2
  <2>2. Base(guards, Idle, inService) = 0 /\ gCriticalSectionDepth = 0
    BY DEF Base, Init
  <2> QED BY <1>0, <1>2, <2>1, <2>2 DEF Sections, Inner, Parked
<1> QED BY <1>1, <1>3, <1>4 DEF IrqlInv

\* The part of TypeOK that Raise and Lower leave to their callers.
LEMMA Types ==
  ASSUME TypeOK, IrqlTypes', currentThread' \in AllThreads,
         status' \in [AllThreads -> {"none", "new", "boot", "live", "faulted", "exited"}],
         gCriticalSectionDepth' \in Nat, inService' \in BOOLEAN
  PROVE  TypeOK'
BY DEF TypeOK, IrqlTypes

\* Guards and sections acquired by a thread that goes on running.
LEMMA AcquireStep ==
  ASSUME IrqlInv, NEW kind \in {"guard", "section", "handler"}, NEW d \in Nat,
         Raise(Guard(kind, d)),
         kind = "handler" => On("keyboard") /\ inService,
         IF kind = "guard" THEN gCriticalSectionDepth' = gCriticalSectionDepth
         ELSE d = gCriticalSectionDepth + 1 /\ gCriticalSectionDepth' = d,
         UNCHANGED <<currentThread, status, inService>>
  PROVE  IrqlInv'
<1>1. PICK c \in AllThreads : c = currentThread
  BY DEF IrqlInv, TypeOK
<1>2. /\ TypeOK /\ Stacks /\ StackOf(guards[c]) /\ guards \in [AllThreads -> Seq(Guards)]
      /\ Sections(guards, c, gCriticalSectionDepth, inService)
      /\ gCriticalSectionDepth \in Nat /\ gCriticalSectionDepth' \in Nat /\ inService \in BOOLEAN
      /\ status[c] \notin {"none", "exited"}
  BY <1>1 DEF IrqlInv, Stacks, TypeOK, Flag
<1>3. kind = "handler" => Len(guards[c]) = 1 /\ guards[c][1].kind = "keyboard"
  <2>1. "keyboard" \in Kinds /\ "keyboard" \in InterruptKinds
    BY DEF Kinds, InterruptKinds
  <2> QED BY <1>1, <1>2, <2>1, Innermost
<1>4. currentThread' = c /\ status' = status /\ inService' = inService
  BY <1>1
<1> DEFINE x == Guard(kind, d)
<1>5. /\ IrqlTypes' /\ Stacks' /\ x \in Guards /\ x.kind = kind /\ x.SectionDepth = d
      /\ guards' = [guards EXCEPT ![c] = Append(@, x)]
  BY <1>1, <1>2, <1>3, <1>4, RaiseStep
<1> HIDE DEF x
<1>6. Sections(guards', c, gCriticalSectionDepth', inService)
  <2>1. kind # "keyboard" /\ (kind \in SectionKinds <=> kind # "guard")
    BY DEF SectionKinds
  <2>2. IF x.kind \in SectionKinds
        THEN gCriticalSectionDepth' = gCriticalSectionDepth + 1 /\ x.SectionDepth = gCriticalSectionDepth'
        ELSE gCriticalSectionDepth' = gCriticalSectionDepth
    BY <2>1, <1>5
  <2>3. Sections([guards EXCEPT ![c] = Append(@, x)], c, gCriticalSectionDepth', inService)
    BY <2>1, <2>2, <1>2, <1>5, PushSections
  <2> QED BY <2>3, <1>5
<1>7. TypeOK'
  BY <1>2, <1>4, <1>5, Types DEF TypeOK
<1> QED BY <1>4, <1>5, <1>6, <1>7 DEF IrqlInv

\* Guards and sections released.
LEMMA ReleaseStep ==
  ASSUME IrqlInv, NEW kind \in {"guard", "section", "handler"}, On(kind), Lower(Top),
         gCriticalSectionDepth' = IF kind = "guard" THEN gCriticalSectionDepth ELSE gCriticalSectionDepth - 1,
         inService' = IF kind = "handler" THEN FALSE ELSE inService,
         UNCHANGED <<currentThread, status>>
  PROVE  IrqlInv'
<1>1. PICK c \in AllThreads : c = currentThread
  BY DEF IrqlInv, TypeOK
<1>2. /\ TypeOK /\ Stacks /\ StackOf(guards[c]) /\ guards \in [AllThreads -> Seq(Guards)]
      /\ Sections(guards, c, gCriticalSectionDepth, inService)
      /\ gCriticalSectionDepth \in Nat /\ inService \in BOOLEAN /\ inService' \in BOOLEAN
  BY <1>1 DEF IrqlInv, Stacks, TypeOK
<1>3. /\ kind \in Kinds /\ kind \notin InterruptKinds
      /\ kind \in SectionKinds <=> kind # "guard"
  BY DEF Kinds, InterruptKinds, SectionKinds
<1>4. Len(guards[c]) # 0 /\ guards[c][Len(guards[c])].kind = kind
  BY <1>1, <1>2, <1>3, Innermost
<1>5. /\ IrqlTypes' /\ Stacks'
      /\ guards' = [guards EXCEPT ![c] = SubSeq(@, 1, Len(@) - 1)]
  BY <1>1, <1>2, <1>3, <1>4, LowerStep
<1>6. Section(guards[c], Len(guards[c])) <=> kind # "guard"
  BY <1>3, <1>4 DEF Section
<1>7. inService' = IF guards[c][Len(guards[c])].kind = "handler" THEN FALSE ELSE inService
  BY <1>4
<1>8. /\ Section(guards[c], Len(guards[c])) => guards[c][Len(guards[c])].SectionDepth = gCriticalSectionDepth
      /\ Sections([guards EXCEPT ![c] = SubSeq(@, 1, Len(@) - 1)], c,
                  IF Section(guards[c], Len(guards[c])) THEN gCriticalSectionDepth - 1
                  ELSE gCriticalSectionDepth, inService')
  BY ZenonT(30), <1>2, <1>4, <1>7, PopSections
<1>9. Sections(guards', c, gCriticalSectionDepth', inService')
  BY <1>5, <1>6, <1>8
<1>10. gCriticalSectionDepth' \in Nat
  <2>1. kind # "guard" => gCriticalSectionDepth - 1 \in Nat
    BY <1>2, <1>4, <1>6, <1>8, SectionPositive
  <2> QED BY <2>1, <1>2
<1>11. currentThread' = c /\ TypeOK'
  BY <1>1, <1>2, <1>5, <1>10, Types DEF TypeOK
<1> QED BY <1>5, <1>9, <1>11 DEF IrqlInv

\* A guard is pushed and the processor handed over.
LEMMA BlockStep ==
  ASSUME IrqlInv, Raise(Guard("guard", 0)), KiSchedule(Dispatchable),
         level[cur] = PASSIVE \/ (cur = Idle /\ On("handler")),
         status' = status \/ (cur # Idle /\ status' = [status EXCEPT ![cur] = "exited"] /\ currentThread' # cur),
         UNCHANGED <<gCriticalSectionDepth, inService>>
  PROVE  IrqlInv'
<1>1. PICK c \in AllThreads : c = currentThread
  BY DEF IrqlInv, TypeOK
<1>2. PICK b \in AllThreads : b = currentThread' /\ status[b] \notin {"none", "exited"}
  BY DEF KiSchedule, Dispatchable
<1>3. /\ TypeOK /\ Stacks /\ StackOf(guards[c]) /\ guards \in [AllThreads -> Seq(Guards)]
      /\ Sections(guards, c, gCriticalSectionDepth, inService)
      /\ gCriticalSectionDepth \in Nat /\ inService \in BOOLEAN
  BY <1>1 DEF IrqlInv, Stacks, TypeOK
<1>4. /\ \A t \in AllThreads : t # c => status'[t] = status[t]
      /\ status'[c] \in {status[c], "exited"} /\ (c = Idle => status'[c] = status[c])
      /\ status'[b] \notin {"none", "exited"}
      /\ status' \in [AllThreads -> {"none", "new", "boot", "live", "faulted", "exited"}]
  BY <1>1, <1>2, <1>3 DEF TypeOK, cur
<1> DEFINE x == Guard("guard", 0)
<1>5. /\ IrqlTypes' /\ Stacks'
      /\ x \in Guards /\ x.kind = "guard" /\ x.SectionDepth = 0
      /\ guards' = [guards EXCEPT ![c] = Append(@, x)]
      /\ Len(guards'[c]) = Len(guards[c]) + 1 /\ Len(guards[c]) \in Nat
      /\ \A i \in 1 .. Len(guards[c]) : guards'[c][i] = guards[c][i]
      /\ guards'[c][Len(guards[c]) + 1].kind = "guard"
  <2>1. "guard" \in {"guard", "section", "handler"} /\ 0 \in Nat /\ "guard" # "handler"
    OBVIOUS
  <2> QED BY <2>1, <1>1, <1>2, <1>3, <1>4, RaiseStep
<1> HIDE DEF x
<1>6. Sections(guards', c, gCriticalSectionDepth, inService)
  <2>1. "guard" \notin SectionKinds /\ "guard" # "keyboard" /\ "guard" # "handler"
    BY DEF SectionKinds
  <2>2. Sections([guards EXCEPT ![c] = Append(@, x)], c, gCriticalSectionDepth, inService)
    <3>1. /\ x.kind # "keyboard" /\ (x.kind = "handler" => inService)
          /\ IF x.kind \in SectionKinds
             THEN gCriticalSectionDepth = gCriticalSectionDepth + 1 /\ x.SectionDepth = gCriticalSectionDepth
             ELSE gCriticalSectionDepth = gCriticalSectionDepth
      BY <2>1, <1>5
    <3> QED BY <3>1, <1>3, <1>5, PushSections
  <2> QED BY <2>2, <1>5
<1>7. Parked(guards', c, inService)
  <2>1. CASE level[c] = PASSIVE
    <3>1. Len(guards[c]) = 0
      BY <2>1, <1>1, <1>3, Running
    <3>2. \A i \in 1 .. Len(guards'[c]) : i = Len(guards[c]) + 1
      BY <3>1, <1>5
    <3> QED BY <3>2, <1>5 DEF Parked
  <2>2. CASE c = Idle /\ On("handler")
    <3>1. /\ Len(guards[c]) = 2 /\ guards[c][1].kind = "keyboard" /\ guards[c][2].kind = "handler"
      <4>1. "handler" \in Kinds
        BY DEF Kinds
      <4>2. /\ Len(guards[c]) # 0 /\ guards[c][Len(guards[c])].kind = "handler"
            /\ Len(guards[c]) = 2 /\ guards[c][1].kind = "keyboard"
        BY <4>1, <2>2, <1>1, <1>3, Innermost
      <4> QED BY <4>2
    <3>2. guards[c][2].SectionDepth = 1 /\ inService
      <4>1. 2 \in 1 .. 2 /\ Base(guards, c, inService) = 0
        BY <2>2 DEF Base
      <4>2. Section(guards[c], 2) /\ ~Section(guards[c], 1)
        BY <3>1 DEF Section, SectionKinds
      <4>3. Inner(guards[c], 2 - 1, guards[c][2].SectionDepth - 1, 0) /\ inService
        BY <4>1, <4>2, <3>1, <1>3 DEF Sections
      <4>4. \A j \in 1 .. 2 - 1 : j = 1
        OBVIOUS
      <4>5. guards[c][2].SectionDepth - 1 = 0
        BY <4>2, <4>3, <4>4 DEF Inner
      <4>6. guards[c][2].SectionDepth \in Nat
        <5>1. guards[c] \in Seq(Guards) /\ 2 \in 1 .. Len(guards[c])
          BY <1>3, <3>1
        <5>2. guards[c][2] \in Guards
          BY <5>1
        <5> QED BY <5>2 DEF Guards
      <4> QED BY <4>3, <4>5, <4>6
    <3>3. Len(guards'[c]) = 3 /\ guards'[c][1] = guards[c][1] /\ guards'[c][2] = guards[c][2]
          /\ guards'[c][3].kind = "guard"
      BY <3>1, <1>5
    <3> QED BY <3>1, <3>2, <3>3, <2>2 DEF Parked, InHandler
  <2> QED BY <2>1, <2>2, <1>1 DEF cur
<1>8. Sections(guards', b, gCriticalSectionDepth, inService)
  <2>1. guards' \in [AllThreads -> Seq(Guards)]
    BY <1>5 DEF IrqlTypes
  <2> QED BY <2>1, <1>3, <1>6, <1>7, Switch
<1>9. TypeOK'
  BY <1>2, <1>3, <1>4, <1>5, Types
<1> QED BY <1>2, <1>5, <1>8, <1>9 DEF IrqlInv

\* An interrupt is taken: only by a thread without guards, and by the
\* keyboard only when no handler waits, switched out, for its end.
LEMMA InterruptStep ==
  ASSUME IrqlInv, NEW vector \in {"timer", "keyboard"}, KeEnterInterruptContext(vector)
  PROVE  IrqlInv'
<1>1. PICK c \in AllThreads : c = currentThread
  BY DEF IrqlInv, TypeOK
<1>2. /\ TypeOK /\ Stacks /\ StackOf(guards[c]) /\ guards \in [AllThreads -> Seq(Guards)]
      /\ Sections(guards, c, gCriticalSectionDepth, inService)
      /\ gCriticalSectionDepth \in Nat /\ inService \in BOOLEAN
      /\ status[c] \notin {"none", "exited"} /\ guards[c] \in Seq(Guards)
  BY <1>1 DEF IrqlInv, Stacks, TypeOK, Flag
<1>3. /\ Len(guards[c]) = 0 /\ dispatchDepth[c] = 0 /\ level[c] = PASSIVE
  BY <1>1, <1>2, Running DEF KeEnterInterruptContext
<1> DEFINE x == Frame(vector)
<1>4. /\ x \in Guards /\ x.kind = vector /\ x.EnterDepth = 1 /\ ~x.Transitioned
      /\ x.SavedInterruptState /\ x.PreviousLevel = level[c]
      /\ x.kind \in InterruptKinds /\ x.kind # "handler"
  <2>1. vector \in Kinds /\ vector \in InterruptKinds /\ vector # "handler"
    BY DEF Kinds, InterruptKinds
  <2> QED BY <2>1, <1>1, <1>3 DEF Frame, Guards, cur
<1> HIDE DEF x
<1>5. /\ guards' = [guards EXCEPT ![c] = Append(@, x)]
      /\ level' = [level EXCEPT ![c] = DISPATCH]
      /\ dispatchDepth' = [dispatchDepth EXCEPT ![c] = @ + 1]
      /\ interruptDepth' = [interruptDepth EXCEPT ![c] = @ + 1]
      /\ interruptsEnabled' = FALSE
      /\ inService' = (inService \/ vector = "keyboard")
      /\ (vector = "keyboard" => ~inService)
      /\ currentThread' = c /\ status' = status /\ gCriticalSectionDepth' = gCriticalSectionDepth
  BY <1>1 DEF KeEnterInterruptContext, cur, x
<1>6. /\ IrqlTypes' /\ AllStacks'
      /\ \A t \in AllThreads : t # c => guards'[t] = guards[t]
      /\ Len(guards'[c]) = 1 /\ guards'[c][1] = x
  <2>1. /\ x.EnterDepth = Len(guards[c]) + 1
        /\ x.Transitioned <=> (Len(guards[c]) = 0 /\ x.kind \notin InterruptKinds)
        /\ interruptDepth' = IF x.kind \in InterruptKinds
                             THEN [interruptDepth EXCEPT ![c] = @ + 1] ELSE interruptDepth
        /\ x.kind \in InterruptKinds => Len(guards[c]) = 0
        /\ x.kind = "handler" => Len(guards[c]) = 1 /\ guards[c][1].kind = "keyboard"
    BY <1>3, <1>4, <1>5
  <2>2. x \in Guards /\ x.PreviousLevel = level[c]
    BY <1>4
  <2>3. /\ guards' = [guards EXCEPT ![c] = Append(@, x)]
        /\ level' = [level EXCEPT ![c] = DISPATCH]
        /\ dispatchDepth' = [dispatchDepth EXCEPT ![c] = @ + 1]
        /\ interruptsEnabled' = FALSE
    BY <1>5
  <2>4. /\ IrqlTypes' /\ AllStacks'
        /\ \A t \in AllThreads : t # c => guards'[t] = guards[t]
        /\ Len(guards'[c]) = Len(guards[c]) + 1
        /\ guards'[c][1] = IF Len(guards[c]) = 0 THEN x ELSE guards[c][1]
    BY ZenonT(30), <2>1, <2>2, <2>3, <1>1, <1>2, PushStep
  <2> QED BY <2>4, <1>3
<1>7. Stacks'
  <2>1. /\ Len(guards'[c]) # 0 /\ (status[c] = "live" => guards'[c][1].SavedInterruptState)
        /\ status'[c] \in {status[c], "exited"} /\ status'[c] = status[c]
        /\ status'[c] \notin {"none", "exited"}
        /\ \A t \in AllThreads : t # c => guards'[t] = guards[t] /\ status'[t] = status[t]
    BY <1>2, <1>4, <1>5, <1>6
  <2> QED BY <2>1, <1>1, <1>2, <1>5, <1>6, Dispatched
<1>8. Sections(guards', c, gCriticalSectionDepth, inService')
  <2>1. CASE vector = "timer"
    <3>1. "timer" \notin SectionKinds /\ inService' = inService
      BY <2>1, <1>2, <1>5 DEF SectionKinds
    <3>2. /\ x.kind # "keyboard" /\ (x.kind = "handler" => inService)
          /\ IF x.kind \in SectionKinds
             THEN gCriticalSectionDepth = gCriticalSectionDepth + 1 /\ x.SectionDepth = gCriticalSectionDepth
             ELSE gCriticalSectionDepth = gCriticalSectionDepth
      BY <2>1, <3>1, <1>4
    <3>3. Sections([guards EXCEPT ![c] = Append(@, x)], c, gCriticalSectionDepth, inService)
      BY <3>2, <1>2, <1>4, PushSections
    <3> QED BY <3>1, <3>3, <1>5
  <2>2. CASE vector = "keyboard"
    <3>1. inService = FALSE /\ inService' = TRUE
      BY <2>2, <1>2, <1>5
    <3>2. gCriticalSectionDepth = 0
      <4>1. Base(guards, c, inService) = 0
        BY <3>1 DEF Base, InHandler
      <4>2. \A j \in 1 .. Len(guards[c]) : FALSE
        BY <1>3
      <4>3. Inner(guards[c], Len(guards[c]), gCriticalSectionDepth, 0)
        BY <4>1, <1>2 DEF Sections
      <4> QED BY <4>2, <4>3 DEF Inner
    <3>3. \A t \in AllThreads : t # c =>
            \A i \in 1 .. Len(guards[t]) : guards[t][i].kind \in {"guard", "timer"}
      BY <3>1, <1>2 DEF Sections, Parked, InHandler
    <3>4. Idle # c => ~InHandler(guards'[Idle], TRUE)
      <4>1. Idle \in AllThreads
        BY DEF AllThreads
      <4>2. CASE Idle # c
        <5>1. /\ guards[Idle] \in Seq(Guards) /\ guards'[Idle] = guards[Idle]
              /\ \A i \in 1 .. Len(guards[Idle]) : guards[Idle][i].kind \in {"guard", "timer"}
          BY <4>1, <4>2, <3>3, <1>2, <1>6
        <5>2. 0 \in Nat /\ TRUE \in BOOLEAN
          OBVIOUS
        <5>3. ~InHandler(guards[Idle], TRUE)
          BY <5>1, <5>2, ParkedInner
        <5> QED BY <5>1, <5>3
      <4> QED BY <4>2
    <3>5. Base(guards', c, TRUE) = 0
      BY <3>4 DEF Base
    <3>6. \A i \in 1 .. Len(guards'[c]) : i = 1 /\ ~Section(guards'[c], i) /\ guards'[c][i].kind # "handler"
      <4>1. \A i \in 1 .. Len(guards'[c]) : i = 1
        BY <1>6
      <4>2. ~Section(guards'[c], 1) /\ guards'[c][1].kind # "handler"
        BY <2>2, <1>4, <1>6 DEF Section, SectionKinds
      <4> QED BY <4>1, <4>2
    <3>7. Inner(guards'[c], Len(guards'[c]), gCriticalSectionDepth, Base(guards', c, TRUE))
      BY <3>2, <3>5, <3>6 DEF Inner
    <3>8. \A t \in AllThreads : t # c => Parked(guards', t, TRUE)
      BY <3>3, <1>6 DEF Parked
    <3> QED BY <3>1, <3>4, <3>6, <3>7, <3>8 DEF Sections
  <2> QED BY <2>1, <2>2
<1>9. TypeOK'
  <2>1. inService' \in BOOLEAN
    BY <1>2, <1>5
  <2> QED BY <2>1, <1>2, <1>5, <1>6, Types DEF TypeOK
<1> QED BY <1>5, <1>7, <1>8, <1>9 DEF IrqlInv

\* The return from an interrupt.
LEMMA ReturnStep ==
  ASSUME IrqlInv, KeLeaveInterruptContext
  PROVE  IrqlInv'
<1>1. PICK c \in AllThreads : c = currentThread
  BY DEF IrqlInv, TypeOK
<1>2. /\ TypeOK /\ Stacks /\ StackOf(guards[c]) /\ guards \in [AllThreads -> Seq(Guards)]
      /\ Sections(guards, c, gCriticalSectionDepth, inService)
      /\ gCriticalSectionDepth \in Nat /\ inService \in BOOLEAN
  BY <1>1 DEF IrqlInv, Stacks, TypeOK
<1>3. PICK kind \in {"timer", "keyboard"} : On(kind)
  BY DEF KeLeaveInterruptContext
<1>4. kind \in Kinds /\ kind \in InterruptKinds /\ kind \notin SectionKinds /\ kind # "handler"
  BY DEF Kinds, InterruptKinds, SectionKinds
<1>5. Len(guards[c]) = 1 /\ guards[c][Len(guards[c])].kind = kind
  BY <1>1, <1>2, <1>3, <1>4, Innermost
<1>6. dispatchDepth[c] = 1
  BY <1>1, <1>2, <1>5, Running
<1>7. /\ guards' = [guards EXCEPT ![c] = SubSeq(@, 1, Len(@) - 1)]
      /\ dispatchDepth' = [dispatchDepth EXCEPT ![c] = @ - 1]
      /\ interruptDepth' = [interruptDepth EXCEPT ![c] = @ - 1]
      /\ level' = [level EXCEPT ![c] = IF dispatchDepth[c] = 1 THEN PASSIVE ELSE DISPATCH]
      /\ interruptsEnabled' = TRUE
      /\ currentThread' = c /\ UNCHANGED <<currentThread, status>> /\ status' = status
      /\ gCriticalSectionDepth' = gCriticalSectionDepth /\ inService' = inService
  BY <1>1 DEF KeLeaveInterruptContext, cur
<1>8. /\ IrqlTypes' /\ AllStacks'
      /\ \A t \in AllThreads : t # c => guards'[t] = guards[t]
      /\ Len(guards'[c]) = 0
  <2>1. /\ Len(guards[c]) # 0
        /\ level' = [level EXCEPT ![c] = IF Len(guards[c]) = 1 THEN PASSIVE ELSE DISPATCH]
        /\ interruptDepth' = IF guards[c][Len(guards[c])].kind \in InterruptKinds
                             THEN [interruptDepth EXCEPT ![c] = @ - 1] ELSE interruptDepth
        /\ interruptsEnabled' \in BOOLEAN
    BY <1>4, <1>5, <1>6, <1>7
  <2>2. /\ IrqlTypes' /\ AllStacks'
        /\ \A t \in AllThreads : t # c => guards'[t] = guards[t]
        /\ Len(guards'[c]) = Len(guards[c]) - 1
    BY <2>1, <1>1, <1>2, <1>7, PopStep
  <2> QED BY <2>2, <1>5
<1>9. Stacks'
  <2>1. Len(guards[c]) # 0
    BY <1>5
  <2> QED BY <2>1, <1>1, <1>2, <1>7, <1>8, Returned
<1>10. Sections(guards', c, gCriticalSectionDepth, inService)
  <2>1. /\ ~Section(guards[c], Len(guards[c])) /\ Len(guards[c]) # 0
        /\ inService = IF guards[c][Len(guards[c])].kind = "handler" THEN FALSE ELSE inService
    BY <1>4, <1>5 DEF Section
  <2>2. Sections([guards EXCEPT ![c] = SubSeq(@, 1, Len(@) - 1)], c,
                  IF Section(guards[c], Len(guards[c])) THEN gCriticalSectionDepth - 1
                  ELSE gCriticalSectionDepth, inService)
    BY <2>1, <1>2, PopSections
  <2> QED BY <2>1, <2>2, <1>7
<1>11. TypeOK'
  BY <1>2, <1>7, <1>8, Types DEF TypeOK
<1> QED BY <1>7, <1>9, <1>10, <1>11 DEF IrqlInv

\* The timer handler switches with nothing but its own frame on the stack.
LEMMA PreemptStep ==
  ASSUME IrqlInv, TimerPreempt
  PROVE  IrqlInv'
<1>1. PICK c \in AllThreads : c = currentThread
  BY DEF IrqlInv, TypeOK
<1>2. PICK b \in AllThreads : b = currentThread' /\ status[b] \notin {"none", "exited"}
  BY DEF TimerPreempt, KiSchedule, Dispatchable
<1>3. /\ TypeOK /\ Stacks /\ guards \in [AllThreads -> Seq(Guards)]
      /\ Sections(guards, c, gCriticalSectionDepth, inService)
      /\ gCriticalSectionDepth \in Nat /\ inService \in BOOLEAN
      /\ status[c] \notin {"none", "exited"}
  BY <1>1 DEF IrqlInv, Stacks, TypeOK, Flag
<1>4. UNCHANGED <<status, irqlVars, guards, gCriticalSectionDepth, interruptsEnabled, inService>>
  BY DEF TimerPreempt
<1>5. Len(guards[c]) = 1 /\ guards[c][1].kind = "timer"
  <2>1. "timer" \in Kinds /\ "timer" \in InterruptKinds
    BY DEF Kinds, InterruptKinds
  <2>2. Len(guards[c]) = 1 /\ guards[c][Len(guards[c])].kind = "timer"
    BY <2>1, <1>1, <1>3, Innermost DEF TimerPreempt
  <2> QED BY <2>2
<1>6. Parked(guards, c, inService)
  <2>1. \A i \in 1 .. Len(guards[c]) : i = 1
    BY <1>5
  <2> QED BY <2>1, <1>5 DEF Parked
<1>7. Sections(guards, b, gCriticalSectionDepth, inService)
  BY <1>3, <1>6, Switch
<1>8. IrqlTypes' /\ AllStacks'
  BY <1>3, <1>4 DEF IrqlTypes, AllStacks, TypeOK, Stacks, StackOf, Counts, irqlVars
<1>9. Stacks'
  <2>1. interruptsEnabled' = FALSE
    BY <1>1, <1>3, <1>4, <1>5, Running DEF TypeOK
  <2>2. status[c] = "live" => guards[c][1].SavedInterruptState
    <3>1. SavedOn(c)
      BY <1>3 DEF Stacks
    <3> QED BY <3>1, <1>5 DEF SavedOn
  <2>3. /\ \A t \in AllThreads : t # c => guards'[t] = guards[t] /\ status'[t] = status[t]
        /\ Len(guards'[c]) # 0 /\ (status[c] = "live" => guards'[c][1].SavedInterruptState)
        /\ status'[c] \in {status[c], "exited"} /\ status'[c] = status[c]
        /\ status'[b] \notin {"none", "exited"}
    BY <2>2, <1>2, <1>4, <1>5
  <2> QED BY <2>1, <2>3, <1>1, <1>2, <1>3, <1>8, Dispatched
<1>10. TypeOK'
  BY <1>2, <1>3, <1>4, <1>8, Types DEF TypeOK
<1> QED BY <1>2, <1>4, <1>7, <1>9, <1>10 DEF IrqlInv

\* The steps that push and pop nothing: a user fault and the first enabling
\* of interrupts change the status of the running thread, with no guard held.
LEMMA StatusStep ==
  ASSUME IrqlInv, TryHandleUserRuntimeFault \/ EnableInterrupts
  PROVE  IrqlInv'
<1>1. PICK c \in AllThreads : c = currentThread
  BY DEF IrqlInv, TypeOK
<1>2. /\ TypeOK /\ Stacks /\ Sections(guards, c, gCriticalSectionDepth, inService)
      /\ guards[c] = << >>
      /\ UNCHANGED <<currentThread, irqlVars, guards, gCriticalSectionDepth, inService>>
  BY <1>1 DEF IrqlInv, TryHandleUserRuntimeFault, EnableInterrupts, cur
<1>3. PICK v \in {"faulted", "live"} :
        /\ status' = [status EXCEPT ![c] = v]
        /\ interruptsEnabled' = (v = "live")
  <2>1. CASE TryHandleUserRuntimeFault
    BY <2>1, <1>1 DEF TryHandleUserRuntimeFault, cur
  <2>2. CASE EnableInterrupts
    BY <2>2, <1>1 DEF EnableInterrupts, cur
  <2> QED BY <2>1, <2>2
<1>4. /\ status'[c] = v /\ \A t \in AllThreads : t # c => status'[t] = status[t]
      /\ status' \in [AllThreads -> {"none", "new", "boot", "live", "faulted", "exited"}]
  BY <1>2, <1>3 DEF TypeOK
<1>5. IrqlTypes' /\ AllStacks' /\ interruptsEnabled' \in BOOLEAN
  BY <1>2, <1>3 DEF IrqlTypes, AllStacks, TypeOK, Stacks, StackOf, Counts, irqlVars
<1>6. Len(guards'[c]) = 0 /\ guards' = guards /\ currentThread' = c
  BY <1>1, <1>2
<1>7. Stacks'
  <2>1. \A t \in AllThreads : SavedOn(t)'
    <3> SUFFICES ASSUME NEW t \in AllThreads PROVE SavedOn(t)'
      OBVIOUS
    <3>1. CASE t = c
      BY <3>1, <1>6 DEF SavedOn
    <3>2. CASE t # c
      <4>1. SavedOn(t)
        BY <1>2 DEF Stacks
      <4> QED BY <4>1, <3>2, <1>1, <1>4, <1>6 DEF SavedOn
    <3> QED BY <3>1, <3>2
  <2>2. Flag'
    BY <1>3, <1>4, <1>6 DEF Flag
  <2>3. status'[Idle] \notin {"none", "exited"}
    <3>1. Idle \in AllThreads
      BY DEF AllThreads
    <3> QED BY <3>1, <1>2, <1>4 DEF Stacks
  <2> QED BY <2>1, <2>2, <2>3, <1>5 DEF Stacks, AllStacks
<1>8. TypeOK'
  BY <1>2, <1>4, <1>5, <1>6, Types DEF TypeOK
<1> QED BY <1>2, <1>6, <1>7, <1>8 DEF IrqlInv

\* A slot is given to a new thread, which starts without guards.
LEMMA CreateStep ==
  ASSUME IrqlInv, NEW u \in Threads, KeInitializeIrqlState(u)
  PROVE  IrqlInv'
<1>1. PICK c \in AllThreads : c = currentThread
  BY DEF IrqlInv, TypeOK
<1>2. /\ TypeOK /\ Stacks /\ Sections(guards, c, gCriticalSectionDepth, inService)
      /\ guards \in [AllThreads -> Seq(Guards)]
      /\ UNCHANGED <<currentThread, gCriticalSectionDepth, interruptsEnabled, inService>>
      /\ status' = [status EXCEPT ![u] = "new"]
      /\ level' = [level EXCEPT ![u] = PASSIVE]
      /\ dispatchDepth' = [dispatchDepth EXCEPT ![u] = 0]
      /\ interruptDepth' = [interruptDepth EXCEPT ![u] = 0]
      /\ guards' = [guards EXCEPT ![u] = << >>]
  BY <1>1 DEF IrqlInv, KeInitializeIrqlState, TypeOK
<1>3. u \in AllThreads /\ Idle \in AllThreads /\ u # Idle /\ u # c
  BY <1>1, IrqlAssumption DEF KeInitializeIrqlState, AllThreads, cur
<1>4. /\ guards'[u] = << >> /\ Len(guards'[u]) = 0 /\ status'[u] = "new"
      /\ level'[u] = PASSIVE /\ dispatchDepth'[u] = 0 /\ interruptDepth'[u] = 0
  BY <1>2, <1>3 DEF TypeOK
<1>5. \A t \in AllThreads : t # u =>
        /\ guards'[t] = guards[t] /\ status'[t] = status[t] /\ level'[t] = level[t]
        /\ dispatchDepth'[t] = dispatchDepth[t] /\ interruptDepth'[t] = interruptDepth[t]
  BY <1>2 DEF TypeOK
<1>6. currentThread' = c
  BY <1>1, <1>2
<1>7. IrqlTypes' /\ status' \in [AllThreads -> {"none", "new", "boot", "live", "faulted", "exited"}]
  <2>1. << >> \in Seq(Guards)
    OBVIOUS
  <2> QED BY <2>1, <1>2 DEF IrqlTypes, TypeOK
<1>8. Stacks'
  <2>1. ASSUME NEW t \in AllThreads PROVE (StackOf(guards[t]) /\ Counts(t) /\ SavedOn(t))'
    <3>1. CASE t = u
      <4>1. \A i \in 1 .. Len(guards'[u]) : FALSE
        BY <1>4
      <4> QED BY <4>1, <3>1, <1>4 DEF StackOf, Counts, SavedOn
    <3>2. CASE t # u
      <4>1. StackOf(guards[t]) /\ Counts(t) /\ SavedOn(t)
        BY <1>2 DEF Stacks
      <4> QED BY <4>1, <3>2, <1>1, <1>5, <1>6 DEF StackOf, Counts, SavedOn
    <3> QED BY <3>1, <3>2
  <2>2. Flag'
    BY <1>1, <1>2, <1>3, <1>5, <1>6 DEF Stacks, Flag
  <2>3. status'[Idle] \notin {"none", "exited"}
    BY <1>2, <1>3, <1>5 DEF Stacks
  <2> QED BY <2>1, <2>2, <2>3 DEF Stacks
<1>9. Sections(guards', c, gCriticalSectionDepth, inService)
  <2>1. guards'[c] = guards[c] /\ guards'[Idle] = guards[Idle]
    BY <1>3, <1>5
  <2>2. Base(guards', c, inService) = Base(guards, c, inService)
    BY <2>1 DEF Base
  <2>3. \A t \in AllThreads : t # c => Parked(guards', t, inService)
    <3> SUFFICES ASSUME NEW t \in AllThreads, t # c PROVE Parked(guards', t, inService)
      OBVIOUS
    <3>1. CASE t = u
      <4>1. \A i \in 1 .. Len(guards'[t]) : FALSE
        BY <3>1, <1>4
      <4> QED BY <4>1 DEF Parked
    <3>2. CASE t # u
      BY <3>2, <1>2, <1>5 DEF Sections, Parked
    <3> QED BY <3>1, <3>2
  <2> QED BY <2>1, <2>2, <2>3, <1>2 DEF Sections
<1>10. TypeOK'
  BY <1>1, <1>2, <1>7, Types DEF TypeOK
<1> QED BY <1>2, <1>6, <1>8, <1>9, <1>10 DEF IrqlInv

\* Every step of KeIrql keeps the invariant.
LEMMA IrqlStep == IrqlInv /\ [Next]_vars => IrqlInv'
<1> SUFFICES ASSUME IrqlInv, [Next]_vars PROVE IrqlInv'
  OBVIOUS
<1>0. gCriticalSectionDepth \in Nat /\ gCriticalSectionDepth + 1 \in Nat /\ 0 \in Nat
  BY DEF IrqlInv, TypeOK
<1>1. CASE KeAcquireIrqlGuard
  BY <1>0, <1>1, AcquireStep DEF KeAcquireIrqlGuard
<1>2. CASE KeReleaseIrqlGuard
  <2>1. "guard" # "handler"
    OBVIOUS
  <2> QED BY <2>1, <1>2, ReleaseStep DEF KeReleaseIrqlGuard
<1>3. CASE KeEnterCriticalSection
  BY <1>0, <1>3, AcquireStep DEF KeEnterCriticalSection
<1>4. CASE KeLeaveCriticalSection
  BY <1>4, ReleaseStep DEF KeLeaveCriticalSection
<1>5. CASE \E vector \in {"timer", "keyboard"} : KeEnterInterruptContext(vector)
  BY <1>5, InterruptStep
<1>6. CASE KeyboardHandlerEnter
  BY <1>0, <1>6, AcquireStep DEF KeyboardHandlerEnter
<1>7. CASE KeyboardHandlerLeave
  BY <1>7, ReleaseStep DEF KeyboardHandlerLeave
<1>8. CASE KeLeaveInterruptContext
  BY <1>8, ReturnStep
<1>9. CASE TryHandleUserRuntimeFault \/ EnableInterrupts
  BY <1>9, StatusStep
<1>10. CASE \E t \in Threads : KeInitializeIrqlState(t)
  BY <1>10, CreateStep
<1>11. CASE BlockingService
  BY <1>11, BlockStep DEF BlockingService
<1>12. CASE KeThreadExit
  <2>1. KiSchedule(Dispatchable) /\ currentThread' # cur
    BY <1>12 DEF KeThreadExit, KiSchedule
  <2> QED BY <2>1, <1>12, BlockStep DEF KeThreadExit
<1>13. CASE TimerPreempt
  BY <1>13, PreemptStep
<1>14. CASE KeyboardSignal
  BY <1>14, BlockStep DEF KeyboardSignal
<1>15. CASE UNCHANGED vars
  BY <1>15 DEF vars, irqlVars, IrqlInv, TypeOK, Stacks, StackOf, Counts, SavedOn, Flag
<1> QED BY <1>1, <1>2, <1>3, <1>4, <1>5, <1>6, <1>7, <1>8, <1>9, <1>10, <1>11, <1>12, <1>13,
           <1>14, <1>15 DEF Next

\* IrqlInv holds in every reachable state.
THEOREM IrqlInvariant == Spec => []IrqlInv
<1>1. IrqlInv /\ [Next]_vars => IrqlInv'
  BY IrqlStep
<1> QED BY IrqlInitial, <1>1, PTL DEF Spec

-----------------------------------------------------------------------------
(* What the invariant says.                                                *)

\* Every variable keeps its C type; no depth counter underflows.
THEOREM IrqlTypeCorrect == Spec => []TypeOK
<1>1. IrqlInv => TypeOK
  BY DEF IrqlInv
<1> QED BY <1>1, IrqlInvariant, PTL

\* No assertion of irql.c and critical_section.c fires, for any number of
\* threads, any nesting and any order of switches.
THEOREM AssertionsNeverFire == Spec => []AssertionsHold
<1>1. IrqlInv => AssertionsHold
  <2> SUFFICES ASSUME IrqlInv PROVE AssertionsHold
    OBVIOUS
  <2>1. PICK c \in AllThreads : c = currentThread
    BY DEF IrqlInv, TypeOK
  <2>2. /\ guards \in [AllThreads -> Seq(Guards)] /\ gCriticalSectionDepth \in Nat /\ inService \in BOOLEAN
        /\ StackOf(guards[c]) /\ Counts(c)
        /\ Sections(guards, c, gCriticalSectionDepth, inService)
    BY <2>1 DEF IrqlInv, TypeOK, Stacks
  <2>3. ASSUME NEW t \in AllThreads PROVE IrqlStateValid(t)
    <3>1. Counts(t) /\ guards[t] \in Seq(Guards) /\ Len(guards[t]) \in Nat
      BY <2>2 DEF IrqlInv, Stacks
    <3> QED BY <3>1 DEF Counts, IrqlStateValid
  <2>4. ReleaseValid
    <3> SUFFICES ASSUME guards[c] # << >>
                 PROVE  LET top == guards[c][Len(guards[c])]
                        IN  /\ top.EnterDepth = dispatchDepth[c]
                            /\ top.Transitioned => dispatchDepth[c] = 1
                            /\ top.kind \in SectionKinds => top.SectionDepth = gCriticalSectionDepth
                            /\ top.kind \in InterruptKinds => dispatchDepth[c] = interruptDepth[c]
      BY <2>1 DEF ReleaseValid, Top, cur
    <3> DEFINE n == Len(guards[c])
    <3>1. n # 0 /\ n \in 1 .. n /\ guards[c] \in Seq(Guards)
      BY <2>2
    <3>2. /\ guards[c][n].EnterDepth = n /\ dispatchDepth[c] = n
          /\ guards[c][n].Transitioned => n = 1
          /\ guards[c][n].kind \in InterruptKinds => n = 1
      BY <3>1, <2>2 DEF StackOf, Counts
    <3>3. guards[c][n].kind \in InterruptKinds => interruptDepth[c] = 1
      BY <3>1, <3>2, <2>2 DEF Counts
    <3>4. guards[c][n].kind \in SectionKinds => guards[c][n].SectionDepth = gCriticalSectionDepth
      <4>1. PICK p \in BOOLEAN : p = IF guards[c][Len(guards[c])].kind = "handler" THEN FALSE ELSE inService
        BY <2>2
      <4>2. Section(guards[c], Len(guards[c])) => guards[c][Len(guards[c])].SectionDepth = gCriticalSectionDepth
        BY ZenonT(30), <4>1, <3>1, <2>2, PopSections
      <4> QED BY <4>2 DEF Section
    <3> QED BY <3>2, <3>3, <3>4
  <2> QED BY <2>3, <2>4 DEF AssertionsHold
<1> QED BY <1>1, IrqlInvariant, PTL

\* The running thread at DISPATCH_LEVEL is never interrupted.
THEOREM DispatchIsAtomic == Spec => []DispatchMasksInterrupts
<1>1. IrqlInv => DispatchMasksInterrupts
  BY Running DEF IrqlInv, DispatchMasksInterrupts, cur, PASSIVE, DISPATCH
<1> QED BY <1>1, IrqlInvariant, PTL

\* A live thread at PASSIVE_LEVEL always runs with interrupts enabled.
THEOREM PassiveIsPreemptible == Spec => []PassiveRunsInterruptible
<1>1. IrqlInv => PassiveRunsInterruptible
  BY Running DEF IrqlInv, PassiveRunsInterruptible, cur, Stacks, Flag
<1> QED BY <1>1, IrqlInvariant, PTL

\* Sections of two threads never overlap, but for the keyboard handler's.
THEOREM SectionsAreExclusive == Spec => []SectionsExclude
<1>1. IrqlInv => SectionsExclude
  <2> SUFFICES ASSUME IrqlInv, NEW t \in AllThreads, t # currentThread, InSection(t)
               PROVE  t = Idle /\ inService
    BY DEF SectionsExclude, cur
  <2>1. Parked(guards, t, inService)
    BY DEF IrqlInv, Sections
  <2>2. PICK i \in 1 .. Len(guards[t]) : guards[t][i].kind \in SectionKinds
    BY DEF InSection
  <2>3. guards[t][i].kind \notin {"guard", "timer"}
    BY <2>2 DEF SectionKinds
  <2> QED BY <2>1, <2>2, <2>3 DEF Parked, InHandler
<1> QED BY <1>1, IrqlInvariant, PTL
=============================================================================
