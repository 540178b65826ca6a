---------------------------- MODULE KeInputProofs ---------------------------
(***************************************************************************)
(* Proofs about the input lane, for any number of readers and keys, any    *)
(* capacity of the line and any number of changes of the owner: the lane   *)
(* holds its owner's line (LaneIsOwners) and a read returns its reader's   *)
(* line (ReadsAreOwn).                                                     *)
(*                                                                         *)
(* The second rests on what a reader knows between its unlocked checks of  *)
(* the owner (ReaderInv): a line copied before the lane moved was typed    *)
(* for the reader, and one copied after a single move is dropped by the    *)
(* next check, which still finds another owner.                            *)
(***************************************************************************)
EXTENDS KeInput, TLAPS

Owners == Readers \cup {NoOwner}
Typeable == {"a", "A", "backspace", "newline", "none"}
Chars == [char : Typeable, for : Owners]
Lanes == [owner : Owners, current : Seq(Chars), completed : Seq(Chars), ready : BOOLEAN, shift : BOOLEAN]
Places == {"user", "check", "wait", "blocked", "woken", "copy", "copyOut", "consume"}
Reads == [at : Places, capacity : Nat, buffer : Seq(Chars), moves : Nat]

InputTypes == lane \in Lanes /\ event \in BOOLEAN /\ reader \in [Readers -> Reads]

\* The two lines of a lane one by one.
LaneOk(l) ==
  /\ TypedFor(l.current, l.owner) /\ TypedFor(l.completed, l.owner)
  /\ l.ready => l.current = << >>
  /\ ~l.ready => l.completed = << >>
  /\ Len(l.current) <= LineCapacity /\ Len(l.completed) <= LineCapacity
  /\ l.owner = NoOwner => ~l.ready

LaneInv == LaneOk(lane) /\ event = lane.ready

\* What a reader may rely on between two looks at the owner.
KnownTo(t) ==
  /\ reader[t].at \notin {"copy", "copyOut", "consume"} => reader[t].moves = 0
  /\ reader[t].at \in {"copy", "copyOut"} /\ reader[t].moves = 0 => lane.owner = t
  /\ reader[t].at = "copyOut" /\ reader[t].moves = 0 => TypedFor(reader[t].buffer, t)
  /\ reader[t].at = "copyOut" /\ reader[t].moves = 1 =>
       TypedFor(reader[t].buffer, t) \/ lane.owner # t
  /\ reader[t].at = "consume" /\ reader[t].moves <= 1 => TypedFor(reader[t].buffer, t)

ReaderInv == \A t \in Readers : KnownTo(t)

\* Nobody reads before there is any input, so that KeInputInit finds no reader.
NobodyYet == input = "no" => \A t \in Readers : reader[t].at = "user"

InputInv == InputTypes /\ LaneInv /\ ReaderInv

-----------------------------------------------------------------------------
(* Lines.                                                                  *)

\* The empty line was typed for anybody.
LEMMA EmptyLine ==
  ASSUME NEW t
  PROVE  TypedFor(<< >>, t) /\ << >> \in Seq(Chars) /\ Len(<< >>) = 0
  BY DEF TypedFor

\* A character more, typed for the same owner.
LEMMA LongerLine ==
  ASSUME NEW line \in Seq(Chars), NEW c \in Chars, TypedFor(line, c.for)
  PROVE  /\ TypedFor(Append(line, c), c.for) /\ Append(line, c) \in Seq(Chars)
         /\ Len(Append(line, c)) = Len(line) + 1
<1> DEFINE r == Append(line, c)
<1>1. /\ r \in Seq(Chars) /\ Len(r) = Len(line) + 1 /\ Len(line) \in Nat
      /\ r[Len(line) + 1] = c /\ \A i \in 1 .. Len(line) : r[i] = line[i]
  OBVIOUS
<1>2. DOMAIN line = 1 .. Len(line) /\ DOMAIN r = 1 .. Len(r)
  BY <1>1
<1> HIDE DEF r
<1>3. TypedFor(r, c.for)
  <2> SUFFICES ASSUME NEW i \in 1 .. Len(r) PROVE r[i].for = c.for
    BY <1>2 DEF TypedFor
  <2>1. CASE i = Len(line) + 1
    BY <2>1, <1>1
  <2>2. CASE i # Len(line) + 1
    <3>1. i \in 1 .. Len(line)
      BY <2>2, <1>1
    <3> QED BY <3>1, <1>1, <1>2 DEF TypedFor
  <2> QED BY <2>1, <2>2
<1> QED BY <1>1, <1>3 DEF r

\* A character less.
LEMMA ShorterLine ==
  ASSUME NEW line \in Seq(Chars), line # << >>, NEW t, TypedFor(line, t)
  PROVE  LET r == SubSeq(line, 1, Len(line) - 1) IN
         TypedFor(r, t) /\ r \in Seq(Chars) /\ Len(r) <= Len(line)
<1> DEFINE r == SubSeq(line, 1, Len(line) - 1)
<1>0. Len(line) \in Nat /\ Len(line) - 1 \in 0 .. Len(line)
  OBVIOUS
<1>1. /\ r \in Seq(Chars) /\ Len(r) = Len(line) - 1 /\ Len(line) \in Nat
      /\ \A i \in 1 .. Len(line) - 1 : r[i] = line[i]
  <2>1. \A k \in 0 .. Len(line) : /\ SubSeq(line, 1, k) \in Seq(Chars) /\ Len(SubSeq(line, 1, k)) = k
                                 /\ \A i \in 1 .. k : SubSeq(line, 1, k)[i] = line[i]
    OBVIOUS
  <2> QED BY <1>0, <2>1
<1>2. DOMAIN line = 1 .. Len(line) /\ DOMAIN r = 1 .. Len(r)
  BY <1>1
<1> HIDE DEF r
<1>3. TypedFor(r, t)
  BY <1>1, <1>2 DEF TypedFor
<1>4. Len(r) <= Len(line)
  BY <1>1
<1> QED BY <1>1, <1>3, <1>4 DEF r

\* Two lines typed for the same owner, one behind the other.
LEMMA JoinedLines ==
  ASSUME NEW a \in Seq(Chars), NEW b \in Seq(Chars), NEW t, TypedFor(a, t), TypedFor(b, t)
  PROVE  TypedFor(a \o b, t)
<1> DEFINE r == a \o b
<1>1. /\ r \in Seq(Chars) /\ Len(r) = Len(a) + Len(b) /\ Len(a) \in Nat /\ Len(b) \in Nat
      /\ \A i \in 1 .. Len(a) : r[i] = a[i]
      /\ \A i \in 1 .. Len(b) : r[Len(a) + i] = b[i]
  <2>1. /\ r \in Seq(Chars) /\ Len(r) = Len(a) + Len(b) /\ Len(a) \in Nat /\ Len(b) \in Nat
    OBVIOUS
  <2>2. \A i \in 1 .. Len(a) + Len(b) : r[i] = IF i <= Len(a) THEN a[i] ELSE b[i - Len(a)]
    OBVIOUS
  <2>3. ASSUME NEW i \in 1 .. Len(b) PROVE r[Len(a) + i] = b[i]
    <3>1. Len(a) + i \in 1 .. Len(a) + Len(b) /\ ~(Len(a) + i <= Len(a)) /\ (Len(a) + i) - Len(a) = i
      BY <2>1
    <3> QED BY <2>2, <3>1
  <2> QED BY <2>1, <2>2, <2>3
<1>2. DOMAIN a = 1 .. Len(a) /\ DOMAIN b = 1 .. Len(b) /\ DOMAIN r = 1 .. Len(r)
  BY <1>1
<1> HIDE DEF r
<1>3. ASSUME NEW i \in 1 .. Len(r) PROVE r[i].for = t
  <2>1. CASE i \in 1 .. Len(a)
    BY <2>1, <1>1, <1>2 DEF TypedFor
  <2>2. CASE i \notin 1 .. Len(a)
    <3>1. i - Len(a) \in 1 .. Len(b) /\ Len(a) + (i - Len(a)) = i
      BY <2>2, <1>1
    <3>2. r[i] = b[i - Len(a)]
      BY <3>1, <1>1
    <3> QED BY <3>1, <3>2, <1>2 DEF TypedFor
  <2> QED BY <2>1, <2>2
<1> QED BY <1>2, <1>3 DEF TypedFor, r

\* The lane that KeInputInit and a change of the owner leave behind.
LEMMA EmptyLaneOk ==
  ASSUME NEW owner \in Owners
  PROVE  LET l == EmptyLane(owner) IN l \in Lanes /\ LaneOk(l) /\ l.ready = FALSE /\ l.owner = owner
<1> DEFINE l == EmptyLane(owner)
<1>1. /\ l \in Lanes /\ l.owner = owner /\ l.ready = FALSE /\ l.current = << >> /\ l.completed = << >>
  BY EmptyLine DEF EmptyLane, Lanes
<1>2. 0 <= LineCapacity
  BY InputAssumption
<1> HIDE DEF l
<1>3. LaneOk(l)
  BY <1>1, <1>2, EmptyLine DEF LaneOk
<1> QED BY <1>1, <1>3 DEF l

\* KiHandleTranslatedInputChar keeps a lane in order and its owner in place.
LEMMA TypedOk ==
  ASSUME NEW l \in Lanes, LaneOk(l), NEW char \in Typeable
  PROVE  LET r == Typed(l, char) IN
         r \in Lanes /\ LaneOk(r) /\ r.owner = l.owner /\ (l.ready => r.ready)
<1> DEFINE r == Typed(l, char)
<1>0. /\ l.current \in Seq(Chars) /\ l.completed \in Seq(Chars) /\ l.owner \in Owners /\ l.ready \in BOOLEAN
      /\ Len(l.current) \in Nat /\ LineCapacity \in Nat
  <2>1. l.current \in Seq(Chars) /\ l.completed \in Seq(Chars) /\ l.owner \in Owners /\ l.ready \in BOOLEAN
    BY DEF Lanes
  <2> QED BY <2>1, InputAssumption
<1>1. CASE l.owner = NoOwner \/ l.ready \/ char = "none"
  BY <1>1 DEF Typed
<1>2. CASE ~(l.owner = NoOwner \/ l.ready \/ char = "none") /\ char = "backspace"
  <2> DEFINE c == IF l.current = << >> THEN l.current ELSE SubSeq(l.current, 1, Len(l.current) - 1)
  <2>1. TypedFor(c, l.owner) /\ c \in Seq(Chars) /\ Len(c) <= Len(l.current) /\ Len(c) \in Nat
    <3>1. CASE l.current = << >>
      BY <1>0, <3>1 DEF LaneOk
    <3>2. CASE l.current # << >>
      <4>1. /\ TypedFor(c, l.owner) /\ c \in Seq(Chars) /\ Len(c) <= Len(l.current)
        BY <1>0, <3>2, ShorterLine DEF LaneOk
      <4> HIDE DEF c
      <4> QED BY <4>1
    <3> QED BY <3>1, <3>2
  <2>2. r = [l EXCEPT !.current = c]
    BY <1>2 DEF Typed
  <2> HIDE DEF c, r
  <2>3. /\ r \in Lanes /\ r.current = c /\ r.owner = l.owner /\ r.ready = l.ready /\ r.completed = l.completed
    BY <2>1, <2>2 DEF Lanes
  <2>4. Len(c) <= LineCapacity
    BY <1>0, <2>1 DEF LaneOk
  <2> QED BY <1>2, <2>1, <2>3, <2>4 DEF LaneOk, r
<1>3. CASE ~(l.owner = NoOwner \/ l.ready \/ char = "none") /\ char = "newline"
  <2>1. r = [l EXCEPT !.completed = l.current, !.ready = TRUE, !.current = << >>]
    BY <1>3 DEF Typed
  <2> HIDE DEF r
  <2>2. /\ r \in Lanes /\ r.current = << >> /\ r.owner = l.owner /\ r.ready = TRUE /\ r.completed = l.current
    BY <1>0, <2>1, EmptyLine DEF Lanes
  <2>3. Len(<< >>) <= LineCapacity
    BY <1>0, EmptyLine
  <2> QED BY <1>3, <2>2, <2>3, EmptyLine DEF LaneOk, r
<1>4. CASE /\ ~(l.owner = NoOwner \/ l.ready \/ char = "none") /\ char \notin {"backspace", "newline"}
           /\ Len(l.current) >= LineCapacity
  BY <1>4 DEF Typed
<1>5. CASE /\ ~(l.owner = NoOwner \/ l.ready \/ char = "none") /\ char \notin {"backspace", "newline"}
           /\ ~(Len(l.current) >= LineCapacity)
  <2> DEFINE k == [char |-> char, for |-> l.owner]
             c == Append(l.current, k)
  <2>1. k \in Chars /\ k.for = l.owner
    BY <1>0 DEF Chars
  <2>2. r = [l EXCEPT !.current = c]
    BY <1>5 DEF Typed
  <2> HIDE DEF k
  <2>3. TypedFor(c, l.owner) /\ c \in Seq(Chars) /\ Len(c) = Len(l.current) + 1
    BY <1>0, <2>1, LongerLine DEF LaneOk
  <2> HIDE DEF c, r
  <2>4. /\ r \in Lanes /\ r.current = c /\ r.owner = l.owner /\ r.ready = l.ready /\ r.completed = l.completed
    BY <2>2, <2>3 DEF Lanes
  <2>5. Len(c) <= LineCapacity
    BY <1>0, <1>5, <2>3
  <2> QED BY <1>5, <2>3, <2>4, <2>5 DEF LaneOk, r
<1> QED BY <1>0, <1>1, <1>2, <1>3, <1>4, <1>5

-----------------------------------------------------------------------------
(* The initial states and the steps.                                       *)

\* Nobody reads and nothing is typed at the start.
LEMMA InitInv == Init => InputInv /\ NobodyYet
<1> SUFFICES ASSUME Init PROVE InputInv /\ NobodyYet
  OBVIOUS
<1>1. NoOwner \in Owners
  BY DEF Owners
<1>2. lane \in Lanes /\ LaneOk(lane) /\ lane.ready = FALSE
  BY <1>1, EmptyLaneOk DEF Init
<1>3. Outside \in Reads /\ Outside.at = "user" /\ Outside.moves = 0
  BY EmptyLine DEF Outside, Reads, Places
<1>4. InputTypes
  BY <1>2, <1>3 DEF Init, InputTypes
<1>5. LaneInv
  BY <1>2 DEF Init, LaneInv
<1>6. ReaderInv
  BY <1>3 DEF Init, ReaderInv, KnownTo
<1>7. NobodyYet
  BY <1>3 DEF Init, NobodyYet
<1> QED BY <1>4, <1>5, <1>6, <1>7 DEF InputInv

\* A step of one reader leaves the others what they know.
LEMMA OthersKnow ==
  ASSUME InputInv, NEW t \in Readers, NEW r \in Reads, reader' = [reader EXCEPT ![t] = r],
         lane'.owner = lane.owner
  PROVE  /\ reader' \in [Readers -> Reads] /\ reader'[t] = r
         /\ KnownTo(t)' => ReaderInv'
<1>1. reader \in [Readers -> Reads]
  BY DEF InputInv, InputTypes
<1>2. \A u \in Readers : reader'[u] = IF u = t THEN r ELSE reader[u]
  BY <1>1
<1>3. reader' \in [Readers -> Reads]
  BY <1>1
<1>4. ASSUME NEW u \in Readers, u # t PROVE KnownTo(u)'
  <2>1. reader'[u] = reader[u] /\ KnownTo(u)
    BY <1>2, <1>4 DEF InputInv, ReaderInv
  <2> QED BY <2>1 DEF KnownTo
<1> QED BY <1>2, <1>3, <1>4 DEF ReaderInv

\* A reader that gives up or returns knows nothing.
LEMMA GiveUpKnows ==
  ASSUME InputInv, NEW t \in Readers, GiveUp(t), lane'.owner = lane.owner
  PROVE  reader' \in [Readers -> Reads] /\ ReaderInv'
<1>1. Outside \in Reads /\ Outside.at = "user" /\ Outside.moves = 0
  BY EmptyLine DEF Outside, Reads, Places
<1>2. reader' \in [Readers -> Reads] /\ reader'[t] = Outside /\ (KnownTo(t)' => ReaderInv')
  BY <1>1, OthersKnow DEF GiveUp
<1>3. KnownTo(t)'
  BY <1>1, <1>2 DEF KnownTo
<1> QED BY <1>2, <1>3

\* A reader that goes on keeps the rest of its record.
LEMMA GoKnows ==
  ASSUME InputInv, NEW t \in Readers, NEW place \in Places, Go(t, place), lane' = lane
  PROVE  /\ reader' \in [Readers -> Reads] /\ reader'[t].at = place
         /\ reader'[t].moves = reader[t].moves /\ reader'[t].buffer = reader[t].buffer
         /\ KnownTo(t)' => ReaderInv'
<1> DEFINE r == [reader[t] EXCEPT !.at = place]
<1>1. reader[t] \in Reads /\ reader \in [Readers -> Reads]
  BY DEF InputInv, InputTypes
<1>2. r \in Reads /\ r.at = place /\ r.moves = reader[t].moves /\ r.buffer = reader[t].buffer
  BY <1>1 DEF Reads
<1>3. reader' = [reader EXCEPT ![t] = r]
  BY DEF Go
<1> HIDE DEF r
<1>4. reader' \in [Readers -> Reads] /\ reader'[t] = r /\ (KnownTo(t)' => ReaderInv')
  BY <1>2, <1>3, OthersKnow
<1> QED BY <1>2, <1>4

\* A step that leaves the lane alone.
LEMMA SameLane ==
  ASSUME InputInv, KeepLane
  PROVE  lane' = lane /\ LaneInv' /\ lane' \in Lanes /\ event' \in BOOLEAN
<1>1. lane' = lane /\ event' = event
  BY DEF KeepLane
<1> QED BY <1>1 DEF InputInv, InputTypes, LaneInv

\* The steps of a read.
LEMMA ReadInv ==
  ASSUME InputInv, NEW t \in Readers, ReadStep(t)
  PROVE  InputInv'
<1>0. KnownTo(t) /\ reader[t].moves \in Nat /\ reader[t] \in Reads /\ reader \in [Readers -> Reads]
  BY DEF InputInv, ReaderInv, InputTypes, Reads
<1>p. \A place \in {"check", "wait", "blocked", "woken", "copy", "consume"} : place \in Places
  BY DEF Places
<1>1. ASSUME KeepLane, reader' \in [Readers -> Reads], ReaderInv'
      PROVE  InputInv'
  BY <1>1, SameLane DEF InputInv, InputTypes
<1>2. ASSUME KeepLane, GiveUp(t) PROVE InputInv'
  <2>1. lane' = lane
    BY <1>2, SameLane
  <2> QED BY <1>1, <1>2, <2>1, GiveUpKnows
<1>3. CASE CheckOwner(t)
  <2>1. CASE GiveUp(t)
    BY <1>2, <1>3, <2>1 DEF CheckOwner
  <2>2. CASE Go(t, "wait")
    <3>1. lane' = lane /\ reader[t].at = "check"
      BY <1>3, SameLane DEF CheckOwner
    <3>2. /\ reader' \in [Readers -> Reads] /\ reader'[t].at = "wait"
          /\ reader'[t].moves = reader[t].moves /\ (KnownTo(t)' => ReaderInv')
      BY <1>p, <2>2, <3>1, GoKnows
    <3>3. KnownTo(t)'
      BY <1>0, <3>1, <3>2 DEF KnownTo
    <3> QED BY <1>1, <1>3, <3>2, <3>3 DEF CheckOwner
  <2> QED BY <1>3, <2>1, <2>2 DEF CheckOwner
<1>4. CASE WaitForLine(t)
  <2>1. lane' = lane /\ reader[t].at = "wait"
    BY <1>4, SameLane DEF WaitForLine
  <2>2. PICK place \in {"woken", "blocked"} : Go(t, place)
    BY <1>4 DEF WaitForLine
  <2>3. /\ reader' \in [Readers -> Reads] /\ reader'[t].at = place
        /\ reader'[t].moves = reader[t].moves /\ (KnownTo(t)' => ReaderInv')
    BY <1>p, <2>1, <2>2, GoKnows
  <2>4. KnownTo(t)'
    BY <1>0, <2>1, <2>3 DEF KnownTo
  <2> QED BY <1>1, <1>4, <2>3, <2>4 DEF WaitForLine
<1>5. CASE RecheckTimeout(t)
  <2>1. lane' = lane /\ reader[t].at = "blocked" /\ Go(t, "check")
    BY <1>5, SameLane DEF RecheckTimeout
  <2>2. /\ reader' \in [Readers -> Reads] /\ reader'[t].at = "check"
        /\ reader'[t].moves = reader[t].moves /\ (KnownTo(t)' => ReaderInv')
    BY <1>p, <2>1, GoKnows
  <2>3. KnownTo(t)'
    BY <1>0, <2>1, <2>2 DEF KnownTo
  <2> QED BY <1>1, <1>5, <2>2, <2>3 DEF RecheckTimeout
<1>6. CASE CheckBeforeCopy(t)
  <2>1. CASE ~IsOwner(t)
    BY <1>2, <1>6, <2>1 DEF CheckBeforeCopy
  <2>2. CASE IsOwner(t)
    <3>1. lane' = lane /\ reader[t].at = "woken" /\ Go(t, "copy") /\ lane.owner = t
      BY <1>6, <2>2, SameLane DEF CheckBeforeCopy, IsOwner
    <3>2. /\ reader' \in [Readers -> Reads] /\ reader'[t].at = "copy"
          /\ reader'[t].moves = reader[t].moves /\ (KnownTo(t)' => ReaderInv')
      BY <1>p, <3>1, GoKnows
    <3>3. KnownTo(t)'
      BY <1>0, <3>1, <3>2 DEF KnownTo
    <3> QED BY <1>1, <1>6, <3>2, <3>3 DEF CheckBeforeCopy
  <2> QED BY <2>1, <2>2
<1>7. CASE CopyLine(t)
  <2>1. CASE GiveUp(t)
    BY <1>2, <1>7, <2>1 DEF CopyLine
  <2>2. CASE reader' = [reader EXCEPT ![t].at = "copyOut", ![t].buffer = lane.completed]
    <3> DEFINE r == [reader[t] EXCEPT !.at = "copyOut", !.buffer = lane.completed]
    <3>1. lane' = lane /\ reader[t].at = "copy"
      BY <1>7, SameLane DEF CopyLine
    <3>2. lane.completed \in Seq(Chars) /\ TypedFor(lane.completed, lane.owner)
      BY DEF InputInv, InputTypes, Lanes, LaneInv, LaneOk
    <3>3. r \in Reads /\ r.at = "copyOut" /\ r.buffer = lane.completed /\ r.moves = reader[t].moves
      BY <1>0, <3>2 DEF Reads, Places
    <3>4. reader' = [reader EXCEPT ![t] = r]
      BY <2>2
    <3> HIDE DEF r
    <3>5. reader' \in [Readers -> Reads] /\ reader'[t] = r /\ (KnownTo(t)' => ReaderInv')
      BY <3>1, <3>3, <3>4, OthersKnow
    <3>6. KnownTo(t)'
      BY <1>0, <3>1, <3>2, <3>3, <3>5 DEF KnownTo
    <3> QED BY <1>1, <1>7, <3>5, <3>6 DEF CopyLine
  <2> QED BY <1>7, <2>1, <2>2 DEF CopyLine
<1>8. CASE ConsumeLine(t)
  <2>1. CASE ~lane.ready
    BY <1>2, <1>8, <2>1 DEF ConsumeLine, KeepLane
  <2>2. CASE lane.ready
    <3>1. lane' = [lane EXCEPT !.ready = FALSE, !.completed = << >>] /\ event' = FALSE /\ GiveUp(t)
      BY <1>8, <2>2 DEF ConsumeLine
    <3>2. /\ lane' \in Lanes /\ lane'.owner = lane.owner /\ lane'.ready = FALSE
          /\ lane'.completed = << >> /\ lane'.current = lane.current
      BY <3>1, EmptyLine DEF InputInv, InputTypes, Lanes
    <3>3. LaneInv'
      <4>1. Len(<< >>) <= LineCapacity
        BY InputAssumption
      <4> QED BY <3>1, <3>2, <4>1, EmptyLine DEF InputInv, LaneInv, LaneOk
    <3>4. reader' \in [Readers -> Reads] /\ ReaderInv'
      BY <3>1, <3>2, GiveUpKnows
    <3> QED BY <3>1, <3>2, <3>3, <3>4 DEF InputInv, InputTypes
  <2> QED BY <2>1, <2>2
<1>9. ASSUME NEW mapped \in BOOLEAN, CopyOut(t, mapped) PROVE InputInv'
  <2>1. CASE GiveUp(t)
    BY <1>2, <1>9, <2>1 DEF CopyOut
  <2>2. CASE IsOwner(t) /\ Go(t, "consume")
    <3>1. lane' = lane /\ reader[t].at = "copyOut" /\ lane.owner = t
      BY <1>9, <2>2, SameLane DEF CopyOut, IsOwner
    <3>2. /\ reader' \in [Readers -> Reads] /\ reader'[t].at = "consume"
          /\ reader'[t].moves = reader[t].moves /\ reader'[t].buffer = reader[t].buffer
          /\ (KnownTo(t)' => ReaderInv')
      BY <1>p, <2>2, <3>1, GoKnows
    <3>3. reader[t].moves <= 1 => reader[t].moves = 0 \/ reader[t].moves = 1
      BY <1>0
    <3>4. KnownTo(t)'
      BY <1>0, <3>1, <3>2, <3>3 DEF KnownTo
    <3> QED BY <1>1, <1>9, <3>2, <3>4 DEF CopyOut
  <2> QED BY <1>9, <2>1, <2>2 DEF CopyOut
<1> QED BY <1>3, <1>4, <1>5, <1>6, <1>7, <1>8, <1>9 DEF ReadStep

\* A read begins with nothing known.
LEMMA ReadLineInv ==
  ASSUME InputInv, NEW t \in Readers, NEW capacity \in Capacities, ReadLine(t, capacity)
  PROVE  InputInv'
<1> DEFINE r == [Outside EXCEPT !.at = "check", !.capacity = capacity]
<1>1. r \in Reads /\ r.at = "check" /\ r.moves = 0
  BY EmptyLine, InputAssumption DEF Outside, Reads, Places
<1>2. reader' = [reader EXCEPT ![t] = r] /\ lane' = lane /\ KeepLane
  BY SameLane DEF ReadLine
<1> HIDE DEF r
<1>3. reader' \in [Readers -> Reads] /\ reader'[t] = r /\ (KnownTo(t)' => ReaderInv')
  BY <1>1, <1>2, OthersKnow
<1>4. KnownTo(t)'
  BY <1>1, <1>3 DEF KnownTo
<1> QED BY <1>2, <1>3, <1>4, SameLane DEF InputInv, InputTypes

\* A change of the owner empties the lane and counts against every read that has
\* looked at the owner already.
LEMMA OwnerInv ==
  ASSUME InputInv, NEW owner \in Owners, SetForegroundOwner(owner)
  PROVE  InputInv'
<1>1. /\ lane' = EmptyLane(owner) /\ event' = FALSE
      /\ reader' = [t \in Readers |->
           IF reader[t].at \in {"copy", "copyOut", "consume"}
           THEN [reader[t] EXCEPT !.moves = @ + 1] ELSE reader[t]]
  BY DEF SetForegroundOwner
<1>2. lane' \in Lanes /\ LaneOk(lane') /\ lane'.ready = FALSE
  BY <1>1, EmptyLaneOk
<1>3. LaneInv'
  BY <1>1, <1>2 DEF LaneInv
<1>4. ASSUME NEW t \in Readers
      PROVE  reader'[t] \in Reads /\ KnownTo(t)'
  <2>0. reader[t] \in Reads /\ KnownTo(t) /\ reader[t].moves \in Nat
    BY DEF InputInv, InputTypes, ReaderInv, Reads
  <2>1. CASE reader[t].at \in {"copy", "copyOut", "consume"}
    <3>1. reader'[t] = [reader[t] EXCEPT !.moves = @ + 1]
      BY <1>1, <2>1
    <3>2. /\ reader'[t] \in Reads /\ reader'[t].at = reader[t].at
          /\ reader'[t].moves = reader[t].moves + 1 /\ reader'[t].buffer = reader[t].buffer
      BY <2>0, <3>1 DEF Reads
    <3>3. /\ reader'[t].moves # 0
          /\ (reader'[t].moves <= 1 \/ reader'[t].moves = 1 => reader[t].moves = 0)
      BY <2>0, <3>2
    <3> QED BY <2>0, <2>1, <3>2, <3>3 DEF KnownTo
  <2>2. CASE reader[t].at \notin {"copy", "copyOut", "consume"}
    <3>1. reader'[t] = reader[t]
      BY <1>1, <2>2
    <3> QED BY <2>0, <2>2, <3>1 DEF KnownTo
  <2> QED BY <2>1, <2>2
<1>5. reader' \in [Readers -> Reads]
  BY <1>1, <1>4
<1> QED BY <1>1, <1>2, <1>3, <1>4, <1>5 DEF InputInv, InputTypes, ReaderInv

\* The handler edits the line of the owner and announces it once.
LEMMA HandleInv ==
  ASSUME InputInv, HandleKey
  PROVE  InputInv'
<1> DEFINE key == Head(keyboard.bytes)
           char == Translate(key, lane.shift)
           after == Typed(lane, char)
<1>0. lane \in Lanes /\ LaneOk(lane) /\ event = lane.ready /\ event \in BOOLEAN /\ lane.ready \in BOOLEAN
      /\ reader \in [Readers -> Reads]
  BY DEF InputInv, InputTypes, LaneInv, Lanes
<1>1. char \in Typeable
  BY DEF Translate, Typeable
<1>2. /\ lane' = IF key = "shift" THEN [lane EXCEPT !.shift = TRUE]
                 ELSE IF key = "unshift" THEN [lane EXCEPT !.shift = FALSE]
                 ELSE after
      /\ IF after.ready /\ ~lane.ready
         THEN event' = TRUE /\ reader' = Released(reader)
         ELSE UNCHANGED <<event, reader>>
  BY DEF HandleKey
<1>3. key \in {"shift", "unshift"} => after = lane
  BY DEF Translate, Typed
<1> HIDE DEF char
<1>4. after \in Lanes /\ LaneOk(after) /\ after.owner = lane.owner /\ (lane.ready => after.ready)
      /\ after.ready \in BOOLEAN
  <2>1. after \in Lanes /\ LaneOk(after) /\ after.owner = lane.owner /\ (lane.ready => after.ready)
    BY <1>0, <1>1, TypedOk
  <2> QED BY <2>1 DEF Lanes
<1> HIDE DEF after, key
<1>5. /\ lane' \in Lanes /\ LaneOk(lane') /\ lane'.owner = lane.owner /\ lane'.ready = after.ready
  <2>1. CASE key \notin {"shift", "unshift"}
    BY <1>2, <1>4, <2>1
  <2>2. CASE key \in {"shift", "unshift"}
    <3>1. PICK b \in BOOLEAN : lane' = [lane EXCEPT !.shift = b]
      BY <1>2, <2>2
    <3>2. /\ lane' \in Lanes /\ lane'.owner = lane.owner /\ lane'.ready = lane.ready
          /\ lane'.current = lane.current /\ lane'.completed = lane.completed
      BY <1>0, <3>1 DEF Lanes
    <3> QED BY <1>0, <1>3, <2>2, <3>2 DEF LaneOk
  <2> QED BY <2>1, <2>2
<1>6. event' = lane'.ready /\ event' \in BOOLEAN
  <2>1. CASE after.ready /\ ~lane.ready
    BY <1>2, <1>4, <1>5, <2>1
  <2>2. CASE ~(after.ready /\ ~lane.ready)
    <3>1. event' = event
      BY <1>2, <2>2
    <3>2. after.ready = lane.ready
      BY <1>0, <1>4, <2>2
    <3> QED BY <1>0, <1>5, <3>1, <3>2
  <2> QED BY <2>1, <2>2
<1>7. ASSUME NEW t \in Readers
      PROVE  reader'[t] \in Reads /\ KnownTo(t)'
  <2>0. reader[t] \in Reads /\ KnownTo(t)
    BY <1>0 DEF InputInv, ReaderInv
  <2>1. CASE reader'[t] = reader[t]
    BY <1>5, <2>0, <2>1 DEF KnownTo
  <2>2. CASE reader[t].at = "blocked" /\ reader'[t] = [reader[t] EXCEPT !.at = "woken"]
    <3>1. /\ reader'[t] \in Reads /\ reader'[t].at = "woken" /\ reader'[t].moves = reader[t].moves
      BY <2>0, <2>2 DEF Reads, Places
    <3> QED BY <2>0, <2>2, <3>1 DEF KnownTo
  <2> QED BY <1>2, <2>1, <2>2 DEF Released
<1>8. reader' \in [Readers -> Reads]
  BY <1>0, <1>2, <1>7 DEF Released
<1> QED BY <1>5, <1>6, <1>7, <1>8 DEF InputInv, InputTypes, LaneInv, ReaderInv

\* Steps that touch neither the lane nor a reader.
LEMMA ElsewhereInv ==
  ASSUME InputInv, UNCHANGED <<lane, event, reader>>
  PROVE  InputInv'
  BY DEF InputInv, InputTypes, LaneInv, LaneOk, ReaderInv, KnownTo

\* A read only starts when input is ready, and KeInputInit runs once.
LEMMA NextNobody ==
  ASSUME InputTypes, NobodyYet, [Next]_vars
  PROVE  NobodyYet'
<1>0. reader \in [Readers -> Reads]
  BY DEF InputTypes
<1>1. ASSUME input' = input, reader' = reader \/ input # "no" PROVE NobodyYet'
  BY <1>1 DEF NobodyYet
<1>2. ASSUME NEW key \in Keys, KeyEvent(key) PROVE NobodyYet'
  BY <1>1, <1>2 DEF KeyEvent
<1>3. ASSUME NEW accepted \in BOOLEAN, InitInput(accepted) PROVE NobodyYet'
  BY <1>3 DEF InitInput, NobodyYet
<1>4. CASE BeginInterrupt \/ EndInterrupt \/ WorkArrives \/ WorkEnds \/ Panicked \/ UNCHANGED vars
  BY <1>1, <1>4 DEF BeginInterrupt, EndInterrupt, WorkArrives, WorkEnds, Panicked, vars
<1>5. CASE HandleKey
  <2>1. \A t \in Readers : reader[t].at = "user" => reader'[t] = reader[t]
    BY <1>5 DEF HandleKey, Released
  <2>2. input' = input
    BY <1>5 DEF HandleKey
  <2> QED BY <2>1, <2>2 DEF NobodyYet
<1>6. ASSUME NEW owner \in Readers \cup {NoOwner}, SetForegroundOwner(owner) PROVE NobodyYet'
  BY <1>1, <1>6 DEF SetForegroundOwner
<1>7. ASSUME NEW t \in Readers, ReadStep(t) PROVE NobodyYet'
  <2>1. reader[t].at # "user"
    BY <1>7 DEF ReadStep, CheckOwner, WaitForLine, RecheckTimeout, CheckBeforeCopy, CopyLine, ConsumeLine, CopyOut
  <2>2. input' = input
    BY <1>7 DEF ReadStep, CheckOwner, WaitForLine, RecheckTimeout, CheckBeforeCopy, CopyLine, ConsumeLine,
                CopyOut, KeepLane
  <2> QED BY <1>1, <2>1, <2>2 DEF NobodyYet
<1>8. ASSUME NEW t \in Readers, NEW n \in Capacities, ReadLine(t, n) PROVE NobodyYet'
  BY <1>1, <1>8 DEF ReadLine, KeepLane
<1> QED BY <1>2, <1>3, <1>4, <1>5, <1>6, <1>7, <1>8 DEF Next, HandlerStep

\* Every step keeps InputInv.
LEMMA NextInv ==
  ASSUME InputInv, NobodyYet, [Next]_vars
  PROVE  InputInv'
<1>1. ASSUME NEW key \in Keys, KeyEvent(key) PROVE InputInv'
  BY <1>1, ElsewhereInv DEF KeyEvent
<1>2. ASSUME NEW accepted \in BOOLEAN, InitInput(accepted) PROVE InputInv'
  <2>1. lane' = EmptyLane(NoOwner) /\ event' = FALSE /\ reader' = reader
    BY <1>2 DEF InitInput
  <2>2. lane' \in Lanes /\ LaneOk(lane') /\ lane'.ready = FALSE /\ lane'.owner = NoOwner
    BY <2>1, EmptyLaneOk DEF Owners
  <2>3. LaneInv'
    BY <2>1, <2>2 DEF LaneInv
  <2>4. \A t \in Readers : reader[t].at = "user"
    BY <1>2 DEF InitInput, NobodyYet
  <2>5. ReaderInv'
    BY <2>1, <2>2, <2>4 DEF InputInv, ReaderInv, KnownTo
  <2> QED BY <2>1, <2>2, <2>3, <2>5 DEF InputInv, InputTypes
<1>3. CASE BeginInterrupt \/ EndInterrupt \/ WorkArrives \/ WorkEnds \/ Panicked \/ UNCHANGED vars
  BY <1>3, ElsewhereInv DEF BeginInterrupt, EndInterrupt, WorkArrives, WorkEnds, Panicked, vars
<1>4. CASE HandleKey
  BY <1>4, HandleInv
<1>5. ASSUME NEW owner \in Readers \cup {NoOwner}, SetForegroundOwner(owner) PROVE InputInv'
  BY <1>5, OwnerInv DEF Owners
<1>6. ASSUME NEW t \in Readers, ReadStep(t) PROVE InputInv'
  BY <1>6, ReadInv
<1>7. ASSUME NEW t \in Readers, NEW n \in Capacities, ReadLine(t, n) PROVE InputInv'
  BY <1>7, ReadLineInv
<1> QED BY <1>1, <1>2, <1>3, <1>4, <1>5, <1>6, <1>7 DEF Next, HandlerStep

-----------------------------------------------------------------------------
(* The theorems.                                                           *)

\* InputInv holds in every reachable state.
LEMMA InputInvariant == Spec => [](InputInv /\ NobodyYet)
<1>1. Init => InputInv /\ NobodyYet
  BY InitInv
<1>2. InputInv /\ NobodyYet /\ [Next]_vars => (InputInv /\ NobodyYet)'
  BY NextInv, NextNobody DEF InputInv
<1> QED BY <1>1, <1>2, PTL DEF Spec

\* LaneHoldsOwnersLine in every reachable state: whatever keys come and whoever
\* takes the lane in between, KiHandleTranslatedInputChar never mixes the lines
\* of two owners, overruns an array or announces a line that is not there.
THEOREM LaneIsOwners == Spec => []LaneHoldsOwnersLine
<1>1. InputInv => LaneHoldsOwnersLine
  <2> SUFFICES ASSUME InputInv PROVE LaneHoldsOwnersLine
    OBVIOUS
  <2>1. lane.current \in Seq(Chars) /\ lane.completed \in Seq(Chars)
    BY DEF InputInv, InputTypes, Lanes
  <2>2. TypedFor(lane.current \o lane.completed, lane.owner)
    BY <2>1, JoinedLines DEF InputInv, LaneInv, LaneOk
  <2> QED BY <2>2 DEF InputInv, LaneInv, LaneOk, LaneHoldsOwnersLine
<1> QED BY <1>1, InputInvariant, PTL

\* ReadReturnsReadersLine: a read that succeeds returns a line typed for its
\* reader, although SYS_READLINE checks the owner, copies and consumes in
\* critical sections of their own, as long as the lane moves at most once.
THEOREM ReadsAreOwn == Spec => ReadReturnsReadersLine
<1> DEFINE Own == \A t \in Readers :
                     /\ reader[t].at = "consume" /\ reader'[t].at = "user" /\ lane.ready
                     /\ reader[t].moves <= 1
                     => TypedFor(reader[t].buffer, t)
<1>1. InputInv /\ [Next]_vars => [Own]_vars
  BY DEF InputInv, ReaderInv, KnownTo
<1>2. InputInv /\ NobodyYet => InputInv
  OBVIOUS
<1> QED BY <1>1, <1>2, InputInvariant, PTL DEF Spec, ReadReturnsReadersLine
=============================================================================
