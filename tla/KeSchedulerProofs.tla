------------------------- MODULE KeSchedulerProofs -------------------------
(***************************************************************************)
(* Proofs about the scheduler for any number of threads, objects, priority *)
(* levels and timeouts.                                                    *)
(*                                                                         *)
(* They begin with what the list operators of KeList return, for lists of  *)
(* every length.  Induction is done by minimal counterexample:             *)
(* LeastNumber, which follows from the well-foundedness of the strict      *)
(* subset ordering, gives the smallest member of a nonempty set of         *)
(* naturals, and each lemma takes it of the set of indices where its claim *)
(* fails.                                                                  *)
(***************************************************************************)
EXTENDS KeScheduler, FiniteSetTheorems, WellFoundedInduction, TLAPS

-----------------------------------------------------------------------------
(* Lists.                                                                  *)

\* A nonempty set of natural numbers has a least member.
LEMMA LeastNumber ==
  ASSUME NEW T \in SUBSET Nat, T # {}
  PROVE  \E n \in T : \A m \in T : n <= m
<1>1. PICK N \in T : TRUE
  OBVIOUS
<1> DEFINE I(k) == 1 .. k
           SS == {I(k) : k \in {j \in T : j <= N}}
<1>2. IsFiniteSet(1 .. N)
  BY <1>1, FS_Interval
<1>3. IsWellFoundedOn(StrictSubsetOrdering(1 .. N), FiniteSubsetsOf(1 .. N))
  BY <1>2, FS_StrictSubsetOrderingWellFounded
<1>4. FiniteSubsetsOf(1 .. N) = SUBSET (1 .. N)
  BY <1>2, FS_FiniteSubsetsOfFinite
<1>5. SS \subseteq SUBSET (1 .. N) /\ SS # {}
  BY <1>1
<1>6. PICK x \in SS : \A y \in SS : ~ (<<y, x>> \in StrictSubsetOrdering(1 .. N))
  <2>1. IsWellFoundedOn(StrictSubsetOrdering(1 .. N), SUBSET (1 .. N))
    BY <1>3, <1>4
  <2> DEFINE R == StrictSubsetOrdering(1 .. N)
             U == SUBSET (1 .. N)
  <2>2. IsWellFoundedOn(R, U) /\ SS \subseteq U /\ SS # {}
    BY <2>1, <1>5
  <2> HIDE DEF R, U, SS
  <2>3. \E z \in SS : \A y \in SS : ~ (<<y, z>> \in R)
    BY <2>2, WFMin, Zenon
  <2> QED BY <2>3 DEF R
<1>7. PICK n \in T : n <= N /\ x = 1 .. n
  BY <1>6
<1>8. ASSUME NEW m \in T, m < n PROVE FALSE
  <2>1. 1 .. m \in SS
    BY <1>7, <1>8
  <2>2. 1 .. m \subseteq 1 .. n
    BY <1>8
  <2>3. n \in 1 .. n /\ n \notin 1 .. m
    BY <1>8
  <2>4. <<1 .. m, x>> \in StrictSubsetOrdering(1 .. N)
    BY <2>1, <2>2, <2>3, <1>5, <1>7, <1>4 DEF StrictSubsetOrdering
  <2> QED BY <2>1, <2>4, <1>6
<1> QED BY <1>7, <1>8

\* Induction over 0 .. n for the set of the indices where a claim holds.
LEMMA Induction ==
  ASSUME NEW n \in Nat, NEW G, 0 \in G,
         \A k \in 1 .. n : k - 1 \in G => k \in G
  PROVE  \A k \in 0 .. n : k \in G
<1> DEFINE Bad == {k \in 0 .. n : k \notin G}
<1>1. Bad \in SUBSET Nat
  OBVIOUS
<1> SUFFICES ASSUME Bad # {} PROVE FALSE
  OBVIOUS
<1>2. \E k \in Bad : \A m \in Bad : k <= m
  <2> HIDE DEF Bad
  <2> QED BY <1>1, LeastNumber
<1>3. PICK k \in Bad : \A m \in Bad : k <= m
  BY <1>2
<1>4. k \in 0 .. n /\ k \notin G /\ k # 0
  OBVIOUS
<1>5. k - 1 \notin Bad
  <2> HIDE DEF Bad
  <2> QED BY <1>3, <1>4
<1>6. k - 1 \in 0 .. n /\ k \in 1 .. n
  BY <1>4
<1> QED BY <1>4, <1>5, <1>6

-----------------------------------------------------------------------------
(* LinkedListRemove.                                                       *)

UnlinkStep(s, S, g, i) ==
  IF i = 0 THEN << >>
  ELSE IF s[i] \in S THEN g[i - 1] ELSE Append(g[i - 1], s[i])

\* The recursive definition of WithoutUpTo has a solution.
LEMMA WithoutUpToDef ==
  ASSUME NEW A, NEW s \in Seq(A), NEW S
  PROVE  \A i \in 0 .. Len(s) : WithoutUpTo(s, S)[i] = UnlinkStep(s, S, WithoutUpTo(s, S), i)
<1> DEFINE n == Len(s)
           Ok(g, k) == g \in [0 .. k -> Seq(A)] /\ \A i \in 0 .. k : g[i] = UnlinkStep(s, S, g, i)
           Good == {k \in 0 .. n : \E g : Ok(g, k)}
<1>0. n \in Nat /\ \A i \in 1 .. n : s[i] \in A
  OBVIOUS
<1>1. 0 \in Good
  <2>1. Ok([i \in 0 .. 0 |-> << >>], 0)
    BY DEF UnlinkStep
  <2> HIDE DEF Ok
  <2> QED BY <2>1, <1>0
<1>2. ASSUME NEW k \in 1 .. n, k - 1 \in Good PROVE k \in Good
  <2>1. PICK g : Ok(g, k - 1)
    <3> HIDE DEF Ok
    <3> QED BY <1>2
  <2> DEFINE h == [i \in 0 .. k |-> IF i < k THEN g[i] ELSE UnlinkStep(s, S, g, k)]
  <2>2. k - 1 \in 0 .. k - 1 /\ k \in Nat
    BY <1>0
  <2>3. UnlinkStep(s, S, g, k) \in Seq(A)
    <3>1. g[k - 1] \in Seq(A)
      BY <2>1, <2>2
    <3> QED BY <3>1, <1>0 DEF UnlinkStep
  <2>4. h \in [0 .. k -> Seq(A)]
    BY <2>1, <2>2, <2>3
  <2>5. ASSUME NEW i \in 0 .. k PROVE h[i] = UnlinkStep(s, S, h, i)
    <3>1. CASE i = 0
      <4>1. h[i] = g[0]
        BY <3>1, <2>2
      <4>2. g[0] = UnlinkStep(s, S, g, 0)
        BY <2>1, <2>2
      <4> QED BY <3>1, <4>1, <4>2 DEF UnlinkStep
    <3>2. CASE i # 0
      <4>1. h[i - 1] = g[i - 1]
        BY <3>2, <2>2
      <4>2. UnlinkStep(s, S, h, i) = UnlinkStep(s, S, g, i)
        <5> HIDE DEF h
        <5> QED BY <4>1, <3>2 DEF UnlinkStep
      <4>3. h[i] = UnlinkStep(s, S, g, i)
        BY <2>1, <2>2
      <4> QED BY <4>2, <4>3
    <3> QED BY <3>1, <3>2
  <2>6. Ok(h, k)
    BY <2>4, <2>5
  <2> HIDE DEF Ok, h
  <2> QED BY <2>6
<1>3. \E g : Ok(g, n)
  <2>1. n \in Good
    <3>1. n \in Nat /\ n \in 0 .. n
      BY <1>0
    <3>2. \A k \in 1 .. n : k - 1 \in Good => k \in Good
      BY <1>2
    <3> HIDE DEF Good, n
    <3>3. \A k \in 0 .. n : k \in Good
      BY <3>1, <3>2, <1>1, Induction
    <3> QED BY <3>1, <3>3
  <2> HIDE DEF Ok
  <2> QED BY <2>1
<1>4. PICK g : Ok(g, n)
  BY <1>3
<1>5. g = [i \in 0 .. n |-> UnlinkStep(s, S, g, i)]
  BY <1>4
<1>6. WithoutUpTo(s, S) = [i \in 0 .. n |-> UnlinkStep(s, S, WithoutUpTo(s, S), i)]
  BY <1>5 DEF WithoutUpTo, UnlinkStep
<1> QED BY <1>6

\* LinkedListRemove keeps exactly the entries that are not in S, each as
\* often as before.
LEMMA RemoveProperties ==
  ASSUME NEW A, NEW s \in Seq(A), NEW S
  PROVE  /\ LinkedListRemove(s, S) \in Seq(A)
         /\ Range(LinkedListRemove(s, S)) = Range(s) \ S
         /\ Distinct(s) => Distinct(LinkedListRemove(s, S))
<1> DEFINE n == Len(s)
           W == WithoutUpTo(s, S)
           Upto(i) == {s[j] : j \in 1 .. i}
           Good == {i \in 0 .. n : /\ W[i] \in Seq(A)
                                   /\ Range(W[i]) = Upto(i) \ S
                                   /\ Distinct(s) => Distinct(W[i])}
<1>0. n \in Nat /\ \A i \in 1 .. n : s[i] \in A
  OBVIOUS
<1>1. \A i \in 0 .. n : W[i] = UnlinkStep(s, S, W, i)
  BY WithoutUpToDef
<1> HIDE DEF W
<1>2. 0 \in Good
  <2>1. W[0] = << >>
    BY <1>1, <1>0 DEF UnlinkStep
  <2>2. Upto(0) = {}
    OBVIOUS
  <2>3. << >> \in Seq(A) /\ Range(<< >>) = {} /\ Distinct(<< >>)
    BY DEF Range, Distinct
  <2>4. W[0] \in Seq(A) /\ Distinct(W[0])
    BY <2>1, <2>3
  <2>5. Range(W[0]) = Upto(0) \ S
    BY <2>1, <2>2, <2>3, Zenon
  <2> HIDE DEF Upto
  <2> QED BY <2>4, <2>5, <1>0
<1>3. ASSUME NEW k \in 1 .. n, k - 1 \in Good PROVE k \in Good
  <2>1. /\ W[k - 1] \in Seq(A)
        /\ Range(W[k - 1]) = Upto(k - 1) \ S
        /\ Distinct(s) => Distinct(W[k - 1])
    BY <1>3
  <2>2. Upto(k) = Upto(k - 1) \cup {s[k]}
    <3>1. 1 .. k = (1 .. k - 1) \cup {k}
      BY <1>0
    <3> QED BY <3>1
  <2>3. k \in 0 .. n /\ W[k] = UnlinkStep(s, S, W, k) /\ k # 0 /\ s[k] \in A
    BY <1>1, <1>0
  <2>4. CASE s[k] \in S
    <3>1. W[k] = W[k - 1]
      BY <2>3, <2>4 DEF UnlinkStep
    <3>2. Upto(k) \ S = Upto(k - 1) \ S
      <4> HIDE DEF Upto
      <4> QED BY <2>2, <2>4
    <3> QED BY <2>1, <2>3, <3>1, <3>2
  <2>5. CASE s[k] \notin S
    <3> DEFINE w == W[k - 1]
               v == W[k]
    <3>1. v = Append(w, s[k])
      BY <2>3, <2>5 DEF UnlinkStep
    <3>2. w \in Seq(A)
      BY <2>1
    <3>a. Distinct(s) => s[k] \notin Range(w)
      <4> SUFFICES ASSUME Distinct(s), s[k] \in Range(w) PROVE FALSE
        OBVIOUS
      <4>1. s[k] \in Upto(k - 1)
        BY <2>1
      <4>2. PICK j \in 1 .. k - 1 : s[k] = s[j]
        BY <4>1
      <4> QED BY <4>2, <1>0 DEF Distinct
    <3>b. v \in Seq(A) /\ Range(v) = Range(w) \cup {s[k]}
          /\ (s[k] \notin Range(w) /\ Distinct(w) => Distinct(v))
      <4> HIDE DEF w, v
      <4>1. v \in Seq(A) /\ Len(v) = Len(w) + 1 /\ \A i \in 1 .. Len(w) : v[i] = w[i]
        BY <3>1, <3>2, <2>3
      <4>2. v[Len(v)] = s[k] /\ Len(w) \in Nat
        BY <3>1, <3>2, <2>3
      <4>3. DOMAIN v = 1 .. Len(w) + 1 /\ DOMAIN w = 1 .. Len(w)
        BY <4>1, <3>2
      <4>4. Range(v) = Range(w) \cup {s[k]}
        BY <4>1, <4>2, <4>3 DEF Range
      <4>5. ASSUME s[k] \notin Range(w), Distinct(w) PROVE Distinct(v)
        <5>1. \A i \in 1 .. Len(w) : w[i] # s[k]
          BY <4>3, <4>5 DEF Range
        <5> QED BY <5>1, <4>1, <4>2, <4>5 DEF Distinct
      <4> QED BY <4>1, <4>4, <4>5
    <3>c. Upto(k) \ S = (Upto(k - 1) \ S) \cup {s[k]}
      <4> HIDE DEF Upto
      <4> QED BY <2>2, <2>5
    <3> QED BY <2>1, <2>3, <3>a, <3>b, <3>c
  <2> QED BY <2>4, <2>5
<1>4. n \in Good
  <2>1. n \in Nat /\ n \in 0 .. n
    BY <1>0
  <2>2. \A k \in 1 .. n : k - 1 \in Good => k \in Good
    BY <1>3
  <2> HIDE DEF Good, n
  <2>3. \A k \in 0 .. n : k \in Good
    BY <2>1, <2>2, <1>2, Induction
  <2> QED BY <2>1, <2>3
<1>5. Range(s) = Upto(n)
  BY DEF Range
<1> QED BY <1>4, <1>5 DEF LinkedListRemove, W

-----------------------------------------------------------------------------
(* Cutting a queue in two and linking an entry in between.                 *)

\* The front part of a list.
LEMMA FrontProperties ==
  ASSUME NEW A, NEW q \in Seq(A), NEW k \in 0 .. Len(q)
  PROVE  /\ SubSeq(q, 1, k) \in Seq(A)
         /\ Len(SubSeq(q, 1, k)) = k
         /\ Range(SubSeq(q, 1, k)) = {q[i] : i \in 1 .. k}
         /\ Range(SubSeq(q, 1, k)) \subseteq Range(q)
         /\ Distinct(q) => Distinct(SubSeq(q, 1, k))
<1> DEFINE f == SubSeq(q, 1, k)
<1>1. f \in Seq(A) /\ Len(f) = k /\ \A i \in 1 .. k : f[i] = q[i]
  OBVIOUS
<1>2. DOMAIN f = 1 .. k /\ DOMAIN q = 1 .. Len(q)
  BY <1>1
<1> HIDE DEF f
<1>3. Range(f) = {q[i] : i \in 1 .. k}
  BY <1>1, <1>2 DEF Range
<1>4. Range(f) \subseteq Range(q)
  BY <1>2, <1>3 DEF Range
<1>5. Distinct(q) => Distinct(f)
  BY <1>1 DEF Distinct
<1> QED BY <1>1, <1>3, <1>4, <1>5 DEF f

\* A list with x linked in behind its first k entries.
LEMMA InsertProperties ==
  ASSUME NEW A, NEW q \in Seq(A), NEW x \in A, NEW k \in 0 .. Len(q)
  PROVE  LET r == InsertAfter(q, k, x) IN
         /\ r \in Seq(A)
         /\ Len(r) = Len(q) + 1
         /\ \A i \in 1 .. Len(r) : r[i] = IF i <= k THEN q[i]
                                          ELSE IF i = k + 1 THEN x ELSE q[i - 1]
         /\ Range(r) = Range(q) \cup {x}
         /\ Distinct(q) /\ x \notin Range(q) => Distinct(r)
<1> DEFINE r == InsertAfter(q, k, x)
           f == Append(SubSeq(q, 1, k), x)
           b == SubSeq(q, k + 1, Len(q))
<1>0. Len(q) \in Nat /\ k \in Nat /\ k <= Len(q)
  OBVIOUS
<1>1. f \in Seq(A) /\ Len(f) = k + 1 /\ f[k + 1] = x /\ \A i \in 1 .. k : f[i] = q[i]
  OBVIOUS
<1>2. b \in Seq(A) /\ Len(b) = Len(q) - k /\ \A i \in 1 .. Len(q) - k : b[i] = q[i + k]
  OBVIOUS
<1>3. r = f \o b
  BY DEF InsertAfter
<1> HIDE DEF f, b, r
<1>4. r \in Seq(A) /\ Len(r) = Len(q) + 1
  <2>0. f \in Seq(A) /\ b \in Seq(A)
    BY <1>1, <1>2
  <2>1. r \in Seq(A) /\ Len(r) = Len(f) + Len(b)
    BY <2>0, <1>3
  <2> QED BY <2>1, <1>0, <1>1, <1>2
<1>5. ASSUME NEW i \in 1 .. Len(r)
      PROVE  r[i] = IF i <= k THEN q[i] ELSE IF i = k + 1 THEN x ELSE q[i - 1]
  <2>1. CASE i <= k + 1
    <3>1. r[i] = f[i]
      BY <2>1, <1>0, <1>1, <1>2, <1>3, <1>4
    <3> QED BY <2>1, <3>1, <1>0, <1>1, <1>4
  <2>2. CASE i > k + 1
    <3>1. i - (k + 1) \in 1 .. Len(q) - k
      BY <2>2, <1>0, <1>4
    <3>2. r[i] = b[i - (k + 1)]
      BY <2>2, <3>1, <1>0, <1>1, <1>2, <1>3, <1>4
    <3>3. b[i - (k + 1)] = q[(i - (k + 1)) + k]
      BY <3>1, <1>2
    <3>4. (i - (k + 1)) + k = i - 1
      BY <1>0, <1>4
    <3> QED BY <2>2, <3>2, <3>3, <3>4, <1>0, <1>4
  <2> QED BY <2>1, <2>2, <1>0, <1>4
<1>6. DOMAIN r = 1 .. Len(q) + 1 /\ DOMAIN q = 1 .. Len(q)
  BY <1>4
<1>7. Range(r) = Range(q) \cup {x}
  <2>1. ASSUME NEW i \in 1 .. Len(r) PROVE r[i] \in Range(q) \cup {x}
    <3>1. CASE i <= k
      <4>1. i \in DOMAIN q /\ r[i] = q[i]
        BY <3>1, <1>0, <1>4, <1>5, <1>6
      <4> QED BY <4>1 DEF Range
    <3>2. CASE i = k + 1
      BY <3>2, <1>0, <1>5
    <3>3. CASE i > k + 1
      <4>1. i - 1 \in DOMAIN q /\ r[i] = q[i - 1]
        BY <3>3, <1>0, <1>4, <1>5, <1>6
      <4> QED BY <4>1 DEF Range
    <3> QED BY <3>1, <3>2, <3>3, <1>0, <1>4
  <2>2. x \in Range(r)
    <3>1. k + 1 \in 1 .. Len(r) /\ r[k + 1] = x
      BY <1>0, <1>4, <1>5
    <3> QED BY <3>1, <1>4, <1>6 DEF Range
  <2>3. ASSUME NEW i \in 1 .. Len(q) PROVE q[i] \in Range(r)
    <3>1. CASE i <= k
      <4>1. i \in 1 .. Len(r) /\ r[i] = q[i]
        BY <3>1, <1>0, <1>4, <1>5
      <4> QED BY <4>1, <1>4, <1>6 DEF Range
    <3>2. CASE i > k
      <4>1. i + 1 \in 1 .. Len(r) /\ r[i + 1] = q[i]
        BY <3>2, <1>0, <1>4, <1>5
      <4> QED BY <4>1, <1>4, <1>6 DEF Range
    <3> QED BY <3>1, <3>2, <1>0
  <2> QED BY <2>1, <2>2, <2>3, <1>4, <1>6 DEF Range
<1>8. ASSUME Distinct(q), x \notin Range(q) PROVE Distinct(r)
  <2>1. \A i \in 1 .. Len(q) : q[i] # x
    BY <1>6, <1>8 DEF Range
  <2>2. ASSUME NEW i \in 1 .. Len(r), NEW j \in 1 .. Len(r), i < j PROVE r[i] # r[j]
    <3>1. CASE j <= k
      <4>1. i \in 1 .. Len(q) /\ j \in 1 .. Len(q) /\ r[i] = q[i] /\ r[j] = q[j]
        BY <3>1, <2>2, <1>0, <1>4, <1>5
      <4> QED BY <4>1, <2>2, <1>8 DEF Distinct
    <3>2. CASE j = k + 1
      <4>1. i \in 1 .. Len(q) /\ r[i] = q[i] /\ r[j] = x
        BY <3>2, <2>2, <1>0, <1>4, <1>5
      <4> QED BY <4>1, <2>1
    <3>3. CASE j > k + 1
      <4>1. j - 1 \in 1 .. Len(q) /\ r[j] = q[j - 1]
        BY <3>3, <2>2, <1>0, <1>4, <1>5
      <4>2. CASE i <= k
        <5>1. i \in 1 .. Len(q) /\ r[i] = q[i] /\ i # j - 1
          BY <3>3, <4>2, <1>0, <1>4, <1>5
        <5> QED BY <4>1, <5>1, <1>8 DEF Distinct
      <4>3. CASE i = k + 1
        <5>1. r[i] = x
          BY <4>3, <1>0, <1>5
        <5> QED BY <4>1, <5>1, <2>1
      <4>4. CASE i > k + 1
        <5>1. i - 1 \in 1 .. Len(q) /\ r[i] = q[i - 1] /\ i - 1 # j - 1
          BY <2>2, <4>4, <1>0, <1>4, <1>5
        <5> QED BY <4>1, <5>1, <1>8 DEF Distinct
      <4> QED BY <4>2, <4>3, <4>4, <1>0, <1>4
    <3> QED BY <3>1, <3>2, <3>3, <1>0, <1>4
  <2>3. \A i, j \in 1 .. Len(r) : i # j => i < j \/ j < i
    BY <1>4
  <2> QED BY <2>2, <2>3 DEF Distinct
<1> QED BY <1>4, <1>5, <1>7, <1>8 DEF r

\* The first k entries satisfy a condition and the next one does not, for
\* some k: P is the set of the indices where the condition holds.
LEMMA Boundary ==
  ASSUME NEW n \in Nat, NEW P
  PROVE  \E k \in 0 .. n : (\A i \in 1 .. k : i \in P) /\ (k = n \/ k + 1 \notin P)
<1> DEFINE N == {i \in 1 .. n : i \notin P}
<1>1. CASE N = {}
  <2>1. n \in 0 .. n /\ \A i \in 1 .. n : i \in P
    BY <1>1
  <2> QED BY <2>1
<1>2. CASE N # {}
  <2>1. N \in SUBSET Nat
    OBVIOUS
  <2>2. \E j \in N : \A m \in N : j <= m
    <3> HIDE DEF N
    <3> QED BY <1>2, <2>1, LeastNumber
  <2>3. PICK j \in N : \A m \in N : j <= m
    BY <2>2
  <2>4. j - 1 \in 0 .. n /\ (j - 1) + 1 \notin P
    BY <2>3
  <2>5. ASSUME NEW i \in 1 .. j - 1 PROVE i \in P
    <3>1. i \in 1 .. n /\ i < j
      BY <2>3
    <3>2. i \notin N
      <4> HIDE DEF N
      <4> QED BY <2>1, <2>3, <3>1
    <3> QED BY <3>1, <3>2
  <2> QED BY <2>4, <2>5
<1> QED BY <1>1, <1>2

\* KiInsertTimeoutQueue links x once and, when the queue is sorted by
\* deadline, keeps it sorted.
LEMMA InsertTimeoutProperties ==
  ASSUME NEW A, NEW q \in Seq(A), NEW x \in A, NEW d, \A a \in A : d[a] \in Int
  PROVE  LET r == KiInsertTimeoutQueue(q, x, d) IN
         /\ r \in Seq(A)
         /\ Range(r) = Range(q) \cup {x}
         /\ Distinct(q) /\ x \notin Range(q) => Distinct(r)
         /\ SortedBy(q, d) => SortedBy(r, d)
<1> DEFINE n == Len(q)
           P == {i \in 1 .. n : d[q[i]] <= d[x]}
           Fits(k) == /\ \A i \in 1 .. k : d[q[i]] <= d[x]
                      /\ k = n \/ d[q[k + 1]] > d[x]
           pos == CHOOSE k \in 0 .. n : Fits(k)
           r == InsertAfter(q, pos, x)
<1>0. n \in Nat /\ d[x] \in Int /\ \A i \in 1 .. n : d[q[i]] \in Int
  OBVIOUS
<1>1. \E k \in 0 .. n : Fits(k)
  <2>1. PICK k \in 0 .. n : (\A i \in 1 .. k : i \in P) /\ (k = n \/ k + 1 \notin P)
    <3> HIDE DEF P
    <3> QED BY <1>0, Boundary
  <2>2. k = n \/ k + 1 \in 1 .. n
    BY <1>0
  <2>3. k = n \/ d[q[k + 1]] > d[x]
    BY <2>1, <2>2, <1>0
  <2> QED BY <2>1, <2>3
<1>2. pos \in 0 .. n /\ Fits(pos)
  <2> HIDE DEF Fits
  <2> QED BY <1>1
<1>3. KiInsertTimeoutQueue(q, x, d) = r
  BY DEF KiInsertTimeoutQueue
<1> HIDE DEF pos
<1>4. /\ r \in Seq(A)
      /\ Len(r) = n + 1
      /\ \A i \in 1 .. Len(r) : r[i] = IF i <= pos THEN q[i]
                                       ELSE IF i = pos + 1 THEN x ELSE q[i - 1]
      /\ Range(r) = Range(q) \cup {x}
      /\ Distinct(q) /\ x \notin Range(q) => Distinct(r)
  BY <1>2, InsertProperties
<1> HIDE DEF r
<1>5. ASSUME SortedBy(q, d) PROVE SortedBy(r, d)
  <2> SUFFICES ASSUME NEW i \in 1 .. Len(r), NEW j \in 1 .. Len(r), i < j
               PROVE  d[r[i]] <= d[r[j]]
    BY DEF SortedBy
  <2>0. pos \in Nat /\ pos <= n
    BY <1>2, <1>0
  <2>1. CASE j <= pos
    <3>1. i \in 1 .. n /\ j \in 1 .. n /\ r[i] = q[i] /\ r[j] = q[j]
      BY <2>0, <2>1, <1>0, <1>4
    <3> QED BY <3>1, <1>5 DEF SortedBy
  <2>2. CASE j = pos + 1
    <3>1. i \in 1 .. pos /\ r[i] = q[i] /\ r[j] = x
      BY <2>0, <2>2, <1>0, <1>4
    <3> QED BY <3>1, <1>2
  <2>3. CASE j > pos + 1
    <3>1. j - 1 \in 1 .. n /\ r[j] = q[j - 1] /\ pos + 1 \in 1 .. n
      BY <2>0, <2>3, <1>0, <1>4
    <3>2. d[x] < d[q[pos + 1]]
      BY <3>1, <1>2, <1>0
    <3>3. d[q[pos + 1]] <= d[q[j - 1]]
      <4>1. CASE j - 1 = pos + 1
        BY <4>1, <3>1, <1>0
      <4>2. CASE j - 1 # pos + 1
        <5>1. pos + 1 < j - 1
          BY <2>0, <2>3, <3>1, <4>2
        <5> QED BY <3>1, <5>1, <1>5 DEF SortedBy
      <4> QED BY <4>1, <4>2
    <3>4. CASE i <= pos
      <4>1. i \in 1 .. n /\ r[i] = q[i] /\ i < j - 1
        BY <2>0, <2>3, <3>4, <1>0, <1>4
      <4> QED BY <3>1, <4>1, <1>5 DEF SortedBy
    <3>5. CASE i = pos + 1
      <4>1. r[i] = x
        BY <3>5, <2>0, <1>4
      <4> QED BY <4>1, <3>1, <3>2, <3>3, <1>0
    <3>6. CASE i > pos + 1
      <4>1. i - 1 \in 1 .. n /\ r[i] = q[i - 1] /\ i - 1 < j - 1
        BY <2>0, <3>6, <1>0, <1>4
      <4> QED BY <3>1, <4>1, <1>5 DEF SortedBy
    <3> QED BY <3>4, <3>5, <3>6, <2>0, <1>4
  <2> QED BY <2>1, <2>2, <2>3, <2>0, <1>4
<1> QED BY <1>3, <1>4, <1>5

\* KiWakeTimeouts takes the front of the queue: entries that are due, and
\* when the queue is sorted all of them.
LEMMA ExpiredProperties ==
  ASSUME NEW A, NEW q \in Seq(A), NEW d, \A i \in 1 .. Len(q) : d[q[i]] \in Nat
  PROVE  LET e == Expired(q, d) IN
         /\ e \in Seq(A)
         /\ Range(e) \subseteq Range(q)
         /\ \A a \in Range(e) : d[a] = 0
         /\ Distinct(q) => Distinct(e)
<1> DEFINE n == Len(q)
           P == {i \in 1 .. n : d[q[i]] = 0}
           Fits(k) == /\ \A i \in 1 .. k : d[q[i]] = 0
                      /\ k = n \/ d[q[k + 1]] > 0
           m == CHOOSE k \in 0 .. n : Fits(k)
<1>0. n \in Nat
  OBVIOUS
<1>1. \E k \in 0 .. n : Fits(k)
  <2>1. PICK k \in 0 .. n : (\A i \in 1 .. k : i \in P) /\ (k = n \/ k + 1 \notin P)
    <3> HIDE DEF P
    <3> QED BY <1>0, Boundary
  <2>2. k = n \/ k + 1 \in 1 .. n
    BY <1>0
  <2>3. k = n \/ d[q[k + 1]] > 0
    BY <2>1, <2>2
  <2> QED BY <2>1, <2>3
<1>2. m \in 0 .. n /\ Fits(m)
  <2> HIDE DEF Fits
  <2> QED BY <1>1
<1>3. Expired(q, d) = SubSeq(q, 1, m)
  BY DEF Expired
<1> HIDE DEF m
<1>4. /\ SubSeq(q, 1, m) \in Seq(A)
      /\ Range(SubSeq(q, 1, m)) = {q[i] : i \in 1 .. m}
      /\ Range(SubSeq(q, 1, m)) \subseteq Range(q)
      /\ Distinct(q) => Distinct(SubSeq(q, 1, m))
  BY <1>2, FrontProperties
<1> QED BY <1>2, <1>3, <1>4

-----------------------------------------------------------------------------
(* Linking at the tail and taking the head.                                *)

\* Two lists without a common entry, one behind the other.
LEMMA JoinProperties ==
  ASSUME NEW A, NEW p \in Seq(A), NEW q \in Seq(A)
  PROVE  /\ p \o q \in Seq(A)
         /\ Range(p \o q) = Range(p) \cup Range(q)
         /\ Distinct(p) /\ Distinct(q) /\ Range(p) \cap Range(q) = {} => Distinct(p \o q)
<1> DEFINE r == p \o q
<1>1. /\ r \in Seq(A) /\ Len(r) = Len(p) + Len(q)
      /\ Len(p) \in Nat /\ Len(q) \in Nat
      /\ \A i \in 1 .. Len(p) : r[i] = p[i]
      /\ \A i \in 1 .. Len(q) : r[Len(p) + i] = q[i]
  OBVIOUS
<1>2. DOMAIN r = 1 .. Len(r) /\ DOMAIN p = 1 .. Len(p) /\ DOMAIN q = 1 .. Len(q)
  BY <1>1
<1> HIDE DEF r
<1>3. ASSUME NEW i \in 1 .. Len(r), i > Len(p)
      PROVE  i - Len(p) \in 1 .. Len(q) /\ r[i] = q[i - Len(p)]
  <2>1. i - Len(p) \in 1 .. Len(q) /\ Len(p) + (i - Len(p)) = i
    BY <1>1, <1>3
  <2> QED BY <2>1, <1>1
<1>4. Range(r) = Range(p) \cup Range(q)
  <2>1. ASSUME NEW i \in 1 .. Len(r) PROVE r[i] \in Range(p) \cup Range(q)
    <3>1. CASE i <= Len(p)
      <4>1. i \in DOMAIN p /\ r[i] = p[i]
        BY <3>1, <1>1, <1>2
      <4> QED BY <4>1 DEF Range
    <3>2. CASE i > Len(p)
      <4>1. i - Len(p) \in DOMAIN q /\ r[i] = q[i - Len(p)]
        BY <3>2, <1>2, <1>3
      <4> QED BY <4>1 DEF Range
    <3> QED BY <3>1, <3>2, <1>1
  <2>2. ASSUME NEW i \in 1 .. Len(p) PROVE p[i] \in Range(r)
    <3>1. i \in DOMAIN r /\ r[i] = p[i]
      BY <1>1, <1>2
    <3> QED BY <3>1 DEF Range
  <2>3. ASSUME NEW i \in 1 .. Len(q) PROVE q[i] \in Range(r)
    <3>1. Len(p) + i \in DOMAIN r /\ r[Len(p) + i] = q[i]
      BY <1>1, <1>2
    <3> QED BY <3>1 DEF Range
  <2> QED BY <2>1, <2>2, <2>3, <1>2 DEF Range
<1>5. ASSUME Distinct(p), Distinct(q), Range(p) \cap Range(q) = {} PROVE Distinct(r)
  <2>1. ASSUME NEW i \in 1 .. Len(r), NEW j \in 1 .. Len(r), i < j PROVE r[i] # r[j]
    <3>1. CASE j <= Len(p)
      <4>1. i \in 1 .. Len(p) /\ j \in 1 .. Len(p) /\ r[i] = p[i] /\ r[j] = p[j]
        BY <3>1, <2>1, <1>1
      <4> QED BY <4>1, <2>1, <1>5 DEF Distinct
    <3>2. CASE j > Len(p)
      <4>1. j - Len(p) \in 1 .. Len(q) /\ r[j] = q[j - Len(p)]
        BY <3>2, <1>3
      <4>2. CASE i <= Len(p)
        <5>1. i \in 1 .. Len(p) /\ r[i] = p[i]
          BY <4>2, <1>1
        <5>2. r[i] \in Range(p) /\ r[j] \in Range(q)
          BY <4>1, <5>1, <1>2 DEF Range
        <5> QED BY <5>2, <1>5
      <4>3. CASE i > Len(p)
        <5>1. i - Len(p) \in 1 .. Len(q) /\ r[i] = q[i - Len(p)]
          BY <4>3, <1>3
        <5>2. i - Len(p) # j - Len(p)
          BY <2>1, <1>1
        <5> QED BY <4>1, <5>1, <5>2, <1>5 DEF Distinct
      <4> QED BY <4>2, <4>3, <1>1
    <3> QED BY <3>1, <3>2, <1>1
  <2>2. \A i, j \in 1 .. Len(r) : i # j => i < j \/ j < i
    BY <1>1
  <2> QED BY <2>1, <2>2 DEF Distinct
<1> QED BY <1>1, <1>4, <1>5 DEF r

\* The single entry <<x>>.
LEMMA SingletonProperties ==
  ASSUME NEW A, NEW x \in A
  PROVE  <<x>> \in Seq(A) /\ Range(<<x>>) = {x} /\ Distinct(<<x>>)
<1>1. <<x>> \in Seq(A) /\ Len(<<x>>) = 1 /\ <<x>>[1] = x /\ DOMAIN <<x>> = 1 .. 1
  OBVIOUS
<1> DEFINE s == <<x>>
<1>2. s \in Seq(A) /\ Len(s) = 1 /\ s[1] = x /\ DOMAIN s = 1 .. 1
  BY <1>1
<1> HIDE DEF s
<1>3. Range(s) = {x} /\ Distinct(s)
  BY <1>2 DEF Range, Distinct
<1> QED BY <1>2, <1>3 DEF s

\* An entry linked at the tail.
LEMMA TailInsertProperties ==
  ASSUME NEW A, NEW q \in Seq(A), NEW x \in A
  PROVE  /\ Append(q, x) \in Seq(A)
         /\ Append(q, x) # << >>
         /\ Range(Append(q, x)) = Range(q) \cup {x}
         /\ Distinct(q) /\ x \notin Range(q) => Distinct(Append(q, x))
<1>1. Append(q, x) = q \o <<x>> /\ Append(q, x) # << >> /\ Append(q, x) \in Seq(A)
  OBVIOUS
<1>2. <<x>> \in Seq(A) /\ Range(<<x>>) = {x} /\ Distinct(<<x>>)
  BY SingletonProperties
<1> DEFINE s == <<x>>
<1> HIDE DEF s
<1>3. /\ Range(q \o s) = Range(q) \cup Range(s)
      /\ Distinct(q) /\ Distinct(s) /\ Range(q) \cap Range(s) = {} => Distinct(q \o s)
  BY ZenonT(30), <1>2, JoinProperties DEF s
<1> QED BY <1>1, <1>2, <1>3 DEF s

\* The head and the rest of a list.
LEMMA HeadRemoveProperties ==
  ASSUME NEW A, NEW q \in Seq(A), q # << >>
  PROVE  /\ Head(q) \in A /\ Head(q) \in Range(q)
         /\ Tail(q) \in Seq(A)
         /\ Range(q) = Range(Tail(q)) \cup {Head(q)}
         /\ Distinct(q) => Distinct(Tail(q)) /\ Head(q) \notin Range(Tail(q))
<1> DEFINE h == Head(q)
           r == Tail(q)
<1>1. /\ Len(q) \in Nat /\ Len(q) > 0 /\ h = q[1] /\ h \in A
      /\ r \in Seq(A) /\ Len(r) = Len(q) - 1 /\ \A i \in 1 .. Len(q) - 1 : r[i] = q[i + 1]
  OBVIOUS
<1>2. DOMAIN q = 1 .. Len(q) /\ DOMAIN r = 1 .. Len(r)
  BY <1>1
<1> HIDE DEF h, r
<1>3. h \in Range(q)
  BY <1>1, <1>2 DEF Range
<1>4. Range(q) = Range(r) \cup {h}
  <2>1. ASSUME NEW i \in 1 .. Len(q) PROVE q[i] \in Range(r) \cup {h}
    <3>1. CASE i = 1
      BY <3>1, <1>1
    <3>2. CASE i # 1
      <4>1. i - 1 \in 1 .. Len(r) /\ r[i - 1] = q[(i - 1) + 1] /\ (i - 1) + 1 = i
        BY <3>2, <1>1
      <4> QED BY <4>1, <1>2 DEF Range
    <3> QED BY <3>1, <3>2
  <2>2. ASSUME NEW i \in 1 .. Len(r) PROVE r[i] \in Range(q)
    <3>1. i + 1 \in DOMAIN q /\ r[i] = q[i + 1]
      BY <1>1, <1>2
    <3> QED BY <3>1 DEF Range
  <2> QED BY <2>1, <2>2, <1>2, <1>3 DEF Range
<1>5. ASSUME Distinct(q) PROVE Distinct(r) /\ h \notin Range(r)
  <2>1. Distinct(r)
    <3> SUFFICES ASSUME NEW i \in 1 .. Len(r), NEW j \in 1 .. Len(r), i # j
                 PROVE  r[i] # r[j]
      BY DEF Distinct
    <3>1. i + 1 \in 1 .. Len(q) /\ j + 1 \in 1 .. Len(q) /\ i + 1 # j + 1
      BY <1>1
    <3>2. r[i] = q[i + 1] /\ r[j] = q[j + 1]
      BY <1>1
    <3> QED BY <3>1, <3>2, <1>5 DEF Distinct
  <2>2. ASSUME NEW i \in 1 .. Len(r) PROVE r[i] # h
    <3>1. i + 1 \in 1 .. Len(q) /\ 1 \in 1 .. Len(q) /\ i + 1 # 1 /\ r[i] = q[i + 1]
      BY <1>1
    <3> QED BY <3>1, <1>1, <1>5 DEF Distinct
  <2> QED BY <2>1, <2>2, <1>2 DEF Range
<1> QED BY <1>1, <1>3, <1>4, <1>5 DEF h, r

\* A list is empty exactly when nothing is linked in it.
LEMMA EmptyRange ==
  ASSUME NEW A, NEW q \in Seq(A)
  PROVE  q = << >> <=> Range(q) = {}
<1>1. CASE q = << >>
  BY <1>1 DEF Range
<1>2. CASE q # << >>
  <2>1. Head(q) \in Range(q)
    BY <1>2, HeadRemoveProperties
  <2> QED BY <1>2, <2>1
<1> QED BY <1>1, <1>2

-----------------------------------------------------------------------------
(* Order.                                                                  *)

\* Unlinking entries leaves the others in their order.
LEMMA RemoveSorted ==
  ASSUME NEW A, NEW s \in Seq(A), NEW S, NEW d, SortedBy(s, d)
  PROVE  SortedBy(LinkedListRemove(s, S), d)
<1> DEFINE n == Len(s)
           W == WithoutUpTo(s, S)
           From(i) == \A a \in 1 .. Len(W[i]) : \E j \in 1 .. i : W[i][a] = s[j]
           Good == {i \in 0 .. n : /\ W[i] \in Seq(A)
                                   /\ From(i)
                                   /\ SortedBy(W[i], d)}
<1>0. n \in Nat /\ \A i \in 1 .. n : s[i] \in A
  OBVIOUS
<1>1. \A i \in 0 .. n : W[i] = UnlinkStep(s, S, W, i)
  BY WithoutUpToDef
<1> HIDE DEF W
<1>2. 0 \in Good
  <2>1. W[0] = << >>
    BY <1>1, <1>0 DEF UnlinkStep
  <2>2. W[0] \in Seq(A) /\ Len(W[0]) = 0
    BY <2>1
  <2>3. From(0) /\ SortedBy(W[0], d)
    BY <2>2 DEF SortedBy
  <2> QED BY <2>2, <2>3, <1>0
<1>3. ASSUME NEW k \in 1 .. n, k - 1 \in Good PROVE k \in Good
  <2>1. W[k - 1] \in Seq(A) /\ From(k - 1) /\ SortedBy(W[k - 1], d)
    BY <1>3
  <2>2. k \in 0 .. n /\ W[k] = UnlinkStep(s, S, W, k) /\ k # 0 /\ s[k] \in A
    BY <1>1, <1>0
  <2>3. CASE s[k] \in S
    <3>1. W[k] = W[k - 1]
      BY <2>2, <2>3 DEF UnlinkStep
    <3>2. From(k)
      <4>1. \A j \in 1 .. k - 1 : j \in 1 .. k
        BY <1>0
      <4> QED BY <2>1, <3>1, <4>1
    <3> QED BY <2>1, <2>2, <3>1, <3>2
  <2>4. CASE s[k] \notin S
    <3> DEFINE w == W[k - 1]
               v == W[k]
    <3>1. v = Append(w, s[k]) /\ w \in Seq(A)
      BY <2>1, <2>2, <2>4 DEF UnlinkStep
    <3>2. \A a \in 1 .. Len(w) : \E j \in 1 .. k - 1 : w[a] = s[j]
      BY <2>1
    <3>3. SortedBy(w, d)
      BY <2>1
    <3> HIDE DEF w
    <3> HIDE DEF v
    <3>4. /\ v \in Seq(A) /\ Len(v) = Len(w) + 1 /\ Len(w) \in Nat
          /\ v[Len(w) + 1] = s[k] /\ \A a \in 1 .. Len(w) : v[a] = w[a]
      <4>1. s[k] \in A
        BY <2>2
      <4> QED BY <3>1, <4>1
    <3>5. \A a \in 1 .. Len(v) : \E j \in 1 .. k : v[a] = s[j]
      <4> SUFFICES ASSUME NEW a \in 1 .. Len(v) PROVE \E j \in 1 .. k : v[a] = s[j]
        OBVIOUS
      <4>1. CASE a = Len(w) + 1
        BY <4>1, <3>4
      <4>2. CASE a # Len(w) + 1
        <5>1. a \in 1 .. Len(w) /\ v[a] = w[a]
          BY <4>2, <3>4
        <5>2. PICK j \in 1 .. k - 1 : w[a] = s[j]
          BY <5>1, <3>2
        <5>3. j \in 1 .. k
          BY <1>0
        <5> QED BY <5>1, <5>2, <5>3
      <4> QED BY <4>1, <4>2
    <3>6. SortedBy(v, d)
      <4> SUFFICES ASSUME NEW a \in 1 .. Len(v), NEW b \in 1 .. Len(v), a < b
                   PROVE  d[v[a]] <= d[v[b]]
        BY DEF SortedBy
      <4>1. a \in 1 .. Len(w) /\ v[a] = w[a]
        BY <3>4
      <4>2. CASE b = Len(w) + 1
        <5>1. PICK j \in 1 .. k - 1 : w[a] = s[j]
          BY <4>1, <3>2
        <5>2. d[s[j]] <= d[s[k]]
          BY <1>0 DEF SortedBy
        <5> QED BY <4>1, <4>2, <5>1, <5>2, <3>4
      <4>3. CASE b # Len(w) + 1
        <5>1. b \in 1 .. Len(w) /\ v[b] = w[b]
          BY <4>3, <3>4
        <5> QED BY <4>1, <5>1, <3>3 DEF SortedBy
      <4> QED BY <4>2, <4>3
    <3>7. k \in 0 .. n /\ W[k] \in Seq(A) /\ From(k) /\ SortedBy(W[k], d)
      BY <2>2, <3>4, <3>5, <3>6 DEF v
    <3> QED BY <3>7
  <2> QED BY <2>3, <2>4
<1>4. n \in Good
  <2>1. n \in Nat /\ n \in 0 .. n
    BY <1>0
  <2>2. \A k \in 1 .. n : k - 1 \in Good => k \in Good
    BY <1>3
  <2> HIDE DEF Good, n
  <2>3. \A k \in 0 .. n : k \in Good
    BY <2>1, <2>2, <1>2, Induction
  <2> QED BY <2>1, <2>3
<1> QED BY <1>4 DEF LinkedListRemove, W

\* The head of a sorted queue comes first, and only its order counts.
LEMMA SortedProperties ==
  ASSUME NEW A, NEW q \in Seq(A), NEW d, SortedBy(q, d), \A a \in Range(q) : d[a] \in Int
  PROVE  /\ \A a \in Range(q) : d[Head(q)] <= d[a]
         /\ \A e : (\A a, b \in Range(q) : d[a] <= d[b] => e[a] <= e[b]) => SortedBy(q, e)
<1>1. Range(q) = {q[i] : i \in 1 .. Len(q)} /\ Len(q) \in Nat
  BY DEF Range
<1>2. ASSUME NEW a \in Range(q) PROVE d[Head(q)] <= d[a]
  <2>1. PICK i \in 1 .. Len(q) : a = q[i]
    BY <1>1
  <2>2. Head(q) = q[1] /\ 1 \in 1 .. Len(q) /\ q[1] \in Range(q)
    BY <2>1, <1>1
  <2>3. d[q[1]] \in Int
    BY <2>2
  <2>4. CASE i = 1
    BY <2>1, <2>2, <2>3, <2>4
  <2>5. CASE i # 1
    <3>1. 1 < i
      BY <2>5, <1>1
    <3> QED BY <2>1, <2>2, <3>1 DEF SortedBy
  <2> QED BY <2>4, <2>5
<1>3. ASSUME NEW e, \A a, b \in Range(q) : d[a] <= d[b] => e[a] <= e[b] PROVE SortedBy(q, e)
  <2> SUFFICES ASSUME NEW i \in 1 .. Len(q), NEW j \in 1 .. Len(q), i < j PROVE e[q[i]] <= e[q[j]]
    BY DEF SortedBy
  <2>1. q[i] \in Range(q) /\ q[j] \in Range(q) /\ d[q[i]] <= d[q[j]]
    BY <1>1 DEF SortedBy
  <2> QED BY <1>3, <2>1
<1> QED BY <1>2, <1>3

-----------------------------------------------------------------------------
(* The invariant, in parts that share variables.                           *)

LifeTypes ==
  /\ pc \in [AllThreads -> ThreadPcs \cup IdlePcs]
  /\ pc[Idle] \in IdlePcs /\ \A t \in Threads : pc[t] \in ThreadPcs
  /\ target \in [AllThreads -> Threads \cup {NULL}]
  /\ terminationMode \in [Threads -> {"DETACHED", "JOINABLE"}]
  /\ claim \in [Threads -> {"UNCLAIMED", "JOIN_IN_PROGRESS", "CONSUMED"}]
  /\ terminatedList \in Seq(Threads)
  /\ activeThreadCount \in Int

LockTypes ==
  /\ ownedMutexCount \in [Threads -> Int]
  /\ signal \in [Objects -> Nat]
  /\ \A s \in Semaphores : signal[s] <= Limit[s]
  /\ \A o \in Objects \ Semaphores : signal[o] <= 1
  /\ owner \in [Mutexes -> Threads \cup {NULL}]

ClockTypes ==
  /\ quantumDeadline \in Nat
  /\ nextProgrammedDeadline \in Nat \cup {NoDeadline}
  /\ oneShot \in Nat

\* The ready queues hold exactly the threads that are READY in st.
Matches(st, rq) ==
  /\ st \in [AllThreads -> States]
  /\ rq \in [Priorities -> Seq(Threads)]
  /\ \A p \in Priorities :
       /\ Distinct(rq[p])
       /\ Range(rq[p]) = {t \in Threads : st[t] = "READY" /\ Priority[t] = p}

Cpu ==
  /\ currentThread \in AllThreads
  /\ \A t \in Threads : state[t] = "RUNNING" <=> currentThread = t
  /\ Matches(state, readyQueues)

BlockTypes ==
  /\ waitObject \in [Threads -> Objects \cup {NULL}]
  /\ deadline \in [Threads -> Nat \cup {NoDeadline}]
  /\ waitStatus \in [Threads -> {"PENDING", "SUCCESS", "TIMEOUT"}]
  /\ waitList \in [Objects -> Seq(Threads)]
  /\ timeoutQueue \in Seq(Threads)

\* The wait lists and the timeout queue hold exactly the blocks whose fields
\* say so ...
Lists ==
  /\ BlockTypes
  /\ \A o \in Objects :
       /\ Distinct(waitList[o])
       /\ Range(waitList[o]) = {t \in Threads : waitObject[t] = o}
  /\ Distinct(timeoutQueue)
  /\ Range(timeoutQueue) = {t \in Threads : deadline[t] # NoDeadline}

\* ... and those are the blocks of the BLOCKED threads.
BlockStates ==
  \A t \in Threads :
    /\ state[t] = "BLOCKED" <=> waitObject[t] # NULL \/ deadline[t] # NoDeadline
    /\ waitStatus[t] = "PENDING" <=> state[t] = "BLOCKED"

\* The type invariant, regrouped by the variables that change together.
LEMMA TypeParts ==
  TypeOK <=> /\ LifeTypes /\ LockTypes /\ ClockTypes /\ BlockTypes
             /\ timerPending \in BOOLEAN
             /\ state \in [AllThreads -> States]
             /\ readyQueues \in [Priorities -> Seq(Threads)]
             /\ currentThread \in AllThreads
BY DEF TypeOK, LifeTypes, LockTypes, ClockTypes, BlockTypes

\* QueuesMatchStates, regrouped in the same way.
LEMMA QueueParts ==
  ASSUME TypeOK
  PROVE  QueuesMatchStates <=> Cpu /\ Lists /\ BlockStates
BY DEF TypeOK, QueuesMatchStates, Cpu, Lists, BlockStates, BlockTypes, Matches

-----------------------------------------------------------------------------
(* The ready queues and the scheduling decision.                           *)

\* A nonempty set of priorities has a highest member.
LEMMA HighestQueue ==
  ASSUME NEW rq, KiHasAnyReadyThread(rq)
  PROVE  LET h == KiGetHighestPriorityReadyQueue(rq) IN
         /\ h \in Priorities /\ rq[h] # << >>
         /\ \A q \in Priorities : q > h => rq[q] = << >>
<1> DEFINE N == KTHREAD_PRIORITY_COUNT - 1
           D == {n \in Nat : \E p \in Priorities : rq[p] # << >> /\ n = N - p}
<1>0. N \in Nat
  BY SchedulerAssumption
<1>1. D # {} /\ D \in SUBSET Nat
  <2>1. PICK p \in Priorities : rq[p] # << >>
    BY DEF KiHasAnyReadyThread
  <2>2. N - p \in Nat
    BY <1>0 DEF Priorities
  <2> QED BY <2>1, <2>2
<1>2. PICK n \in D : \A m \in D : n <= m
  <2> HIDE DEF D
  <2> QED BY <1>1, LeastNumber
<1>3. PICK p \in Priorities : rq[p] # << >> /\ n = N - p
  OBVIOUS
<1>4. ASSUME NEW q \in Priorities, q > p PROVE rq[q] = << >>
  <2>1. N - q \in Nat /\ ~(n <= N - q)
    BY <1>0, <1>3, <1>4 DEF Priorities
  <2> QED BY <1>2, <2>1
<1>5. \E h \in Priorities : rq[h] # << >> /\ \A q \in Priorities : q > h => rq[q] = << >>
  BY <1>3, <1>4
<1> QED BY <1>5 DEF KiGetHighestPriorityReadyQueue

\* Threads that were not ready, linked at the tail of their queues.
LEMMA EnqueueMatches ==
  ASSUME NEW st, NEW rq, Matches(st, rq),
         NEW ws \in Seq(Threads), Distinct(ws), \A t \in Range(ws) : st[t] # "READY"
  PROVE  Matches(StateReady(st, ws), EnqueueReady(rq, ws))
<1> DEFINE st2 == StateReady(st, ws)
           rq2 == EnqueueReady(rq, ws)
<1>1. st2 \in [AllThreads -> States]
  BY DEF Matches, StateReady, States
<1>2. \A t \in Threads : st2[t] = IF t \in Range(ws) THEN "READY" ELSE st[t]
  BY DEF StateReady, AllThreads
<1>3. ASSUME NEW p \in Priorities
      PROVE  /\ rq2[p] \in Seq(Threads)
             /\ Distinct(rq2[p])
             /\ Range(rq2[p]) = {t \in Threads : st2[t] = "READY" /\ Priority[t] = p}
  <2> DEFINE other == {t \in Threads : Priority[t] # p}
             w == LinkedListRemove(ws, other)
  <2>1. rq2[p] = rq[p] \o w
    BY DEF EnqueueReady, OfPriority
  <2>2. w \in Seq(Threads) /\ Range(w) = Range(ws) \ other /\ Distinct(w)
    <3> HIDE DEF other
    <3> QED BY RemoveProperties
  <2> HIDE DEF w
  <2>3. /\ rq[p] \in Seq(Threads) /\ Distinct(rq[p])
        /\ Range(rq[p]) = {t \in Threads : st[t] = "READY" /\ Priority[t] = p}
    BY DEF Matches
  <2>4. Range(ws) \subseteq Threads
    BY DEF Range
  <2>5. Range(rq[p]) \cap Range(w) = {}
    BY <2>2, <2>3
  <2>6. /\ rq[p] \o w \in Seq(Threads)
        /\ Range(rq[p] \o w) = Range(rq[p]) \cup Range(w)
        /\ Distinct(rq[p] \o w)
    BY <2>2, <2>3, <2>5, JoinProperties
  <2>7. Range(rq[p]) \cup Range(w) = {t \in Threads : st2[t] = "READY" /\ Priority[t] = p}
    <3> HIDE DEF st2
    <3> QED BY <1>2, <2>2, <2>3, <2>4
  <2> QED BY <2>1, <2>6, <2>7
<1>4. rq2 = [p \in Priorities |-> rq2[p]]
  BY DEF EnqueueReady
<1> HIDE DEF st2, rq2
<1>5. rq2 \in [Priorities -> Seq(Threads)]
  BY <1>3, <1>4
<1>6. Matches(st2, rq2)
  BY <1>1, <1>3, <1>5 DEF Matches
<1> QED BY <1>6 DEF st2, rq2

\* What KiArmForNextEvent leaves in the timer variables.
LEMMA ArmTypes ==
  ASSUME NEW next, KiArmForNextEvent(next), ClockTypes,
         deadline' \in [Threads -> Nat \cup {NoDeadline}], timeoutQueue' \in Seq(Threads),
         \A t \in Range(timeoutQueue') : deadline'[t] # NoDeadline
  PROVE  ClockTypes'
<1>1. Quantum \in Nat \ {0} /\ MaxDelta \in Nat \ {0}
  BY SchedulerAssumption
<1>2. \A n \in Nat : Delta(n) \in Nat /\ Min2(Delta(n), MaxDelta) \in Nat /\ Min2(Quantum, n) \in Nat
  BY <1>1 DEF Delta, Min2
<1>3. timeoutQueue' # << >> => deadline'[Head(timeoutQueue')] \in Nat
  <2> SUFFICES ASSUME timeoutQueue' # << >> PROVE deadline'[Head(timeoutQueue')] \in Nat
    OBVIOUS
  <2>1. Head(timeoutQueue') \in Threads /\ Head(timeoutQueue') \in Range(timeoutQueue')
    BY HeadRemoveProperties
  <2> QED BY <2>1
<1> QED BY <1>1, <1>2, <1>3 DEF KiArmForNextEvent, KiArmClockEvent, ClockTypes

\* A dispatch: the head of the highest nonempty queue, or the idle thread,
\* starts to run, and every other thread keeps the state that was prepared.
Dispatched(st) ==
  /\ Cpu'
  /\ currentThread' # Idle => st[currentThread'] = "READY"
  /\ \A t \in Threads : state'[t] = IF t = currentThread' THEN "RUNNING" ELSE st[t]

\* What KiSchedule does with consistent states and queues: one thread, the
\* idle thread or the head of the highest nonempty ready queue, is dispatched.
LEMMA ScheduleDispatches ==
  ASSUME NEW st, NEW rq, Matches(st, rq), \A t \in Threads : st[t] # "RUNNING",
         KiSchedule(st, rq), BlockTypes', ClockTypes,
         \A t \in Range(timeoutQueue') : deadline'[t] # NoDeadline
  PROVE  Dispatched(st) /\ ClockTypes'
<1>0. Idle \notin Threads /\ AllThreads = Threads \cup {Idle}
  BY SchedulerAssumption DEF AllThreads, Objects
<1>a. ClockTypes'
  BY ArmTypes DEF BlockTypes, KiSchedule
<1>1. CASE KiHasAnyReadyThread(rq)
  <2> DEFINE p == KiGetHighestPriorityReadyQueue(rq)
             q == rq[p]
             next == Head(q)
  <2>1. p \in Priorities /\ q # << >>
    BY <1>1, HighestQueue
  <2>2. /\ readyQueues' = [rq EXCEPT ![p] = Tail(q)]
        /\ state' = [st EXCEPT ![next] = "RUNNING"]
        /\ currentThread' = next
    BY <1>1 DEF KiSchedule
  <2> HIDE DEF p
  <2>3. q \in Seq(Threads) /\ Distinct(q)
        /\ Range(q) = {t \in Threads : st[t] = "READY" /\ Priority[t] = p}
    BY <2>1 DEF Matches
  <2> HIDE DEF q
  <2>4. /\ next \in Threads /\ next \in Range(q)
        /\ Tail(q) \in Seq(Threads)
        /\ Range(q) = Range(Tail(q)) \cup {next}
        /\ Distinct(Tail(q)) /\ next \notin Range(Tail(q))
    BY <2>1, <2>3, HeadRemoveProperties
  <2> HIDE DEF next
  <2>5. st[next] = "READY" /\ Priority[next] = p
    BY <2>3, <2>4
  <2>6. /\ st \in [AllThreads -> States] /\ rq \in [Priorities -> Seq(Threads)]
    BY DEF Matches
  <2>7. /\ state' \in [AllThreads -> States]
        /\ \A t \in Threads : state'[t] = IF t = next THEN "RUNNING" ELSE st[t]
    BY <2>2, <2>4, <2>6, <1>0 DEF States
  <2>8. readyQueues' \in [Priorities -> Seq(Threads)]
    BY <2>1, <2>2, <2>4, <2>6
  <2>9. ASSUME NEW r \in Priorities
        PROVE  /\ Distinct(readyQueues'[r])
               /\ Range(readyQueues'[r]) = {t \in Threads : state'[t] = "READY" /\ Priority[t] = r}
    <3>1. CASE r = p
      <4>1. readyQueues'[r] = Tail(q)
        BY <3>1, <2>1, <2>2, <2>6
      <4>2. Range(Tail(q)) = {t \in Threads : state'[t] = "READY" /\ Priority[t] = r}
        BY <3>1, <2>3, <2>4, <2>7
      <4> QED BY <4>1, <4>2, <2>4
    <3>2. CASE r # p
      <4>1. readyQueues'[r] = rq[r]
        BY <3>2, <2>2, <2>6
      <4>2. Distinct(rq[r]) /\ Range(rq[r]) = {t \in Threads : st[t] = "READY" /\ Priority[t] = r}
        BY DEF Matches
      <4>3. {t \in Threads : st[t] = "READY" /\ Priority[t] = r}
              = {t \in Threads : state'[t] = "READY" /\ Priority[t] = r}
        BY <3>2, <2>5, <2>7
      <4> QED BY <4>1, <4>2, <4>3
    <3> QED BY <3>1, <3>2
  <2>10. Matches(state', readyQueues')
    BY <2>7, <2>8, <2>9 DEF Matches
  <2>11. \A t \in Threads : state'[t] = "RUNNING" <=> currentThread' = t
    BY <2>2, <2>7
  <2>12. Cpu'
    <3>1. currentThread' \in AllThreads
      BY <2>2, <2>4, <1>0
    <3> QED BY <3>1, <2>10, <2>11 DEF Cpu, Matches
  <2> QED BY <2>2, <2>5, <2>7, <2>12, <1>a DEF Dispatched
<1>2. CASE ~KiHasAnyReadyThread(rq)
  <2>1. /\ readyQueues' = rq
        /\ state' = [st EXCEPT ![Idle] = "RUNNING"]
        /\ currentThread' = Idle
    BY <1>2 DEF KiSchedule
  <2>2. st \in [AllThreads -> States]
    BY DEF Matches
  <2>3. /\ state' \in [AllThreads -> States]
        /\ \A t \in Threads : state'[t] = st[t]
    BY <2>1, <2>2, <1>0 DEF States
  <2>4. Matches(state', readyQueues')
    BY <2>1, <2>3 DEF Matches
  <2>5. Cpu'
    BY <2>1, <2>3, <2>4, <1>0 DEF Cpu, Matches
  <2> QED BY <2>1, <2>3, <2>5, <1>0, <1>a DEF Dispatched
<1> QED BY <1>1, <1>2

\* Every thread has the state that was prepared for it, except a ready one
\* that has started to run.
Settles(st) ==
  \A t \in Threads : state'[t] = st[t] \/ (st[t] = "READY" /\ state'[t] = "RUNNING")

\* A dispatch changes no thread's state but that of the thread it dispatches,
\* from READY to RUNNING.
LEMMA DispatchSettles ==
  ASSUME NEW st, Dispatched(st)
  PROVE  Cpu' /\ Settles(st)
<1>1. Idle \notin Threads
  BY SchedulerAssumption DEF Objects
<1> QED BY <1>1 DEF Dispatched, Settles

\* The states that StateReady prepares.
LEMMA StateReadyValue ==
  ASSUME NEW st, NEW ws
  PROVE  \A t \in AllThreads : StateReady(st, ws)[t] = IF t \in Range(ws) THEN "READY" ELSE st[t]
BY DEF StateReady

-----------------------------------------------------------------------------
(* Waking threads.                                                         *)

\* The fields of the wait blocks after KiCompleteWait.
Completes(ws, status) ==
  \A t \in Threads :
    /\ waitObject'[t] = IF t \in Range(ws) THEN NULL ELSE waitObject[t]
    /\ deadline'[t] = IF t \in Range(ws) THEN NoDeadline ELSE deadline[t]
    /\ waitStatus'[t] = IF t \in Range(ws) THEN status ELSE waitStatus[t]

\* KiCompleteWait unlinks the completed blocks from their wait lists and from
\* the timeout queue and leaves the other blocks linked.
LEMMA CompleteLists ==
  ASSUME Lists, NEW ws \in Seq(Threads), NEW status \in {"SUCCESS", "TIMEOUT"},
         KiCompleteWait(ws, status)
  PROVE  Lists' /\ Completes(ws, status)
<1> DEFINE W == Range(ws)
<1>0. NULL \notin Objects
  BY SchedulerAssumption
<1>1. Completes(ws, status)
  BY DEF KiCompleteWait, Completes
<1>2. /\ waitObject' \in [Threads -> Objects \cup {NULL}]
      /\ deadline' \in [Threads -> Nat \cup {NoDeadline}]
      /\ waitStatus' \in [Threads -> {"PENDING", "SUCCESS", "TIMEOUT"}]
  BY DEF KiCompleteWait, Lists, BlockTypes
<1>3. /\ waitList' = [o \in Objects |-> LinkedListRemove(waitList[o], W)]
      /\ timeoutQueue' = LinkedListRemove(timeoutQueue, W)
  BY DEF KiCompleteWait
<1> HIDE DEF W
<1>4. ASSUME NEW o \in Objects
      PROVE  /\ waitList'[o] \in Seq(Threads)
             /\ Distinct(waitList'[o])
             /\ Range(waitList'[o]) = {t \in Threads : waitObject'[t] = o}
  <2>1. waitList[o] \in Seq(Threads) /\ Distinct(waitList[o])
        /\ Range(waitList[o]) = {t \in Threads : waitObject[t] = o}
    BY DEF Lists, BlockTypes
  <2>2. waitList'[o] = LinkedListRemove(waitList[o], W)
    BY <1>3
  <2>3. /\ waitList'[o] \in Seq(Threads)
        /\ Distinct(waitList'[o])
        /\ Range(waitList'[o]) = Range(waitList[o]) \ W
    BY <2>1, <2>2, RemoveProperties
  <2>4. {t \in Threads : waitObject[t] = o} \ W = {t \in Threads : waitObject'[t] = o}
    BY <1>0, <1>1 DEF Completes, W
  <2> QED BY <2>1, <2>3, <2>4
<1>5. /\ timeoutQueue' \in Seq(Threads)
      /\ Distinct(timeoutQueue')
      /\ Range(timeoutQueue') = {t \in Threads : deadline'[t] # NoDeadline}
  <2>1. timeoutQueue \in Seq(Threads) /\ Distinct(timeoutQueue)
        /\ Range(timeoutQueue) = {t \in Threads : deadline[t] # NoDeadline}
    BY DEF Lists, BlockTypes
  <2>2. /\ timeoutQueue' \in Seq(Threads)
        /\ Distinct(timeoutQueue')
        /\ Range(timeoutQueue') = Range(timeoutQueue) \ W
    BY <1>3, <2>1, RemoveProperties
  <2>3. {t \in Threads : deadline[t] # NoDeadline} \ W = {t \in Threads : deadline'[t] # NoDeadline}
    BY <1>1 DEF Completes, W
  <2> QED BY <2>1, <2>2, <2>3
<1>6. waitList' \in [Objects -> Seq(Threads)]
  BY <1>3, <1>4
<1>7. BlockTypes'
  BY <1>2, <1>5, <1>6 DEF BlockTypes
<1>8. Lists'
  BY <1>4, <1>5, <1>7 DEF Lists
<1> QED BY <1>1, <1>8

\* The block states after threads have been woken and the CPU has settled.
LEMMA WakeBlockStates ==
  ASSUME BlockStates, NEW ws \in Seq(Threads), NEW status \in {"SUCCESS", "TIMEOUT"},
         Completes(ws, status), NEW st,
         \A t \in Threads : t \in Range(ws) => st[t] = "READY",
         \A t \in Threads : t \notin Range(ws) => (st[t] = "BLOCKED" <=> state[t] = "BLOCKED"),
         Settles(st)
  PROVE  BlockStates'
<1>1. ASSUME NEW t \in Threads, t \in Range(ws)
      PROVE  /\ state'[t] = "BLOCKED" <=> waitObject'[t] # NULL \/ deadline'[t] # NoDeadline
             /\ waitStatus'[t] = "PENDING" <=> state'[t] = "BLOCKED"
  BY <1>1 DEF Completes, Settles
<1>2. ASSUME NEW t \in Threads, t \notin Range(ws)
      PROVE  /\ state'[t] = "BLOCKED" <=> waitObject'[t] # NULL \/ deadline'[t] # NoDeadline
             /\ waitStatus'[t] = "PENDING" <=> state'[t] = "BLOCKED"
  BY <1>2 DEF Completes, Settles, BlockStates
<1> QED BY <1>1, <1>2 DEF BlockStates

\* Waking blocked threads while the running thread, or the idle thread, goes
\* on or switches: the end of KeSetEvent and KeReleaseSemaphore.
LEMMA ScheduleIfIdleWakes ==
  ASSUME Cpu, Lists, BlockStates, ClockTypes,
         NEW ws \in Seq(Threads), Distinct(ws), \A t \in Range(ws) : state[t] = "BLOCKED",
         NEW status \in {"SUCCESS", "TIMEOUT"}, KiCompleteWait(ws, status),
         \/ ScheduleIfIdle(StateReady(state, ws), EnqueueReady(readyQueues, ws))
         \/ KeepRunning(StateReady(state, ws), EnqueueReady(readyQueues, ws))
  PROVE  /\ Cpu' /\ Lists' /\ BlockStates' /\ ClockTypes'
         /\ Completes(ws, status) /\ Settles(StateReady(state, ws))
<1> DEFINE st == StateReady(state, ws)
           rq == EnqueueReady(readyQueues, ws)
<1>0. /\ Idle \notin Threads /\ Threads \subseteq AllThreads
      /\ AllThreads = Threads \cup {Idle}
  BY SchedulerAssumption DEF AllThreads, Objects
<1>1. Lists' /\ Completes(ws, status)
  BY CompleteLists
<1>2. Matches(st, rq)
  <2>1. Matches(state, readyQueues)
    BY DEF Cpu
  <2> QED BY <2>1, EnqueueMatches
<1>3. \A t \in Threads : st[t] = IF t \in Range(ws) THEN "READY" ELSE state[t]
  BY <1>0, StateReadyValue
<1> HIDE DEF st, rq
<1>4. Cpu' /\ Settles(st) /\ ClockTypes'
  <2>1. CASE currentThread = Idle /\ KiHasAnyReadyThread(rq) /\ KiSchedule(st, rq)
    <3>1. \A t \in Threads : st[t] # "RUNNING"
      BY <2>1, <1>0, <1>3 DEF Cpu
    <3>2. BlockTypes' /\ \A t \in Range(timeoutQueue') : deadline'[t] # NoDeadline
      BY <1>1 DEF Lists
    <3>3. Dispatched(st) /\ ClockTypes'
      BY <2>1, <3>1, <3>2, <1>2, ScheduleDispatches
    <3> QED BY <3>3, DispatchSettles
  <2>2. CASE KeepRunning(st, rq)
    <3>1. state' = st /\ readyQueues' = rq /\ currentThread' = currentThread /\ UNCHANGED clockVars
      BY <2>2 DEF KeepRunning
    <3>2. \A t \in Threads : state'[t] = "RUNNING" <=> currentThread' = t
      BY <3>1, <1>3 DEF Cpu
    <3>3. Cpu'
      BY <3>1, <3>2, <1>2 DEF Cpu, Matches
    <3> QED BY <3>1, <3>3 DEF Settles, ClockTypes, clockVars
  <2> QED BY <2>1, <2>2 DEF ScheduleIfIdle, st, rq
<1>5. BlockStates'
  BY <1>1, <1>3, <1>4, WakeBlockStates
<1> QED BY <1>1, <1>4, <1>5 DEF st

-----------------------------------------------------------------------------
(* Blocking.                                                               *)

\* The blocking path of KeWaitForSingleObject and KeSleep links the caller's
\* wait block and gives the CPU to another thread.
LEMMA BlockCurrentBlocks ==
  ASSUME Cpu, Lists, BlockStates, ClockTypes,
         NEW t \in Threads, currentThread = t, NEW o \in Objects \cup {NULL},
         NEW ticks \in Durations, o = NULL => ticks \in Timeouts,
         BlockCurrent(t, o, ticks)
  PROVE  /\ Cpu' /\ Lists' /\ BlockStates' /\ ClockTypes'
         /\ waitObject' = [waitObject EXCEPT ![t] = o]
         /\ waitStatus' = [waitStatus EXCEPT ![t] = "PENDING"]
         /\ Settles([state EXCEPT ![t] = "BLOCKED"])
<1> DEFINE st == [state EXCEPT ![t] = "BLOCKED"]
<1>0. /\ Idle \notin Threads /\ NULL \notin Objects /\ t \in AllThreads
      /\ Timeouts \subseteq Nat \ {0} /\ AllThreads = Threads \cup {Idle}
  BY SchedulerAssumption DEF AllThreads, Objects
<1>1. /\ waitObject' = [waitObject EXCEPT ![t] = o]
      /\ waitStatus' = [waitStatus EXCEPT ![t] = "PENDING"]
      /\ deadline' = [deadline EXCEPT ![t] = IF ticks = Infinite THEN NoDeadline ELSE ticks]
  BY DEF BlockCurrent
<1>2. ticks = Infinite \/ ticks \in Nat \ {0}
  BY <1>0 DEF Durations
<1>3. state \in [AllThreads -> States] /\ state[t] = "RUNNING"
  BY DEF Cpu, Matches
<1>4. waitObject[t] = NULL /\ deadline[t] = NoDeadline
  BY <1>3 DEF BlockStates
<1>5. /\ waitObject' \in [Threads -> Objects \cup {NULL}]
      /\ deadline' \in [Threads -> Nat \cup {NoDeadline}]
      /\ waitStatus' \in [Threads -> {"PENDING", "SUCCESS", "TIMEOUT"}]
  BY <1>1, <1>2 DEF Lists, BlockTypes
<1>6. /\ waitList' \in [Objects -> Seq(Threads)]
      /\ \A x \in Objects : /\ Distinct(waitList'[x])
                            /\ Range(waitList'[x]) = {u \in Threads : waitObject'[u] = x}
  <2>0. /\ waitList \in [Objects -> Seq(Threads)]
        /\ waitObject \in [Threads -> Objects \cup {NULL}]
        /\ \A x \in Objects : /\ waitList[x] \in Seq(Threads) /\ Distinct(waitList[x])
                              /\ Range(waitList[x]) = {u \in Threads : waitObject[u] = x}
    BY DEF Lists, BlockTypes
  <2>1. CASE o = NULL
    <3>1. waitList' = waitList /\ waitObject' = waitObject
      BY <2>0, <2>1, <1>1, <1>4 DEF BlockCurrent
    <3> QED BY <3>1, <2>0
  <2>2. CASE o # NULL
    <3>1. waitList' = [waitList EXCEPT ![o] = Append(waitList[o], t)] /\ o \in Objects
      BY <2>2 DEF BlockCurrent
    <3>2. t \notin Range(waitList[o])
      BY <2>0, <2>2, <3>1, <1>4
    <3>3. /\ Append(waitList[o], t) \in Seq(Threads)
          /\ Range(Append(waitList[o], t)) = Range(waitList[o]) \cup {t}
          /\ Distinct(Append(waitList[o], t))
      BY <2>0, <3>1, <3>2, TailInsertProperties
    <3>4. ASSUME NEW x \in Objects
          PROVE  /\ Distinct(waitList'[x])
                 /\ Range(waitList'[x]) = {u \in Threads : waitObject'[u] = x}
      <4>1. CASE x = o
        <5>1. waitList'[x] = Append(waitList[o], t)
          BY <4>1, <3>1, <2>0
        <5>2. Range(waitList[o]) \cup {t} = {u \in Threads : waitObject'[u] = x}
          BY <4>1, <2>0, <3>1, <1>1
        <5> QED BY <5>1, <5>2, <3>3
      <4>2. CASE x # o
        <5>1. waitList'[x] = waitList[x]
          BY <4>2, <3>1, <2>0
        <5>2. Range(waitList[x]) = {u \in Threads : waitObject'[u] = x}
          BY <4>2, <2>0, <1>0, <1>1, <1>4
        <5> QED BY <5>1, <5>2, <2>0
      <4> QED BY <4>1, <4>2
    <3> QED BY <2>0, <3>1, <3>3, <3>4
  <2> QED BY <2>1, <2>2
<1>7. /\ timeoutQueue' \in Seq(Threads) /\ Distinct(timeoutQueue')
      /\ Range(timeoutQueue') = {u \in Threads : deadline'[u] # NoDeadline}
  <2>0. /\ timeoutQueue \in Seq(Threads) /\ Distinct(timeoutQueue)
        /\ Range(timeoutQueue) = {u \in Threads : deadline[u] # NoDeadline}
        /\ deadline \in [Threads -> Nat \cup {NoDeadline}]
    BY DEF Lists, BlockTypes
  <2>1. CASE ticks = Infinite
    <3>1. timeoutQueue' = timeoutQueue /\ deadline' = deadline
      BY <2>0, <2>1, <1>1, <1>4 DEF BlockCurrent
    <3> QED BY <3>1, <2>0
  <2>2. CASE ticks # Infinite
    <3>1. timeoutQueue' = KiInsertTimeoutQueue(timeoutQueue, t, deadline')
      BY <2>2 DEF BlockCurrent
    <3>2. \A u \in Threads : deadline'[u] \in Int
      BY <1>5 DEF NoDeadline
    <3>3. t \notin Range(timeoutQueue)
      BY <2>0, <1>4
    <3>4. /\ timeoutQueue' \in Seq(Threads) /\ Distinct(timeoutQueue')
          /\ Range(timeoutQueue') = Range(timeoutQueue) \cup {t}
      BY <2>0, <3>1, <3>2, <3>3, InsertTimeoutProperties
    <3>5. Range(timeoutQueue) \cup {t} = {u \in Threads : deadline'[u] # NoDeadline}
      BY <2>0, <2>2, <1>1, <1>2 DEF NoDeadline
    <3> QED BY <3>4, <3>5
  <2> QED BY <2>1, <2>2
<1>8. BlockTypes'
  BY <1>5, <1>6, <1>7 DEF BlockTypes
<1>9. Lists'
  BY <1>6, <1>7, <1>8 DEF Lists
<1>10. /\ st \in [AllThreads -> States]
       /\ \A u \in Threads : st[u] = IF u = t THEN "BLOCKED" ELSE state[u]
  BY <1>0, <1>3 DEF States
<1>11. KiSchedule(st, readyQueues)
  BY DEF BlockCurrent
<1> HIDE DEF st
<1>12. Matches(st, readyQueues)
  <2>1. Matches(state, readyQueues)
    BY DEF Cpu
  <2>2. \A u \in Threads : st[u] = "READY" <=> state[u] = "READY"
    BY <1>3, <1>10
  <2>3. \A p \in Priorities : {u \in Threads : st[u] = "READY" /\ Priority[u] = p}
                             = {u \in Threads : state[u] = "READY" /\ Priority[u] = p}
    BY <2>2
  <2> QED BY <1>10, <2>1, <2>3 DEF Matches
<1>13. \A u \in Threads : st[u] # "RUNNING"
  BY <1>10 DEF Cpu
<1>14. Dispatched(st) /\ ClockTypes'
  BY <1>8, <1>9, <1>11, <1>12, <1>13, ScheduleDispatches DEF Lists
<1>15. Cpu' /\ Settles(st)
  BY <1>14, DispatchSettles
<1>16. BlockStates'
  <2> SUFFICES ASSUME NEW u \in Threads
               PROVE  /\ state'[u] = "BLOCKED" <=> waitObject'[u] # NULL \/ deadline'[u] # NoDeadline
                      /\ waitStatus'[u] = "PENDING" <=> state'[u] = "BLOCKED"
    BY DEF BlockStates
  <2>1. state'[u] = "BLOCKED" <=> st[u] = "BLOCKED"
    BY <1>15 DEF Settles
  <2>2. CASE u = t
    <3>1. waitStatus'[u] = "PENDING" /\ waitObject'[u] = o
          /\ deadline'[u] = IF ticks = Infinite THEN NoDeadline ELSE ticks
      BY <2>2, <1>1 DEF Lists, BlockTypes
    <3>2. waitObject'[u] # NULL \/ deadline'[u] # NoDeadline
      BY <3>1, <1>2, <1>0 DEF NoDeadline, Infinite
    <3> QED BY <2>1, <2>2, <3>1, <3>2, <1>10
  <2>3. CASE u # t
    <3>1. waitStatus'[u] = waitStatus[u] /\ waitObject'[u] = waitObject[u] /\ deadline'[u] = deadline[u]
      BY <2>3, <1>1 DEF Lists, BlockTypes
    <3> QED BY <2>1, <2>3, <3>1, <1>10 DEF BlockStates
  <2> QED BY <2>2, <2>3
<1> QED BY <1>1, <1>9, <1>14, <1>15, <1>16 DEF st

-----------------------------------------------------------------------------
(* Termination.                                                            *)

Live == {"READY", "RUNNING", "BLOCKED"}
Alive == Live \cup {"NEW"}

\* TerminatedHasOneOwner and JoinTargetStable are not inductive by themselves:
\* a thread that has not ended is neither consumed nor signalled, whoever
\* waits for a termination event is a blocked joiner, and only a live thread
\* (or the idle thread) joins or finalizes.
ClaimsOf(t) ==
  /\ state[t] \in Alive => signal[t] = 0 /\ claim[t] # "CONSUMED"
  /\ state[t] \in Alive /\ terminationMode[t] = "DETACHED" => claim[t] = "UNCLAIMED"
  /\ waitObject[t] \in Threads => pc[t] = "joinBlocked" /\ target[t] = waitObject[t]
  /\ target[t] # NULL => state[t] \in Live

Claims == \A t \in Threads : ClaimsOf(t)

Life == TerminatedHasOneOwner /\ JoinTargetStable /\ Claims

\* Whatever happens between two steps of joining, detaching and reaping.
LEMMA LifeFrame ==
  ASSUME Life, LifeTypes,
         UNCHANGED <<target, terminationMode, claim, terminatedList>>,
         pc' = pc \/ (pc[Idle] # "finalize" /\ pc' = [pc EXCEPT ![Idle] = "reap"]),
         \A t \in Threads : signal'[t] = signal[t],
         \A t \in Threads : state'[t] = state[t] \/ (state[t] \in Alive /\ state'[t] \in Live),
         \A t \in Threads : waitObject'[t] \in Threads => waitObject'[t] = waitObject[t],
         \A t \in Threads : pc[t] = "joinBlocked" =>
            /\ waitStatus'[t] = "SUCCESS" => waitStatus[t] = "SUCCESS"
            /\ state'[t] = "BLOCKED" => waitObject'[t] = target[t]
  PROVE  Life'
<1>0. /\ Idle \notin Threads /\ Threads \subseteq AllThreads /\ Idle \in AllThreads
      /\ AllThreads = Threads \cup {Idle} /\ NULL \notin AllThreads
  BY SchedulerAssumption DEF AllThreads, Objects
<1>1. \A t \in Threads : pc'[t] = pc[t]
  BY <1>0 DEF LifeTypes
<1>2. \A t \in AllThreads : /\ pc'[t] = "finalize" <=> pc[t] = "finalize"
                            /\ \A p \in JoinPcs : pc'[t] = p <=> pc[t] = p
  BY <1>0 DEF LifeTypes, IdlePcs, JoinPcs
<1>3. \A t \in Threads : /\ state'[t] = "TERMINATED" <=> state[t] = "TERMINATED"
                         /\ state'[t] = "FREE" <=> state[t] = "FREE"
                         /\ state'[t] \in Alive => state[t] \in Alive
                         /\ state[t] \in Live => state'[t] \in Live
  BY DEF Alive, Live
<1>4. TerminatedHasOneOwner'
  <2>1. ReaperListExact'
    BY <1>3 DEF Life, TerminatedHasOneOwner, ReaperListExact
  <2>2. ASSUME NEW t \in Threads PROVE ClaimHasHolder(t)'
    BY <1>1, <1>2, <1>3 DEF Life, TerminatedHasOneOwner, ClaimHasHolder
  <2>3. TargetsUnique'
    BY DEF Life, TerminatedHasOneOwner, TargetsUnique
  <2>4. \A t \in Threads : state'[t] = "TERMINATED" => signal'[t] = 1
    BY <1>3 DEF Life, TerminatedHasOneOwner
  <2> QED BY <2>1, <2>2, <2>3, <2>4 DEF TerminatedHasOneOwner
<1>5. JoinTargetStable'
  <2> SUFFICES ASSUME NEW t \in AllThreads PROVE JoinStable(t)'
    BY DEF JoinTargetStable
  <2>1. target'[t] # NULL <=> pc'[t] \in JoinPcs \cup {"finalize"}
    BY <1>2 DEF Life, JoinTargetStable, JoinStable
  <2>2. CASE pc'[t] \in JoinPcs
    <3>1. pc[t] \in JoinPcs /\ t \in Threads /\ pc'[t] = pc[t] /\ target'[t] = target[t]
      BY <2>2, <1>0, <1>1, <1>2 DEF LifeTypes, IdlePcs, JoinPcs
    <3>2. target[t] \in Threads
      BY <3>1 DEF Life, JoinTargetStable, JoinStable, LifeTypes
    <3> QED BY <2>1, <3>1, <3>2, <1>3 DEF Life, JoinTargetStable, JoinStable, JoinPcs
  <2>3. CASE pc'[t] \notin JoinPcs
    BY <2>1, <2>3 DEF JoinPcs, JoinStable
  <2> QED BY <2>2, <2>3
<1>6. Claims'
  BY <1>1, <1>3 DEF Life, Claims, ClaimsOf
<1> QED BY <1>4, <1>5, <1>6 DEF Life

\* Waking threads that do not wait for a termination event, or waking any
\* threads by their timeout, is part of the frame.
LEMMA WakeLife ==
  ASSUME Life, LifeTypes, BlockStates, BlockTypes,
         UNCHANGED <<target, terminationMode, claim, terminatedList>>,
         pc' = pc \/ (pc[Idle] # "finalize" /\ pc' = [pc EXCEPT ![Idle] = "reap"]),
         \A t \in Threads : signal'[t] = signal[t],
         NEW ws \in Seq(Threads), \A t \in Range(ws) : state[t] = "BLOCKED",
         NEW status \in {"SUCCESS", "TIMEOUT"}, Completes(ws, status),
         status = "TIMEOUT" \/ \A t \in Range(ws) : waitObject[t] \notin Threads,
         NEW st, Settles(st),
         \A t \in Threads : IF t \in Range(ws) THEN st[t] = "READY"
                            ELSE st[t] = state[t] \/ (state[t] = "RUNNING" /\ st[t] = "READY")
  PROVE  Life'
<1>0. /\ Threads \subseteq AllThreads /\ NULL \notin Threads
  BY SchedulerAssumption DEF AllThreads, Objects
<1>1. \A t \in Threads : state'[t] = state[t] \/ (state[t] \in Alive /\ state'[t] \in Live)
  BY DEF Settles, Alive, Live
<1>2. \A t \in Threads : waitObject'[t] \in Threads => waitObject'[t] = waitObject[t]
  BY <1>0 DEF Completes
<1>3. ASSUME NEW t \in Threads, pc[t] = "joinBlocked"
      PROVE  /\ waitStatus'[t] = "SUCCESS" => waitStatus[t] = "SUCCESS"
             /\ state'[t] = "BLOCKED" => waitObject'[t] = target[t]
  <2>1. state[t] = "BLOCKED" => waitObject[t] = target[t] /\ target[t] \in Threads
    BY <1>0, <1>3 DEF Life, JoinTargetStable, JoinStable, LifeTypes, JoinPcs
  <2>2. CASE t \in Range(ws)
    <3>1. status = "TIMEOUT"
      BY <2>1, <2>2
    <3>2. state'[t] # "BLOCKED"
      BY <2>2 DEF Settles
    <3> QED BY <2>2, <3>1, <3>2 DEF Completes
  <2>3. CASE t \notin Range(ws)
    <3>1. waitStatus'[t] = waitStatus[t] /\ waitObject'[t] = waitObject[t]
      BY <2>3 DEF Completes
    <3>2. state'[t] = "BLOCKED" => state[t] = "BLOCKED"
      BY <2>3 DEF Settles
    <3> QED BY <3>1, <3>2, <2>1
  <2> QED BY <2>2, <2>3
<1> QED BY <1>1, <1>2, <1>3, LifeFrame

-----------------------------------------------------------------------------
(* The inductive invariant and its preservation by each action.            *)

CoreInv ==
  /\ LifeTypes /\ LockTypes /\ ClockTypes /\ timerPending \in BOOLEAN
  /\ Cpu /\ Lists /\ BlockStates
  /\ Life

\* Facts about the constants that most steps need.
LEMMA Names ==
  /\ Idle \notin Threads /\ Threads \subseteq AllThreads /\ Idle \in AllThreads
  /\ AllThreads = Threads \cup {Idle} /\ Threads \subseteq Objects
  /\ Events \subseteq Objects /\ Semaphores \subseteq Objects /\ Mutexes \subseteq Objects
  /\ NULL \notin Objects /\ NULL \notin AllThreads
  /\ Threads \cap (Events \cup Semaphores \cup Mutexes) = {}
  /\ Semaphores \cap (Events \cup Mutexes \cup Threads) = {}
  /\ Events \cap Mutexes = {}
BY SchedulerAssumption DEF AllThreads, Objects

\* A thread that is being joined or finalized is not free, and its claim
\* says which of the two it is.
LEMMA TargetClaimed ==
  ASSUME LifeTypes, Life, NEW c \in AllThreads, target[c] # NULL
  PROVE  /\ target[c] \in Threads /\ state[target[c]] # "FREE"
         /\ claim[target[c]] # "UNCLAIMED"
         /\ pc[c] \in JoinPcs => claim[target[c]] = "JOIN_IN_PROGRESS"
         /\ pc[c] = "finalize" => state[target[c]] = "TERMINATED" /\ claim[target[c]] = "CONSUMED"
         /\ pc[c] \in JoinPcs \cup {"finalize"}
<1>1. target[c] \in Threads /\ pc[c] \in JoinPcs \cup {"finalize"}
  BY DEF LifeTypes, Life, JoinTargetStable, JoinStable
<1>2. CASE pc[c] \in JoinPcs
  BY <1>1, <1>2 DEF Life, JoinTargetStable, JoinStable, JoinPcs
<1>3. CASE pc[c] = "finalize"
  BY <1>1, <1>3 DEF Life, TerminatedHasOneOwner, ClaimHasHolder, JoinPcs
<1> QED BY <1>1, <1>2, <1>3

\* KiThreadCreateInternal reuses a slot that nothing refers to.
LEMMA CreateCore ==
  ASSUME CoreInv, NEW c \in AllThreads, NEW t \in Threads,
         NEW mode \in {"DETACHED", "JOINABLE"}, KiThreadCreateInternal(c, t, mode)
  PROVE  CoreInv'
<1> USE DEF CoreInv
<1>0. state[t] = "FREE" /\ t \in AllThreads /\ t \in Objects /\ t # Idle /\ t \notin Semaphores
  BY Names DEF KiThreadCreateInternal
<1>1. waitObject[t] = NULL /\ deadline[t] = NoDeadline
  BY <1>0 DEF BlockStates
<1>2. \A d \in AllThreads : target[d] # t
  BY <1>0, Names, TargetClaimed
<1>3. waitList[t] = << >>
  <2>1. \A u \in Threads : waitObject[u] # t
    BY <1>2, Names DEF Life, Claims, ClaimsOf
  <2>2. Range(waitList[t]) = {} /\ waitList[t] \in Seq(Threads)
    BY <1>0, <2>1 DEF Lists, BlockTypes
  <2> QED BY <2>2, EmptyRange
<1>4. /\ waitObject' = waitObject /\ deadline' = deadline /\ waitList' = waitList
      /\ timeoutQueue' = timeoutQueue
      /\ waitStatus' = [waitStatus EXCEPT ![t] = "SUCCESS"]
  BY <1>0, <1>1, <1>3 DEF KiThreadCreateInternal, Lists, BlockTypes
<1>5. state \in [AllThreads -> States] /\ state' = [state EXCEPT ![t] = "NEW"]
  BY DEF Cpu, Matches, KiThreadCreateInternal
<1>6. \A u \in AllThreads : state'[u] = IF u = t THEN "NEW" ELSE state[u]
  BY <1>0, <1>5
<1>7. Lists' /\ BlockStates'
  <2>1. BlockTypes'
    BY <1>4 DEF Lists, BlockTypes
  <2>2. Lists'
    BY <1>4, <2>1 DEF Lists
  <2>3. BlockStates'
    BY <1>0, <1>4, <1>6, Names DEF BlockStates, Lists, BlockTypes
  <2> QED BY <2>2, <2>3
<1>8. Cpu'
  <2>1. state' \in [AllThreads -> States]
    BY <1>0, <1>5 DEF States
  <2>2. readyQueues' = readyQueues /\ currentThread' = currentThread
    BY DEF KiThreadCreateInternal
  <2>3. \A p \in Priorities : {u \in Threads : state[u] = "READY" /\ Priority[u] = p}
                             = {u \in Threads : state'[u] = "READY" /\ Priority[u] = p}
    BY <1>0, <1>6, Names
  <2>4. Matches(state', readyQueues')
    BY <2>1, <2>2, <2>3 DEF Cpu, Matches
  <2>5. \A u \in Threads : state'[u] = "RUNNING" <=> currentThread' = u
    BY <2>2, <1>0, <1>6, Names DEF Cpu
  <2> QED BY <2>2, <2>4, <2>5 DEF Cpu, Matches
<1>9. LifeTypes' /\ LockTypes' /\ ClockTypes' /\ timerPending' \in BOOLEAN
  <2>1. LifeTypes'
    BY <1>0 DEF KiThreadCreateInternal, LifeTypes, ThreadPcs
  <2>2. LockTypes'
    BY <1>0 DEF KiThreadCreateInternal, LockTypes
  <2> QED BY <2>1, <2>2 DEF KiThreadCreateInternal, ClockTypes, clockVars
<1>10. /\ pc' = [pc EXCEPT ![t] = "run"] /\ target' = [target EXCEPT ![t] = NULL]
       /\ claim' = [claim EXCEPT ![t] = "UNCLAIMED"] /\ signal' = [signal EXCEPT ![t] = 0]
       /\ terminationMode' = [terminationMode EXCEPT ![t] = mode]
       /\ terminatedList' = terminatedList
  BY DEF KiThreadCreateInternal
<1>11. target[t] = NULL
  BY <1>0 DEF Life, Claims, ClaimsOf, Live
<1>12. target' = target /\ pc[t] \notin JoinPcs \cup {"finalize"}
  BY <1>0, <1>10, <1>11 DEF LifeTypes, Life, JoinTargetStable, JoinStable
<1>13. \A u \in Threads : u # t => claim'[u] = claim[u] /\ signal'[u] = signal[u]
                                    /\ terminationMode'[u] = terminationMode[u]
  BY <1>10, Names DEF LifeTypes, LockTypes
<1>14. claim'[t] = "UNCLAIMED" /\ signal'[t] = 0
  BY <1>0, <1>10 DEF LifeTypes, LockTypes
<1>15. \A d \in AllThreads : pc'[d] = IF d = t THEN "run" ELSE pc[d]
  BY <1>0, <1>10 DEF LifeTypes
<1>16. TerminatedHasOneOwner'
  <2>1. ReaperListExact'
    BY <1>0, <1>6, <1>10, <1>13, Names DEF Life, TerminatedHasOneOwner, ReaperListExact
  <2>2. ASSUME NEW u \in Threads PROVE ClaimHasHolder(u)'
    <3>1. CASE u = t
      BY <3>1, <1>0, <1>2, <1>6, <1>12, <1>14 DEF ClaimHasHolder
    <3>2. CASE u # t
      BY <3>2, <1>6, <1>12, <1>13, <1>15, Names DEF Life, TerminatedHasOneOwner, ClaimHasHolder
    <3> QED BY <3>1, <3>2
  <2>3. TargetsUnique'
    BY <1>12 DEF Life, TerminatedHasOneOwner, TargetsUnique
  <2>4. \A u \in Threads : state'[u] = "TERMINATED" => signal'[u] = 1
    BY <1>6, <1>13, Names DEF Life, TerminatedHasOneOwner
  <2> QED BY <2>1, <2>2, <2>3, <2>4 DEF TerminatedHasOneOwner
<1>17. JoinTargetStable'
  <2> SUFFICES ASSUME NEW d \in AllThreads PROVE JoinStable(d)'
    BY DEF JoinTargetStable
  <2>1. CASE d = t
    BY <2>1, <1>11, <1>12, <1>15 DEF JoinPcs, JoinStable
  <2>2. CASE d # t
    <3>1. pc'[d] = pc[d] /\ target'[d] = target[d] /\ state'[d] = state[d] /\ waitObject' = waitObject
      BY <2>2, <1>4, <1>6, <1>12, <1>15
    <3>2. CASE pc[d] \in JoinPcs
      <4>1. d \in Threads /\ waitStatus'[d] = waitStatus[d]
        BY <3>2, <2>2, <1>4, Names DEF LifeTypes, IdlePcs, JoinPcs, Lists, BlockTypes
      <4>2. target[d] \in Threads /\ target[d] # t
        BY <3>2, <1>2 DEF LifeTypes, Life, JoinTargetStable, JoinStable
      <4> QED BY <3>1, <4>1, <4>2, <1>6, <1>13, Names DEF Life, JoinTargetStable, JoinStable
    <3>3. CASE pc[d] \notin JoinPcs
      BY <3>1, <3>3 DEF Life, JoinTargetStable, JoinStable, JoinPcs
    <3> QED BY <3>2, <3>3
  <2> QED BY <2>1, <2>2
<1>18. Claims'
  <2> SUFFICES ASSUME NEW u \in Threads PROVE ClaimsOf(u)'
    BY DEF Claims
  <2>1. CASE u = t
    BY <2>1, <1>1, <1>4, <1>11, <1>12, <1>14, Names DEF ClaimsOf
  <2>2. CASE u # t
    BY <2>2, <1>4, <1>6, <1>12, <1>13, <1>15, Names DEF Life, Claims, ClaimsOf
  <2> QED BY <2>1, <2>2
<1> QED BY <1>7, <1>8, <1>9, <1>16, <1>17, <1>18 DEF Life

\* Steps that leave the CPU, the queues and the life cycle alone.
LEMMA QuietCore ==
  ASSUME CoreInv, UNCHANGED <<blockVars, cpuVars>>, UNCHANGED lifeVars,
         LockTypes', ClockTypes', timerPending' \in BOOLEAN,
         \A t \in Threads : signal'[t] = signal[t]
  PROVE  CoreInv'
<1>1. LifeTypes' /\ Cpu' /\ Lists' /\ BlockStates'
  BY DEF CoreInv, blockVars, cpuVars, lifeVars, LifeTypes, Cpu, Matches, Lists, BlockTypes, BlockStates
<1>2. Life'
  <2>1. \A t \in Threads : pc[t] = "joinBlocked" /\ state[t] = "BLOCKED" => waitObject[t] = target[t]
    BY Names DEF CoreInv, Life, JoinTargetStable, JoinStable
  <2> QED BY <2>1, LifeFrame DEF CoreInv, blockVars, cpuVars, lifeVars
<1> QED BY <1>1, <1>2 DEF CoreInv

\* KeThreadStart links a thread that is in no queue.
LEMMA StartCore ==
  ASSUME CoreInv, NEW c \in AllThreads, NEW t \in Threads, KeThreadStart(c, t)
  PROVE  CoreInv'
<1> USE DEF CoreInv
<1>0. state[t] = "NEW" /\ t \in AllThreads /\ state \in [AllThreads -> States]
  BY Names DEF KeThreadStart, Cpu, Matches
<1>1. <<t>> \in Seq(Threads) /\ Range(<<t>>) = {t} /\ Distinct(<<t>>)
  BY SingletonProperties
<1>2. state' = StateReady(state, <<t>>) /\ readyQueues' = EnqueueReady(readyQueues, <<t>>)
  BY <1>0, <1>1 DEF KeThreadStart, StateReady
<1>3. Matches(state, readyQueues)
  BY DEF Cpu
<1>4. \A u \in Range(<<t>>) : state[u] # "READY"
  BY <1>0, <1>1
<1>5. Matches(state', readyQueues')
  BY <1>1, <1>2, <1>3, <1>4, EnqueueMatches
<1>6. \A u \in AllThreads : state'[u] = IF u = t THEN "READY" ELSE state[u]
  BY <1>0 DEF KeThreadStart
<1>7. UNCHANGED <<pc, target, terminationMode, claim, terminatedList, blockVars, lockVars,
                  currentThread, quantumDeadline, nextProgrammedDeadline, timerPending>>
  BY DEF KeThreadStart
<1>8. Cpu'
  <2>1. \A u \in Threads : state'[u] = "RUNNING" <=> currentThread' = u
    BY <1>0, <1>6, <1>7, Names DEF Cpu
  <2>2. currentThread' \in AllThreads
    BY <1>7 DEF Cpu
  <2> QED BY <1>5, <2>1, <2>2 DEF Cpu, Matches
<1>9. Lists' /\ BlockStates'
  <2>1. Lists'
    BY <1>7 DEF Lists, BlockTypes, blockVars
  <2>2. BlockStates'
    BY <1>0, <1>6, <1>7, Names DEF BlockStates, blockVars
  <2> QED BY <2>1, <2>2
<1>10. LifeTypes' /\ LockTypes' /\ ClockTypes' /\ timerPending' \in BOOLEAN
  <2>1. LifeTypes'
    BY DEF KeThreadStart, LifeTypes
  <2>2. oneShot' \in Nat
    BY SchedulerAssumption DEF KeThreadStart, KiArmClockEvent, Min2, ClockTypes
  <2> QED BY <1>7, <2>1, <2>2 DEF LockTypes, lockVars, ClockTypes
<1>11. Life'
  <2>1. \A u \in Threads : state'[u] = state[u] \/ (state[u] \in Alive /\ state'[u] \in Live)
    BY <1>0, <1>6, Names DEF Alive, Live
  <2>2. \A u \in Threads : pc[u] = "joinBlocked" =>
           /\ waitStatus'[u] = "SUCCESS" => waitStatus[u] = "SUCCESS"
           /\ state'[u] = "BLOCKED" => waitObject'[u] = target[u]
    BY <1>6, <1>7, Names DEF Life, JoinTargetStable, JoinStable, blockVars
  <2> QED BY <1>7, <2>1, <2>2, LifeFrame DEF blockVars, lockVars
<1> QED BY <1>8, <1>9, <1>10, <1>11

\* KeYield moves the running thread to the tail of its queue.
LEMMA YieldCore ==
  ASSUME CoreInv, NEW t \in Threads, KeYield(t)
  PROVE  CoreInv'
<1> USE DEF CoreInv
<1> DEFINE st == StateReady(state, <<t>>)
           rq == EnqueueReady(readyQueues, <<t>>)
<1>0. currentThread = t /\ state[t] = "RUNNING"
  BY DEF KeYield, Executes, Cpu
<1>1. <<t>> \in Seq(Threads) /\ Range(<<t>>) = {t} /\ Distinct(<<t>>)
  BY SingletonProperties
<1>2. Matches(st, rq)
  <2>1. Matches(state, readyQueues) /\ \A u \in Range(<<t>>) : state[u] # "READY"
    BY <1>0, <1>1 DEF Cpu
  <2> QED BY <1>1, <2>1, EnqueueMatches
<1>3. \A u \in Threads : st[u] = IF u = t THEN "READY" ELSE state[u]
  BY <1>1, StateReadyValue, Names
<1>4. KiSchedule(st, rq) /\ UNCHANGED <<lifeVars, blockVars, lockVars, timerPending>>
  BY DEF KeYield
<1> HIDE DEF st, rq
<1>5. LifeTypes' /\ LockTypes' /\ Lists' /\ timerPending' \in BOOLEAN
  BY <1>4 DEF lifeVars, LifeTypes, lockVars, LockTypes, blockVars, Lists, BlockTypes
<1>6. Dispatched(st) /\ ClockTypes'
  <2>1. \A u \in Threads : st[u] # "RUNNING"
    BY <1>0, <1>3 DEF Cpu
  <2> QED BY <1>2, <1>4, <1>5, <2>1, ScheduleDispatches DEF Lists
<1>7. Cpu' /\ Settles(st)
  BY <1>6, DispatchSettles
<1>8. \A u \in Threads : state'[u] = "BLOCKED" <=> state[u] = "BLOCKED"
  BY <1>0, <1>3, <1>7 DEF Settles
<1>9. BlockStates'
  BY <1>4, <1>8 DEF BlockStates, blockVars
<1>10. Life'
  <2>1. \A u \in Threads : state'[u] = state[u] \/ (state[u] \in Alive /\ state'[u] \in Live)
    BY <1>0, <1>3, <1>7 DEF Settles, Alive, Live
  <2>2. \A u \in Threads : pc[u] = "joinBlocked" =>
           /\ waitStatus'[u] = "SUCCESS" => waitStatus[u] = "SUCCESS"
           /\ state'[u] = "BLOCKED" => waitObject'[u] = target[u]
    BY <1>4, <1>8, Names DEF Life, JoinTargetStable, JoinStable, blockVars
  <2> QED BY <1>4, <2>1, <2>2, LifeFrame DEF lifeVars, blockVars, lockVars
<1> QED BY <1>5, <1>6, <1>7, <1>9, <1>10

\* Blocking outside a join: KeSleep and KeWaitForSingleObject.
LEMMA BlockCore ==
  ASSUME CoreInv, NEW t \in Threads, currentThread = t, pc[t] = "run",
         NEW o \in (Objects \ Threads) \cup {NULL}, NEW ticks \in Durations,
         o = NULL => ticks \in Timeouts, BlockCurrent(t, o, ticks),
         UNCHANGED <<lifeVars, lockVars, timerPending>>
  PROVE  CoreInv'
<1> USE DEF CoreInv
<1>0. state[t] = "RUNNING" /\ state \in [AllThreads -> States] /\ o \notin Threads
  BY Names DEF Cpu, Matches
<1>1. /\ Cpu' /\ Lists' /\ BlockStates' /\ ClockTypes'
      /\ waitObject' = [waitObject EXCEPT ![t] = o]
      /\ waitStatus' = [waitStatus EXCEPT ![t] = "PENDING"]
      /\ Settles([state EXCEPT ![t] = "BLOCKED"])
  BY BlockCurrentBlocks
<1>2. LifeTypes' /\ LockTypes' /\ timerPending' \in BOOLEAN
  BY DEF lifeVars, LifeTypes, lockVars, LockTypes
<1>3. \A u \in Threads : u # t => state'[u] = state[u] \/ (state[u] = "READY" /\ state'[u] = "RUNNING")
  BY <1>0, <1>1, Names DEF Settles
<1>4. state'[t] = "BLOCKED"
  BY <1>0, <1>1, Names DEF Settles
<1>5. \A u \in Threads : state'[u] = state[u] \/ (state[u] \in Alive /\ state'[u] \in Live)
  BY <1>0, <1>3, <1>4 DEF Alive, Live
<1>6. \A u \in Threads : u # t => waitObject'[u] = waitObject[u] /\ waitStatus'[u] = waitStatus[u]
  BY <1>1 DEF Lists, BlockTypes
<1>7. \A u \in Threads : waitObject'[u] \in Threads => waitObject'[u] = waitObject[u]
  BY <1>0, <1>1, <1>6 DEF Lists, BlockTypes
<1>8. \A u \in Threads : pc[u] = "joinBlocked" =>
           /\ waitStatus'[u] = "SUCCESS" => waitStatus[u] = "SUCCESS"
           /\ state'[u] = "BLOCKED" => waitObject'[u] = target[u]
  <2> SUFFICES ASSUME NEW u \in Threads, pc[u] = "joinBlocked"
               PROVE  /\ waitStatus'[u] = "SUCCESS" => waitStatus[u] = "SUCCESS"
                      /\ state'[u] = "BLOCKED" => waitObject'[u] = target[u]
    OBVIOUS
  <2>1. u # t
    OBVIOUS
  <2>2. state'[u] = "BLOCKED" => state[u] = "BLOCKED"
    BY <2>1, <1>3
  <2> QED BY <2>1, <2>2, <1>6, Names DEF Life, JoinTargetStable, JoinStable
<1>9. Life'
  BY <1>5, <1>7, <1>8, LifeFrame DEF lifeVars, lockVars
<1> QED BY <1>1, <1>2, <1>9

\* KeSleep blocks on the timeout queue only.
LEMMA SleepCore ==
  ASSUME CoreInv, NEW t \in Threads, NEW ticks \in Timeouts, KeSleep(t, ticks)
  PROVE  CoreInv'
<1>1. currentThread = t /\ pc[t] = "run"
  BY DEF CoreInv, LifeTypes, KeSleep, Executes, ThreadPcs, JoinPcs
<1>2. ticks \in Durations
  BY DEF Durations
<1> QED BY <1>1, <1>2, BlockCore DEF KeSleep

\* KeWaitForSingleObject takes the object or blocks on it.
LEMMA WaitCore ==
  ASSUME CoreInv, NEW t \in Threads, NEW o \in Objects \ Threads, NEW ticks \in Durations,
         KeWaitForSingleObject(t, o, ticks)
  PROVE  CoreInv'
<1>0. currentThread = t /\ pc[t] = "run"
  BY DEF CoreInv, LifeTypes, KeWaitForSingleObject, Executes, ThreadPcs, JoinPcs
<1>1. CASE KiTryAcquireDispatcherObject(t, o) /\ UNCHANGED <<blockVars, cpuVars, clockVars>>
  <2>1. UNCHANGED <<lifeVars, timerPending>>
    BY DEF KeWaitForSingleObject
  <2>2. ClockTypes' /\ timerPending' \in BOOLEAN
    BY <1>1, <2>1 DEF CoreInv, ClockTypes, clockVars
  <2>3. signal \in [Objects -> Nat] /\ signal[o] \in Nat \ {0}
    BY <1>1 DEF KiTryAcquireDispatcherObject, CoreInv, LockTypes
  <2>4. LockTypes'
    BY <1>1, <2>3, Names, SchedulerAssumption DEF KiTryAcquireDispatcherObject, CoreInv, LockTypes
  <2>5. \A u \in Threads : signal'[u] = signal[u]
    BY <1>1, <2>3, Names DEF KiTryAcquireDispatcherObject
  <2> QED BY <1>1, <2>1, <2>2, <2>4, <2>5, QuietCore
<1>2. CASE BlockCurrent(t, o, ticks) /\ UNCHANGED lockVars
  <2>1. UNCHANGED <<lifeVars, lockVars, timerPending>>
    BY <1>2 DEF KeWaitForSingleObject
  <2>2. o # NULL
    BY Names
  <2> QED BY <1>0, <1>2, <2>1, <2>2, BlockCore
<1> QED BY <1>1, <1>2 DEF KeWaitForSingleObject

\* Waking waiters of an object that is not a termination event, with or
\* without a switch away from the idle thread.
LEMMA WakeCore ==
  ASSUME CoreInv, NEW o \in Objects \ Threads,
         NEW ws \in Seq(Threads), Distinct(ws), Range(ws) \subseteq Range(waitList[o]),
         KiCompleteWait(ws, "SUCCESS"),
         \/ ScheduleIfIdle(StateReady(state, ws), EnqueueReady(readyQueues, ws))
         \/ KeepRunning(StateReady(state, ws), EnqueueReady(readyQueues, ws)),
         UNCHANGED <<target, terminationMode, claim, terminatedList, activeThreadCount>>,
         pc' = pc \/ (pc[Idle] # "finalize" /\ pc' = [pc EXCEPT ![Idle] = "reap"]),
         LockTypes', timerPending' \in BOOLEAN, \A t \in Threads : signal'[t] = signal[t]
  PROVE  CoreInv'
<1> USE DEF CoreInv
<1>1. \A t \in Range(ws) : t \in Threads /\ waitObject[t] = o
  BY DEF Lists
<1>2. \A t \in Range(ws) : state[t] = "BLOCKED"
  BY <1>1, Names DEF BlockStates
<1>3. /\ Cpu' /\ Lists' /\ BlockStates' /\ ClockTypes'
      /\ Completes(ws, "SUCCESS") /\ Settles(StateReady(state, ws))
  BY <1>2, ScheduleIfIdleWakes
<1>4. \A t \in Threads : StateReady(state, ws)[t] = IF t \in Range(ws) THEN "READY" ELSE state[t]
  BY StateReadyValue, Names
<1>5. BlockTypes /\ \A t \in Range(ws) : waitObject[t] \notin Threads
  BY <1>1 DEF Lists
<1>6. Life'
  BY <1>2, <1>3, <1>4, <1>5, WakeLife
<1>7. LifeTypes'
  BY Names DEF LifeTypes, IdlePcs
<1> QED BY <1>3, <1>6, <1>7

\* KeSetEvent completes every wait on the event.
LEMMA SetEventCore ==
  ASSUME CoreInv, NEW e \in Events, SetEvent(e),
         UNCHANGED <<target, terminationMode, claim, terminatedList, activeThreadCount>>,
         pc' = pc \/ (pc[Idle] # "finalize" /\ pc' = [pc EXCEPT ![Idle] = "reap"]),
         timerPending' \in BOOLEAN
  PROVE  CoreInv'
<1> USE DEF CoreInv
<1>1. e \in Objects \ Threads /\ e \notin Semaphores
  BY Names
<1>2. waitList[e] \in Seq(Threads) /\ Distinct(waitList[e])
  BY <1>1 DEF Lists, BlockTypes
<1>3. LockTypes'
  BY <1>1 DEF SetEvent, LockTypes
<1>4. \A t \in Threads : signal'[t] = signal[t]
  BY <1>1, Names DEF SetEvent, LockTypes
<1> QED BY <1>1, <1>2, <1>3, <1>4, WakeCore DEF SetEvent

\* KeReleaseSemaphore keeps the count within the limit and wakes a prefix of
\* the waiters.
LEMMA ReleaseSemaphoreCore ==
  ASSUME CoreInv, NEW c \in AllThreads, NEW s \in Semaphores, NEW n \in 1 .. Limit[s] + 1,
         KeReleaseSemaphore(c, s, n)
  PROVE  CoreInv'
<1> USE DEF CoreInv
<1> DEFINE released == Min2(n, Len(waitList[s]))
           woken == SubSeq(waitList[s], 1, released)
<1>0. s \in Objects \ Threads /\ Limit[s] \in Nat
  BY Names, SchedulerAssumption
<1>1. waitList[s] \in Seq(Threads) /\ Distinct(waitList[s]) /\ Len(waitList[s]) \in Nat
  BY <1>0 DEF Lists, BlockTypes
<1>2. released \in 0 .. Len(waitList[s]) /\ n - released \in Nat
  BY <1>0, <1>1 DEF Min2
<1>3. /\ signal[s] + (n - released) <= Limit[s]
      /\ signal' = [signal EXCEPT ![s] = signal[s] + (n - released)]
      /\ KiCompleteWait(woken, "SUCCESS")
      /\ ScheduleIfIdle(StateReady(state, woken), EnqueueReady(readyQueues, woken))
      /\ UNCHANGED <<lifeVars, owner, ownedMutexCount, timerPending>>
  BY DEF KeReleaseSemaphore, LockTypes
<1> HIDE DEF released
<1>4. woken \in Seq(Threads) /\ Distinct(woken) /\ Range(woken) \subseteq Range(waitList[s])
  BY <1>1, <1>2, FrontProperties
<1> HIDE DEF woken
<1>5. LockTypes'
  BY <1>0, <1>2, <1>3 DEF LockTypes
<1>6. \A t \in Threads : signal'[t] = signal[t]
  BY <1>0, <1>3, Names DEF LockTypes
<1> QED BY <1>0, <1>3, <1>4, <1>5, <1>6, WakeCore DEF lifeVars

\* KeReleaseMutex frees the mutex or hands it to the first waiter.
LEMMA ReleaseMutexCore ==
  ASSUME CoreInv, NEW t \in Threads, NEW m \in Mutexes, KeReleaseMutex(t, m)
  PROVE  CoreInv'
<1> USE DEF CoreInv
<1>0. m \in Objects \ Threads /\ m \notin Semaphores
  BY Names
<1>1. CASE waitList[m] = << >>
  <2>1. /\ signal' = [signal EXCEPT ![m] = 1] /\ owner' = [owner EXCEPT ![m] = NULL]
        /\ ownedMutexCount' = [ownedMutexCount EXCEPT ![t] = ownedMutexCount[t] - 1]
        /\ UNCHANGED <<blockVars, cpuVars, clockVars, lifeVars, timerPending>>
    BY <1>1 DEF KeReleaseMutex, KiHandOffMutexOwnership, LockTypes
  <2>2. LockTypes'
    BY <2>1, <1>0 DEF LockTypes
  <2>3. ClockTypes' /\ timerPending' \in BOOLEAN
    BY <2>1 DEF ClockTypes, clockVars
  <2>4. \A u \in Threads : signal'[u] = signal[u]
    BY <2>1, <1>0, Names DEF LockTypes
  <2> QED BY <2>1, <2>2, <2>3, <2>4, QuietCore
<1>2. CASE waitList[m] # << >>
  <2> DEFINE next == Head(waitList[m])
             ws == <<next>>
  <2>1. waitList[m] \in Seq(Threads)
    BY <1>0 DEF Lists, BlockTypes
  <2>2. next \in Threads /\ next \in Range(waitList[m])
    BY <1>2, <2>1, HeadRemoveProperties
  <2>3. /\ signal' = [signal EXCEPT ![m] = 0] /\ owner' = [owner EXCEPT ![m] = next]
        /\ ownedMutexCount' = [ownedMutexCount EXCEPT ![t] = @ - 1, ![next] = @ + 1]
        /\ KiCompleteWait(ws, "SUCCESS")
        /\ KeepRunning(StateReady(state, ws), EnqueueReady(readyQueues, ws))
        /\ UNCHANGED <<lifeVars, timerPending>>
    BY <1>2 DEF KeReleaseMutex, KiHandOffMutexOwnership
  <2> HIDE DEF next
  <2>4. ws \in Seq(Threads) /\ Range(ws) = {next} /\ Distinct(ws)
    BY <2>2, SingletonProperties
  <2> HIDE DEF ws
  <2>5. LockTypes'
    BY <2>2, <2>3, <1>0 DEF LockTypes
  <2>6. \A u \in Threads : signal'[u] = signal[u]
    BY <2>3, <1>0, Names DEF LockTypes
  <2>7. Range(ws) \subseteq Range(waitList[m])
    BY <2>2, <2>4
  <2> QED BY <1>0, <2>3, <2>4, <2>5, <2>6, <2>7, WakeCore DEF lifeVars
<1> QED BY <1>1, <1>2

-----------------------------------------------------------------------------
(* Time.                                                                   *)

\* The passage of time keeps the linked deadlines linked.
LEMMA TickCore ==
  ASSUME CoreInv, Tick
  PROVE  CoreInv'
<1> USE DEF CoreInv
<1>0. UNCHANGED <<lifeVars, waitObject, waitStatus, waitList, timeoutQueue, lockVars, cpuVars>>
  BY DEF Tick
<1>2. ClockTypes' /\ timerPending' \in BOOLEAN
  <2>1. /\ quantumDeadline' = TickDown(quantumDeadline)
        /\ nextProgrammedDeadline' = TickDown(nextProgrammedDeadline)
        /\ oneShot' = TickDown(oneShot)
    BY DEF Tick
  <2>2. ClockTypes'
    BY <2>1 DEF ClockTypes, TickDown, NoDeadline
  <2>3. timerPending' \in BOOLEAN
    <3>1. timerPending' = (timerPending \/ oneShot = 1)
      BY DEF Tick
    <3> QED BY <3>1, Zenon
  <2> QED BY <2>2, <2>3
<1>3. LifeTypes' /\ LockTypes' /\ Cpu'
  BY <1>0 DEF lifeVars, LifeTypes, lockVars, LockTypes, cpuVars, Cpu, Matches
<1>4. /\ deadline' \in [Threads -> Nat \cup {NoDeadline}]
      /\ \A t \in Threads : deadline'[t] = NoDeadline <=> deadline[t] = NoDeadline
  <2>1. \A t \in Threads : deadline[t] \in Nat \cup {NoDeadline}
    BY DEF Lists, BlockTypes
  <2>2. deadline' = [t \in Threads |-> TickDown(deadline[t])]
    BY DEF Tick
  <2>3. \A t \in Threads : /\ deadline'[t] \in Nat \cup {NoDeadline}
                           /\ deadline'[t] = NoDeadline <=> deadline[t] = NoDeadline
    BY <2>1, <2>2 DEF TickDown, NoDeadline
  <2> QED BY <2>2, <2>3
<1>5. Lists'
  <2>1. BlockTypes'
    BY <1>0, <1>4 DEF Lists, BlockTypes
  <2>2. {t \in Threads : deadline[t] # NoDeadline} = {t \in Threads : deadline'[t] # NoDeadline}
    BY <1>4
  <2> QED BY <2>1, <2>2, <1>0 DEF Lists
<1>6. BlockStates'
  BY <1>0, <1>4 DEF BlockStates, cpuVars
<1>7. Life'
  <2>1. \A t \in Threads : pc[t] = "joinBlocked" /\ state[t] = "BLOCKED" => waitObject[t] = target[t]
    BY Names DEF Life, JoinTargetStable, JoinStable
  <2> QED BY <1>0, <2>1, LifeFrame DEF lifeVars, lockVars, cpuVars
<1> QED BY <1>2, <1>3, <1>5, <1>6, <1>7

\* The wake-up of expired waits and the reschedule that follows it.
LEMMA TimerRescheduleSettles ==
  ASSUME Cpu, Lists, BlockStates, ClockTypes,
         NEW due \in Seq(Threads), Distinct(due), \A t \in Range(due) : state[t] = "BLOCKED",
         KiCompleteWait(due, "TIMEOUT"), TimerReschedule(due)
  PROVE  /\ Cpu' /\ Lists' /\ ClockTypes' /\ Completes(due, "TIMEOUT")
         /\ \E st : /\ Settles(st)
                    /\ \A t \in Threads : IF t \in Range(due) THEN st[t] = "READY"
                          ELSE st[t] = state[t] \/ (state[t] = "RUNNING" /\ st[t] = "READY")
<1> DEFINE st == StateReady(state, due)
           rq == EnqueueReady(readyQueues, due)
           pre == <<currentThread>>
<1>1. Lists' /\ Completes(due, "TIMEOUT")
  BY CompleteLists
<1>2. BlockTypes' /\ \A t \in Range(timeoutQueue') : deadline'[t] # NoDeadline
  BY <1>1 DEF Lists
<1>3. Matches(st, rq)
  <2>1. Matches(state, readyQueues)
    BY DEF Cpu
  <2> QED BY <2>1, EnqueueMatches
<1>4. \A t \in Threads : st[t] = IF t \in Range(due) THEN "READY" ELSE state[t]
  BY StateReadyValue, Names
<1>5. CASE currentThread = Idle /\ KiHasAnyReadyThread(rq) /\ KiSchedule(st, rq)
  <2> HIDE DEF st, rq
  <2>1. \A t \in Threads : st[t] # "RUNNING"
    BY <1>4, <1>5, Names DEF Cpu
  <2>2. Dispatched(st) /\ ClockTypes'
    BY <1>2, <1>3, <1>5, <2>1, ScheduleDispatches
  <2>3. Cpu' /\ Settles(st)
    BY <2>2, DispatchSettles
  <2> QED BY <1>1, <1>4, <2>2, <2>3
<1>6. CASE /\ currentThread # Idle /\ quantumDeadline = 0
           /\ KiSchedule(StateReady(st, pre), EnqueueReady(rq, pre))
  <2> DEFINE st2 == StateReady(st, pre)
             rq2 == EnqueueReady(rq, pre)
  <2>1. currentThread \in Threads /\ state[currentThread] = "RUNNING"
    BY <1>6, Names DEF Cpu
  <2>2. pre \in Seq(Threads) /\ Range(pre) = {currentThread} /\ Distinct(pre)
    BY <2>1, SingletonProperties
  <2>3. currentThread \notin Range(due)
    BY <2>1
  <2> HIDE DEF st, rq
  <2>4. \A t \in Range(pre) : st[t] # "READY"
    BY <2>1, <2>2, <2>3, <1>4
  <2>5. Matches(st2, rq2)
    BY <1>3, <2>2, <2>4, EnqueueMatches
  <2>6. \A t \in Threads : st2[t] = IF t = currentThread THEN "READY" ELSE st[t]
    BY <2>2, StateReadyValue, Names
  <2> HIDE DEF st2, rq2
  <2>7. KiSchedule(st2, rq2)
    BY <1>6 DEF st2, rq2
  <2>8. \A t \in Threads : st2[t] # "RUNNING"
    BY <1>4, <2>6 DEF Cpu
  <2>9. Dispatched(st2) /\ ClockTypes'
    BY <1>2, <2>5, <2>7, <2>8, ScheduleDispatches
  <2>10. Cpu' /\ Settles(st2)
    BY <2>9, DispatchSettles
  <2>11. \A t \in Threads : IF t \in Range(due) THEN st2[t] = "READY"
                          ELSE st2[t] = state[t] \/ (state[t] = "RUNNING" /\ st2[t] = "READY")
    BY <1>4, <2>1, <2>6
  <2> QED BY <1>1, <2>9, <2>10, <2>11
<1>7. CASE state' = st /\ readyQueues' = rq /\ currentThread' = currentThread
           /\ KiArmForNextEvent(currentThread)
  <2> HIDE DEF st, rq
  <2>1. ClockTypes'
    BY <1>2, <1>7, ArmTypes DEF BlockTypes
  <2>2. \A t \in Threads : state'[t] = "RUNNING" <=> currentThread' = t
    BY <1>4, <1>7 DEF Cpu
  <2>3. Cpu'
    BY <1>3, <1>7, <2>2 DEF Cpu, Matches
  <2>4. Settles(st)
    BY <1>7 DEF Settles
  <2> QED BY <1>1, <1>4, <2>1, <2>3, <2>4
<1> QED BY <1>5, <1>6, <1>7 DEF TimerReschedule

\* KiSchedulerTimerISR completes the waits that are due and reschedules.
LEMMA TimerCore ==
  ASSUME CoreInv, KiSchedulerTimerISR
  PROVE  CoreInv'
<1> USE DEF CoreInv
<1>0. /\ UNCHANGED <<target, terminationMode, claim, terminatedList, activeThreadCount>>
      /\ pc' = pc \/ (pc[Idle] # "finalize" /\ pc' = [pc EXCEPT ![Idle] = "reap"])
      /\ timerPending' \in BOOLEAN /\ UNCHANGED lockVars
  BY DEF KiSchedulerTimerISR, WakeFromHalt
<1>1. LifeTypes' /\ LockTypes' /\ \A t \in Threads : signal'[t] = signal[t]
  BY <1>0, Names DEF LifeTypes, IdlePcs, lockVars, LockTypes
<1>2. CASE /\ nextProgrammedDeadline > 0 /\ KiArmClockEvent(nextProgrammedDeadline)
           /\ UNCHANGED <<blockVars, cpuVars, quantumDeadline, nextProgrammedDeadline>>
  <2>1. ClockTypes'
    BY <1>2, SchedulerAssumption DEF ClockTypes, KiArmClockEvent, Min2, NoDeadline
  <2>2. Cpu' /\ Lists' /\ BlockStates'
    BY <1>2 DEF blockVars, cpuVars, Cpu, Matches, Lists, BlockTypes, BlockStates
  <2>3. Life'
    <3>1. \A t \in Threads : pc[t] = "joinBlocked" /\ state[t] = "BLOCKED" => waitObject[t] = target[t]
      BY Names DEF Life, JoinTargetStable, JoinStable
    <3> QED BY <1>0, <1>1, <1>2, <3>1, LifeFrame DEF blockVars, cpuVars
  <2> QED BY <1>0, <1>1, <2>1, <2>2, <2>3
<1>3. CASE /\ KiCompleteWait(Expired(timeoutQueue, deadline), "TIMEOUT")
           /\ TimerReschedule(Expired(timeoutQueue, deadline))
  <2> DEFINE due == Expired(timeoutQueue, deadline)
  <2>1. timeoutQueue \in Seq(Threads) /\ Distinct(timeoutQueue)
        /\ Range(timeoutQueue) = {t \in Threads : deadline[t] # NoDeadline}
    BY DEF Lists, BlockTypes
  <2>2. \A i \in 1 .. Len(timeoutQueue) : deadline[timeoutQueue[i]] \in Nat
    BY <2>1 DEF Range, Lists, BlockTypes
  <2>3. due \in Seq(Threads) /\ Range(due) \subseteq Range(timeoutQueue) /\ Distinct(due)
    BY <2>1, <2>2, ExpiredProperties
  <2> HIDE DEF due
  <2>4. \A t \in Range(due) : state[t] = "BLOCKED"
    BY <2>1, <2>3 DEF BlockStates
  <2>5. /\ Cpu' /\ Lists' /\ ClockTypes' /\ Completes(due, "TIMEOUT")
        /\ \E st : /\ Settles(st)
                   /\ \A t \in Threads : IF t \in Range(due) THEN st[t] = "READY"
                         ELSE st[t] = state[t] \/ (state[t] = "RUNNING" /\ st[t] = "READY")
    BY <1>3, <2>3, <2>4, TimerRescheduleSettles DEF due
  <2>6. PICK st : /\ Settles(st)
                  /\ \A t \in Threads : IF t \in Range(due) THEN st[t] = "READY"
                        ELSE st[t] = state[t] \/ (state[t] = "RUNNING" /\ st[t] = "READY")
    BY <2>5
  <2>7. BlockStates'
    BY <2>3, <2>5, <2>6, WakeBlockStates
  <2>8. Life'
    BY <1>0, <1>1, <2>3, <2>4, <2>5, <2>6, WakeLife DEF Lists
  <2> QED BY <1>0, <1>1, <2>5, <2>7, <2>8
<1> QED BY <1>2, <1>3 DEF KiSchedulerTimerISR

-----------------------------------------------------------------------------
(* Exit, join, detach and reap.                                            *)

\* KeThreadExit publishes the termination, wakes the joiner and, detached,
\* queues the thread for the reaper.
LEMMA ExitCore ==
  ASSUME CoreInv, NEW t \in Threads, KeThreadExit(t)
  PROVE  CoreInv'
<1> USE DEF CoreInv
<1> DEFINE ws == waitList[t]
           st1 == [state EXCEPT ![t] = "TERMINATED"]
           st == StateReady(st1, ws)
           rq == EnqueueReady(readyQueues, ws)
<1>0. /\ currentThread = t /\ pc[t] = "run" /\ t \in Objects /\ t \in AllThreads /\ t \notin Semaphores
      /\ state \in [AllThreads -> States] /\ state[t] = "RUNNING"
  BY Names DEF KeThreadExit, Executes, LifeTypes, ThreadPcs, JoinPcs, Cpu, Matches
<1>1. /\ ws \in Seq(Threads) /\ Distinct(ws)
      /\ Range(ws) = {u \in Threads : waitObject[u] = t}
  BY <1>0 DEF Lists, BlockTypes
<1>2. /\ activeThreadCount' = activeThreadCount - 1
      /\ signal' = [signal EXCEPT ![t] = 1]
      /\ KiCompleteWait(ws, "SUCCESS")
      /\ KiSchedule(st, rq)
      /\ UNCHANGED <<pc, target, terminationMode, claim, owner, ownedMutexCount, timerPending>>
      /\ terminationMode[t] = "DETACHED" => KiQueueDetachedThreadForReaper(t)
      /\ terminationMode[t] # "DETACHED" => terminatedList' = terminatedList
  BY DEF KeThreadExit
<1> HIDE DEF ws
<1>3. \A u \in Range(ws) : u \in Threads /\ state[u] = "BLOCKED" /\ u # t
  BY <1>0, <1>1, Names DEF BlockStates
<1>4. Lists' /\ Completes(ws, "SUCCESS")
  BY <1>1, <1>2, CompleteLists
<1>5. \A u \in AllThreads : st1[u] = IF u = t THEN "TERMINATED" ELSE state[u]
  BY <1>0
<1>6. Matches(st1, readyQueues)
  <2>1. st1 \in [AllThreads -> States]
    BY <1>0 DEF States
  <2>2. \A u \in Threads : st1[u] = "READY" <=> state[u] = "READY"
    BY <1>0, <1>5, Names
  <2> HIDE DEF st1
  <2>3. \A p \in Priorities : {u \in Threads : st1[u] = "READY" /\ Priority[u] = p}
                             = {u \in Threads : state[u] = "READY" /\ Priority[u] = p}
    BY <2>2
  <2> QED BY <2>1, <2>3 DEF Cpu, Matches
<1> HIDE DEF st1
<1>7. Matches(st, rq)
  <2>1. \A u \in Range(ws) : st1[u] # "READY"
    BY <1>3, <1>5, Names
  <2> QED BY <1>1, <1>6, <2>1, EnqueueMatches
<1>8. \A u \in Threads : st[u] = IF u \in Range(ws) THEN "READY"
                                 ELSE IF u = t THEN "TERMINATED" ELSE state[u]
  BY <1>5, StateReadyValue, Names
<1> HIDE DEF st, rq
<1>9. Dispatched(st) /\ ClockTypes'
  <2>1. \A u \in Threads : st[u] # "RUNNING"
    BY <1>0, <1>8 DEF Cpu
  <2>2. BlockTypes' /\ \A u \in Range(timeoutQueue') : deadline'[u] # NoDeadline
    BY <1>4 DEF Lists
  <2> QED BY <1>2, <1>7, <2>1, <2>2, ScheduleDispatches
<1>10. Cpu' /\ Settles(st)
  BY <1>9, DispatchSettles
<1>11. BlockStates'
  BY <1>0, <1>1, <1>4, <1>8, <1>10, WakeBlockStates
<1>12. state'[t] = "TERMINATED"
  BY <1>3, <1>8, <1>10 DEF Settles
<1>13. \A u \in Threads : u # t =>
         /\ state'[u] = "TERMINATED" <=> state[u] = "TERMINATED"
         /\ state'[u] = "FREE" <=> state[u] = "FREE"
         /\ state'[u] \in Alive => state[u] \in Alive
         /\ state[u] \in Live => state'[u] \in Live
         /\ state'[u] = "BLOCKED" => state[u] = "BLOCKED" /\ u \notin Range(ws)
  BY <1>3, <1>8, <1>10 DEF Settles, Alive, Live
<1>14. /\ signal'[t] = 1 /\ \A u \in Threads : u # t => signal'[u] = signal[u]
  BY <1>0, <1>2, Names DEF LockTypes
<1>15. LockTypes'
  BY <1>0, <1>2 DEF LockTypes
<1>16. t \notin Range(terminatedList) /\ terminatedList \in Seq(Threads)
  BY <1>0 DEF Life, TerminatedHasOneOwner, ReaperListExact, LifeTypes
<1>17. terminationMode[t] = "DETACHED" => terminatedList' = Append(terminatedList, t)
  BY <1>2, <1>16 DEF KiQueueDetachedThreadForReaper
<1>18. /\ Append(terminatedList, t) \in Seq(Threads)
       /\ Range(Append(terminatedList, t)) = Range(terminatedList) \cup {t}
       /\ Distinct(Append(terminatedList, t))
  BY <1>16, TailInsertProperties DEF Life, TerminatedHasOneOwner, ReaperListExact
<1>19. LifeTypes'
  <2>1. terminatedList' \in Seq(Threads)
    BY <1>2, <1>16, <1>17, <1>18
  <2>2. activeThreadCount' \in Int
    BY <1>2 DEF LifeTypes
  <2> QED BY <1>2, <2>1, <2>2 DEF LifeTypes
<1>20. /\ claim[t] # "CONSUMED" /\ (terminationMode[t] = "DETACHED" => claim[t] = "UNCLAIMED")
       /\ target[t] = NULL
  BY <1>0, Names DEF Life, Claims, ClaimsOf, Alive, Live, JoinTargetStable, JoinStable, JoinPcs
<1>21. TerminatedHasOneOwner'
  <2>1. ReaperListExact'
    <3>1. CASE terminationMode[t] = "DETACHED"
      <4> DEFINE old == {u \in Threads : state[u] = "TERMINATED" /\ terminationMode[u] = "DETACHED"
                                         /\ claim[u] = "UNCLAIMED"}
                 new == {u \in Threads : state'[u] = "TERMINATED" /\ terminationMode'[u] = "DETACHED"
                                         /\ claim'[u] = "UNCLAIMED"}
      <4>1. Range(terminatedList) = old
        BY DEF CoreInv, Life, TerminatedHasOneOwner, ReaperListExact
      <4>2. terminationMode' = terminationMode /\ claim' = claim
        BY <1>2
      <4>3. new = old \cup {t}
        BY <3>1, <4>2, <1>12, <1>13, <1>20
      <4>4. Range(terminatedList') = new /\ Distinct(terminatedList')
        BY <3>1, <4>1, <4>3, <1>17, <1>18
      <4> QED BY <4>4 DEF ReaperListExact
    <3>2. CASE terminationMode[t] # "DETACHED"
      BY <3>2, <1>0, <1>2, <1>13 DEF Life, TerminatedHasOneOwner, ReaperListExact
    <3> QED BY <3>1, <3>2
  <2>2. ASSUME NEW u \in Threads PROVE ClaimHasHolder(u)'
    <3>1. CASE u = t
      BY <3>1, <1>0, <1>2, <1>20, Names DEF Life, TerminatedHasOneOwner, ClaimHasHolder
    <3>2. CASE u # t
      BY <3>2, <1>2, <1>13 DEF Life, TerminatedHasOneOwner, ClaimHasHolder
    <3> QED BY <3>1, <3>2
  <2>3. TargetsUnique'
    BY <1>2 DEF Life, TerminatedHasOneOwner, TargetsUnique
  <2>4. \A u \in Threads : state'[u] = "TERMINATED" => signal'[u] = 1
    BY <1>13, <1>14 DEF Life, TerminatedHasOneOwner
  <2> QED BY <2>1, <2>2, <2>3, <2>4 DEF TerminatedHasOneOwner
<1>22. JoinTargetStable'
  <2> SUFFICES ASSUME NEW d \in AllThreads PROVE JoinStable(d)'
    BY DEF JoinTargetStable
  <2>0. pc'[d] = pc[d] /\ target'[d] = target[d] /\ JoinStable(d)
    BY <1>2 DEF Life, JoinTargetStable
  <2>1. CASE pc[d] \in JoinPcs
    <3>1. d \in Threads /\ d # t /\ target[d] \in Threads
      BY <2>0, <2>1, <1>0, Names DEF LifeTypes, IdlePcs, JoinPcs, JoinStable
    <3>2. state'[target[d]] # "FREE" /\ (state[target[d]] = "TERMINATED" => state'[target[d]] = "TERMINATED")
      BY <2>0, <2>1, <3>1, <1>12, <1>13 DEF JoinStable
    <3>3. pc[d] = "joinBlocked" /\ waitStatus'[d] = "SUCCESS" => state'[target[d]] = "TERMINATED"
      <4>1. CASE d \in Range(ws)
        <5>1. target[d] = t
          BY <4>1, <3>1, <1>1 DEF Life, Claims, ClaimsOf
        <5> QED BY <5>1, <1>12
      <4>2. CASE d \notin Range(ws)
        <5>1. waitStatus'[d] = waitStatus[d]
          BY <4>2, <3>1, <1>4 DEF Completes
        <5> QED BY <5>1, <2>0, <3>2 DEF JoinStable
      <4> QED BY <4>1, <4>2
    <3>4. pc[d] = "joinBlocked" /\ state'[d] = "BLOCKED" => waitObject'[d] = target[d]
      BY <2>0, <3>1, <1>4, <1>13 DEF JoinStable, Completes
    <3>5. terminationMode'[target[d]] = "JOINABLE" /\ claim'[target[d]] = "JOIN_IN_PROGRESS"
      BY <2>0, <2>1, <1>2 DEF JoinStable
    <3> QED BY <2>0, <2>1, <3>2, <3>3, <3>4, <3>5 DEF JoinStable
  <2>2. CASE pc[d] \notin JoinPcs
    BY <2>0, <2>2 DEF JoinStable, JoinPcs
  <2> QED BY <2>1, <2>2
<1>23. Claims'
  <2> SUFFICES ASSUME NEW u \in Threads PROVE ClaimsOf(u)'
    BY DEF Claims
  <2>0. ClaimsOf(u) /\ waitObject'[u] \in {NULL, waitObject[u]}
    BY <1>4 DEF Life, Claims, Completes
  <2>1. CASE u = t
    <3>1. waitObject'[u] \notin Threads
      BY <2>1, <2>0, <1>0, Names DEF BlockStates
    <3> QED BY <2>1, <3>1, <1>2, <1>12, <1>20 DEF ClaimsOf, Alive, Live
  <2>2. CASE u # t
    BY <2>0, <2>2, <1>2, <1>13, <1>14, Names DEF ClaimsOf
  <2> QED BY <2>1, <2>2
<1> QED BY <1>2, <1>4, <1>9, <1>10, <1>11, <1>15, <1>19, <1>21, <1>22, <1>23 DEF Life

\* Steps that change only the life-cycle fields.
LEMMA LifeStepCore ==
  ASSUME CoreInv, LifeTypes', Life',
         UNCHANGED <<blockVars, lockVars, cpuVars, clockVars, timerPending>>
  PROVE  CoreInv'
BY DEF CoreInv, blockVars, lockVars, cpuVars, clockVars, LockTypes, ClockTypes, Cpu, Matches,
       Lists, BlockTypes, BlockStates

\* Nobody joins or finalizes a thread whose termination is unclaimed.
LEMMA Unclaimed ==
  ASSUME LifeTypes, Life, NEW u \in Threads, claim[u] = "UNCLAIMED" \/ state[u] = "FREE"
  PROVE  \A c \in AllThreads : target[c] # u
BY TargetClaimed, Names

\* KeThreadJoin takes the claim, or consumes a published termination.
LEMMA JoinCore ==
  ASSUME CoreInv, NEW t \in Threads, NEW u \in Threads, KeThreadJoin(t, u)
  PROVE  CoreInv'
<1> USE DEF CoreInv
<1>0. /\ currentThread = t /\ pc[t] = "run" /\ t \in AllThreads /\ u # t
      /\ state[t] = "RUNNING" /\ target[t] = NULL
  BY Names DEF KeThreadJoin, Executes, LifeTypes, ThreadPcs, JoinPcs, Cpu, Life, JoinTargetStable, JoinStable
<1>1. state[u] # "FREE" /\ terminationMode[u] = "JOINABLE" /\ claim[u] = "UNCLAIMED"
  BY DEF KeThreadJoin, Claimable
<1>2. \A c \in AllThreads : target[c] # u
  BY <1>1, Unclaimed
<1>3. UNCHANGED <<terminationMode, activeThreadCount, terminatedList, blockVars, lockVars,
                  cpuVars, clockVars, timerPending>>
  BY DEF KeThreadJoin
<1>4. PICK x \in {"finalize", "joinWait"}, y \in {"CONSUMED", "JOIN_IN_PROGRESS"} :
        /\ pc' = [pc EXCEPT ![t] = x] /\ claim' = [claim EXCEPT ![u] = y]
        /\ x = "finalize" => y = "CONSUMED" /\ Published(u)
        /\ x = "joinWait" => y = "JOIN_IN_PROGRESS"
  BY DEF KeThreadJoin
<1>5. LifeTypes'
  BY <1>0, <1>3, <1>4, Names DEF KeThreadJoin, LifeTypes, ThreadPcs, JoinPcs
<1>6. /\ \A c \in AllThreads : /\ pc'[c] = IF c = t THEN x ELSE pc[c]
                               /\ target'[c] = IF c = t THEN u ELSE target[c]
      /\ \A v \in Threads : claim'[v] = IF v = u THEN y ELSE claim[v]
  BY <1>0, <1>4 DEF KeThreadJoin, LifeTypes
<1>7. /\ state' = state /\ signal' = signal /\ waitObject' = waitObject /\ waitStatus' = waitStatus
      /\ terminationMode' = terminationMode /\ terminatedList' = terminatedList
  BY <1>3 DEF cpuVars, lockVars, blockVars
<1>8. x = "finalize" => state[u] = "TERMINATED"
  BY <1>4 DEF Published
<1>9. x = "joinWait" => x \in JoinPcs
  BY DEF JoinPcs
<1>a. x = "joinWait" => state[u] # "FREE" /\ y = "JOIN_IN_PROGRESS"
  BY <1>1, <1>4
<1>10. TerminatedHasOneOwner'
  <2>1. ReaperListExact'
    BY <1>1, <1>6, <1>7 DEF Life, TerminatedHasOneOwner, ReaperListExact
  <2>2. ASSUME NEW v \in Threads PROVE ClaimHasHolder(v)'
    <3>0. ClaimHasHolder(v)
      BY DEF Life, TerminatedHasOneOwner
    <3>1. CASE v = u
      <4>1. CASE x = "finalize"
        BY <3>1, <4>1, <1>0, <1>4, <1>6, <1>7, <1>8 DEF ClaimHasHolder
      <4>2. CASE x = "joinWait"
        <5>1. pc'[t] \in JoinPcs /\ pc'[t] # "finalize" /\ target'[t] = v
          BY <3>1, <4>2, <1>0, <1>6, <1>9
        <5>2. claim'[v] = "JOIN_IN_PROGRESS"
          BY <3>1, <4>2, <1>6, <1>a
        <5>3. \A c \in AllThreads : target'[c] = v => c = t
          BY <3>1, <1>2, <1>6
        <5>4. ~ (claim'[v] = "CONSUMED")
          BY <5>2
        <5>5. ~ \E c \in AllThreads : pc'[c] = "finalize" /\ target'[c] = v
          BY <5>1, <5>3
        <5>6. \E c \in Threads : pc'[c] \in JoinPcs /\ target'[c] = v
          BY <5>1
        <5> QED BY <5>4, <5>5, <5>6 DEF ClaimHasHolder
      <4> QED BY <4>1, <4>2
    <3>2. CASE v # u
      BY <3>0, <3>2, <1>0, <1>6, <1>7, Names DEF ClaimHasHolder, JoinPcs
    <3> QED BY <3>1, <3>2
  <2>3. TargetsUnique'
    BY <1>2, <1>6 DEF Life, TerminatedHasOneOwner, TargetsUnique
  <2>4. \A v \in Threads : state'[v] = "TERMINATED" => signal'[v] = 1
    BY <1>7 DEF Life, TerminatedHasOneOwner
  <2> QED BY <2>1, <2>2, <2>3, <2>4 DEF TerminatedHasOneOwner
<1>11. JoinTargetStable'
  <2> SUFFICES ASSUME NEW d \in AllThreads PROVE JoinStable(d)'
    BY DEF JoinTargetStable
  <2>0. JoinStable(d)
    BY DEF Life, JoinTargetStable
  <2>1. CASE d = t
    <3>1. pc'[d] = x /\ target'[d] = u /\ u # NULL /\ state'[u] = state[u]
          /\ claim'[u] = y /\ terminationMode'[u] = "JOINABLE"
      BY <2>1, <1>1, <1>6, <1>7, Names
    <3> QED BY <3>1, <1>4, <1>a DEF JoinStable, JoinPcs
  <2>2. CASE d # t
    <3>1. pc'[d] = pc[d] /\ target'[d] = target[d] /\ target[d] # u
      BY <2>2, <1>2, <1>6
    <3>2. pc[d] \in JoinPcs => target[d] \in Threads
      BY <2>0 DEF JoinStable, LifeTypes
    <3> QED BY <2>0, <3>1, <3>2, <1>6, <1>7 DEF JoinStable
  <2> QED BY <2>1, <2>2
<1>12. Claims'
  <2> SUFFICES ASSUME NEW v \in Threads PROVE ClaimsOf(v)'
    BY DEF Claims
  <2>0. ClaimsOf(v)
    BY DEF Life, Claims
  <2>1. waitObject'[v] \in Threads => pc'[v] = "joinBlocked" /\ target'[v] = waitObject'[v]
    BY <2>0, <1>0, <1>6, <1>7, Names DEF ClaimsOf
  <2>2. target'[v] # NULL => state'[v] \in Live
    BY <2>0, <1>0, <1>6, <1>7, Names DEF ClaimsOf, Live
  <2>3. /\ state'[v] \in Alive => signal'[v] = 0 /\ claim'[v] # "CONSUMED"
        /\ state'[v] \in Alive /\ terminationMode'[v] = "DETACHED" => claim'[v] = "UNCLAIMED"
    <3>1. CASE v = u
      BY <2>0, <3>1, <1>1, <1>4, <1>6, <1>7, <1>8 DEF ClaimsOf, Alive, Live
    <3>2. CASE v # u
      BY <2>0, <3>2, <1>6, <1>7 DEF ClaimsOf
    <3> QED BY <3>1, <3>2
  <2> QED BY <2>1, <2>2, <2>3 DEF ClaimsOf
<1> QED BY <1>3, <1>5, <1>10, <1>11, <1>12, LifeStepCore DEF Life

\* The join waits for the termination event or finds it signalled.
LEMMA JoinWaitCore ==
  ASSUME CoreInv, NEW t \in Threads, NEW ticks \in Durations, KeThreadJoinWait(t, ticks)
  PROVE  CoreInv'
<1> USE DEF CoreInv
<1> DEFINE u == target[t]
<1>0. /\ currentThread = t /\ pc[t] = "joinWait" /\ pc[t] \in JoinPcs /\ t \in AllThreads
      /\ state[t] = "RUNNING" /\ state \in [AllThreads -> States]
  BY Names DEF KeThreadJoinWait, JoinPcs, Cpu, Matches
<1>1. u \in Threads /\ u \in Objects /\ u # NULL /\ state[u] # "FREE"
      /\ terminationMode[u] = "JOINABLE" /\ claim[u] = "JOIN_IN_PROGRESS"
  BY <1>0, Names DEF Life, JoinTargetStable, JoinStable, LifeTypes
<1>2. UNCHANGED <<target, terminationMode, claim, activeThreadCount, terminatedList, lockVars, timerPending>>
  BY DEF KeThreadJoinWait
<1>3. ASSUME NEW x \in {"joinSignaled", "joinBlocked"}, pc' = [pc EXCEPT ![t] = x],
             \A v \in Threads : v # t => state'[v] = state[v] \/ (state[v] = "READY" /\ state'[v] = "RUNNING"),
             state'[t] \in Live,
             \A v \in Threads : v # t => waitObject'[v] = waitObject[v] /\ waitStatus'[v] = waitStatus[v],
             waitObject'[t] \in Threads => waitObject'[t] = u /\ x = "joinBlocked",
             x = "joinSignaled" => state[u] = "TERMINATED",
             x = "joinBlocked" => waitStatus'[t] = "PENDING" /\ waitObject'[t] = u
      PROVE  LifeTypes' /\ Life'
  <2>1. LifeTypes'
    BY <1>0, <1>2, <1>3, Names DEF LifeTypes, ThreadPcs, JoinPcs
  <2>2. \A c \in AllThreads : pc'[c] = IF c = t THEN x ELSE pc[c]
    BY <1>0, <1>3 DEF LifeTypes
  <2>3. x \in JoinPcs /\ x # "finalize"
    BY DEF JoinPcs
  <2>4. \A v \in Threads : /\ state'[v] = "TERMINATED" <=> state[v] = "TERMINATED"
                           /\ state'[v] = "FREE" <=> state[v] = "FREE"
                           /\ state'[v] \in Alive => state[v] \in Alive
                           /\ state[v] \in Live => state'[v] \in Live
    BY <1>0, <1>3 DEF Alive, Live
  <2>5. signal' = signal
    BY <1>2 DEF lockVars
  <2>6. TerminatedHasOneOwner'
    <3>1. ReaperListExact'
      BY <1>2, <2>4 DEF Life, TerminatedHasOneOwner, ReaperListExact
    <3>2. ASSUME NEW v \in Threads PROVE ClaimHasHolder(v)'
      <4>0. ClaimHasHolder(v)
        BY DEF Life, TerminatedHasOneOwner
      <4>1. \A c \in AllThreads : /\ pc'[c] = "finalize" <=> pc[c] = "finalize"
                                  /\ pc[c] \in JoinPcs => pc'[c] \in JoinPcs
        BY <1>0, <2>2, <2>3
      <4> QED BY <4>0, <4>1, <1>2, <2>4, Names DEF ClaimHasHolder
    <3>3. TargetsUnique'
      BY <1>2 DEF Life, TerminatedHasOneOwner, TargetsUnique
    <3>4. \A v \in Threads : state'[v] = "TERMINATED" => signal'[v] = 1
      BY <2>4, <2>5 DEF Life, TerminatedHasOneOwner
    <3> QED BY <3>1, <3>2, <3>3, <3>4 DEF TerminatedHasOneOwner
  <2>7. JoinTargetStable'
    <3> SUFFICES ASSUME NEW d \in AllThreads PROVE JoinStable(d)'
      BY DEF JoinTargetStable
    <3>0. JoinStable(d)
      BY DEF Life, JoinTargetStable
    <3>1. CASE d = t
      <4>1. pc'[d] = x /\ target'[d] = u /\ terminationMode'[u] = "JOINABLE"
            /\ claim'[u] = "JOIN_IN_PROGRESS" /\ state'[u] # "FREE"
        BY <3>1, <1>1, <1>2, <2>2, <2>4
      <4>2. x = "joinSignaled" => state'[u] = "TERMINATED"
        BY <1>1, <1>3, <2>4
      <4> HIDE DEF u
      <4> QED BY <3>1, <4>1, <4>2, <1>1, <1>3, <2>3 DEF JoinStable
    <3>2. CASE d # t
      <4>1. pc'[d] = pc[d] /\ target'[d] = target[d]
        BY <3>2, <1>2, <2>2
      <4>2. CASE pc[d] \in JoinPcs
        <5>1. d \in Threads /\ target[d] \in Threads
          BY <3>0, <4>2, Names DEF LifeTypes, IdlePcs, JoinPcs, JoinStable
        <5>2. state'[d] = "BLOCKED" => state[d] = "BLOCKED"
          BY <3>2, <5>1, <1>3
        <5> QED BY <3>0, <3>2, <4>1, <4>2, <5>1, <5>2, <1>2, <1>3, <2>4 DEF JoinStable
      <4>3. CASE pc[d] \notin JoinPcs
        BY <3>0, <4>1, <4>3 DEF JoinStable, JoinPcs
      <4> QED BY <4>2, <4>3
    <3> QED BY <3>1, <3>2
  <2>8. Claims'
    <3> SUFFICES ASSUME NEW v \in Threads PROVE ClaimsOf(v)'
      BY DEF Claims
    <3>0. ClaimsOf(v)
      BY DEF Life, Claims
    <3>1. CASE v = t
      BY <3>0, <3>1, <1>0, <1>2, <1>3, <2>2, <2>4, <2>5 DEF ClaimsOf
    <3>2. CASE v # t
      BY <3>0, <3>2, <1>2, <1>3, <2>2, <2>4, <2>5, Names DEF ClaimsOf
    <3> QED BY <3>1, <3>2
  <2> QED BY <2>1, <2>6, <2>7, <2>8 DEF Life
<1>4. CASE /\ signal[u] # 0 /\ pc' = [pc EXCEPT ![t] = "joinSignaled"]
           /\ UNCHANGED <<blockVars, cpuVars, clockVars>>
  <2>1. state[u] = "TERMINATED"
    BY <1>1, <1>4, Names DEF Life, Claims, ClaimsOf, Alive, Live, Cpu, Matches, States
  <2>2. waitObject[t] = NULL
    BY <1>0 DEF BlockStates
  <2>3. state' = state /\ waitObject' = waitObject /\ waitStatus' = waitStatus
    BY <1>4 DEF blockVars, cpuVars
  <2>4. state'[t] \in Live /\ waitObject'[t] \notin Threads
    BY <1>0, <2>2, <2>3, Names DEF Live
  <2>5. LifeTypes' /\ Life'
    <3> HIDE DEF u
    <3> QED BY <1>3, <1>4, <2>1, <2>3, <2>4
  <2> QED BY <1>2, <1>4, <2>5, LifeStepCore
<1>5. CASE pc' = [pc EXCEPT ![t] = "joinBlocked"] /\ BlockCurrent(t, u, ticks)
  <2>1. /\ Cpu' /\ Lists' /\ BlockStates' /\ ClockTypes'
        /\ waitObject' = [waitObject EXCEPT ![t] = u]
        /\ waitStatus' = [waitStatus EXCEPT ![t] = "PENDING"]
        /\ Settles([state EXCEPT ![t] = "BLOCKED"])
    BY <1>0, <1>1, <1>5, BlockCurrentBlocks
  <2>2. /\ state'[t] = "BLOCKED" /\ waitObject'[t] = u /\ waitStatus'[t] = "PENDING"
        /\ \A v \in Threads : v # t => /\ waitObject'[v] = waitObject[v] /\ waitStatus'[v] = waitStatus[v]
                                       /\ state'[v] = state[v] \/ (state[v] = "READY" /\ state'[v] = "RUNNING")
    BY <1>0, <2>1, Names DEF Settles, Lists, BlockTypes
  <2>3. state'[t] \in Live
    BY <2>2 DEF Live
  <2>4. LifeTypes' /\ Life'
    <3> HIDE DEF u
    <3> QED BY <1>3, <1>5, <2>2, <2>3
  <2>5. LockTypes' /\ timerPending' \in BOOLEAN
    BY <1>2 DEF lockVars, LockTypes
  <2> QED BY <2>1, <2>4, <2>5
<1> QED BY <1>4, <1>5 DEF KeThreadJoinWait

\* A joiner whose wait succeeded consumes the termination it had claimed.
LEMMA JoinConsumeCore ==
  ASSUME CoreInv, NEW t \in Threads, KeThreadJoinConsume(t)
  PROVE  CoreInv'
<1> USE DEF CoreInv
<1> DEFINE u == target[t]
<1>0. /\ currentThread = t /\ pc[t] \in JoinPcs /\ pc[t] # "finalize" /\ t \in AllThreads
      /\ pc[t] = "joinSignaled" \/ (pc[t] = "joinBlocked" /\ waitStatus[t] = "SUCCESS")
      /\ state[t] = "RUNNING" /\ waitObject[t] = NULL
  BY Names DEF KeThreadJoinConsume, JoinPcs, Cpu, BlockStates
<1>1. /\ u \in Threads /\ u # NULL /\ state[u] = "TERMINATED"
      /\ terminationMode[u] = "JOINABLE" /\ claim[u] = "JOIN_IN_PROGRESS"
  BY <1>0, Names DEF Life, JoinTargetStable, JoinStable, LifeTypes
<1>2. /\ claim' = [claim EXCEPT ![u] = "CONSUMED"] /\ pc' = [pc EXCEPT ![t] = "finalize"]
      /\ UNCHANGED <<target, terminationMode, activeThreadCount, terminatedList,
                     blockVars, lockVars, cpuVars, clockVars, timerPending>>
  BY DEF KeThreadJoinConsume
<1>3. state' = state /\ signal' = signal /\ waitObject' = waitObject /\ waitStatus' = waitStatus
  BY <1>2 DEF blockVars, lockVars, cpuVars
<1> HIDE DEF u
<1>4. LifeTypes'
  BY <1>0, <1>1, <1>2, Names DEF LifeTypes, ThreadPcs
<1>5. /\ \A c \in AllThreads : pc'[c] = IF c = t THEN "finalize" ELSE pc[c]
      /\ \A v \in Threads : claim'[v] = IF v = u THEN "CONSUMED" ELSE claim[v]
  BY <1>0, <1>1, <1>2 DEF LifeTypes
<1>6. \A c \in AllThreads : target[c] = u => c = t
  BY <1>0, <1>1, Names DEF Life, TerminatedHasOneOwner, TargetsUnique, u
<1>7. TerminatedHasOneOwner'
  <2>1. ReaperListExact'
    BY <1>1, <1>2, <1>3, <1>5 DEF Life, TerminatedHasOneOwner, ReaperListExact
  <2>2. ASSUME NEW v \in Threads PROVE ClaimHasHolder(v)'
    <3>0. ClaimHasHolder(v)
      BY DEF Life, TerminatedHasOneOwner
    <3>1. CASE v = u
      <4>1. pc'[t] = "finalize" /\ target'[t] = v
        BY <3>1, <1>0, <1>2, <1>5 DEF u
      <4> QED BY <3>1, <4>1, <1>0, <1>1, <1>3, <1>5 DEF ClaimHasHolder
    <3>2. CASE v # u
      BY <3>0, <3>2, <1>0, <1>2, <1>3, <1>5, Names DEF ClaimHasHolder, u
    <3> QED BY <3>1, <3>2
  <2>3. TargetsUnique'
    BY <1>2 DEF Life, TerminatedHasOneOwner, TargetsUnique
  <2>4. \A v \in Threads : state'[v] = "TERMINATED" => signal'[v] = 1
    BY <1>3 DEF Life, TerminatedHasOneOwner
  <2> QED BY <2>1, <2>2, <2>3, <2>4 DEF TerminatedHasOneOwner
<1>8. JoinTargetStable'
  <2> SUFFICES ASSUME NEW d \in AllThreads PROVE JoinStable(d)'
    BY DEF JoinTargetStable
  <2>0. JoinStable(d)
    BY DEF Life, JoinTargetStable
  <2>1. CASE d = t
    BY <2>1, <1>1, <1>2, <1>5 DEF JoinStable, JoinPcs, u
  <2>2. CASE d # t
    <3>1. pc'[d] = pc[d] /\ target'[d] = target[d] /\ target[d] # u
      BY <2>2, <1>2, <1>5, <1>6
    <3>2. pc[d] \in JoinPcs => target[d] \in Threads
      BY <2>0 DEF JoinStable, LifeTypes
    <3> QED BY <2>0, <3>1, <3>2, <1>2, <1>3, <1>5 DEF JoinStable
  <2> QED BY <2>1, <2>2
<1>9. Claims'
  <2> SUFFICES ASSUME NEW v \in Threads PROVE ClaimsOf(v)'
    BY DEF Claims
  <2>0. ClaimsOf(v)
    BY DEF Life, Claims
  <2>1. waitObject'[v] \in Threads => pc'[v] = "joinBlocked" /\ target'[v] = waitObject'[v]
    BY <2>0, <1>0, <1>2, <1>3, <1>5, Names DEF ClaimsOf
  <2>2. CASE v = u
    BY <2>0, <2>1, <2>2, <1>1, <1>2, <1>3 DEF ClaimsOf, Alive, Live
  <2>3. CASE v # u
    BY <2>0, <2>1, <2>3, <1>2, <1>3, <1>5 DEF ClaimsOf
  <2> QED BY <2>2, <2>3
<1> QED BY <1>2, <1>4, <1>7, <1>8, <1>9, LifeStepCore DEF Life

\* A joiner whose wait timed out gives the claim back.
LEMMA JoinTimeoutCore ==
  ASSUME CoreInv, NEW t \in Threads, KeThreadJoinTimeout(t)
  PROVE  CoreInv'
<1> USE DEF CoreInv
<1> DEFINE u == target[t]
<1>0. /\ currentThread = t /\ pc[t] \in JoinPcs /\ pc[t] # "finalize" /\ t \in AllThreads
      /\ state[t] = "RUNNING" /\ waitObject[t] = NULL
  BY Names DEF KeThreadJoinTimeout, JoinPcs, Cpu, BlockStates
<1>1. /\ u \in Threads /\ u # NULL /\ terminationMode[u] = "JOINABLE" /\ claim[u] = "JOIN_IN_PROGRESS"
  BY <1>0, Names DEF Life, JoinTargetStable, JoinStable, LifeTypes
<1>2. /\ claim' = [claim EXCEPT ![u] = "UNCLAIMED"] /\ pc' = [pc EXCEPT ![t] = "run"]
      /\ target' = [target EXCEPT ![t] = NULL]
      /\ UNCHANGED <<terminationMode, activeThreadCount, terminatedList,
                     blockVars, lockVars, cpuVars, clockVars, timerPending>>
  BY <1>1 DEF KeThreadJoinTimeout
<1>3. state' = state /\ signal' = signal /\ waitObject' = waitObject /\ waitStatus' = waitStatus
  BY <1>2 DEF blockVars, lockVars, cpuVars
<1> HIDE DEF u
<1>4. LifeTypes'
  BY <1>0, <1>1, <1>2, Names DEF LifeTypes, ThreadPcs
<1>5. /\ \A c \in AllThreads : /\ pc'[c] = IF c = t THEN "run" ELSE pc[c]
                               /\ target'[c] = IF c = t THEN NULL ELSE target[c]
      /\ \A v \in Threads : claim'[v] = IF v = u THEN "UNCLAIMED" ELSE claim[v]
  BY <1>0, <1>1, <1>2 DEF LifeTypes
<1>6. \A c \in AllThreads : target'[c] # u
  BY <1>0, <1>1, <1>5, Names DEF Life, TerminatedHasOneOwner, TargetsUnique, u
<1>7. TerminatedHasOneOwner'
  <2>1. ReaperListExact'
    BY <1>1, <1>2, <1>3, <1>5 DEF Life, TerminatedHasOneOwner, ReaperListExact
  <2>2. ASSUME NEW v \in Threads PROVE ClaimHasHolder(v)'
    <3>0. ClaimHasHolder(v)
      BY DEF Life, TerminatedHasOneOwner
    <3>1. CASE v = u
      BY <3>1, <1>5, <1>6 DEF ClaimHasHolder
    <3>2. CASE v # u
      <4>1. target[t] # v
        BY <3>2 DEF u
      <4> QED BY <3>0, <3>2, <4>1, <1>0, <1>1, <1>3, <1>5, Names DEF ClaimHasHolder
    <3> QED BY <3>1, <3>2
  <2>3. TargetsUnique'
    BY <1>5 DEF Life, TerminatedHasOneOwner, TargetsUnique
  <2>4. \A v \in Threads : state'[v] = "TERMINATED" => signal'[v] = 1
    BY <1>3 DEF Life, TerminatedHasOneOwner
  <2> QED BY <2>1, <2>2, <2>3, <2>4 DEF TerminatedHasOneOwner
<1>8. JoinTargetStable'
  <2> SUFFICES ASSUME NEW d \in AllThreads PROVE JoinStable(d)'
    BY DEF JoinTargetStable
  <2>0. JoinStable(d)
    BY DEF Life, JoinTargetStable
  <2>1. CASE d = t
    BY <2>1, <1>5 DEF JoinStable, JoinPcs
  <2>2. CASE d # t
    <3>1. pc'[d] = pc[d] /\ target'[d] = target[d] /\ target[d] # u
      BY <2>2, <1>5, <1>6
    <3>2. pc[d] \in JoinPcs => target[d] \in Threads
      BY <2>0 DEF JoinStable, LifeTypes
    <3> QED BY <2>0, <3>1, <3>2, <1>2, <1>3, <1>5 DEF JoinStable
  <2> QED BY <2>1, <2>2
<1>9. Claims'
  <2> SUFFICES ASSUME NEW v \in Threads PROVE ClaimsOf(v)'
    BY DEF Claims
  <2>0. ClaimsOf(v)
    BY DEF Life, Claims
  <2>1. /\ waitObject'[v] \in Threads => pc'[v] = "joinBlocked" /\ target'[v] = waitObject'[v]
        /\ target'[v] # NULL => state'[v] \in Live
    BY <2>0, <1>0, <1>3, <1>5, Names DEF ClaimsOf
  <2>2. CASE v = u
    BY <2>0, <2>1, <2>2, <1>3, <1>5 DEF ClaimsOf
  <2>3. CASE v # u
    BY <2>0, <2>1, <2>3, <1>2, <1>3, <1>5 DEF ClaimsOf
  <2> QED BY <2>2, <2>3
<1> QED BY <1>2, <1>4, <1>7, <1>8, <1>9, LifeStepCore DEF Life

\* KeThreadDetach of an unclaimed thread; a terminated one goes to the reaper.
LEMMA DetachCore ==
  ASSUME CoreInv, NEW c \in AllThreads, NEW u \in Threads, KeThreadDetach(c, u)
  PROVE  CoreInv'
<1> USE DEF CoreInv
<1>1. state[u] # "FREE" /\ terminationMode[u] = "JOINABLE" /\ claim[u] = "UNCLAIMED"
  BY DEF KeThreadDetach, Claimable
<1>2. \A d \in AllThreads : target[d] # u
  BY <1>1, Unclaimed
<1>3. /\ terminationMode' = [terminationMode EXCEPT ![u] = "DETACHED"]
      /\ Published(u) => KiQueueDetachedThreadForReaper(u)
      /\ ~Published(u) => terminatedList' = terminatedList
      /\ UNCHANGED <<pc, target, claim, activeThreadCount, blockVars, lockVars,
                     cpuVars, clockVars, timerPending>>
  BY DEF KeThreadDetach
<1>4. state' = state /\ signal' = signal /\ waitObject' = waitObject /\ waitStatus' = waitStatus
  BY <1>3 DEF blockVars, lockVars, cpuVars
<1>5. u \notin Range(terminatedList) /\ terminatedList \in Seq(Threads)
  BY <1>1 DEF Life, TerminatedHasOneOwner, ReaperListExact, LifeTypes
<1>6. Published(u) <=> state[u] = "TERMINATED"
  BY DEF Published, Life, TerminatedHasOneOwner
<1>7. Published(u) => terminatedList' = Append(terminatedList, u)
  BY <1>3, <1>5 DEF KiQueueDetachedThreadForReaper
<1>8. /\ Append(terminatedList, u) \in Seq(Threads)
      /\ Range(Append(terminatedList, u)) = Range(terminatedList) \cup {u}
      /\ Distinct(Append(terminatedList, u))
  BY <1>5, TailInsertProperties DEF Life, TerminatedHasOneOwner, ReaperListExact
<1>9. \A v \in Threads : terminationMode'[v] = IF v = u THEN "DETACHED" ELSE terminationMode[v]
  BY <1>3 DEF LifeTypes
<1>10. LifeTypes'
  <2>1. terminatedList' \in Seq(Threads)
    BY <1>3, <1>5, <1>7, <1>8
  <2> QED BY <1>3, <2>1 DEF LifeTypes
<1>11. TerminatedHasOneOwner'
  <2>1. ReaperListExact'
    <3>0. /\ Distinct(terminatedList)
          /\ \A v \in Threads : v \in Range(terminatedList) <=>
               state[v] = "TERMINATED" /\ terminationMode[v] = "DETACHED" /\ claim[v] = "UNCLAIMED"
      BY DEF Life, TerminatedHasOneOwner, ReaperListExact
    <3>1. CASE Published(u)
      <4> DEFINE q == Append(terminatedList, u)
      <4>0. terminatedList' = q /\ q \in Seq(Threads) /\ Range(q) = Range(terminatedList) \cup {u}
            /\ Distinct(q)
        BY <3>1, <1>7, <1>8
      <4> HIDE DEF q
      <4>1. \A v \in Threads : v \in Range(q) <=>
               state'[v] = "TERMINATED" /\ terminationMode'[v] = "DETACHED" /\ claim'[v] = "UNCLAIMED"
        BY <3>0, <3>1, <4>0, <1>1, <1>3, <1>4, <1>6, <1>9
      <4>2. Range(q) \subseteq Threads
        BY <4>0 DEF Range
      <4> QED BY <4>0, <4>1, <4>2 DEF ReaperListExact
    <3>2. CASE ~Published(u)
      BY <3>2, <1>3, <1>4, <1>6, <1>9 DEF Life, TerminatedHasOneOwner, ReaperListExact
    <3> QED BY <3>1, <3>2
  <2>2. ASSUME NEW v \in Threads PROVE ClaimHasHolder(v)'
    BY <1>3, <1>4 DEF Life, TerminatedHasOneOwner, ClaimHasHolder
  <2>3. TargetsUnique'
    BY <1>3 DEF Life, TerminatedHasOneOwner, TargetsUnique
  <2>4. \A v \in Threads : state'[v] = "TERMINATED" => signal'[v] = 1
    BY <1>4 DEF Life, TerminatedHasOneOwner
  <2> QED BY <2>1, <2>2, <2>3, <2>4 DEF TerminatedHasOneOwner
<1>12. JoinTargetStable'
  <2> SUFFICES ASSUME NEW d \in AllThreads PROVE JoinStable(d)'
    BY DEF JoinTargetStable
  <2>0. JoinStable(d) /\ target[d] # u
    BY <1>2 DEF Life, JoinTargetStable
  <2>1. pc[d] \in JoinPcs => target[d] \in Threads
    BY <2>0 DEF JoinStable, LifeTypes
  <2> QED BY <2>0, <2>1, <1>3, <1>4, <1>9 DEF JoinStable
<1>13. Claims'
  BY <1>1, <1>3, <1>4, <1>9 DEF Life, Claims, ClaimsOf
<1> QED BY <1>3, <1>10, <1>11, <1>12, <1>13, LifeStepCore DEF Life

\* KiFinalizeThread frees the one thread its caller consumed.
LEMMA FinalizeCore ==
  ASSUME CoreInv, NEW c \in AllThreads, KiFinalizeThread(c)
  PROVE  CoreInv'
<1> USE DEF CoreInv
<1> DEFINE u == target[c]
           x == IF c = Idle THEN "reap" ELSE "run"
<1>0. currentThread = c /\ pc[c] = "finalize" /\ state \in [AllThreads -> States]
  BY DEF KiFinalizeThread, Cpu, Matches
<1>1. u # NULL /\ u \in Threads /\ state[u] = "TERMINATED" /\ claim[u] = "CONSUMED"
  <2>1. u # NULL
    BY <1>0 DEF Life, JoinTargetStable, JoinStable
  <2> QED BY <2>1, <1>0, TargetClaimed
<1>2. /\ state' = [state EXCEPT ![u] = "FREE"] /\ pc' = [pc EXCEPT ![c] = x]
      /\ target' = [target EXCEPT ![c] = NULL]
      /\ UNCHANGED <<terminationMode, claim, activeThreadCount, terminatedList, blockVars,
                     lockVars, readyQueues, currentThread, clockVars, timerPending>>
  BY DEF KiFinalizeThread
<1>3. signal' = signal /\ waitObject' = waitObject /\ waitStatus' = waitStatus
  BY <1>2 DEF blockVars, lockVars
<1>4. u # c
  BY <1>0, <1>1, Names DEF Cpu
<1>5. x \notin JoinPcs /\ x # "finalize" /\ (c \in Threads => x \in ThreadPcs) /\ (c = Idle => x \in IdlePcs)
  BY Names DEF JoinPcs, ThreadPcs, IdlePcs
<1>6. \A d \in AllThreads : target[d] = u => d = c
  BY <1>1 DEF Life, TerminatedHasOneOwner, TargetsUnique
<1> HIDE DEF u, x
<1>7. /\ \A d \in AllThreads : /\ pc'[d] = IF d = c THEN x ELSE pc[d]
                               /\ target'[d] = IF d = c THEN NULL ELSE target[d]
      /\ \A d \in AllThreads : state'[d] = IF d = u THEN "FREE" ELSE state[d]
  BY <1>0, <1>2 DEF LifeTypes
<1>8. LifeTypes'
  BY <1>2, <1>5, Names DEF LifeTypes
<1>9. LockTypes' /\ ClockTypes' /\ timerPending' \in BOOLEAN /\ Lists'
  BY <1>2 DEF lockVars, LockTypes, clockVars, ClockTypes, blockVars, Lists, BlockTypes
<1>10. BlockStates'
  BY <1>1, <1>2, <1>7, Names DEF BlockStates, blockVars
<1>11. Cpu'
  <2>1. state' \in [AllThreads -> States]
    BY <1>0, <1>2 DEF States
  <2>2. \A p \in Priorities : {v \in Threads : state[v] = "READY" /\ Priority[v] = p}
                             = {v \in Threads : state'[v] = "READY" /\ Priority[v] = p}
    BY <1>1, <1>7, Names
  <2>3. Matches(state', readyQueues')
    BY <1>2, <2>1, <2>2 DEF Cpu, Matches
  <2>4. \A v \in Threads : state'[v] = "RUNNING" <=> currentThread' = v
    BY <1>1, <1>2, <1>7, Names DEF Cpu
  <2> QED BY <1>2, <2>3, <2>4 DEF Cpu, Matches
<1>12. TerminatedHasOneOwner'
  <2>1. ReaperListExact'
    BY <1>1, <1>2, <1>7, Names DEF Life, TerminatedHasOneOwner, ReaperListExact
  <2>2. ASSUME NEW v \in Threads PROVE ClaimHasHolder(v)'
    <3>0. ClaimHasHolder(v)
      BY DEF Life, TerminatedHasOneOwner
    <3>1. CASE v = u
      <4>1. state'[v] = "FREE" /\ \A d \in AllThreads : target'[d] # v
        BY <3>1, <1>1, <1>6, <1>7, Names
      <4> QED BY <4>1 DEF ClaimHasHolder
    <3>2. CASE v # u
      <4>1. target[c] # v /\ state'[v] = state[v]
        BY <3>2, <1>7, Names DEF u
      <4> QED BY <3>0, <4>1, <1>0, <1>2, <1>7, Names DEF ClaimHasHolder
    <3> QED BY <3>1, <3>2
  <2>3. TargetsUnique'
    BY <1>7 DEF Life, TerminatedHasOneOwner, TargetsUnique
  <2>4. \A v \in Threads : state'[v] = "TERMINATED" => signal'[v] = 1
    BY <1>3, <1>7, Names DEF Life, TerminatedHasOneOwner
  <2> QED BY <2>1, <2>2, <2>3, <2>4 DEF TerminatedHasOneOwner
<1>13. JoinTargetStable'
  <2> SUFFICES ASSUME NEW d \in AllThreads PROVE JoinStable(d)'
    BY DEF JoinTargetStable
  <2>0. JoinStable(d)
    BY DEF Life, JoinTargetStable
  <2>1. CASE d = c
    BY <2>1, <1>5, <1>7 DEF JoinStable, JoinPcs
  <2>2. CASE d # c
    <3>1. pc'[d] = pc[d] /\ target'[d] = target[d] /\ target[d] # u
      BY <2>2, <1>6, <1>7
    <3>2. pc[d] \in JoinPcs => target[d] \in Threads
      BY <2>0 DEF JoinStable, LifeTypes
    <3>3. state'[d] = "BLOCKED" => state[d] = "BLOCKED"
      BY <1>7
    <3> QED BY <2>0, <3>1, <3>2, <3>3, <1>2, <1>3, <1>7, Names DEF JoinStable, JoinPcs
  <2> QED BY <2>1, <2>2
<1>14. Claims'
  <2> SUFFICES ASSUME NEW v \in Threads PROVE ClaimsOf(v)'
    BY DEF Claims
  <2>0. ClaimsOf(v)
    BY DEF Life, Claims
  <2>1. waitObject'[v] \in Threads => pc'[v] = "joinBlocked" /\ target'[v] = waitObject'[v]
    BY <2>0, <1>0, <1>3, <1>7, Names DEF ClaimsOf
  <2>2. target'[v] # NULL => state'[v] \in Live
    BY <2>0, <1>1, <1>7, Names DEF ClaimsOf, Live
  <2>3. state'[v] \in Alive => state'[v] = state[v]
    BY <1>7, Names DEF Alive, Live
  <2> QED BY <2>0, <2>1, <2>2, <2>3, <1>2, <1>3 DEF ClaimsOf
<1> QED BY <1>8, <1>9, <1>10, <1>11, <1>12, <1>13, <1>14 DEF Life

\* A move of the idle thread between the points of its loop that hold no
\* thread in hand.
LEMMA IdlePcCore ==
  ASSUME CoreInv, pc[Idle] # "finalize",
         NEW x \in IdlePcs \ {"finalize"}, pc' = [pc EXCEPT ![Idle] = x],
         UNCHANGED <<target, terminationMode, claim, activeThreadCount, terminatedList,
                     blockVars, lockVars, cpuVars, clockVars, timerPending>>
  PROVE  CoreInv'
<1> USE DEF CoreInv
<1>1. state' = state /\ signal' = signal /\ waitObject' = waitObject /\ waitStatus' = waitStatus
  BY DEF blockVars, lockVars, cpuVars
<1>2. \A c \in AllThreads : pc'[c] = IF c = Idle THEN x ELSE pc[c]
  BY DEF LifeTypes
<1>3. LifeTypes'
  BY Names DEF LifeTypes
<1>4. TerminatedHasOneOwner'
  <2>1. ReaperListExact' /\ TargetsUnique' /\ \A v \in Threads : state'[v] = "TERMINATED" => signal'[v] = 1
    BY <1>1 DEF Life, TerminatedHasOneOwner, ReaperListExact, TargetsUnique
  <2>2. ASSUME NEW v \in Threads PROVE ClaimHasHolder(v)'
    BY <1>1, <1>2, Names DEF Life, TerminatedHasOneOwner, ClaimHasHolder
  <2> QED BY <2>1, <2>2 DEF TerminatedHasOneOwner
<1>5. JoinTargetStable'
  <2> SUFFICES ASSUME NEW d \in AllThreads PROVE JoinStable(d)'
    BY DEF JoinTargetStable
  <2>0. JoinStable(d)
    BY DEF Life, JoinTargetStable
  <2>1. pc[Idle] \notin JoinPcs /\ x \notin JoinPcs
    BY DEF LifeTypes, IdlePcs, JoinPcs
  <2>2. CASE d = Idle
    BY <2>0, <2>1, <2>2, <1>2 DEF JoinStable, JoinPcs
  <2>3. CASE d # Idle
    BY <2>0, <2>3, <1>1, <1>2 DEF JoinStable
  <2> QED BY <2>2, <2>3
<1>6. Claims'
  BY <1>1, <1>2, Names DEF Life, Claims, ClaimsOf
<1> QED BY <1>3, <1>4, <1>5, <1>6, LifeStepCore DEF Life

\* The reaper consumes the head of its list.
LEMMA ReapCore ==
  ASSUME CoreInv, KiReapTerminatedThreads
  PROVE  CoreInv'
<1> USE DEF CoreInv
<1> DEFINE h == Head(terminatedList)
<1>0. currentThread = Idle /\ pc[Idle] = "reap" /\ target[Idle] = NULL
  BY Names DEF KiReapTerminatedThreads, Life, JoinTargetStable, JoinStable, JoinPcs
<1>1. UNCHANGED <<terminationMode, activeThreadCount, blockVars, lockVars, cpuVars,
                  clockVars, timerPending>>
  BY DEF KiReapTerminatedThreads
<1>2. state' = state /\ signal' = signal /\ waitObject' = waitObject /\ waitStatus' = waitStatus
  BY <1>1 DEF blockVars, lockVars, cpuVars
<1>3. CASE terminatedList # << >>
  <2>1. /\ terminatedList' = Tail(terminatedList)
        /\ claim' = [claim EXCEPT ![h] = "CONSUMED"]
        /\ target' = [target EXCEPT ![Idle] = h]
        /\ pc' = [pc EXCEPT ![Idle] = "finalize"]
    BY <1>3 DEF KiReapTerminatedThreads
  <2>2. /\ h \in Threads /\ h \in Range(terminatedList)
        /\ Tail(terminatedList) \in Seq(Threads)
        /\ Range(terminatedList) = Range(Tail(terminatedList)) \cup {h}
        /\ Distinct(Tail(terminatedList)) /\ h \notin Range(Tail(terminatedList))
    BY <1>3, HeadRemoveProperties DEF LifeTypes, Life, TerminatedHasOneOwner, ReaperListExact
  <2> HIDE DEF h
  <2>3. /\ Range(terminatedList) \subseteq Threads
        /\ \A v \in Threads : v \in Range(terminatedList) <=>
               state[v] = "TERMINATED" /\ terminationMode[v] = "DETACHED" /\ claim[v] = "UNCLAIMED"
    BY DEF Life, TerminatedHasOneOwner, ReaperListExact
  <2>4. state[h] = "TERMINATED" /\ claim[h] = "UNCLAIMED"
    BY <2>2, <2>3
  <2>5. \A c \in AllThreads : target[c] # h
    BY <2>2, <2>4, Unclaimed
  <2>6. /\ \A c \in AllThreads : /\ pc'[c] = IF c = Idle THEN "finalize" ELSE pc[c]
                                 /\ target'[c] = IF c = Idle THEN h ELSE target[c]
        /\ \A v \in Threads : claim'[v] = IF v = h THEN "CONSUMED" ELSE claim[v]
    BY <2>1, Names DEF LifeTypes
  <2>7. LifeTypes'
    BY <1>1, <2>1, <2>2, Names DEF LifeTypes, IdlePcs
  <2>8. TerminatedHasOneOwner'
    <3>1. ReaperListExact'
      <4> DEFINE q == Tail(terminatedList)
      <4>0. /\ terminatedList' = q /\ Distinct(q) /\ h \notin Range(q)
            /\ Range(terminatedList) = Range(q) \cup {h}
        BY <2>1, <2>2
      <4> HIDE DEF q
      <4>1. \A v \in Threads : v \in Range(q) <=>
               state'[v] = "TERMINATED" /\ terminationMode'[v] = "DETACHED" /\ claim'[v] = "UNCLAIMED"
        BY <4>0, <2>3, <2>6, <1>1, <1>2
      <4>2. Range(q) \subseteq Threads
        BY <4>0, <2>3
      <4> QED BY <4>0, <4>1, <4>2 DEF ReaperListExact
    <3>2. ASSUME NEW v \in Threads PROVE ClaimHasHolder(v)'
      <4>0. ClaimHasHolder(v)
        BY DEF Life, TerminatedHasOneOwner
      <4>1. CASE v = h
        BY <4>1, <2>4, <2>6, <1>2, Names DEF ClaimHasHolder
      <4>2. CASE v # h
        BY <4>0, <4>2, <2>6, <1>0, <1>2, Names DEF ClaimHasHolder
      <4> QED BY <4>1, <4>2
    <3>3. TargetsUnique'
      BY <2>5, <2>6, <2>2, Names DEF Life, TerminatedHasOneOwner, TargetsUnique
    <3>4. \A v \in Threads : state'[v] = "TERMINATED" => signal'[v] = 1
      BY <1>2 DEF Life, TerminatedHasOneOwner
    <3> QED BY <3>1, <3>2, <3>3, <3>4 DEF TerminatedHasOneOwner
  <2>9. JoinTargetStable'
    <3> SUFFICES ASSUME NEW d \in AllThreads PROVE JoinStable(d)'
      BY DEF JoinTargetStable
    <3>0. JoinStable(d)
      BY DEF Life, JoinTargetStable
    <3>1. CASE d = Idle
      BY <3>1, <2>2, <2>6, Names DEF JoinStable, JoinPcs
    <3>2. CASE d # Idle
      <4>1. pc'[d] = pc[d] /\ target'[d] = target[d] /\ target[d] # h
        BY <3>2, <2>5, <2>6
      <4>2. pc[d] \in JoinPcs => target[d] \in Threads
        BY <3>0 DEF JoinStable, LifeTypes
      <4> QED BY <3>0, <4>1, <4>2, <1>1, <1>2, <2>6 DEF JoinStable
    <3> QED BY <3>1, <3>2
  <2>10. Claims'
    <3> SUFFICES ASSUME NEW v \in Threads PROVE ClaimsOf(v)'
      BY DEF Claims
    <3>0. ClaimsOf(v)
      BY DEF Life, Claims
    <3>1. pc'[v] = pc[v] /\ target'[v] = target[v]
      BY <2>6, Names
    <3>2. CASE v = h
      BY <3>0, <3>1, <3>2, <2>4, <1>2 DEF ClaimsOf, Alive, Live
    <3>3. CASE v # h
      BY <3>0, <3>1, <3>3, <2>6, <1>1, <1>2 DEF ClaimsOf
    <3> QED BY <3>2, <3>3
  <2> QED BY <1>1, <2>7, <2>8, <2>9, <2>10, LifeStepCore DEF Life
<1>4. CASE terminatedList = << >>
  <2>1. /\ "beforeHalt" \in IdlePcs \ {"finalize"} /\ pc[Idle] # "finalize"
        /\ pc' = [pc EXCEPT ![Idle] = "beforeHalt"]
        /\ UNCHANGED <<terminatedList, claim, target>>
    BY <1>0, <1>4 DEF KiReapTerminatedThreads, IdlePcs
  <2> QED BY <1>1, <2>1, IdlePcCore
<1> QED BY <1>3, <1>4

\* The keyboard interrupt signals its event from any state.
LEMMA DeviceCore ==
  ASSUME CoreInv, NEW e \in DeviceEvents, DeviceInterrupt(e)
  PROVE  CoreInv'
<1>1. e \in Events
  BY SchedulerAssumption
<1>2. /\ SetEvent(e)
      /\ UNCHANGED <<target, terminationMode, claim, terminatedList, activeThreadCount>>
      /\ pc' = pc \/ (pc[Idle] # "finalize" /\ pc' = [pc EXCEPT ![Idle] = "reap"])
      /\ timerPending' = timerPending
  BY DEF DeviceInterrupt, WakeFromHalt
<1>3. timerPending' \in BOOLEAN
  BY <1>2 DEF CoreInv
<1> QED BY <1>1, <1>2, <1>3, SetEventCore

\* KeSetEvent and KeResetEvent, called by a thread or on the boot path.
LEMMA EventCore ==
  ASSUME CoreInv, NEW c \in AllThreads, NEW e \in Events, KeSetEvent(c, e) \/ KeResetEvent(c, e)
  PROVE  CoreInv'
<1>1. CASE KeSetEvent(c, e)
  <2>1. SetEvent(e) /\ UNCHANGED lifeVars /\ timerPending' = timerPending
    BY <1>1 DEF KeSetEvent
  <2>2. timerPending' \in BOOLEAN
    BY <2>1 DEF CoreInv
  <2> QED BY <2>1, <2>2, SetEventCore DEF lifeVars
<1>2. CASE KeResetEvent(c, e)
  <2>1. /\ signal' = [signal EXCEPT ![e] = 0]
        /\ UNCHANGED <<lifeVars, blockVars, owner, ownedMutexCount, cpuVars, clockVars, timerPending>>
    BY <1>2 DEF KeResetEvent
  <2>2. e \in Objects /\ e \notin Semaphores /\ e \notin Threads
    BY Names
  <2>3. LockTypes' /\ \A t \in Threads : signal'[t] = signal[t]
    BY <2>1, <2>2, Names DEF CoreInv, LockTypes
  <2>4. ClockTypes' /\ timerPending' \in BOOLEAN
    BY <2>1 DEF CoreInv, ClockTypes, clockVars
  <2> QED BY <2>1, <2>3, <2>4, QuietCore
<1> QED BY <1>1, <1>2

-----------------------------------------------------------------------------
(* The specification.                                                      *)

\* KeSchedulerInit establishes the invariant.
LEMMA InitCore ==
  ASSUME Init
  PROVE  CoreInv
<1> USE Names DEF Init
<1>1. LifeTypes
  BY DEF LifeTypes, ThreadPcs, IdlePcs
<1>2. LockTypes
  BY SchedulerAssumption DEF LockTypes
<1>3. ClockTypes /\ timerPending \in BOOLEAN
  BY DEF ClockTypes
<1>4. Distinct(<< >>) /\ Range(<< >>) = {} /\ << >> \in Seq(Threads)
  BY DEF Distinct, Range
<1>5. Cpu
  <2>1. Matches(state, readyQueues)
    BY <1>4 DEF Matches, States
  <2> QED BY <2>1 DEF Cpu
<1>6. Lists
  BY <1>4 DEF Lists, BlockTypes, NoDeadline
<1>7. BlockStates
  BY DEF BlockStates
<1>8. Life
  <2>1. ReaperListExact
    BY <1>4 DEF ReaperListExact
  <2>2. \A t \in Threads : ClaimHasHolder(t)
    BY DEF ClaimHasHolder
  <2>3. TargetsUnique
    BY DEF TargetsUnique
  <2>4. JoinTargetStable
    BY DEF JoinTargetStable, JoinStable, JoinPcs
  <2>5. Claims
    BY DEF Claims, ClaimsOf, Alive, Live
  <2>6. \A t \in Threads : state[t] # "TERMINATED"
    OBVIOUS
  <2> QED BY <2>1, <2>2, <2>3, <2>4, <2>5, <2>6 DEF Life, TerminatedHasOneOwner
<1> QED BY <1>1, <1>2, <1>3, <1>5, <1>6, <1>7, <1>8 DEF CoreInv

\* Every step of a thread preserves the invariant ...
LEMMA ThreadStepCore ==
  ASSUME CoreInv, NEW t \in Threads, ThreadStep(t)
  PROVE  CoreInv'
<1>1. CASE KeYield(t)
  BY <1>1, YieldCore
<1>2. CASE \E ticks \in Timeouts : KeSleep(t, ticks)
  BY <1>2, SleepCore
<1>3. CASE \E o \in Objects \ Threads, ticks \in Durations : KeWaitForSingleObject(t, o, ticks)
  BY <1>3, WaitCore
<1>4. CASE \E m \in Mutexes : KeReleaseMutex(t, m)
  BY <1>4, ReleaseMutexCore
<1>5. CASE KeThreadExit(t)
  BY <1>5, ExitCore
<1>6. CASE \E u \in Threads : KeThreadJoin(t, u)
  BY <1>6, JoinCore
<1>7. CASE \E ticks \in Durations : KeThreadJoinWait(t, ticks)
  BY <1>7, JoinWaitCore
<1>8. CASE KeThreadJoinConsume(t)
  BY <1>8, JoinConsumeCore
<1>9. CASE KeThreadJoinTimeout(t)
  BY <1>9, JoinTimeoutCore
<1> QED BY <1>1, <1>2, <1>3, <1>4, <1>5, <1>6, <1>7, <1>8, <1>9 DEF ThreadStep

\* ... and so does every step that the boot path can take as well.
LEMMA AnyStepCore ==
  ASSUME CoreInv, NEW c \in AllThreads, AnyStep(c)
  PROVE  CoreInv'
<1>1. ASSUME NEW u \in Threads, KeThreadCreate(c, u) \/ KeThreadCreateJoinable(c, u) PROVE CoreInv'
  BY <1>1, CreateCore DEF KeThreadCreate, KeThreadCreateJoinable
<1>2. ASSUME NEW u \in Threads, KeThreadStart(c, u) PROVE CoreInv'
  BY <1>2, StartCore
<1>3. ASSUME NEW u \in Threads, KeThreadDetach(c, u) PROVE CoreInv'
  BY <1>3, DetachCore
<1>4. ASSUME NEW e \in Events, KeSetEvent(c, e) \/ KeResetEvent(c, e) PROVE CoreInv'
  BY <1>4, EventCore
<1>5. ASSUME NEW s \in Semaphores, NEW n \in 1 .. Limit[s] + 1, KeReleaseSemaphore(c, s, n)
      PROVE  CoreInv'
  BY <1>5, ReleaseSemaphoreCore
<1>6. CASE KiFinalizeThread(c)
  BY <1>6, FinalizeCore
<1> QED BY <1>1, <1>2, <1>3, <1>4, <1>5, <1>6 DEF AnyStep

\* Every step preserves CoreInv: it is inductive.
LEMMA NextCore ==
  ASSUME CoreInv, [Next]_vars
  PROVE  CoreInv'
<1>1. CASE \E t \in Threads : ThreadStep(t)
  BY <1>1, ThreadStepCore
<1>2. CASE \E c \in AllThreads : AnyStep(c)
  BY <1>2, AnyStepCore
<1>3. CASE EnterIdleLoop \/ Halt
  <2>1. "reap" \in IdlePcs \ {"finalize"} /\ "halted" \in IdlePcs \ {"finalize"}
    BY DEF IdlePcs
  <2>2. CASE EnterIdleLoop
    BY <2>1, <2>2, IdlePcCore DEF EnterIdleLoop
  <2>3. CASE Halt
    BY <2>1, <2>3, IdlePcCore DEF Halt
  <2> QED BY <1>3, <2>2, <2>3
<1>4. CASE KiReapTerminatedThreads
  BY <1>4, ReapCore
<1>5. CASE \E e \in DeviceEvents : DeviceInterrupt(e)
  BY <1>5, DeviceCore
<1>6. CASE KiSchedulerTimerISR
  BY <1>6, TimerCore
<1>7. CASE Tick
  BY <1>7, TickCore
<1>8. CASE UNCHANGED vars
  <2>1. UNCHANGED <<lifeVars, blockVars, lockVars, cpuVars, clockVars, timerPending>>
    BY <1>8 DEF vars
  <2>2. LockTypes' /\ ClockTypes' /\ timerPending' \in BOOLEAN
    BY <2>1 DEF CoreInv, LockTypes, ClockTypes, lockVars, clockVars
  <2>3. \A t \in Threads : signal'[t] = signal[t]
    BY <2>1 DEF lockVars
  <2> QED BY <2>1, <2>2, <2>3, QuietCore
<1> QED BY <1>1, <1>2, <1>3, <1>4, <1>5, <1>6, <1>7, <1>8 DEF Next, IdleStep

\* The invariant holds in every reachable state.
LEMMA CoreInvariant == Spec => []CoreInv
<1>1. Init => CoreInv
  BY InitCore
<1>2. CoreInv /\ [Next]_vars => CoreInv'
  BY NextCore
<1> QED BY <1>1, <1>2, PTL DEF Spec

\* Every field of the scheduler keeps a value of its C type, whatever the
\* threads, the devices and the timer do (TypeOK).
THEOREM TypeCorrect == Spec => []TypeOK
<1>1. CoreInv => TypeOK
  BY TypeParts DEF CoreInv, Cpu, Matches, Lists
<1> QED BY <1>1, CoreInvariant, PTL

\* The ready queues, wait lists and timeout queue of scheduler.c, wait.c and
\* timer.c hold exactly the threads whose state says so, once each.
THEOREM QueuesMatch == Spec => []QueuesMatchStates
<1>1. CoreInv => TypeOK /\ Cpu /\ Lists /\ BlockStates
  BY TypeParts DEF CoreInv, Cpu, Matches, Lists
<1>2. CoreInv => QueuesMatchStates
  BY <1>1, QueueParts
<1> QED BY <1>2, CoreInvariant, PTL

\* A terminated thread is in the hands of exactly one party that will free
\* it: the reaper's list, a joiner, or a later join or detach.
THEOREM OneOwner == Spec => []TerminatedHasOneOwner
<1>1. CoreInv => TerminatedHasOneOwner
  BY DEF CoreInv, Life
<1> QED BY <1>1, CoreInvariant, PTL

\* KeThreadJoin finds its target as it left it, across every point where it
\* leaves its critical section.
THEOREM JoinStability == Spec => []JoinTargetStable
<1>1. CoreInv => JoinTargetStable
  BY DEF CoreInv, Life
<1> QED BY <1>1, CoreInvariant, PTL

-----------------------------------------------------------------------------
(* Wake-ups, mutexes and the count of active threads.                      *)

\* Whoever waits for an object finds it not signalled.
Waiting == \A t \in Threads : waitObject[t] # NULL => signal[waitObject[t]] = 0

LiveThreads == {t \in Threads : state[t] \in Live}
Owned(t) == {m \in Mutexes : owner[m] = t}

\* The mutexes as MutexOwnership has them, and the count that sysinfo reports.
LockInv ==
  /\ Waiting
  /\ MutexOwnership
  /\ activeThreadCount = 1 + Cardinality(LiveThreads)

\* The set of started and unfinished threads stays what it is.
LiveSame == \A t \in Threads : state'[t] \in Live <=> state[t] \in Live

\* NoLostWakeup speaks of the lists, Waiting of the blocks in them.
LEMMA WaitingLists ==
  ASSUME CoreInv, Waiting
  PROVE  NoLostWakeup
<1> SUFFICES ASSUME NEW o \in Objects, waitList[o] # << >> PROVE signal[o] = 0
  BY DEF NoLostWakeup
<1>1. /\ waitList[o] \in Seq(Threads) /\ o # NULL
      /\ Range(waitList[o]) = {t \in Threads : waitObject[t] = o}
  BY Names DEF CoreInv, Lists, BlockTypes
<1>2. PICK t \in Threads : waitObject[t] = o
  BY <1>1, HeadRemoveProperties
<1> QED BY <1>1, <1>2 DEF Waiting

\* Steps that touch neither the mutexes nor the set of live threads, and after
\* which nobody waits for an object that he did not wait for.
LEMMA LockFrame ==
  ASSUME CoreInv, LockInv, LiveSame, activeThreadCount' = activeThreadCount,
         ownedMutexCount' = ownedMutexCount, owner' = owner,
         \A m \in Mutexes : signal'[m] = signal[m],
         \A t \in Threads : waitObject'[t] # NULL =>
            /\ signal'[waitObject'[t]] = 0
            /\ waitObject'[t] = waitObject[t] \/ waitObject'[t] \notin Mutexes
  PROVE  LockInv'
<1>1. Waiting'
  BY DEF Waiting
<1>2. LiveThreads' = LiveThreads
  BY DEF LiveThreads, LiveSame
<1>3. ASSUME NEW m \in Mutexes
      PROVE  /\ (signal'[m] = 0 <=> owner'[m] # NULL)
             /\ owner'[m] # NULL => /\ state'[owner'[m]] \in {"READY", "RUNNING", "BLOCKED"}
                                    /\ waitObject'[owner'[m]] # m
  <2>1. owner[m] \in Threads \cup {NULL} /\ m # NULL
    BY Names DEF CoreInv, LockTypes
  <2> QED BY <2>1 DEF LockInv, MutexOwnership, LiveSame, Live
<1>4. \A t \in Threads : ownedMutexCount'[t] = Cardinality({m \in Mutexes : owner'[m] = t})
  BY DEF LockInv, MutexOwnership
<1>5. MutexOwnership'
  BY <1>3, <1>4 DEF MutexOwnership
<1> QED BY <1>1, <1>2, <1>5 DEF LockInv

\* Steps that leave waits, locks and the CPU alone, except that a thread that
\* has ended may lose its slot.
LEMMA QuietLocks ==
  ASSUME CoreInv, LockInv, LiveSame, activeThreadCount' = activeThreadCount,
         UNCHANGED lockVars, waitObject' = waitObject
  PROVE  LockInv'
BY LockFrame DEF lockVars, LockInv, Waiting

\* KiThreadCreateInternal: a free slot owned nothing.
LEMMA CreateLocks ==
  ASSUME CoreInv, LockInv, NEW c \in AllThreads, NEW t \in Threads,
         NEW mode \in {"DETACHED", "JOINABLE"}, KiThreadCreateInternal(c, t, mode)
  PROVE  LockInv'
<1>0. /\ state[t] = "FREE" /\ t \in AllThreads /\ t \in Objects /\ t # NULL /\ t \notin Mutexes
      /\ state \in [AllThreads -> States]
  BY Names DEF KiThreadCreateInternal, CoreInv, Cpu, Matches
<1>1. LiveSame
  BY <1>0, Names DEF KiThreadCreateInternal, LiveSame, Live
<1>2. ownedMutexCount[t] = 0
  <2>1. \A m \in Mutexes : owner[m] # t
    BY <1>0 DEF LockInv, MutexOwnership
  <2>2. {m \in Mutexes : owner[m] = t} = {}
    BY <2>1
  <2> QED BY <2>2, FS_EmptySet DEF LockInv, MutexOwnership
<1>3. ownedMutexCount' = ownedMutexCount
  BY <1>2 DEF KiThreadCreateInternal, CoreInv, LockTypes
<1>4. /\ \A m \in Mutexes : signal'[m] = signal[m]
      /\ \A u \in Threads : waitObject'[u] # NULL =>
            /\ signal'[waitObject'[u]] = 0 /\ waitObject'[u] = waitObject[u]
  <2>1. \A u \in Threads : waitObject'[u] = IF u = t THEN NULL ELSE waitObject[u]
    BY DEF KiThreadCreateInternal, CoreInv, Lists, BlockTypes
  <2>2. \A o \in Objects : signal'[o] = IF o = t THEN 0 ELSE signal[o]
    BY DEF KiThreadCreateInternal, CoreInv, LockTypes
  <2>3. \A u \in Threads : waitObject[u] \in Objects \cup {NULL}
    BY DEF CoreInv, Lists, BlockTypes
  <2> QED BY <1>0, <2>1, <2>2, <2>3, Names DEF LockInv, Waiting
<1> QED BY <1>1, <1>3, <1>4, LockFrame DEF KiThreadCreateInternal

\* KeThreadStart counts the thread it makes live.
LEMMA StartLocks ==
  ASSUME CoreInv, LockInv, NEW c \in AllThreads, NEW t \in Threads, KeThreadStart(c, t)
  PROVE  LockInv'
<1>0. /\ state[t] = "NEW" /\ t \in AllThreads /\ state \in [AllThreads -> States]
      /\ state' = [state EXCEPT ![t] = "READY"]
      /\ activeThreadCount' = activeThreadCount + 1
      /\ UNCHANGED <<blockVars, lockVars>>
  BY Names DEF KeThreadStart, CoreInv, Cpu, Matches
<1>1. \A u \in Threads : state'[u] = IF u = t THEN "READY" ELSE state[u]
  BY <1>0, Names
<1>2. LiveThreads' = LiveThreads \cup {t} /\ t \notin LiveThreads
  BY <1>0, <1>1 DEF LiveThreads, Live
<1>3. IsFiniteSet(LiveThreads)
  BY SchedulerAssumption, FS_Subset DEF LiveThreads
<1>4. activeThreadCount' = 1 + Cardinality(LiveThreads')
  <2>1. Cardinality(LiveThreads) \in Nat
    BY <1>3, FS_CardinalityType
  <2>2. Cardinality(LiveThreads \cup {t}) = Cardinality(LiveThreads) + 1
    BY <1>2, <1>3, FS_AddElement
  <2> QED BY <1>0, <1>2, <2>1, <2>2 DEF LockInv
<1>5. Waiting'
  BY <1>0 DEF LockInv, Waiting, blockVars, lockVars
<1>6. MutexOwnership'
  <2>1. \A m \in Mutexes : owner[m] \in Threads \cup {NULL}
    BY DEF CoreInv, LockTypes
  <2> QED BY <1>0, <1>1, <2>1 DEF LockInv, MutexOwnership, blockVars, lockVars
<1> QED BY <1>4, <1>5, <1>6 DEF LockInv

\* Waking blocked threads, preempting the running one and dispatching another
\* make nobody live and nobody dead.
LEMMA SettlesLive ==
  ASSUME NEW W, \A t \in W : state[t] = "BLOCKED", NEW st, Settles(st),
         \A t \in Threads : IF t \in W THEN st[t] = "READY"
                            ELSE st[t] = state[t] \/ (state[t] = "RUNNING" /\ st[t] = "READY")
  PROVE  LiveSame
BY DEF Settles, LiveSame, Live

\* KeYield.
LEMMA YieldLocks ==
  ASSUME CoreInv, LockInv, NEW t \in Threads, KeYield(t)
  PROVE  LockInv'
<1> USE DEF CoreInv
<1> DEFINE st == StateReady(state, <<t>>)
           rq == EnqueueReady(readyQueues, <<t>>)
<1>0. currentThread = t /\ state[t] = "RUNNING"
  BY DEF KeYield, Executes, Cpu
<1>1. <<t>> \in Seq(Threads) /\ Range(<<t>>) = {t} /\ Distinct(<<t>>)
  BY SingletonProperties
<1>2. Matches(st, rq)
  <2>1. Matches(state, readyQueues) /\ \A u \in Range(<<t>>) : state[u] # "READY"
    BY <1>0, <1>1 DEF Cpu
  <2> QED BY <1>1, <2>1, EnqueueMatches
<1>3. \A u \in Threads : st[u] = IF u = t THEN "READY" ELSE state[u]
  BY <1>1, StateReadyValue, Names
<1>4. KiSchedule(st, rq) /\ UNCHANGED <<lifeVars, blockVars, lockVars, timerPending>>
  BY DEF KeYield
<1> HIDE DEF st, rq
<1>5. Dispatched(st)
  <2>1. \A u \in Threads : st[u] # "RUNNING"
    BY <1>0, <1>3 DEF Cpu
  <2>2. BlockTypes' /\ \A u \in Range(timeoutQueue') : deadline'[u] # NoDeadline
    BY <1>4 DEF blockVars, Lists, BlockTypes
  <2> QED BY <1>2, <1>4, <2>1, <2>2, ScheduleDispatches
<1>6. Settles(st)
  BY <1>5, DispatchSettles
<1>7. LiveSame
  BY <1>0, <1>3, <1>6 DEF Settles, LiveSame, Live
<1> QED BY <1>4, <1>7, QuietLocks DEF lifeVars, blockVars

\* Blocking on an object that is not signalled, which the caller does not own.
LEMMA BlockLocks ==
  ASSUME CoreInv, LockInv, NEW t \in Threads, currentThread = t,
         NEW o \in Objects \cup {NULL}, NEW ticks \in Durations,
         o = NULL => ticks \in Timeouts, BlockCurrent(t, o, ticks),
         o # NULL => signal[o] = 0, o \in Mutexes => owner[o] # t,
         UNCHANGED lockVars, activeThreadCount' = activeThreadCount
  PROVE  LockInv'
<1> USE DEF CoreInv
<1>0. state[t] = "RUNNING" /\ state \in [AllThreads -> States]
  BY DEF Cpu, Matches
<1>1. /\ waitObject' = [waitObject EXCEPT ![t] = o]
      /\ Settles([state EXCEPT ![t] = "BLOCKED"])
  BY BlockCurrentBlocks
<1>2. LiveSame
  BY <1>0, <1>1, Names DEF Settles, LiveSame, Live
<1>3. \A u \in Threads : waitObject'[u] = IF u = t THEN o ELSE waitObject[u]
  BY <1>1 DEF Lists, BlockTypes
<1>4. LiveThreads' = LiveThreads
  BY <1>2 DEF LiveThreads, LiveSame
<1>5. Waiting'
  BY <1>3 DEF LockInv, Waiting, lockVars
<1>6. ASSUME NEW m \in Mutexes, owner'[m] # NULL
      PROVE  /\ state'[owner'[m]] \in {"READY", "RUNNING", "BLOCKED"}
             /\ waitObject'[owner'[m]] # m
  <2>1. owner'[m] = owner[m] /\ owner[m] \in Threads /\ state[owner[m]] \in Live /\ waitObject[owner[m]] # m
    BY <1>6 DEF LockTypes, LockInv, MutexOwnership, Live, lockVars
  <2>2. state'[owner[m]] \in Live
    BY <2>1, <1>2 DEF LiveSame
  <2> QED BY <2>1, <2>2, <1>3 DEF Live
<1>7. MutexOwnership'
  BY <1>6 DEF LockInv, MutexOwnership, lockVars
<1> QED BY <1>4, <1>5, <1>7 DEF LockInv

\* KeWaitForSingleObject takes a permit or a mutex, or blocks.
LEMMA WaitLocks ==
  ASSUME CoreInv, LockInv, NEW t \in Threads, NEW o \in Objects \ Threads, NEW ticks \in Durations,
         KeWaitForSingleObject(t, o, ticks)
  PROVE  LockInv'
<1>0. /\ currentThread = t /\ state[t] = "RUNNING" /\ activeThreadCount' = activeThreadCount
      /\ waitObject[t] = NULL /\ o # NULL
  BY Names DEF CoreInv, KeWaitForSingleObject, Executes, Cpu, BlockStates, lifeVars
<1>1. CASE KiTryAcquireDispatcherObject(t, o) /\ UNCHANGED <<blockVars, cpuVars, clockVars>>
  <2>0. /\ signal \in [Objects -> Nat] /\ signal[o] # 0 /\ LiveSame
        /\ waitObject' = waitObject /\ state' = state
        /\ \A u \in Threads : waitObject[u] \in Objects \cup {NULL}
    BY <1>1 DEF KiTryAcquireDispatcherObject, CoreInv, LockTypes, Lists, BlockTypes, blockVars, cpuVars, LiveSame
  <2>1. CASE o \in Semaphores
    <3>1. signal' = [signal EXCEPT ![o] = signal[o] - 1] /\ UNCHANGED <<owner, ownedMutexCount>>
      BY <1>1, <2>1, Names DEF KiTryAcquireDispatcherObject
    <3>2. \A x \in Objects : signal[x] = 0 => signal'[x] = 0
      BY <2>0, <3>1
    <3>3. \A m \in Mutexes : signal'[m] = signal[m]
      BY <2>0, <2>1, <3>1, Names
    <3> QED BY <1>0, <2>0, <3>1, <3>2, <3>3, LockFrame DEF LockInv, Waiting
  <2>2. CASE o \in Mutexes
    <3>1. /\ signal' = [signal EXCEPT ![o] = 0] /\ owner' = [owner EXCEPT ![o] = t]
          /\ ownedMutexCount' = [ownedMutexCount EXCEPT ![t] = ownedMutexCount[t] + 1]
      BY <1>1, <2>2, Names DEF KiTryAcquireDispatcherObject, CoreInv, LockTypes
    <3>2. Waiting'
      BY <2>0, <3>1 DEF LockInv, Waiting
    <3>3. \A m \in Mutexes : /\ owner'[m] = IF m = o THEN t ELSE owner[m]
                             /\ signal'[m] = IF m = o THEN 0 ELSE signal[m]
      BY <2>0, <3>1, Names DEF CoreInv, LockTypes
    <3>4. owner[o] = NULL
      BY <2>0, <2>2 DEF LockInv, MutexOwnership
    <3>5. ASSUME NEW u \in Threads
          PROVE  ownedMutexCount'[u] = Cardinality({m \in Mutexes : owner'[m] = u})
      <4>1. ownedMutexCount[u] = Cardinality(Owned(u))
        BY DEF LockInv, MutexOwnership, Owned
      <4>2. IsFiniteSet(Owned(u)) /\ Cardinality(Owned(u)) \in Nat
        BY SchedulerAssumption, FS_Subset, FS_CardinalityType DEF Owned
      <4>3. CASE u = t
        <5>1. {m \in Mutexes : owner'[m] = u} = Owned(u) \cup {o} /\ o \notin Owned(u)
          BY <4>3, <2>2, <3>3, <3>4, Names DEF Owned
        <5>2. Cardinality(Owned(u) \cup {o}) = Cardinality(Owned(u)) + 1
          BY <4>2, <5>1, FS_AddElement
        <5> QED BY <4>1, <4>3, <5>1, <5>2, <3>1 DEF CoreInv, LockTypes
      <4>4. CASE u # t
        <5>1. {m \in Mutexes : owner'[m] = u} = Owned(u)
          BY <4>4, <3>3, <3>4, Names DEF Owned
        <5> QED BY <4>1, <4>4, <5>1, <3>1 DEF CoreInv, LockTypes
      <4> QED BY <4>3, <4>4
    <3>6. MutexOwnership'
      BY ZenonT(30), <1>0, <2>0, <2>2, <3>3, <3>5, Names DEF LockInv, MutexOwnership
    <3>7. LiveThreads' = LiveThreads
      BY <2>0 DEF LiveThreads
    <3> QED BY <1>0, <3>2, <3>6, <3>7 DEF LockInv
  <2> QED BY <1>1, <2>1, <2>2 DEF KiTryAcquireDispatcherObject
<1>2. CASE /\ signal[o] = 0 /\ (o \in Mutexes => owner[o] # t)
           /\ BlockCurrent(t, o, ticks) /\ UNCHANGED lockVars
  BY <1>0, <1>2, BlockLocks
<1> QED BY <1>1, <1>2 DEF KeWaitForSingleObject

\* Waking waiters of one object, with or without a switch away from the idle
\* thread, leaves the set of live threads alone.
LEMMA WakeLive ==
  ASSUME CoreInv, NEW o \in Objects,
         NEW ws \in Seq(Threads), Distinct(ws), Range(ws) \subseteq Range(waitList[o]),
         KiCompleteWait(ws, "SUCCESS"),
         \/ ScheduleIfIdle(StateReady(state, ws), EnqueueReady(readyQueues, ws))
         \/ KeepRunning(StateReady(state, ws), EnqueueReady(readyQueues, ws))
  PROVE  LiveSame /\ Completes(ws, "SUCCESS")
<1> USE DEF CoreInv
<1>1. \A t \in Range(ws) : t \in Threads /\ waitObject[t] = o
  BY DEF Lists
<1>2. \A t \in Range(ws) : state[t] = "BLOCKED"
  BY <1>1, Names DEF BlockStates
<1>3. Completes(ws, "SUCCESS") /\ Settles(StateReady(state, ws))
  BY <1>2, ScheduleIfIdleWakes
<1>4. \A t \in Threads : StateReady(state, ws)[t] = IF t \in Range(ws) THEN "READY" ELSE state[t]
  BY StateReadyValue, Names
<1>5. LiveSame
  BY <1>2, <1>3, <1>4, SettlesLive
<1> QED BY <1>3, <1>5

\* KeSetEvent leaves nobody waiting for the event it signals.
LEMMA SetEventLocks ==
  ASSUME CoreInv, LockInv, NEW e \in Events, SetEvent(e), activeThreadCount' = activeThreadCount
  PROVE  LockInv'
<1> USE DEF CoreInv
<1>1. e \in Objects /\ e \notin Mutexes /\ e # NULL
  BY Names
<1>2. /\ waitList[e] \in Seq(Threads) /\ Distinct(waitList[e])
      /\ Range(waitList[e]) = {t \in Threads : waitObject[t] = e}
  BY <1>1 DEF Lists, BlockTypes
<1>3. LiveSame /\ Completes(waitList[e], "SUCCESS")
  BY <1>1, <1>2, WakeLive DEF SetEvent
<1>4. \A o \in Objects : signal'[o] = IF o = e THEN 1 ELSE signal[o]
  BY <1>1 DEF SetEvent, LockTypes
<1>5. \A t \in Threads : waitObject'[t] # NULL =>
        waitObject'[t] = waitObject[t] /\ waitObject[t] # e /\ waitObject[t] \in Objects
  BY <1>1, <1>2, <1>3 DEF Completes, Lists, BlockTypes
<1> QED BY <1>1, <1>3, <1>4, <1>5, LockFrame, Names DEF LockInv, Waiting, SetEvent

\* KeReleaseSemaphore raises the count only when it leaves no waiter.
LEMMA ReleaseSemaphoreLocks ==
  ASSUME CoreInv, LockInv, NEW c \in AllThreads, NEW s \in Semaphores, NEW n \in 1 .. Limit[s] + 1,
         KeReleaseSemaphore(c, s, n)
  PROVE  LockInv'
<1> USE DEF CoreInv
<1> DEFINE released == Min2(n, Len(waitList[s]))
           woken == SubSeq(waitList[s], 1, released)
<1>0. s \in Objects \ Threads /\ Limit[s] \in Nat /\ s # NULL /\ s \notin Mutexes
  BY Names, SchedulerAssumption
<1>1. /\ waitList[s] \in Seq(Threads) /\ Distinct(waitList[s]) /\ Len(waitList[s]) \in Nat
      /\ Range(waitList[s]) = {t \in Threads : waitObject[t] = s}
  BY <1>0 DEF Lists, BlockTypes
<1>2. /\ released \in 0 .. Len(waitList[s]) /\ n - released \in Nat
      /\ released # Len(waitList[s]) => n - released = 0
  BY <1>0, <1>1 DEF Min2
<1>3. /\ signal' = [signal EXCEPT ![s] = signal[s] + (n - released)]
      /\ KiCompleteWait(woken, "SUCCESS")
      /\ ScheduleIfIdle(StateReady(state, woken), EnqueueReady(readyQueues, woken))
      /\ UNCHANGED <<lifeVars, owner, ownedMutexCount, timerPending>>
  BY DEF KeReleaseSemaphore, LockTypes
<1> HIDE DEF released
<1>4. /\ woken \in Seq(Threads) /\ Distinct(woken) /\ Range(woken) \subseteq Range(waitList[s])
      /\ Range(woken) = {waitList[s][i] : i \in 1 .. released}
  BY <1>1, <1>2, FrontProperties
<1> HIDE DEF woken
<1>5. LiveSame /\ Completes(woken, "SUCCESS")
  BY <1>0, <1>3, <1>4, WakeLive
<1>6. \A o \in Objects : signal'[o] = IF o = s THEN signal[s] + (n - released) ELSE signal[o]
  BY <1>0, <1>3 DEF LockTypes
<1>7. \A t \in Threads : waitObject'[t] # NULL => waitObject'[t] = waitObject[t] /\ waitObject[t] \in Objects
  BY <1>5 DEF Completes, Lists, BlockTypes
<1>8. ASSUME NEW t \in Threads, waitObject'[t] = s PROVE signal'[s] = 0
  <2>1. t \notin Range(woken) /\ t \in Range(waitList[s])
    BY <1>0, <1>1, <1>5, <1>8 DEF Completes
  <2>2. released # Len(waitList[s])
    <3>1. Range(waitList[s]) = {waitList[s][i] : i \in 1 .. Len(waitList[s])}
      BY <1>1 DEF Range
    <3> QED BY <2>1, <3>1, <1>4, Zenon
  <2>3. signal[s] = 0
    BY <1>0, <1>7, <1>8 DEF LockInv, Waiting
  <2>4. n - released = 0
    BY <1>2, <2>2
  <2>5. signal'[s] = signal[s] + (n - released)
    BY <1>0, <1>6
  <2> QED BY <2>3, <2>4, <2>5
<1>9. \A t \in Threads : waitObject'[t] # NULL => signal'[waitObject'[t]] = 0
  BY <1>6, <1>7, <1>8 DEF LockInv, Waiting
<1>10. \A m \in Mutexes : signal'[m] = signal[m]
  BY <1>0, <1>6, Names
<1> QED BY <1>3, <1>5, <1>7, <1>9, <1>10, LockFrame DEF lifeVars

\* KeReleaseMutex moves one mutex from its owner to nobody or to the first
\* waiter, who stops waiting for it.
LEMMA ReleaseMutexLocks ==
  ASSUME CoreInv, LockInv, NEW t \in Threads, NEW m \in Mutexes, KeReleaseMutex(t, m)
  PROVE  LockInv'
<1> USE DEF CoreInv
<1>0. /\ m \in Objects \ Threads /\ m # NULL /\ owner[m] = t /\ signal[m] = 0 /\ t # NULL
      /\ currentThread = t /\ activeThreadCount' = activeThreadCount
      /\ waitObject[t] # m
  BY Names DEF KeReleaseMutex, Executes, lifeVars, LockInv, MutexOwnership
<1>1. \A u \in Threads : /\ ownedMutexCount[u] = Cardinality(Owned(u))
                         /\ IsFiniteSet(Owned(u)) /\ Cardinality(Owned(u)) \in Nat
  <2>1. \A u \in Threads : Owned(u) \in SUBSET Mutexes
    BY DEF Owned
  <2>2. \A u \in Threads : IsFiniteSet(Owned(u)) /\ Cardinality(Owned(u)) \in Nat
    BY <2>1, SchedulerAssumption, FS_Subset, FS_CardinalityType
  <2> QED BY <2>2 DEF LockInv, MutexOwnership, Owned
<1>2. Cardinality(Owned(t) \ {m}) = Cardinality(Owned(t)) - 1
  BY <1>0, <1>1, FS_RemoveElement DEF Owned
<1>3. CASE waitList[m] = << >>
  <2>1. /\ signal' = [signal EXCEPT ![m] = 1] /\ owner' = [owner EXCEPT ![m] = NULL]
        /\ ownedMutexCount' = [ownedMutexCount EXCEPT ![t] = ownedMutexCount[t] - 1]
        /\ waitObject' = waitObject /\ state' = state
    BY <1>3 DEF KeReleaseMutex, KiHandOffMutexOwnership, LockTypes, blockVars, cpuVars
  <2>2. \A x \in Mutexes : /\ owner'[x] = IF x = m THEN NULL ELSE owner[x]
                           /\ signal'[x] = IF x = m THEN 1 ELSE signal[x]
    BY <2>1, <1>0, Names DEF LockTypes
  <2>3. \A u \in Threads : waitObject[u] # m
    BY <1>0, <1>3 DEF Lists, Range
  <2>4. Waiting'
    BY <2>1, <2>3 DEF LockInv, Waiting, LockTypes
  <2>5. ASSUME NEW u \in Threads
        PROVE  ownedMutexCount'[u] = Cardinality({x \in Mutexes : owner'[x] = u})
    <3>1. CASE u = t
      <4>1. {x \in Mutexes : owner'[x] = u} = Owned(u) \ {m}
        BY <2>2, <3>1, Names DEF Owned
      <4> QED BY <3>1, <4>1, <1>1, <1>2, <2>1 DEF LockTypes
    <3>2. CASE u # t
      <4>1. {x \in Mutexes : owner'[x] = u} = Owned(u)
        BY <1>0, <2>2, <3>2, Names DEF Owned
      <4> QED BY <3>2, <4>1, <1>1, <2>1 DEF LockTypes
    <3> QED BY <3>1, <3>2
  <2>6. MutexOwnership'
    <3>1. \A x \in Mutexes :
            /\ (signal'[x] = 0 <=> owner'[x] # NULL)
            /\ owner'[x] # NULL => /\ state'[owner'[x]] \in {"READY", "RUNNING", "BLOCKED"}
                                   /\ waitObject'[owner'[x]] # x
      BY <2>1, <2>2 DEF LockInv, MutexOwnership
    <3> QED BY <2>5, <3>1 DEF MutexOwnership
  <2>7. LiveThreads' = LiveThreads
    BY <2>1 DEF LiveThreads
  <2> QED BY <1>0, <2>4, <2>6, <2>7 DEF LockInv
<1>4. CASE waitList[m] # << >>
  <2> DEFINE next == Head(waitList[m])
             ws == <<next>>
  <2>1. waitList[m] \in Seq(Threads) /\ Range(waitList[m]) = {u \in Threads : waitObject[u] = m}
    BY <1>0 DEF Lists, BlockTypes
  <2>2. next \in Threads /\ next \in Range(waitList[m])
    BY <1>4, <2>1, HeadRemoveProperties
  <2>3. /\ signal' = [signal EXCEPT ![m] = 0] /\ owner' = [owner EXCEPT ![m] = next]
        /\ ownedMutexCount' = [ownedMutexCount EXCEPT ![t] = @ - 1, ![next] = @ + 1]
        /\ KiCompleteWait(ws, "SUCCESS")
        /\ KeepRunning(StateReady(state, ws), EnqueueReady(readyQueues, ws))
    BY <1>4 DEF KeReleaseMutex, KiHandOffMutexOwnership
  <2> HIDE DEF next
  <2>4. ws \in Seq(Threads) /\ Range(ws) = {next} /\ Distinct(ws)
    BY <2>2, SingletonProperties
  <2> HIDE DEF ws
  <2>5. LiveSame /\ Completes(ws, "SUCCESS")
    BY <1>0, <2>2, <2>3, <2>4, WakeLive
  <2>6. waitObject[next] = m /\ next # t /\ state[next] = "BLOCKED" /\ owner[m] # next
    BY <1>0, <2>1, <2>2 DEF BlockStates
  <2>7. \A u \in Threads : waitObject'[u] = IF u = next THEN NULL ELSE waitObject[u]
    BY <2>4, <2>5 DEF Completes
  <2>8. \A x \in Objects : signal'[x] = signal[x]
    BY <1>0, <2>3 DEF LockTypes
  <2>9. \A x \in Mutexes : owner'[x] = IF x = m THEN next ELSE owner[x]
    BY <2>3 DEF LockTypes
  <2>10. Waiting'
    BY <2>7, <2>8 DEF LockInv, Waiting, Lists, BlockTypes
  <2>11. \A u \in Threads : ownedMutexCount'[u] =
            IF u = t THEN ownedMutexCount[u] - 1
            ELSE IF u = next THEN ownedMutexCount[u] + 1 ELSE ownedMutexCount[u]
    BY <2>2, <2>3, <2>6 DEF LockTypes
  <2>12. ASSUME NEW u \in Threads
         PROVE  ownedMutexCount'[u] = Cardinality({x \in Mutexes : owner'[x] = u})
    <3>1. CASE u = t
      <4>1. {x \in Mutexes : owner'[x] = u} = Owned(u) \ {m}
        BY <2>6, <2>9, <3>1 DEF Owned
      <4> QED BY <3>1, <4>1, <1>1, <1>2, <2>11
    <3>2. CASE u = next
      <4>1. {x \in Mutexes : owner'[x] = u} = Owned(u) \cup {m} /\ m \notin Owned(u)
        BY <2>6, <2>9, <3>2 DEF Owned
      <4>2. Cardinality(Owned(u) \cup {m}) = Cardinality(Owned(u)) + 1
        BY <1>1, <4>1, FS_AddElement
      <4> QED BY <3>2, <4>1, <4>2, <1>1, <2>6, <2>11
    <3>3. CASE u # t /\ u # next
      <4>1. {x \in Mutexes : owner'[x] = u} = Owned(u)
        BY <1>0, <2>9, <3>3 DEF Owned
      <4> QED BY <3>3, <4>1, <1>1, <2>11
    <3> QED BY <3>1, <3>2, <3>3
  <2>13. ASSUME NEW x \in Mutexes
         PROVE  /\ (signal'[x] = 0 <=> owner'[x] # NULL)
                /\ owner'[x] # NULL => /\ state'[owner'[x]] \in {"READY", "RUNNING", "BLOCKED"}
                                       /\ waitObject'[owner'[x]] # x
    <3>0. x \in Objects /\ x # NULL /\ next # NULL /\ owner[x] \in Threads \cup {NULL}
      BY <2>2, Names DEF LockTypes
    <3>1. CASE x = m
      <4>1. state'[next] \in Live
        BY <2>2, <2>5, <2>6 DEF LiveSame, Live
      <4> QED BY <1>0, <2>2, <2>7, <2>8, <2>9, <3>0, <3>1, <4>1 DEF Live
    <3>2. CASE x # m
      <4>0. owner'[x] = owner[x] /\ signal'[x] = signal[x]
        BY <2>8, <2>9, <3>0, <3>2
      <4>1. owner[x] # NULL => state[owner[x]] \in Live /\ waitObject[owner[x]] # x
        BY DEF LockInv, MutexOwnership, Live
      <4>2. owner[x] # NULL => state'[owner[x]] \in Live /\ waitObject'[owner[x]] # x
        BY <4>1, <2>5, <2>7, <3>0 DEF LiveSame
      <4>3. signal[x] = 0 <=> owner[x] # NULL
        BY DEF LockInv, MutexOwnership
      <4> QED BY <4>0, <4>2, <4>3 DEF Live
    <3> QED BY <3>1, <3>2
  <2>14. MutexOwnership'
    BY <2>12, <2>13 DEF MutexOwnership
  <2>15. LiveThreads' = LiveThreads
    BY <2>5 DEF LiveThreads, LiveSame
  <2> QED BY <1>0, <2>10, <2>14, <2>15 DEF LockInv
<1> QED BY <1>3, <1>4

\* The timer interrupt wakes threads empty-handed.
LEMMA TimerLocks ==
  ASSUME CoreInv, LockInv, KiSchedulerTimerISR
  PROVE  LockInv'
<1> USE DEF CoreInv
<1>0. UNCHANGED lockVars /\ activeThreadCount' = activeThreadCount
  BY DEF KiSchedulerTimerISR, WakeFromHalt
<1>1. CASE UNCHANGED <<blockVars, cpuVars, quantumDeadline, nextProgrammedDeadline>>
  BY <1>0, <1>1, QuietLocks DEF blockVars, cpuVars, LiveSame
<1>2. CASE /\ KiCompleteWait(Expired(timeoutQueue, deadline), "TIMEOUT")
           /\ TimerReschedule(Expired(timeoutQueue, deadline))
  <2> DEFINE due == Expired(timeoutQueue, deadline)
  <2>1. timeoutQueue \in Seq(Threads) /\ Distinct(timeoutQueue)
        /\ Range(timeoutQueue) = {t \in Threads : deadline[t] # NoDeadline}
    BY DEF Lists, BlockTypes
  <2>2. \A i \in 1 .. Len(timeoutQueue) : deadline[timeoutQueue[i]] \in Nat
    BY <2>1 DEF Range, Lists, BlockTypes
  <2>3. due \in Seq(Threads) /\ Range(due) \subseteq Range(timeoutQueue) /\ Distinct(due)
    BY <2>1, <2>2, ExpiredProperties
  <2> HIDE DEF due
  <2>4. \A t \in Range(due) : state[t] = "BLOCKED"
    BY <2>1, <2>3 DEF BlockStates
  <2>5. /\ Completes(due, "TIMEOUT")
        /\ \E st : /\ Settles(st)
                   /\ \A t \in Threads : IF t \in Range(due) THEN st[t] = "READY"
                         ELSE st[t] = state[t] \/ (state[t] = "RUNNING" /\ st[t] = "READY")
    BY <1>2, <2>3, <2>4, TimerRescheduleSettles DEF due
  <2>6. LiveSame
    BY <2>4, <2>5, SettlesLive
  <2>7. \A t \in Threads : waitObject'[t] # NULL => waitObject'[t] = waitObject[t]
    BY <2>5 DEF Completes
  <2> QED BY <1>0, <2>6, <2>7, LockFrame DEF lockVars, LockInv, Waiting
<1> QED BY <1>1, <1>2 DEF KiSchedulerTimerISR

\* KeThreadExit: a thread that owns no mutex leaves the live threads, and
\* nobody is left waiting for its termination event.
LEMMA ExitLocks ==
  ASSUME CoreInv, LockInv, NEW t \in Threads, KeThreadExit(t)
  PROVE  LockInv'
<1> USE DEF CoreInv
<1> DEFINE ws == waitList[t]
           st1 == [state EXCEPT ![t] = "TERMINATED"]
           st == StateReady(st1, ws)
           rq == EnqueueReady(readyQueues, ws)
<1>0. /\ currentThread = t /\ t \in Objects /\ t \in AllThreads /\ t \notin Mutexes /\ t # NULL
      /\ state \in [AllThreads -> States] /\ state[t] = "RUNNING"
  BY Names DEF KeThreadExit, Executes, Cpu, Matches
<1>1. /\ ws \in Seq(Threads) /\ Distinct(ws)
      /\ Range(ws) = {u \in Threads : waitObject[u] = t}
  BY <1>0 DEF Lists, BlockTypes
<1>2. /\ activeThreadCount' = activeThreadCount - 1
      /\ signal' = [signal EXCEPT ![t] = 1]
      /\ KiCompleteWait(ws, "SUCCESS")
      /\ KiSchedule(st, rq)
      /\ UNCHANGED <<owner, ownedMutexCount>>
      /\ ownedMutexCount[t] = 0
  BY DEF KeThreadExit
<1> HIDE DEF ws
<1>3. \A u \in Range(ws) : u \in Threads /\ state[u] = "BLOCKED" /\ u # t
  BY <1>0, <1>1, Names DEF BlockStates
<1>4. Lists' /\ Completes(ws, "SUCCESS")
  BY <1>1, <1>2, CompleteLists
<1>5. \A u \in AllThreads : st1[u] = IF u = t THEN "TERMINATED" ELSE state[u]
  BY <1>0
<1>6. Matches(st1, readyQueues)
  <2>1. st1 \in [AllThreads -> States]
    BY <1>0 DEF States
  <2>2. \A u \in Threads : st1[u] = "READY" <=> state[u] = "READY"
    BY <1>0, <1>5, Names
  <2> HIDE DEF st1
  <2>3. \A p \in Priorities : {u \in Threads : st1[u] = "READY" /\ Priority[u] = p}
                             = {u \in Threads : state[u] = "READY" /\ Priority[u] = p}
    BY <2>2
  <2> QED BY <2>1, <2>3 DEF Cpu, Matches
<1> HIDE DEF st1
<1>7. Matches(st, rq)
  <2>1. \A u \in Range(ws) : st1[u] # "READY"
    BY <1>3, <1>5, Names
  <2> QED BY <1>1, <1>6, <2>1, EnqueueMatches
<1>8. \A u \in Threads : st[u] = IF u \in Range(ws) THEN "READY"
                                 ELSE IF u = t THEN "TERMINATED" ELSE state[u]
  BY <1>5, StateReadyValue, Names
<1> HIDE DEF st, rq
<1>9. Dispatched(st)
  <2>1. \A u \in Threads : st[u] # "RUNNING"
    BY <1>0, <1>8 DEF Cpu
  <2>2. BlockTypes' /\ \A u \in Range(timeoutQueue') : deadline'[u] # NoDeadline
    BY <1>4 DEF Lists
  <2> QED BY <1>2, <1>7, <2>1, <2>2, ScheduleDispatches
<1>10. Settles(st)
  BY <1>9, DispatchSettles
<1>11. \A u \in Threads : state'[u] \in Live <=> state[u] \in Live /\ u # t
  BY <1>0, <1>3, <1>8, <1>10 DEF Settles, Live
<1>12. LiveThreads' = LiveThreads \ {t} /\ t \in LiveThreads
  BY <1>0, <1>11 DEF LiveThreads, Live
<1>13. activeThreadCount' = 1 + Cardinality(LiveThreads')
  <2>1. IsFiniteSet(LiveThreads)
    BY SchedulerAssumption, FS_Subset DEF LiveThreads
  <2>2. Cardinality(LiveThreads) \in Nat /\ Cardinality(LiveThreads \ {t}) = Cardinality(LiveThreads) - 1
    BY <1>12, <2>1, FS_CardinalityType, FS_RemoveElement
  <2> QED BY <1>2, <1>12, <2>2 DEF LockInv
<1>14. Waiting'
  <2>1. \A o \in Objects : signal'[o] = IF o = t THEN 1 ELSE signal[o]
    BY <1>0, <1>2 DEF LockTypes
  <2>2. \A u \in Threads : waitObject'[u] # NULL =>
          waitObject'[u] = waitObject[u] /\ waitObject[u] # t /\ waitObject[u] \in Objects
    BY <1>0, <1>1, <1>4 DEF Completes, Lists, BlockTypes
  <2> QED BY <2>1, <2>2 DEF LockInv, Waiting
<1>15. \A m \in Mutexes : owner[m] # t
  <2>1. IsFiniteSet(Owned(t)) /\ Cardinality(Owned(t)) = 0
    BY <1>2, SchedulerAssumption, FS_Subset DEF Owned, LockInv, MutexOwnership
  <2>2. Owned(t) = {}
    BY <2>1, FS_EmptySet
  <2> QED BY <2>2 DEF Owned
<1>16. ASSUME NEW m \in Mutexes
       PROVE  /\ (signal'[m] = 0 <=> owner'[m] # NULL)
              /\ owner'[m] # NULL => /\ state'[owner'[m]] \in {"READY", "RUNNING", "BLOCKED"}
                                     /\ waitObject'[owner'[m]] # m
  <2>0. owner'[m] = owner[m] /\ signal'[m] = signal[m] /\ m # NULL
    BY <1>0, <1>2, Names DEF LockTypes
  <2>1. /\ (signal[m] = 0 <=> owner[m] # NULL)
        /\ owner[m] # NULL => /\ owner[m] \in Threads /\ owner[m] # t
                              /\ state[owner[m]] \in Live /\ waitObject[owner[m]] # m
    BY <1>15 DEF LockInv, MutexOwnership, LockTypes, Live
  <2>2. owner[m] # NULL => state'[owner[m]] \in Live /\ waitObject'[owner[m]] # m
    BY <2>0, <2>1, <1>4, <1>11 DEF Completes
  <2> QED BY <2>0, <2>1, <2>2 DEF Live
<1>17. MutexOwnership'
  BY <1>2, <1>16 DEF LockInv, MutexOwnership
<1> QED BY <1>13, <1>14, <1>17 DEF LockInv

\* KeThreadJoin waits for a termination that has not been published.
LEMMA JoinWaitLocks ==
  ASSUME CoreInv, LockInv, NEW t \in Threads, NEW ticks \in Durations, KeThreadJoinWait(t, ticks)
  PROVE  LockInv'
<1> DEFINE u == target[t]
<1>0. /\ currentThread = t /\ pc[t] \in JoinPcs
      /\ UNCHANGED lockVars /\ activeThreadCount' = activeThreadCount
  BY DEF KeThreadJoinWait, JoinPcs
<1>1. u \in Threads
  BY <1>0, Names DEF CoreInv, Life, JoinTargetStable, JoinStable, LifeTypes
<1>2. CASE UNCHANGED <<blockVars, cpuVars, clockVars>>
  BY <1>0, <1>2, QuietLocks DEF blockVars, cpuVars, LiveSame
<1>3. CASE signal[u] = 0 /\ BlockCurrent(t, u, ticks)
  <2>1. u \in Objects /\ u # NULL /\ u \notin Mutexes
    BY <1>1, Names
  <2> HIDE DEF u
  <2> QED BY <1>0, <1>3, <2>1, BlockLocks
<1> QED BY <1>2, <1>3 DEF KeThreadJoinWait

\* KiFinalizeThread frees the slot of a thread that has ended and so owns
\* nothing.
LEMMA FinalizeLocks ==
  ASSUME CoreInv, LockInv, NEW c \in AllThreads, KiFinalizeThread(c)
  PROVE  LockInv'
<1>1. /\ pc[c] = "finalize" /\ UNCHANGED <<activeThreadCount, blockVars, lockVars>>
      /\ state' = [state EXCEPT ![target[c]] = "FREE"]
  BY DEF KiFinalizeThread
<1>2. target[c] # NULL
  BY <1>1 DEF CoreInv, Life, JoinTargetStable, JoinStable
<1>3. state[target[c]] = "TERMINATED"
  BY <1>1, <1>2, TargetClaimed DEF CoreInv
<1>4. LiveSame
  BY <1>1, <1>3, Names DEF CoreInv, Cpu, Matches, LiveSame, Live
<1> QED BY <1>1, <1>4, QuietLocks DEF blockVars

\* Every step preserves the bookkeeping of waits and locks.
LEMMA NextLocks ==
  ASSUME CoreInv, LockInv, [Next]_vars
  PROVE  LockInv'
<1>1. ASSUME NEW t \in Threads, ThreadStep(t) PROVE LockInv'
  <2>1. CASE KeYield(t)
    BY <2>1, YieldLocks
  <2>2. ASSUME NEW ticks \in Timeouts, KeSleep(t, ticks) PROVE LockInv'
    <3>1. ticks \in Durations /\ NULL \notin Mutexes /\ currentThread = t
      BY <2>2, Names DEF Durations, KeSleep, Executes
    <3>2. BlockCurrent(t, NULL, ticks) /\ UNCHANGED lockVars /\ activeThreadCount' = activeThreadCount
      BY <2>2 DEF KeSleep, lifeVars
    <3> QED BY <3>1, <3>2, BlockLocks
  <2>3. CASE \E o \in Objects \ Threads, ticks \in Durations : KeWaitForSingleObject(t, o, ticks)
    BY <2>3, WaitLocks
  <2>4. CASE \E m \in Mutexes : KeReleaseMutex(t, m)
    BY <2>4, ReleaseMutexLocks
  <2>5. CASE KeThreadExit(t)
    BY <2>5, ExitLocks
  <2>6. CASE \E ticks \in Durations : KeThreadJoinWait(t, ticks)
    BY <2>6, JoinWaitLocks
  <2>7. CASE \/ \E u \in Threads : KeThreadJoin(t, u)
             \/ KeThreadJoinConsume(t) \/ KeThreadJoinTimeout(t)
    <3>1. UNCHANGED <<activeThreadCount, blockVars, lockVars, cpuVars>>
      BY <2>7 DEF KeThreadJoin, KeThreadJoinConsume, KeThreadJoinTimeout
    <3> QED BY <3>1, QuietLocks DEF blockVars, cpuVars, LiveSame
  <2> QED BY <1>1, <2>1, <2>2, <2>3, <2>4, <2>5, <2>6, <2>7 DEF ThreadStep
<1>2. ASSUME NEW c \in AllThreads, AnyStep(c) PROVE LockInv'
  <2>1. ASSUME NEW u \in Threads, KeThreadCreate(c, u) \/ KeThreadCreateJoinable(c, u) PROVE LockInv'
    BY <2>1, CreateLocks DEF KeThreadCreate, KeThreadCreateJoinable
  <2>2. ASSUME NEW u \in Threads, KeThreadStart(c, u) PROVE LockInv'
    BY <2>2, StartLocks
  <2>3. ASSUME NEW u \in Threads, KeThreadDetach(c, u) PROVE LockInv'
    <3>1. UNCHANGED <<activeThreadCount, blockVars, lockVars, cpuVars>>
      BY <2>3 DEF KeThreadDetach
    <3> QED BY <3>1, QuietLocks DEF blockVars, cpuVars, LiveSame
  <2>4. ASSUME NEW e \in Events, KeSetEvent(c, e) PROVE LockInv'
    BY <2>4, SetEventLocks DEF KeSetEvent, lifeVars
  <2>5. ASSUME NEW e \in Events, KeResetEvent(c, e) PROVE LockInv'
    <3>1. /\ signal' = [signal EXCEPT ![e] = 0]
          /\ UNCHANGED <<lifeVars, blockVars, owner, ownedMutexCount, cpuVars>>
      BY <2>5 DEF KeResetEvent
    <3>2. \A o \in Objects : signal'[o] = IF o = e THEN 0 ELSE signal[o]
      BY <3>1, Names DEF CoreInv, LockTypes
    <3>3. \A t \in Threads : waitObject[t] \in Objects \cup {NULL}
      BY DEF CoreInv, Lists, BlockTypes
    <3>4. \A m \in Mutexes : signal'[m] = signal[m]
      BY <3>2, Names
    <3>5. \A t \in Threads : waitObject'[t] # NULL => signal'[waitObject'[t]] = 0 /\ waitObject'[t] = waitObject[t]
      BY <3>1, <3>2, <3>3 DEF LockInv, Waiting, blockVars
    <3> QED BY <3>1, <3>4, <3>5, LockFrame DEF lifeVars, cpuVars, LiveSame
  <2>6. ASSUME NEW s \in Semaphores, NEW n \in 1 .. Limit[s] + 1, KeReleaseSemaphore(c, s, n)
        PROVE  LockInv'
    BY <2>6, ReleaseSemaphoreLocks
  <2>7. CASE KiFinalizeThread(c)
    BY <2>7, FinalizeLocks
  <2> QED BY <1>2, <2>1, <2>2, <2>3, <2>4, <2>5, <2>6, <2>7 DEF AnyStep
<1>3. CASE IdleStep \/ Tick \/ UNCHANGED vars
  <2>1. UNCHANGED <<activeThreadCount, waitObject, lockVars, cpuVars>>
    BY <1>3 DEF IdleStep, EnterIdleLoop, Halt, KiReapTerminatedThreads, Tick, vars, lifeVars, blockVars
  <2> QED BY <2>1, QuietLocks DEF cpuVars, LiveSame
<1>4. ASSUME NEW e \in DeviceEvents, DeviceInterrupt(e) PROVE LockInv'
  <2>1. e \in Events /\ SetEvent(e) /\ activeThreadCount' = activeThreadCount
    BY <1>4, SchedulerAssumption DEF DeviceInterrupt, WakeFromHalt
  <2> QED BY <2>1, SetEventLocks
<1>5. CASE KiSchedulerTimerISR
  BY <1>5, TimerLocks
<1> QED BY <1>1, <1>2, <1>3, <1>4, <1>5 DEF Next

\* The bookkeeping holds in every reachable state.
LEMMA LockInvariant == Spec => [](CoreInv /\ LockInv)
<1>1. Init => CoreInv
  BY InitCore
<1>2. Init => LockInv
  <2> SUFFICES ASSUME Init PROVE LockInv
    OBVIOUS
  <2>1. LiveThreads = {}
    BY Names DEF Init, LiveThreads, Live
  <2>2. \A t \in Threads : {m \in Mutexes : owner[m] = t} = {}
    BY Names DEF Init
  <2>3. MutexOwnership
    <3>1. \A m \in Mutexes : signal[m] = 1 /\ owner[m] = NULL
      BY Names DEF Init
    <3>2. \A t \in Threads : ownedMutexCount[t] = Cardinality({m \in Mutexes : owner[m] = t})
      BY <2>2, FS_EmptySet DEF Init
    <3> QED BY <3>1, <3>2 DEF MutexOwnership
  <2> QED BY <2>1, <2>3, FS_EmptySet DEF Init, LockInv, Waiting
<1>3. CoreInv /\ LockInv /\ [Next]_vars => CoreInv' /\ LockInv'
  BY NextCore, NextLocks
<1> QED BY <1>1, <1>2, <1>3, PTL DEF Spec

\* Nobody is left in the wait list of an object that could satisfy him
\* (KeWaitForSingleObject checks before it blocks; every signal drains the
\* list or hands the signal over).
THEOREM NoWakeupLost == Spec => []NoLostWakeup
<1>1. CoreInv /\ LockInv => NoLostWakeup
  BY WaitingLists DEF LockInv
<1> QED BY <1>1, LockInvariant, PTL

\* A mutex has one live owner or is free, and OwnedMutexCount counts exactly
\* (KiTryAcquireDispatcherObject, KiHandOffMutexOwnership, KeThreadExit).
THEOREM MutexesOwned == Spec => []MutexOwnership
<1>1. CoreInv /\ LockInv => MutexOwnership
  BY DEF LockInv
<1> QED BY <1>1, LockInvariant, PTL

\* Nothing refers to a freed KTHREAD, and ActiveThreadCount is right.
THEOREM NothingDangles == Spec => []NoDanglingThread
<1>1. ASSUME CoreInv, LockInv PROVE NoDanglingThread
  <2> USE DEF CoreInv
  <2>1. activeThreadCount = 1 + Cardinality({t \in Threads : state[t] \in {"READY", "RUNNING", "BLOCKED"}})
    BY <1>1 DEF LockInv, LiveThreads, Live
  <2>2. ASSUME NEW t \in Threads, state[t] = "FREE"
        PROVE  /\ \A p \in Priorities : t \notin Range(readyQueues[p])
               /\ \A o \in Objects : t \notin Range(waitList[o])
               /\ t \notin Range(timeoutQueue) \cup Range(terminatedList)
               /\ currentThread # t
    <3>1. \A p \in Priorities : t \notin Range(readyQueues[p])
      BY <1>1, <2>2 DEF Cpu, Matches
    <3>2. waitObject[t] = NULL /\ deadline[t] = NoDeadline
      BY <1>1, <2>2 DEF BlockStates
    <3>3. (\A o \in Objects : t \notin Range(waitList[o])) /\ t \notin Range(timeoutQueue)
      BY <1>1, <3>2, Names DEF Lists
    <3>4. t \notin Range(terminatedList)
      BY <1>1, <2>2 DEF Life, TerminatedHasOneOwner, ReaperListExact
    <3>5. currentThread # t
      BY <1>1, <2>2 DEF Cpu
    <3> QED BY <3>1, <3>3, <3>4, <3>5
  <2>3. ASSUME NEW t \in Threads, state[t] = "FREE", NEW c \in AllThreads PROVE target[c] # t
    BY <1>1, <2>3, TargetClaimed, Names
  <2>4. ASSUME NEW t \in Threads, state[t] = "FREE" PROVE waitList[t] = << >>
    <3>1. \A u \in Threads : waitObject[u] # t
      BY <1>1, <2>3, <2>4, Names DEF Life, Claims, ClaimsOf
    <3>2. t \in Objects /\ waitList[t] \in Seq(Threads) /\ Range(waitList[t]) = {}
      BY <1>1, <3>1, Names DEF Lists, BlockTypes
    <3> QED BY <3>2, EmptyRange
  <2>5. ASSUME NEW t \in Threads, state[t] = "FREE", NEW m \in Mutexes PROVE owner[m] # t
    BY <1>1, <2>5, Names DEF LockInv, MutexOwnership
  <2> QED BY <2>1, <2>2, <2>3, <2>4, <2>5 DEF NoDanglingThread
<1>2. CoreInv /\ LockInv => NoDanglingThread
  BY <1>1
<1> QED BY <1>2, LockInvariant, PTL

-----------------------------------------------------------------------------
(* How a wait on a mutex ends.                                             *)

\* The waits on mutexes go on.
MutexWaitsKept == \A t \in Threads : waitObject[t] \in Mutexes => waitObject'[t] = waitObject[t]

\* The wait of t on m ends with the mutex or with a timeout.
OutcomeOf(m, t) ==
  waitObject[t] = m /\ waitObject'[t] # m => (waitStatus'[t] = "SUCCESS" <=> owner'[m] = t)

\* Blocking the running thread ends nobody's wait.
LEMMA BlockKeepsWaits ==
  ASSUME CoreInv, NEW t \in Threads, currentThread = t, NEW o, NEW ticks, BlockCurrent(t, o, ticks)
  PROVE  MutexWaitsKept
<1>1. waitObject[t] = NULL
  BY DEF CoreInv, Cpu, BlockStates
<1> QED BY <1>1, Names DEF BlockCurrent, MutexWaitsKept, CoreInv, Lists, BlockTypes

\* Completing the waits on an object that is no mutex ends no wait on one.
LEMMA WakeKeepsWaits ==
  ASSUME CoreInv, NEW o \in Objects \ Mutexes, NEW ws, Range(ws) \subseteq Range(waitList[o]),
         KiCompleteWait(ws, "SUCCESS")
  PROVE  MutexWaitsKept
<1>1. \A t \in Range(ws) : t \in Threads /\ waitObject[t] = o
  BY DEF CoreInv, Lists
<1> QED BY <1>1 DEF KiCompleteWait, MutexWaitsKept

\* Every step ends the waits on mutexes in one of the two ways.
LEMMA NextOutcome ==
  ASSUME CoreInv, LockInv, [Next]_vars, NEW m \in Mutexes, NEW t \in Threads
  PROVE  OutcomeOf(m, t)
<1>0. SUFFICES MutexWaitsKept \/ OutcomeOf(m, t)
  BY DEF MutexWaitsKept, OutcomeOf
<1>a. ASSUME waitObject' = waitObject PROVE MutexWaitsKept
  BY <1>a DEF MutexWaitsKept
<1>b. ASSUME NEW e \in Events, SetEvent(e) PROVE MutexWaitsKept
  <2>1. e \in Objects \ Mutexes
    BY Names
  <2> QED BY <1>b, <2>1, WakeKeepsWaits DEF SetEvent
<1>1. ASSUME NEW u \in Threads, ThreadStep(u) PROVE MutexWaitsKept \/ OutcomeOf(m, t)
  <2>1. CASE KeYield(u)
    BY <2>1, <1>a DEF KeYield, blockVars
  <2>2. CASE \E ticks \in Timeouts : KeSleep(u, ticks)
    BY <2>2, BlockKeepsWaits DEF KeSleep, Executes
  <2>3. ASSUME NEW o \in Objects \ Threads, NEW ticks \in Durations, KeWaitForSingleObject(u, o, ticks)
        PROVE  MutexWaitsKept
    <3>1. CASE UNCHANGED blockVars
      BY <3>1, <1>a DEF blockVars
    <3>2. CASE BlockCurrent(u, o, ticks)
      BY <2>3, <3>2, BlockKeepsWaits DEF KeWaitForSingleObject, Executes
    <3> QED BY <2>3, <3>1, <3>2 DEF KeWaitForSingleObject
  <2>4. ASSUME NEW x \in Mutexes, KeReleaseMutex(u, x) PROVE OutcomeOf(m, t)
    <3>1. CASE waitList[x] = << >>
      BY <2>4, <3>1 DEF KeReleaseMutex, blockVars, OutcomeOf
    <3>2. CASE waitList[x] # << >>
      <4> DEFINE next == Head(waitList[x])
      <4>1. waitList[x] \in Seq(Threads) /\ Range(waitList[x]) = {v \in Threads : waitObject[v] = x}
        BY Names DEF CoreInv, Lists, BlockTypes
      <4>2. next \in Threads /\ waitObject[next] = x
        BY <3>2, <4>1, HeadRemoveProperties
      <4>3. KiCompleteWait(<<next>>, "SUCCESS") /\ owner' = [owner EXCEPT ![x] = next]
        BY <2>4, <3>2 DEF KeReleaseMutex, KiHandOffMutexOwnership
      <4> HIDE DEF next
      <4>4. Range(<<next>>) = {next}
        BY <4>2, SingletonProperties
      <4>5. \A v \in Threads : /\ waitObject'[v] = IF v = next THEN NULL ELSE waitObject[v]
                               /\ waitStatus'[v] = IF v = next THEN "SUCCESS" ELSE waitStatus[v]
        BY <4>3, <4>4 DEF KiCompleteWait
      <4>6. owner'[x] = next
        BY <4>3 DEF CoreInv, LockTypes
      <4> QED BY <4>2, <4>5, <4>6 DEF OutcomeOf
    <3> QED BY <3>1, <3>2
  <2>5. CASE KeThreadExit(u)
    <3>1. u \in Objects \ Mutexes
      BY Names
    <3> QED BY <2>5, <3>1, WakeKeepsWaits DEF KeThreadExit
  <2>6. CASE \E v \in Threads : KeThreadJoin(u, v)
    BY <2>6, <1>a DEF KeThreadJoin, blockVars
  <2>7. ASSUME NEW ticks \in Durations, KeThreadJoinWait(u, ticks) PROVE MutexWaitsKept
    <3>1. CASE UNCHANGED blockVars
      BY <3>1, <1>a DEF blockVars
    <3>2. CASE BlockCurrent(u, target[u], ticks)
      BY <2>7, <3>2, BlockKeepsWaits DEF KeThreadJoinWait
    <3> QED BY <2>7, <3>1, <3>2 DEF KeThreadJoinWait
  <2>8. CASE KeThreadJoinConsume(u) \/ KeThreadJoinTimeout(u)
    BY <2>8, <1>a DEF KeThreadJoinConsume, KeThreadJoinTimeout, blockVars
  <2> QED BY <1>1, <2>1, <2>2, <2>3, <2>4, <2>5, <2>6, <2>7, <2>8 DEF ThreadStep
<1>2. ASSUME NEW c \in AllThreads, AnyStep(c) PROVE MutexWaitsKept
  <2>1. ASSUME NEW u \in Threads, NEW mode, KiThreadCreateInternal(c, u, mode) PROVE MutexWaitsKept
    <3>1. state[u] = "FREE" /\ waitObject' = [waitObject EXCEPT ![u] = NULL]
      BY <2>1 DEF KiThreadCreateInternal
    <3>2. waitObject[u] = NULL
      BY <3>1 DEF CoreInv, BlockStates
    <3> QED BY <3>1, <3>2, Names DEF MutexWaitsKept, CoreInv, Lists, BlockTypes
  <2>2. ASSUME NEW u \in Threads, KeThreadStart(c, u) \/ KeThreadDetach(c, u) PROVE MutexWaitsKept
    BY <2>2, <1>a DEF KeThreadStart, KeThreadDetach, blockVars
  <2>3. ASSUME NEW e \in Events, KeSetEvent(c, e) PROVE MutexWaitsKept
    BY <2>3, <1>b DEF KeSetEvent
  <2>4. ASSUME NEW e \in Events, KeResetEvent(c, e) PROVE MutexWaitsKept
    BY <2>4, <1>a DEF KeResetEvent, blockVars
  <2>5. ASSUME NEW s \in Semaphores, NEW n \in 1 .. Limit[s] + 1, KeReleaseSemaphore(c, s, n)
        PROVE  MutexWaitsKept
    <3> DEFINE k == Min2(n, Len(waitList[s]))
               woken == SubSeq(waitList[s], 1, k)
    <3>1. s \in Objects \ Mutexes /\ Limit[s] \in Nat
      BY Names, SchedulerAssumption
    <3>2. waitList[s] \in Seq(Threads) /\ k \in 0 .. Len(waitList[s])
      BY <3>1 DEF CoreInv, Lists, BlockTypes, Min2
    <3>3. KiCompleteWait(woken, "SUCCESS")
      BY <2>5 DEF KeReleaseSemaphore
    <3> HIDE DEF k
    <3>4. Range(woken) \subseteq Range(waitList[s])
      BY <3>2, FrontProperties
    <3> HIDE DEF woken
    <3> QED BY <3>1, <3>3, <3>4, WakeKeepsWaits
  <2>6. CASE KiFinalizeThread(c)
    BY <2>6, <1>a DEF KiFinalizeThread, blockVars
  <2> QED BY <1>2, <2>1, <2>2, <2>3, <2>4, <2>5, <2>6 DEF AnyStep, KeThreadCreate, KeThreadCreateJoinable
<1>3. CASE IdleStep \/ Tick \/ UNCHANGED vars
  BY <1>3, <1>a DEF IdleStep, EnterIdleLoop, Halt, KiReapTerminatedThreads, Tick, vars, blockVars
<1>4. ASSUME NEW e \in DeviceEvents, DeviceInterrupt(e) PROVE MutexWaitsKept
  BY <1>4, <1>b, SchedulerAssumption DEF DeviceInterrupt
<1>5. CASE KiSchedulerTimerISR
  <2>1. owner' = owner
    BY <1>5 DEF KiSchedulerTimerISR, lockVars
  <2>2. CASE UNCHANGED blockVars
    BY <2>2, <1>a DEF blockVars
  <2>3. ASSUME NEW due, KiCompleteWait(due, "TIMEOUT") PROVE OutcomeOf(m, t)
    <3>1. waitObject[t] = m => owner[m] # t
      BY Names DEF LockInv, MutexOwnership
    <3>2. waitObject'[t] # waitObject[t] => waitStatus'[t] = "TIMEOUT"
      BY <2>3 DEF KiCompleteWait
    <3> QED BY <2>1, <3>1, <3>2 DEF OutcomeOf
  <2> QED BY <1>5, <2>2, <2>3 DEF KiSchedulerTimerISR
<1> QED BY <1>1, <1>2, <1>3, <1>4, <1>5 DEF Next

\* A wait on a mutex reports success exactly when its thread has become the
\* owner: the timeout and the hand-over cannot both win.
THEOREM OutcomeMatches == Spec => WaitOutcomeMatchesOwnership
<1>1. CoreInv /\ LockInv /\ [Next]_vars =>
        [\A m \in Mutexes, t \in Threads :
            waitObject[t] = m /\ waitObject'[t] # m
              => (waitStatus'[t] = "SUCCESS" <=> owner'[m] = t)]_vars
  BY NextOutcome DEF OutcomeOf
<1> QED BY <1>1, LockInvariant, PTL DEF Spec, WaitOutcomeMatchesOwnership

-----------------------------------------------------------------------------
(* The tickless timer.                                                     *)

\* KiArmForNextEvent covers the quantum of the thread it is called for and
\* the head of the timeout queue.
LEMMA ArmCovers ==
  ASSUME KiArmForNextEvent(currentThread'), Lists', SortedBy(timeoutQueue, deadline)',
         currentThread' = Idle => ~KiHasAnyReadyThread(readyQueues')
  PROVE  TimerCoversObligations'
<1>0. Quantum \in Nat \ {0} /\ MaxDelta \in Nat \ {0}
  BY SchedulerAssumption
<1> DEFINE h == deadline'[Head(timeoutQueue')]
<1>1. timeoutQueue' # << >> => h \in Nat
  <2>1. /\ timeoutQueue' \in Seq(Threads) /\ deadline' \in [Threads -> Nat \cup {NoDeadline}]
        /\ Range(timeoutQueue') = {t \in Threads : deadline'[t] # NoDeadline}
    BY DEF Lists, BlockTypes
  <2>2. timeoutQueue' # << >> => Head(timeoutQueue') \in Range(timeoutQueue')
    BY <2>1, HeadRemoveProperties
  <2> QED BY <2>1, <2>2
<1>2. \A n \in Nat : Min2(Delta(n), MaxDelta) \in 1 .. Delta(n)
  BY <1>0 DEF Min2, Delta
<1>3. CASE currentThread' = Idle /\ timeoutQueue' # << >>
  <2>1. nextProgrammedDeadline' = h /\ oneShot' = Min2(Delta(h), MaxDelta)
    BY <1>3 DEF KiArmForNextEvent, KiArmClockEvent
  <2>2. h \in Nat /\ h # NoDeadline /\ h <= h
    BY <1>1, <1>3 DEF NoDeadline
  <2> HIDE DEF h
  <2>3. oneShot' \in 1 .. Delta(nextProgrammedDeadline')
    BY <1>2, <2>1, <2>2
  <2> QED BY <1>3, <2>1, <2>2, <2>3 DEF TimerCoversObligations, h
<1>4. CASE currentThread' = Idle /\ timeoutQueue' = << >>
  <2>1. nextProgrammedDeadline' = NoDeadline
    BY <1>4 DEF KiArmForNextEvent
  <2> QED BY <1>4, <2>1 DEF TimerCoversObligations
<1>5. CASE currentThread' # Idle
  <2> DEFINE run == IF timeoutQueue' = << >> THEN Quantum ELSE Min2(Quantum, h)
  <2>1. quantumDeadline' = Quantum /\ nextProgrammedDeadline' = run
        /\ oneShot' = Min2(Delta(run), MaxDelta)
    BY <1>5 DEF KiArmForNextEvent, KiArmClockEvent
  <2>2. run \in Nat /\ run # NoDeadline /\ run <= Quantum /\ (timeoutQueue' # << >> => run <= h)
    BY <1>0, <1>1 DEF Min2, NoDeadline
  <2> HIDE DEF run, h
  <2>3. oneShot' \in 1 .. Delta(nextProgrammedDeadline')
    BY <1>2, <2>1, <2>2
  <2> QED BY <1>5, <2>1, <2>2, <2>3 DEF TimerCoversObligations, h
<1> QED BY <1>3, <1>4, <1>5

\* A scheduling decision arms the timer for the thread it dispatches, and
\* dispatches the idle thread only when nobody is ready.
LEMMA ScheduleCovers ==
  ASSUME NEW st, NEW rq, Matches(st, rq), KiSchedule(st, rq), Lists',
         SortedBy(timeoutQueue, deadline)'
  PROVE  TimerCoversObligations'
<1>1. CASE KiHasAnyReadyThread(rq)
  <2> DEFINE p == KiGetHighestPriorityReadyQueue(rq)
  <2>1. p \in Priorities /\ rq[p] # << >> /\ rq[p] \in Seq(Threads)
    BY <1>1, HighestQueue DEF Matches
  <2>2. currentThread' = Head(rq[p]) /\ KiArmForNextEvent(Head(rq[p]))
    BY <1>1 DEF KiSchedule
  <2> HIDE DEF p
  <2>3. currentThread' # Idle
    BY <2>1, <2>2, HeadRemoveProperties, Names
  <2> QED BY <2>2, <2>3, ArmCovers
<1>2. CASE ~KiHasAnyReadyThread(rq)
  <2>1. readyQueues' = rq /\ currentThread' = Idle /\ KiArmForNextEvent(Idle)
    BY <1>2 DEF KiSchedule
  <2> QED BY <1>2, <2>1, ArmCovers
<1> QED BY <1>1, <1>2

\* Completing waits keeps the timeout queue sorted and makes its head no
\* earlier.
LEMMA CompleteSorted ==
  ASSUME Lists, SortedBy(timeoutQueue, deadline), NEW ws \in Seq(Threads),
         NEW status \in {"SUCCESS", "TIMEOUT"}, KiCompleteWait(ws, status)
  PROVE  /\ SortedBy(timeoutQueue, deadline)'
         /\ timeoutQueue' # << >> =>
              /\ timeoutQueue # << >>
              /\ deadline[Head(timeoutQueue)] <= deadline'[Head(timeoutQueue')]
<1>1. Lists' /\ Completes(ws, status)
  BY CompleteLists
<1>2. timeoutQueue' = LinkedListRemove(timeoutQueue, Range(ws))
  BY DEF KiCompleteWait
<1>3. timeoutQueue \in Seq(Threads) /\ timeoutQueue' \in Seq(Threads)
  BY <1>1 DEF Lists, BlockTypes
<1>4. /\ Range(timeoutQueue') = Range(timeoutQueue) \ Range(ws)
      /\ SortedBy(timeoutQueue', deadline)
  BY <1>2, <1>3, RemoveProperties, RemoveSorted
<1>5. Range(timeoutQueue) \subseteq Threads /\ \A a \in Range(timeoutQueue) : deadline[a] \in Int
  BY DEF Lists, BlockTypes, NoDeadline
<1>6. \A a \in Range(timeoutQueue') : deadline'[a] = deadline[a]
  BY <1>1, <1>4, <1>5 DEF Completes
<1>7. SortedBy(timeoutQueue', deadline')
  <2>1. \A a, b \in Range(timeoutQueue') : deadline[a] <= deadline[b] => deadline'[a] <= deadline'[b]
    BY <1>6
  <2> QED BY <1>3, <1>4, <1>5, <2>1, SortedProperties
<1>8. ASSUME timeoutQueue' # << >>
      PROVE  /\ timeoutQueue # << >>
             /\ deadline[Head(timeoutQueue)] <= deadline'[Head(timeoutQueue')]
  <2>1. Head(timeoutQueue') \in Range(timeoutQueue')
    BY <1>3, <1>8, HeadRemoveProperties
  <2>2. Head(timeoutQueue') \in Range(timeoutQueue)
    BY <2>1, <1>4
  <2>3. timeoutQueue # << >>
    BY <2>2, <1>3, EmptyRange
  <2>4. deadline[Head(timeoutQueue)] <= deadline[Head(timeoutQueue')]
    BY <2>2, <1>3, <1>5, SortedProperties
  <2> QED BY <2>1, <2>3, <2>4, <1>6
<1> QED BY <1>7, <1>8

\* Steps that leave the CPU, the clock and the timeouts alone.
LEMMA QuietTimer ==
  ASSUME TimerCoversObligations,
         UNCHANGED <<timeoutQueue, readyQueues, currentThread, clockVars, timerPending>>,
         CoreInv, \A t \in Range(timeoutQueue) : deadline'[t] = deadline[t]
  PROVE  TimerCoversObligations'
<1>1. timeoutQueue \in Seq(Threads) /\ \A a \in Range(timeoutQueue) : deadline[a] \in Int
  BY DEF CoreInv, Lists, BlockTypes, NoDeadline
<1>2. SortedBy(timeoutQueue, deadline')
  <2>1. \A a, b \in Range(timeoutQueue) : deadline[a] <= deadline[b] => deadline'[a] <= deadline'[b]
    OBVIOUS
  <2> QED BY <1>1, <2>1, SortedProperties DEF TimerCoversObligations
<1>3. timeoutQueue # << >> => Head(timeoutQueue) \in Range(timeoutQueue)
  BY <1>1, HeadRemoveProperties
<1> QED BY <1>2, <1>3 DEF TimerCoversObligations, clockVars

\* The end of KeSetEvent, KeReleaseSemaphore and KeReleaseMutex: a thread that
\* runs keeps its quantum, and an idle CPU with a ready thread switches.
LEMMA WakeTimer ==
  ASSUME CoreInv, TimerCoversObligations, NEW o \in Objects,
         NEW ws \in Seq(Threads), Distinct(ws), Range(ws) \subseteq Range(waitList[o]),
         KiCompleteWait(ws, "SUCCESS"), timerPending' = timerPending,
         \/ ScheduleIfIdle(StateReady(state, ws), EnqueueReady(readyQueues, ws))
         \/ /\ KeepRunning(StateReady(state, ws), EnqueueReady(readyQueues, ws))
            /\ currentThread # Idle
  PROVE  TimerCoversObligations'
<1> USE DEF CoreInv
<1> DEFINE st == StateReady(state, ws)
           rq == EnqueueReady(readyQueues, ws)
<1>1. \A t \in Range(ws) : t \in Threads /\ waitObject[t] = o
  BY DEF Lists
<1>2. \A t \in Range(ws) : state[t] = "BLOCKED"
  BY <1>1, Names DEF BlockStates
<1>3. Matches(st, rq)
  <2>1. Matches(state, readyQueues) /\ \A t \in Range(ws) : state[t] # "READY"
    BY <1>2 DEF Cpu
  <2> QED BY <2>1, EnqueueMatches
<1>4. Lists'
  BY CompleteLists
<1>5. SortedBy(timeoutQueue, deadline)
  BY DEF TimerCoversObligations
<1>6. /\ SortedBy(timeoutQueue, deadline)'
      /\ timeoutQueue' # << >> =>
           /\ timeoutQueue # << >>
           /\ deadline[Head(timeoutQueue)] <= deadline'[Head(timeoutQueue')]
  BY <1>5, CompleteSorted
<1> HIDE DEF st, rq
<1>7. CASE KiSchedule(st, rq)
  BY <1>3, <1>4, <1>6, <1>7, ScheduleCovers
<1>8. CASE KeepRunning(st, rq) /\ ~(currentThread = Idle /\ KiHasAnyReadyThread(rq))
  <2>1. readyQueues' = rq /\ UNCHANGED <<currentThread, quantumDeadline, nextProgrammedDeadline, oneShot>>
    BY <1>8 DEF KeepRunning, clockVars
  <2>2. ASSUME timeoutQueue' # << >>
        PROVE  nextProgrammedDeadline' # NoDeadline /\ nextProgrammedDeadline' <= deadline'[Head(timeoutQueue')]
    <3>1. timeoutQueue # << >> /\ deadline[Head(timeoutQueue)] <= deadline'[Head(timeoutQueue')]
      BY <1>6, <2>2
    <3>2. nextProgrammedDeadline # NoDeadline /\ nextProgrammedDeadline <= deadline[Head(timeoutQueue)]
      BY <3>1 DEF TimerCoversObligations
    <3>3. deadline[Head(timeoutQueue)] \in Int /\ deadline'[Head(timeoutQueue')] \in Int
          /\ nextProgrammedDeadline \in Int
      <4>1. timeoutQueue \in Seq(Threads) /\ timeoutQueue' \in Seq(Threads)
        BY <1>4 DEF Lists, BlockTypes
      <4>2. Head(timeoutQueue) \in Threads /\ Head(timeoutQueue') \in Threads
        BY <2>2, <3>1, <4>1, HeadRemoveProperties
      <4> QED BY <1>4, <4>2 DEF Lists, BlockTypes, ClockTypes, NoDeadline
    <3> QED BY <2>1, <3>1, <3>2, <3>3
  <2>3. currentThread' # Idle => /\ nextProgrammedDeadline' # NoDeadline
                                 /\ nextProgrammedDeadline' <= quantumDeadline'
    BY <2>1 DEF TimerCoversObligations
  <2>4. nextProgrammedDeadline' # NoDeadline \/ KiHasAnyReadyThread(readyQueues') =>
          timerPending' \/ oneShot' \in 1 .. Delta(nextProgrammedDeadline')
    BY <1>8, <2>1, <2>3 DEF TimerCoversObligations
  <2> QED BY <1>6, <2>2, <2>3, <2>4 DEF TimerCoversObligations
<1> QED BY <1>7, <1>8 DEF ScheduleIfIdle, st, rq

\* KeThreadStart arms an idle CPU for the thread it has made ready.
LEMMA StartTimer ==
  ASSUME CoreInv, TimerCoversObligations, NEW c \in AllThreads, NEW t \in Threads, KeThreadStart(c, t)
  PROVE  TimerCoversObligations'
<1>0. UNCHANGED <<deadline, timeoutQueue, currentThread, quantumDeadline, nextProgrammedDeadline, timerPending>>
  BY DEF KeThreadStart, blockVars
<1>1. CASE currentThread = Idle /\ nextProgrammedDeadline = NoDeadline
  <2>1. oneShot' = 1
    BY <1>1, SchedulerAssumption DEF KeThreadStart, KiArmClockEvent, Min2
  <2>2. oneShot' \in 1 .. Delta(nextProgrammedDeadline')
    BY <1>0, <1>1, <2>1 DEF Delta, NoDeadline
  <2> QED BY <1>0, <1>1, <2>2 DEF TimerCoversObligations
<1>2. CASE ~(currentThread = Idle /\ nextProgrammedDeadline = NoDeadline)
  <2>1. oneShot' = oneShot /\ nextProgrammedDeadline # NoDeadline
    BY <1>2 DEF KeThreadStart, TimerCoversObligations
  <2> QED BY <1>0, <2>1 DEF TimerCoversObligations
<1> QED BY <1>1, <1>2

\* KeYield.
LEMMA YieldTimer ==
  ASSUME CoreInv, TimerCoversObligations, NEW t \in Threads, KeYield(t)
  PROVE  TimerCoversObligations'
<1> USE DEF CoreInv
<1> DEFINE st == StateReady(state, <<t>>)
           rq == EnqueueReady(readyQueues, <<t>>)
<1>0. currentThread = t /\ state[t] = "RUNNING"
  BY DEF KeYield, Executes, Cpu
<1>1. <<t>> \in Seq(Threads) /\ Range(<<t>>) = {t} /\ Distinct(<<t>>)
  BY SingletonProperties
<1>2. Matches(st, rq)
  <2>1. Matches(state, readyQueues) /\ \A u \in Range(<<t>>) : state[u] # "READY"
    BY <1>0, <1>1 DEF Cpu
  <2> QED BY <1>1, <2>1, EnqueueMatches
<1>3. KiSchedule(st, rq) /\ UNCHANGED blockVars
  BY DEF KeYield
<1> HIDE DEF st, rq
<1>4. Lists' /\ SortedBy(timeoutQueue, deadline)'
  BY <1>3 DEF blockVars, Lists, BlockTypes, TimerCoversObligations
<1> QED BY <1>2, <1>3, <1>4, ScheduleCovers

\* Blocking links the timeout of the caller in order.
LEMMA BlockTimer ==
  ASSUME CoreInv, TimerCoversObligations, NEW t \in Threads, currentThread = t,
         NEW o \in Objects \cup {NULL}, NEW ticks \in Durations,
         o = NULL => ticks \in Timeouts, BlockCurrent(t, o, ticks)
  PROVE  TimerCoversObligations'
<1> USE DEF CoreInv
<1> DEFINE st == [state EXCEPT ![t] = "BLOCKED"]
<1>0. state[t] = "RUNNING" /\ state \in [AllThreads -> States]
  BY DEF Cpu, Matches
<1>1. Lists'
  BY BlockCurrentBlocks
<1>2. deadline[t] = NoDeadline
  BY <1>0 DEF BlockStates
<1>3. /\ timeoutQueue \in Seq(Threads) /\ t \notin Range(timeoutQueue)
      /\ Range(timeoutQueue) \subseteq Threads
      /\ \A a \in Range(timeoutQueue) : deadline[a] \in Int
      /\ SortedBy(timeoutQueue, deadline)
  BY <1>2 DEF Lists, BlockTypes, NoDeadline, TimerCoversObligations
<1>4. \A a \in Threads : a # t => deadline'[a] = deadline[a]
  BY DEF BlockCurrent, Lists, BlockTypes
<1>5. SortedBy(timeoutQueue, deadline')
  <2>1. \A a, b \in Range(timeoutQueue) : deadline[a] <= deadline[b] => deadline'[a] <= deadline'[b]
    BY <1>3, <1>4
  <2> QED BY <1>3, <2>1, SortedProperties
<1>6. SortedBy(timeoutQueue', deadline')
  <2>1. CASE ticks = Infinite
    BY <1>5, <2>1 DEF BlockCurrent
  <2>2. CASE ticks # Infinite
    <3>1. timeoutQueue' = KiInsertTimeoutQueue(timeoutQueue, t, deadline')
      BY <2>2 DEF BlockCurrent
    <3>2. \A a \in Threads : deadline'[a] \in Int
      BY <1>1 DEF Lists, BlockTypes, NoDeadline
    <3> QED BY <1>3, <1>5, <3>1, <3>2, InsertTimeoutProperties
  <2> QED BY <2>1, <2>2
<1>7. Matches(st, readyQueues)
  <2>1. st \in [AllThreads -> States]
    BY <1>0 DEF States
  <2>2. \A u \in Threads : st[u] = "READY" <=> state[u] = "READY"
    BY <1>0, Names
  <2> HIDE DEF st
  <2>3. \A p \in Priorities : {u \in Threads : st[u] = "READY" /\ Priority[u] = p}
                             = {u \in Threads : state[u] = "READY" /\ Priority[u] = p}
    BY <2>2
  <2> QED BY <2>1, <2>3 DEF Cpu, Matches
<1>8. KiSchedule(st, readyQueues)
  BY DEF BlockCurrent
<1> HIDE DEF st
<1> QED BY <1>1, <1>6, <1>7, <1>8, ScheduleCovers

\* KeThreadExit gives the CPU away.
LEMMA ExitTimer ==
  ASSUME CoreInv, TimerCoversObligations, NEW t \in Threads, KeThreadExit(t)
  PROVE  TimerCoversObligations'
<1> USE DEF CoreInv
<1> DEFINE ws == waitList[t]
           st1 == [state EXCEPT ![t] = "TERMINATED"]
           st == StateReady(st1, ws)
           rq == EnqueueReady(readyQueues, ws)
<1>0. /\ t \in Objects /\ t \in AllThreads /\ state \in [AllThreads -> States] /\ state[t] = "RUNNING"
  BY Names DEF KeThreadExit, Executes, Cpu, Matches
<1>1. /\ ws \in Seq(Threads) /\ Distinct(ws)
      /\ Range(ws) = {u \in Threads : waitObject[u] = t}
  BY <1>0 DEF Lists, BlockTypes
<1>2. KiCompleteWait(ws, "SUCCESS") /\ KiSchedule(st, rq)
  BY DEF KeThreadExit
<1> HIDE DEF ws
<1>3. \A u \in Range(ws) : u \in Threads /\ state[u] = "BLOCKED" /\ u # t
  BY <1>0, <1>1, Names DEF BlockStates
<1>4. Lists' /\ SortedBy(timeoutQueue, deadline)'
  <2>1. SortedBy(timeoutQueue, deadline)
    BY DEF TimerCoversObligations
  <2> QED BY <1>1, <1>2, <2>1, CompleteLists, CompleteSorted
<1>5. \A u \in AllThreads : st1[u] = IF u = t THEN "TERMINATED" ELSE state[u]
  BY <1>0
<1>6. Matches(st1, readyQueues)
  <2>1. st1 \in [AllThreads -> States]
    BY <1>0 DEF States
  <2>2. \A u \in Threads : st1[u] = "READY" <=> state[u] = "READY"
    BY <1>0, <1>5, Names
  <2> HIDE DEF st1
  <2>3. \A p \in Priorities : {u \in Threads : st1[u] = "READY" /\ Priority[u] = p}
                             = {u \in Threads : state[u] = "READY" /\ Priority[u] = p}
    BY <2>2
  <2> QED BY <2>1, <2>3 DEF Cpu, Matches
<1> HIDE DEF st1
<1>7. Matches(st, rq)
  <2>1. \A u \in Range(ws) : st1[u] # "READY"
    BY <1>3, <1>5, Names
  <2> QED BY <1>1, <1>6, <2>1, EnqueueMatches
<1> HIDE DEF st, rq
<1> QED BY <1>2, <1>4, <1>7, ScheduleCovers

\* The timer interrupt re-arms the rest of the interval, or the next event.
LEMMA InterruptTimer ==
  ASSUME CoreInv, TimerCoversObligations, KiSchedulerTimerISR
  PROVE  TimerCoversObligations'
<1> USE DEF CoreInv
<1>1. CASE /\ nextProgrammedDeadline > 0 /\ KiArmClockEvent(nextProgrammedDeadline)
           /\ UNCHANGED <<blockVars, cpuVars, quantumDeadline, nextProgrammedDeadline>>
  <2>1. nextProgrammedDeadline \in Nat \ {0} /\ MaxDelta \in Nat \ {0}
    BY <1>1, SchedulerAssumption DEF ClockTypes, NoDeadline
  <2>2. oneShot' \in 1 .. Delta(nextProgrammedDeadline')
    BY <1>1, <2>1 DEF KiArmClockEvent, Min2, Delta
  <2> QED BY <1>1, <2>2 DEF TimerCoversObligations, blockVars, cpuVars
<1>2. CASE /\ KiCompleteWait(Expired(timeoutQueue, deadline), "TIMEOUT")
           /\ TimerReschedule(Expired(timeoutQueue, deadline))
  <2> DEFINE due == Expired(timeoutQueue, deadline)
             st == StateReady(state, due)
             rq == EnqueueReady(readyQueues, due)
             pre == <<currentThread>>
  <2>1. timeoutQueue \in Seq(Threads) /\ Distinct(timeoutQueue)
        /\ Range(timeoutQueue) = {t \in Threads : deadline[t] # NoDeadline}
    BY DEF Lists, BlockTypes
  <2>2. \A i \in 1 .. Len(timeoutQueue) : deadline[timeoutQueue[i]] \in Nat
    BY <2>1 DEF Range, Lists, BlockTypes
  <2>3. due \in Seq(Threads) /\ Range(due) \subseteq Range(timeoutQueue) /\ Distinct(due)
    BY <2>1, <2>2, ExpiredProperties
  <2>a. KiCompleteWait(due, "TIMEOUT") /\ TimerReschedule(due)
    BY <1>2
  <2> HIDE DEF due
  <2>4. \A t \in Range(due) : state[t] = "BLOCKED"
    BY <2>1, <2>3 DEF BlockStates
  <2>5. Lists' /\ SortedBy(timeoutQueue, deadline)'
    <3>1. SortedBy(timeoutQueue, deadline)
      BY DEF TimerCoversObligations
    <3> QED BY <2>3, <2>a, <3>1, CompleteLists, CompleteSorted
  <2>6. Matches(st, rq)
    <3>1. Matches(state, readyQueues) /\ \A t \in Range(due) : state[t] # "READY"
      BY <2>4 DEF Cpu
    <3> QED BY <2>3, <3>1, EnqueueMatches
  <2>7. \A t \in Threads : st[t] = IF t \in Range(due) THEN "READY" ELSE state[t]
    BY StateReadyValue, Names
  <2>8. CASE KiSchedule(st, rq)
    <3> HIDE DEF st, rq
    <3> QED BY <2>5, <2>6, <2>8, ScheduleCovers
  <2>9. CASE currentThread # Idle /\ KiSchedule(StateReady(st, pre), EnqueueReady(rq, pre))
    <3> HIDE DEF st, rq
    <3>1. currentThread \in Threads /\ state[currentThread] = "RUNNING"
      BY <2>9, Names DEF Cpu
    <3>2. pre \in Seq(Threads) /\ Range(pre) = {currentThread} /\ Distinct(pre)
      BY <3>1, SingletonProperties
    <3>3. \A t \in Range(pre) : st[t] # "READY"
      BY <3>1, <3>2, <2>4, <2>7
    <3>4. Matches(StateReady(st, pre), EnqueueReady(rq, pre))
      BY <2>6, <3>2, <3>3, EnqueueMatches
    <3> QED BY <2>5, <2>9, <3>4, ScheduleCovers
  <2>10. CASE /\ IF currentThread = Idle THEN ~KiHasAnyReadyThread(rq) ELSE quantumDeadline > 0
              /\ readyQueues' = rq /\ currentThread' = currentThread
              /\ KiArmForNextEvent(currentThread)
    BY <2>5, <2>10, ArmCovers
  <2> QED BY <2>a, <2>8, <2>9, <2>10 DEF TimerReschedule
<1> QED BY <1>1, <1>2 DEF KiSchedulerTimerISR

\* A tick brings every obligation, the programmed deadline and the device one
\* tick nearer, and latches the interrupt when the device has counted down.
LEMMA TickTimer ==
  ASSUME CoreInv, TimerCoversObligations, Tick
  PROVE  TimerCoversObligations'
<1>0. /\ UNCHANGED <<timeoutQueue, readyQueues, currentThread>>
      /\ deadline' = [t \in Threads |-> TickDown(deadline[t])]
      /\ quantumDeadline' = TickDown(quantumDeadline)
      /\ nextProgrammedDeadline' = TickDown(nextProgrammedDeadline)
      /\ oneShot' = TickDown(oneShot)
      /\ timerPending' = (timerPending \/ oneShot = 1)
  BY DEF Tick, cpuVars
<1>1. /\ timeoutQueue \in Seq(Threads) /\ Range(timeoutQueue) \subseteq Threads
      /\ \A a \in Range(timeoutQueue) : deadline[a] \in Nat
      /\ quantumDeadline \in Nat /\ nextProgrammedDeadline \in Nat \cup {NoDeadline} /\ oneShot \in Nat
  BY DEF CoreInv, Lists, BlockTypes, ClockTypes
<1>2. \A a, b \in Nat : a <= b => TickDown(a) <= TickDown(b)
  BY DEF TickDown
<1>3. SortedBy(timeoutQueue', deadline')
  <2>1. \A a, b \in Range(timeoutQueue) : deadline[a] <= deadline[b] => deadline'[a] <= deadline'[b]
    BY <1>0, <1>1, <1>2
  <2>2. SortedBy(timeoutQueue, deadline) /\ \A a \in Range(timeoutQueue) : deadline[a] \in Int
    BY <1>1 DEF TimerCoversObligations
  <2>3. SortedBy(timeoutQueue, deadline')
    BY <1>1, <2>1, <2>2, SortedProperties
  <2> QED BY <1>0, <2>3
<1>4. nextProgrammedDeadline' = NoDeadline <=> nextProgrammedDeadline = NoDeadline
  BY <1>0, <1>1 DEF TickDown, NoDeadline
<1>5. ASSUME timeoutQueue # << >>
      PROVE  /\ nextProgrammedDeadline' # NoDeadline
             /\ nextProgrammedDeadline' <= deadline'[Head(timeoutQueue')]
  <2>1. Head(timeoutQueue) \in Range(timeoutQueue)
    BY <1>1, <1>5, HeadRemoveProperties
  <2>2. nextProgrammedDeadline # NoDeadline /\ nextProgrammedDeadline <= deadline[Head(timeoutQueue)]
    BY <1>5 DEF TimerCoversObligations
  <2>3. deadline'[Head(timeoutQueue')] = TickDown(deadline[Head(timeoutQueue)])
    BY <1>0, <1>1, <2>1
  <2>4. nextProgrammedDeadline \in Nat /\ deadline[Head(timeoutQueue)] \in Nat
    BY <1>1, <2>1, <2>2
  <2>5. TickDown(nextProgrammedDeadline) <= TickDown(deadline[Head(timeoutQueue)])
    BY <1>2, <2>2, <2>4
  <2> QED BY <1>0, <1>4, <2>2, <2>3, <2>5
<1>6. currentThread' # Idle => /\ nextProgrammedDeadline' # NoDeadline
                               /\ nextProgrammedDeadline' <= quantumDeadline'
  BY <1>0, <1>1, <1>2, <1>4 DEF TimerCoversObligations
<1>7. ASSUME nextProgrammedDeadline' # NoDeadline \/ KiHasAnyReadyThread(readyQueues'), ~timerPending'
      PROVE  oneShot' \in 1 .. Delta(nextProgrammedDeadline')
  <2>1. nextProgrammedDeadline # NoDeadline \/ KiHasAnyReadyThread(readyQueues)
    BY <1>0, <1>4, <1>7
  <2>2. ~timerPending /\ oneShot # 1
    BY <1>0, <1>7
  <2>3. oneShot \in 1 .. Delta(nextProgrammedDeadline)
    BY <2>1, <2>2 DEF TimerCoversObligations
  <2> QED BY <1>0, <1>1, <2>2, <2>3 DEF Delta, TickDown, NoDeadline
<1> QED BY <1>0, <1>3, <1>5, <1>6, <1>7 DEF TimerCoversObligations

\* Every step keeps the timer armed for what is due.
LEMMA NextTimer ==
  ASSUME CoreInv, TimerCoversObligations, [Next]_vars
  PROVE  TimerCoversObligations'
<1> DEFINE Covered == TimerCoversObligations'
<1>a. ASSUME UNCHANGED <<blockVars, readyQueues, currentThread, clockVars, timerPending>> PROVE Covered
  BY <1>a, QuietTimer DEF blockVars
<1>b. ASSUME NEW e \in Events, SetEvent(e), timerPending' = timerPending PROVE Covered
  <2>1. e \in Objects /\ waitList[e] \in Seq(Threads) /\ Distinct(waitList[e])
    BY Names DEF CoreInv, Lists, BlockTypes
  <2> QED BY <1>b, <2>1, WakeTimer DEF SetEvent
<1>1. ASSUME NEW t \in Threads, ThreadStep(t) PROVE Covered
  <2>1. CASE KeYield(t)
    BY <2>1, YieldTimer
  <2>2. ASSUME NEW ticks \in Timeouts, KeSleep(t, ticks) PROVE Covered
    BY <2>2, BlockTimer DEF KeSleep, Executes, Durations
  <2>3. ASSUME NEW o \in Objects \ Threads, NEW ticks \in Durations, KeWaitForSingleObject(t, o, ticks)
        PROVE  Covered
    <3>1. CASE UNCHANGED <<blockVars, cpuVars, clockVars>>
      BY <2>3, <3>1, <1>a DEF KeWaitForSingleObject, cpuVars
    <3>2. CASE BlockCurrent(t, o, ticks)
      BY <2>3, <3>2, BlockTimer, Names DEF KeWaitForSingleObject, Executes
    <3> QED BY <2>3, <3>1, <3>2 DEF KeWaitForSingleObject
  <2>4. ASSUME NEW m \in Mutexes, KeReleaseMutex(t, m) PROVE Covered
    <3>1. CASE UNCHANGED <<blockVars, cpuVars, clockVars>>
      BY <2>4, <3>1, <1>a DEF KeReleaseMutex, cpuVars
    <3>2. CASE waitList[m] # << >>
      <4> DEFINE next == Head(waitList[m])
                 ws == <<next>>
      <4>1. m \in Objects /\ waitList[m] \in Seq(Threads)
        BY Names DEF CoreInv, Lists, BlockTypes
      <4>2. next \in Threads /\ next \in Range(waitList[m])
        BY <3>2, <4>1, HeadRemoveProperties
      <4>3. /\ KiCompleteWait(ws, "SUCCESS") /\ timerPending' = timerPending
            /\ KeepRunning(StateReady(state, ws), EnqueueReady(readyQueues, ws))
            /\ currentThread # Idle
        BY <2>4, <3>2, Names DEF KeReleaseMutex, Executes
      <4> HIDE DEF next
      <4>4. ws \in Seq(Threads) /\ Range(ws) = {next} /\ Distinct(ws)
        BY <4>2, SingletonProperties
      <4> HIDE DEF ws
      <4>5. Range(ws) \subseteq Range(waitList[m])
        BY <4>2, <4>4
      <4> QED BY <4>1, <4>3, <4>4, <4>5, WakeTimer
    <3> QED BY <2>4, <3>1, <3>2 DEF KeReleaseMutex
  <2>5. CASE KeThreadExit(t)
    BY <2>5, ExitTimer
  <2>6. ASSUME NEW ticks \in Durations, KeThreadJoinWait(t, ticks) PROVE Covered
    <3>1. CASE UNCHANGED <<blockVars, cpuVars, clockVars>>
      BY <2>6, <3>1, <1>a DEF KeThreadJoinWait, cpuVars
    <3>2. CASE BlockCurrent(t, target[t], ticks)
      <4>1. target[t] \in Threads
        BY <2>6, Names DEF KeThreadJoinWait, JoinPcs, CoreInv, Life, JoinTargetStable, JoinStable, LifeTypes
      <4> QED BY <2>6, <3>2, <4>1, BlockTimer, Names DEF KeThreadJoinWait
    <3> QED BY <2>6, <3>1, <3>2 DEF KeThreadJoinWait
  <2>7. CASE \/ \E u \in Threads : KeThreadJoin(t, u)
             \/ KeThreadJoinConsume(t) \/ KeThreadJoinTimeout(t)
    BY <2>7, <1>a DEF KeThreadJoin, KeThreadJoinConsume, KeThreadJoinTimeout, cpuVars
  <2> QED BY <1>1, <2>1, <2>2, <2>3, <2>4, <2>5, <2>6, <2>7 DEF ThreadStep
<1>2. ASSUME NEW c \in AllThreads, AnyStep(c) PROVE Covered
  <2>1. ASSUME NEW u \in Threads, NEW mode, KiThreadCreateInternal(c, u, mode) PROVE Covered
    <3>1. /\ state[u] = "FREE" /\ deadline' = [deadline EXCEPT ![u] = NoDeadline]
          /\ UNCHANGED <<timeoutQueue, readyQueues, currentThread, clockVars, timerPending>>
      BY <2>1 DEF KiThreadCreateInternal
    <3>2. deadline[u] = NoDeadline
      BY <3>1 DEF CoreInv, BlockStates
    <3>3. \A t \in Range(timeoutQueue) : deadline'[t] = deadline[t]
      BY <3>1, <3>2 DEF CoreInv, Lists, BlockTypes
    <3> QED BY <3>1, <3>3, QuietTimer
  <2>2. ASSUME NEW u \in Threads, KeThreadStart(c, u) PROVE Covered
    BY <2>2, StartTimer
  <2>3. ASSUME NEW u \in Threads, KeThreadDetach(c, u) PROVE Covered
    BY <2>3, <1>a DEF KeThreadDetach, cpuVars
  <2>4. ASSUME NEW e \in Events, KeSetEvent(c, e) PROVE Covered
    BY <2>4, <1>b DEF KeSetEvent
  <2>5. ASSUME NEW e \in Events, KeResetEvent(c, e) PROVE Covered
    BY <2>5, <1>a DEF KeResetEvent, cpuVars
  <2>6. ASSUME NEW s \in Semaphores, NEW n \in 1 .. Limit[s] + 1, KeReleaseSemaphore(c, s, n)
        PROVE  Covered
    <3> DEFINE k == Min2(n, Len(waitList[s]))
               woken == SubSeq(waitList[s], 1, k)
    <3>1. s \in Objects /\ Limit[s] \in Nat
      BY Names, SchedulerAssumption
    <3>2. waitList[s] \in Seq(Threads) /\ Distinct(waitList[s]) /\ k \in 0 .. Len(waitList[s])
      BY <3>1 DEF CoreInv, Lists, BlockTypes, Min2
    <3>3. /\ KiCompleteWait(woken, "SUCCESS") /\ timerPending' = timerPending
          /\ ScheduleIfIdle(StateReady(state, woken), EnqueueReady(readyQueues, woken))
      BY <2>6 DEF KeReleaseSemaphore
    <3> HIDE DEF k
    <3>4. woken \in Seq(Threads) /\ Distinct(woken) /\ Range(woken) \subseteq Range(waitList[s])
      BY <3>2, FrontProperties
    <3> HIDE DEF woken
    <3> QED BY <3>1, <3>3, <3>4, WakeTimer
  <2>7. CASE KiFinalizeThread(c)
    BY <2>7, <1>a DEF KiFinalizeThread
  <2> QED BY <1>2, <2>1, <2>2, <2>3, <2>4, <2>5, <2>6, <2>7 DEF AnyStep, KeThreadCreate, KeThreadCreateJoinable
<1>3. CASE IdleStep \/ UNCHANGED vars
  BY <1>3, <1>a DEF IdleStep, EnterIdleLoop, Halt, KiReapTerminatedThreads, vars, cpuVars
<1>4. CASE Tick
  BY <1>4, TickTimer
<1>5. ASSUME NEW e \in DeviceEvents, DeviceInterrupt(e) PROVE Covered
  BY <1>5, <1>b, SchedulerAssumption DEF DeviceInterrupt
<1>6. CASE KiSchedulerTimerISR
  BY <1>6, InterruptTimer
<1> QED BY <1>1, <1>2, <1>3, <1>4, <1>5, <1>6 DEF Next

\* The tickless timer is armed for the quantum of the running thread, the
\* earliest timeout and the thread an idle CPU has to pick up
\* (KiArmForNextEvent, KeThreadStart, KiSchedulerTimerISR).
THEOREM TimerCovers == Spec => []TimerCoversObligations
<1>1. Init => TimerCoversObligations
  BY DEF Init, TimerCoversObligations, SortedBy, KiHasAnyReadyThread
<1>2. CoreInv /\ TimerCoversObligations /\ [Next]_vars => TimerCoversObligations'
  BY NextTimer
<1> QED BY <1>1, <1>2, CoreInvariant, PTL DEF Spec
=============================================================================
