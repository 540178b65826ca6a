---------------------------- MODULE KeKvaProofs -----------------------------
(***************************************************************************)
(* Proofs about the physical page allocator and kernel virtual addresses,  *)
(* for any number of threads, pages, arena sizes, records and generations. *)
(*                                                                         *)
(*   FirstFit           the scan returns the lowest run that fits          *)
(*   HandlesKept        a handle names its own range or nothing            *)
(*   MapsFollowRecords  records, page states and page table agree          *)
(*   PagesHaveOneOwner  no page is lost or shared, and no tear-down stops  *)
(*                      the machine, when the callers synchronise          *)
(*                                                                         *)
(* The second and the third rest on KvaInv and on nothing the callers do;  *)
(* the last one adds PhysInv, which is not inductive without KvaInv: only  *)
(* records that do not overlap release pages that nobody else has mapped.  *)
(***************************************************************************)
EXTENDS KeKva, FiniteSetTheorems, WellFoundedInduction, TLAPS

-----------------------------------------------------------------------------
(* Induction by minimal counterexample.                                    *)

\* A nonempty set of natural numbers has a least member.
LEMMA LeastNumber ==
  ASSUME NEW T \in SUBSET Nat, T # {}
  PROVE  \E n \in T : \A m \in T : n <= m
<1>1. PICK N \in T : TRUE
  OBVIOUS
<1> DEFINE I(k) == 1 .. k
           SS == {I(k) : k \in {j \in T : j <= N}}
<1>2. IsFiniteSet(1 .. N)
  BY <1>1, FS_Interval
<1>3. IsWellFoundedOn(StrictSubsetOrdering(1 .. N), FiniteSubsetsOf(1 .. N))
  BY <1>2, FS_StrictSubsetOrderingWellFounded
<1>4. FiniteSubsetsOf(1 .. N) = SUBSET (1 .. N)
  BY <1>2, FS_FiniteSubsetsOfFinite
<1>5. SS \subseteq SUBSET (1 .. N) /\ SS # {}
  BY <1>1
<1>6. PICK x \in SS : \A y \in SS : ~ (<<y, x>> \in StrictSubsetOrdering(1 .. N))
  <2>1. IsWellFoundedOn(StrictSubsetOrdering(1 .. N), SUBSET (1 .. N))
    BY <1>3, <1>4
  <2> DEFINE R == StrictSubsetOrdering(1 .. N)
             U == SUBSET (1 .. N)
  <2>2. IsWellFoundedOn(R, U) /\ SS \subseteq U /\ SS # {}
    BY <2>1, <1>5
  <2> HIDE DEF R, U, SS
  <2>3. \E z \in SS : \A y \in SS : ~ (<<y, z>> \in R)
    BY <2>2, WFMin, Zenon
  <2> QED BY <2>3 DEF R
<1>7. PICK n \in T : n <= N /\ x = 1 .. n
  BY <1>6
<1>8. ASSUME NEW m \in T, m < n PROVE FALSE
  <2>1. 1 .. m \in SS
    BY <1>7, <1>8
  <2>2. 1 .. m \subseteq 1 .. n
    BY <1>8
  <2>3. n \in 1 .. n /\ n \notin 1 .. m
    BY <1>8
  <2>4. <<1 .. m, x>> \in StrictSubsetOrdering(1 .. N)
    BY <2>1, <2>2, <2>3, <1>5, <1>7, <1>4 DEF StrictSubsetOrdering
  <2> QED BY <2>1, <2>4, <1>6
<1> QED BY <1>7, <1>8

\* Induction over 0 .. n for the set of the indices where a claim holds.
LEMMA Induction ==
  ASSUME NEW n \in Nat, NEW G, 0 \in G,
         \A k \in 1 .. n : k - 1 \in G => k \in G
  PROVE  \A k \in 0 .. n : k \in G
<1> DEFINE Bad == {k \in 0 .. n : k \notin G}
<1>1. Bad \in SUBSET Nat
  OBVIOUS
<1> SUFFICES ASSUME Bad # {} PROVE FALSE
  OBVIOUS
<1>2. \E k \in Bad : \A m \in Bad : k <= m
  <2> HIDE DEF Bad
  <2> QED BY <1>1, LeastNumber
<1>3. PICK k \in Bad : \A m \in Bad : k <= m
  BY <1>2
<1>4. k \in 0 .. n /\ k \notin G /\ k # 0
  OBVIOUS
<1>5. k - 1 \notin Bad
  <2> HIDE DEF Bad
  <2> QED BY <1>3, <1>4
<1>6. k - 1 \in 0 .. n /\ k \in 1 .. n
  BY <1>4
<1> QED BY <1>4, <1>5, <1>6

-----------------------------------------------------------------------------
(* The scan of BitmapAllocPages.                                           *)

\* The pages of a run that are in the way.
Busy(i, count) == {p \in Run(i, count) : bitmap[p] # "free"}

\* One turn of the scan, with g for what the later turns return.
ScanTurn(g, i, count, align, limit) ==
    IF i + count > limit THEN NoPage
    ELSE IF i % align # 0 THEN g[i + align - (i % align)]
    ELSE IF Busy(i, count) = {} THEN i ELSE g[Min(Busy(i, count)) + 1]

\* A run the scan may return: aligned within the bitmap, below the limit, free.
FitsAt(b, count, align, limit) ==
    b + count <= limit /\ b % align = 0 /\ \A p \in Run(b, count) : bitmap[p] = "free"

\* The least of a set of numbers.
LEMMA MinProperties ==
  ASSUME NEW S \in SUBSET Nat, S # {}
  PROVE  Min(S) \in S /\ \A x \in S : Min(S) <= x
<1>1. \E n \in S : \A m \in S : n <= m
  BY LeastNumber
<1> QED BY <1>1 DEF Min

\* Each turn of the scan goes on behind the place it has looked at, and inside
\* the bitmap.
LEMMA ScanMovesOn ==
  ASSUME NEW count \in Nat \ {0}, NEW align \in Nat \ {0}, NEW limit \in 0 .. TotalManagedPages,
         NEW i \in Nat, i + count <= limit
  PROVE  /\ i % align \in 0 .. align - 1
         /\ i + align - (i % align) \in i + 1 .. TotalManagedPages + align
         /\ Busy(i, count) # {} =>
              /\ Min(Busy(i, count)) \in Busy(i, count)
              /\ \A p \in Busy(i, count) : Min(Busy(i, count)) <= p
              /\ Min(Busy(i, count)) \in i .. i + count - 1
              /\ Min(Busy(i, count)) + 1 \in i + 1 .. TotalManagedPages + align
<1>0. TotalManagedPages \in Nat
  BY PmmAssumption
<1>1. i % align \in 0 .. align - 1
  OBVIOUS
<1>2. i + align - (i % align) \in i + 1 .. TotalManagedPages + align
  BY <1>0, <1>1
<1>3. ASSUME Busy(i, count) # {}
      PROVE  /\ Min(Busy(i, count)) \in Busy(i, count)
             /\ \A p \in Busy(i, count) : Min(Busy(i, count)) <= p
             /\ Min(Busy(i, count)) \in i .. i + count - 1
             /\ Min(Busy(i, count)) + 1 \in i + 1 .. TotalManagedPages + align
  <2>1. Busy(i, count) \in SUBSET Nat /\ Busy(i, count) \subseteq i .. i + count - 1
    BY DEF Busy, Run
  <2>2. Min(Busy(i, count)) \in Busy(i, count) /\ \A p \in Busy(i, count) : Min(Busy(i, count)) <= p
    BY <1>3, <2>1, MinProperties
  <2>3. Min(Busy(i, count)) \in i .. i + count - 1
    BY <2>1, <2>2
  <2> DEFINE m == Min(Busy(i, count))
  <2> HIDE DEF m
  <2>4. m \in i .. i + count - 1 => m + 1 \in i + 1 .. TotalManagedPages + align
    BY <1>0
  <2> QED BY <2>2, <2>3, <2>4 DEF m
<1> QED BY <1>1, <1>2, <1>3

\* The recursive definition of the scan has a solution.
LEMMA ScanDef ==
  ASSUME NEW count \in Nat \ {0}, NEW align \in Nat \ {0}, NEW limit \in 0 .. TotalManagedPages
  PROVE  \E f : /\ \A i \in 0 .. TotalManagedPages + align : f[i] = ScanTurn(f, i, count, align, limit)
                /\ Scan(count, align, limit) = f[0]
<1> DEFINE N == TotalManagedPages + align
           Turn(g, i) == ScanTurn(g, i, count, align, limit)
           Ok(g, k) == g \in [N - k .. N -> Int] /\ \A i \in N - k .. N : g[i] = Turn(g, i)
           Good == {k \in 0 .. N : \E g : Ok(g, k)}
<1>0. TotalManagedPages \in Nat /\ N \in Nat /\ N > limit /\ NoPage \in Int
  BY PmmAssumption DEF NoPage
<1>1. 0 \in Good
  <2>1. Ok([i \in N - 0 .. N |-> NoPage], 0)
    <3>1. \A i \in N - 0 .. N : i = N /\ i + count > limit
      BY <1>0
    <3> QED BY <1>0, <3>1 DEF ScanTurn
  <2> HIDE DEF Ok
  <2> QED BY <2>1, <1>0
<1>2. ASSUME NEW k \in 1 .. N, k - 1 \in Good PROVE k \in Good
  <2>1. PICK g : Ok(g, k - 1)
    BY <1>2
  <2> DEFINE n == N - k
             h == [i \in n .. N |-> IF i > n THEN g[i] ELSE Turn(g, n)]
  <2>2. n \in Nat /\ n < N /\ N - (k - 1) = n + 1
    BY <1>0
  <2>3. g \in [n + 1 .. N -> Int] /\ \A i \in n + 1 .. N : g[i] = Turn(g, i)
    BY <2>1, <2>2
  <2> HIDE DEF n
  <2>4. ASSUME NEW i \in n .. N, NEW e, \A j \in i + 1 .. N : e[j] = g[j]
        PROVE  Turn(e, i) = Turn(g, i) /\ Turn(g, i) \in Int
    <3>0. i \in Nat
      BY <2>2
    <3>1. CASE i + count > limit
      BY <3>1, <1>0 DEF ScanTurn
    <3>2. CASE ~(i + count > limit)
      <4>1. /\ i % align \in 0 .. align - 1
            /\ i + align - (i % align) \in i + 1 .. N
            /\ Busy(i, count) # {} => Min(Busy(i, count)) + 1 \in i + 1 .. N
        BY <3>0, <3>2, ScanMovesOn
      <4>2. \A j \in i + 1 .. N : e[j] = g[j] /\ g[j] \in Int
        BY <2>2, <2>3, <2>4
      <4>3. CASE i % align # 0
        BY <3>2, <4>1, <4>2, <4>3 DEF ScanTurn
      <4>4. CASE i % align = 0 /\ Busy(i, count) = {}
        BY <3>0, <3>2, <4>4 DEF ScanTurn
      <4>5. CASE i % align = 0 /\ Busy(i, count) # {}
        BY <3>2, <4>1, <4>2, <4>5 DEF ScanTurn
      <4> QED BY <4>3, <4>4, <4>5
    <3> QED BY <3>1, <3>2
  <2> HIDE DEF Turn
  <2>5. Turn(g, n) \in Int
    <3>1. n \in n .. N /\ \A j \in n + 1 .. N : g[j] = g[j]
      BY <1>0, <2>2
    <3> QED BY <2>4, <3>1
  <2>6. h \in [n .. N -> Int] /\ h[n] = Turn(g, n) /\ \A i \in n + 1 .. N : h[i] = g[i]
    <3>1. \A i \in n .. N : i # n => i > n /\ i \in n + 1 .. N
      BY <1>0, <2>2
    <3>2. n \in n .. N /\ ~(n > n) /\ \A i \in n + 1 .. N : i \in n .. N /\ i > n
      BY <1>0, <2>2
    <3> HIDE DEF N
    <3> QED BY <2>3, <2>5, <3>1, <3>2
  <2> HIDE DEF h
  <2>7. ASSUME NEW i \in n .. N PROVE h[i] = Turn(h, i)
    <3>1. \A j \in i + 1 .. N : h[j] = g[j]
      BY <2>2, <2>6
    <3>2. Turn(h, i) = Turn(g, i)
      BY <2>4, <3>1
    <3>3. h[i] = Turn(g, i)
      <4>1. CASE i = n
        BY <2>6, <4>1
      <4>2. CASE i # n
        <5>1. i \in n + 1 .. N
          BY <2>2, <4>2
        <5> QED BY <2>3, <2>6, <5>1
      <4> QED BY <4>1, <4>2
    <3> QED BY <3>2, <3>3
  <2>8. Ok(h, k)
    BY <2>6, <2>7 DEF n, Turn
  <2> HIDE DEF Ok
  <2> QED BY <2>8
<1>3. N \in Good
  <2> HIDE DEF Good
  <2>1. \A k \in 0 .. N : k \in Good
    BY <1>0, <1>1, <1>2, Induction
  <2> QED BY <1>0, <2>1
<1>4. PICK g : g \in [0 .. N -> Int] /\ \A i \in 0 .. N : g[i] = Turn(g, i)
  <2>1. PICK g : Ok(g, N)
    BY <1>3
  <2>2. N - N = 0
    BY <1>0
  <2> QED BY <2>1, <2>2
<1>5. g = [i \in 0 .. N |-> Turn(g, i)]
  BY <1>4
<1> DEFINE f == CHOOSE f : f = [i \in 0 .. N |-> Turn(f, i)]
<1>6. f = [i \in 0 .. N |-> Turn(f, i)]
  BY <1>5
<1>7. Scan(count, align, limit) = f[0]
  BY DEF Scan, ScanTurn, Busy
<1> HIDE DEF f
<1>8. \A i \in 0 .. N : f[i] = Turn(f, i)
  BY <1>6
<1> QED BY <1>7, <1>8

\* Products grow with a factor.
LEMMA Products ==
  ASSUME NEW a \in Nat, NEW x \in Int, NEW y \in Int, x < y
  PROVE  a * x + a <= a * y
<1>1. PICK d \in Nat : y = x + 1 + d
  <2>1. y - x - 1 \in Nat /\ y = x + 1 + (y - x - 1)
    OBVIOUS
  <2> QED BY <2>1
<1>2. a * y = a * x + a + a * d
  BY <1>1
<1>3. a * d \in Nat /\ a * x \in Int
  OBVIOUS
<1> QED BY <1>2, <1>3

\* The remainder in terms of the quotient.
LEMMA Division ==
  ASSUME NEW a \in Nat \ {0}, NEW i \in Nat
  PROVE  \E q \in Nat : i = a * q + (i % a) /\ i % a \in 0 .. a - 1
<1>1. i = a * (i \div a) + (i % a) /\ i % a \in 0 .. a - 1 /\ i \div a \in Int
  OBVIOUS
<1>2. i \div a \in Nat
  OBVIOUS
<1> QED BY <1>1, <1>2

\* Between a place and the next multiple of the alignment there is no other one.
LEMMA NoMultipleBetween ==
  ASSUME NEW a \in Nat \ {0}, NEW i \in Nat, i % a # 0,
         NEW b \in Nat, i <= b, b < i + a - (i % a)
  PROVE  b % a # 0
<1> SUFFICES ASSUME b % a = 0 PROVE FALSE
  OBVIOUS
<1>1. PICK q \in Nat : i = a * q + (i % a) /\ i % a \in 0 .. a - 1
  BY Division
<1>2. PICK r \in Nat : b = a * r + (b % a)
  BY Division
<1>3. b = a * r /\ a * r \in Nat /\ a * q \in Nat
  BY <1>2
<1>4. ~(q < r)
  <2> SUFFICES ASSUME q < r PROVE FALSE
    OBVIOUS
  <2>1. a * q + a <= a * r
    BY Products
  <2> QED BY <1>1, <1>3, <2>1
<1>5. CASE r = q
  BY <1>1, <1>3, <1>5
<1>6. CASE r < q
  <2>1. a * r + a <= a * q
    BY <1>6, Products
  <2> QED BY <1>1, <1>3, <2>1
<1> QED BY <1>4, <1>5, <1>6

\* The scan returns the first place that fits, NoPage when there is none.
LEMMA ScanResult ==
  ASSUME NEW count \in Nat \ {0}, NEW align \in Nat \ {0}, NEW limit \in 0 .. TotalManagedPages
  PROVE  LET x == Scan(count, align, limit) IN
         \/ x = NoPage /\ \A b \in Nat : ~FitsAt(b, count, align, limit)
         \/ /\ x \in Nat /\ FitsAt(x, count, align, limit)
            /\ \A b \in 0 .. x - 1 : ~FitsAt(b, count, align, limit)
<1> DEFINE N == TotalManagedPages + align
           F(b) == FitsAt(b, count, align, limit)
           First(x, i) == \/ x = NoPage /\ \A b \in Nat : b >= i => ~F(b)
                          \/ x \in Nat /\ x >= i /\ F(x) /\ \A b \in i .. x - 1 : ~F(b)
<1>0. TotalManagedPages \in Nat /\ N \in Nat /\ N > limit
  BY PmmAssumption
<1>1. PICK f : /\ \A i \in 0 .. N : f[i] = ScanTurn(f, i, count, align, limit)
               /\ Scan(count, align, limit) = f[0]
  BY ScanDef
<1> DEFINE Good == {k \in 0 .. N : \A i \in N - k .. N : First(f[i], i)}
<1>2. ASSUME NEW i \in 0 .. N, \A j \in i + 1 .. N : First(f[j], j)
      PROVE  First(f[i], i)
  <2>0. f[i] = ScanTurn(f, i, count, align, limit) /\ i \in Nat
    BY <1>0, <1>1
  <2>1. CASE i + count > limit
    <3>1. \A b \in Nat : b >= i => ~(b + count <= limit)
      BY <2>0, <2>1
    <3> QED BY <2>0, <2>1, <3>1 DEF ScanTurn, FitsAt
  <2>2. CASE ~(i + count > limit)
    <3>1. /\ i % align \in 0 .. align - 1
          /\ i + align - (i % align) \in i + 1 .. N
          /\ Busy(i, count) # {} =>
               /\ Min(Busy(i, count)) \in Busy(i, count)
               /\ Min(Busy(i, count)) \in i .. i + count - 1
               /\ Min(Busy(i, count)) + 1 \in i + 1 .. N
      BY <2>0, <2>2, ScanMovesOn
    <3>2. ASSUME NEW j \in i + 1 .. N, f[i] = f[j], \A b \in i .. j - 1 : ~F(b)
          PROVE  First(f[i], i)
      <4>0. j \in Nat /\ j > i
        BY <1>0, <2>0
      <4>1. First(f[j], j)
        BY <1>2
      <4> HIDE DEF F
      <4>2. CASE f[j] = NoPage /\ \A b \in Nat : b >= j => ~F(b)
        <5>1. \A b \in Nat : b >= i => b >= j \/ b \in i .. j - 1
          BY <2>0, <4>0
        <5> QED BY <3>2, <4>2, <5>1
      <4>3. CASE f[j] \in Nat /\ f[j] >= j /\ F(f[j]) /\ \A b \in j .. f[j] - 1 : ~F(b)
        <5>1. \A b \in i .. f[j] - 1 : b \in i .. j - 1 \/ b \in j .. f[j] - 1
          BY <2>0, <4>0, <4>3
        <5>2. f[j] >= i
          BY <2>0, <4>0, <4>3
        <5> QED BY <3>2, <4>3, <5>1, <5>2
      <4> QED BY <4>1, <4>2, <4>3
    <3>3. CASE i % align # 0
      <4> DEFINE j == i + align - (i % align)
      <4>1. f[i] = f[j] /\ j \in i + 1 .. N
        BY <2>0, <2>2, <3>1, <3>3 DEF ScanTurn
      <4>2. \A b \in i .. j - 1 : b \in Nat /\ i <= b /\ b < i + align - (i % align)
        BY <2>0, <3>1
      <4>3. \A b \in i .. j - 1 : ~F(b)
        BY <2>0, <3>3, <4>2, NoMultipleBetween DEF FitsAt
      <4> HIDE DEF j
      <4> QED BY <3>2, <4>1, <4>3
    <3>4. CASE i % align = 0 /\ Busy(i, count) = {}
      <4>1. f[i] = i
        BY <2>0, <2>2, <3>4 DEF ScanTurn
      <4>2. F(i)
        BY <2>0, <2>2, <3>4 DEF FitsAt, Busy
      <4>3. \A b \in i .. i - 1 : FALSE
        BY <2>0
      <4> HIDE DEF F
      <4> QED BY <2>0, <4>1, <4>2, <4>3
    <3>5. CASE i % align = 0 /\ Busy(i, count) # {}
      <4> DEFINE m == Min(Busy(i, count))
                 j == m + 1
      <4>1. f[i] = f[j] /\ j \in i + 1 .. N
        BY <2>0, <2>2, <3>1, <3>5 DEF ScanTurn
      <4>2. m \in i .. i + count - 1 /\ bitmap[m] # "free"
        BY <3>1, <3>5 DEF Busy
      <4> HIDE DEF m
      <4>3. ASSUME NEW b \in i .. j - 1 PROVE ~F(b)
        <5>1. m \in Run(b, count)
          BY <2>0, <4>2 DEF Run
        <5> QED BY <4>2, <5>1 DEF FitsAt
      <4> HIDE DEF j
      <4> QED BY <3>2, <4>1, <4>3
    <3> QED BY <3>3, <3>4, <3>5
  <2> QED BY <2>1, <2>2
<1> HIDE DEF First
<1>3. 0 \in Good
  <2>1. N \in 0 .. N /\ (\A j \in N + 1 .. N : FALSE) /\ \A i \in N - 0 .. N : i = N
    BY <1>0
  <2>2. First(f[N], N)
    BY <1>2, <2>1
  <2> QED BY <1>0, <2>1, <2>2
<1>4. ASSUME NEW k \in 1 .. N, k - 1 \in Good PROVE k \in Good
  <2> DEFINE n == N - k
  <2>1. n \in 0 .. N /\ N - (k - 1) = n + 1
    BY <1>0
  <2>2. \A j \in n + 1 .. N : First(f[j], j)
    BY <1>4, <2>1
  <2>3. First(f[n], n)
    BY <1>2, <2>1, <2>2
  <2>4. \A i \in n .. N : i = n \/ i \in n + 1 .. N
    BY <1>0, <2>1
  <2> QED BY <2>2, <2>3, <2>4
<1>5. N \in Good
  <2> HIDE DEF Good
  <2>1. \A k \in 0 .. N : k \in Good
    BY <1>0, <1>3, <1>4, Induction
  <2> QED BY <1>0, <2>1
<1>6. First(f[0], 0)
  <2>1. 0 \in N - N .. N
    BY <1>0
  <2> QED BY <1>5, <2>1
<1>7. \A b \in Nat : b >= 0
  OBVIOUS
<1> HIDE DEF F
<1>8. \/ f[0] = NoPage /\ \A b \in Nat : ~F(b)
      \/ f[0] \in Nat /\ F(f[0]) /\ \A b \in 0 .. f[0] - 1 : ~F(b)
  BY <1>6, <1>7 DEF First
<1> QED BY <1>1, <1>8 DEF F

\* MaxPageIndex lies inside the bitmap.
LEMMA MaxPageIndexType ==
  ASSUME NEW m \in Nat
  PROVE  MaxPageIndex(m) \in 0 .. TotalManagedPages
<1>0. TotalManagedPages \in Nat /\ ManagedBasePhys \in Nat /\ PageSize \in Nat \ {0} /\ AddressSpan \in Nat
      /\ AddressSpan > 0
  <2>1. /\ TotalManagedPages \in Nat \ {0} /\ ManagedBasePhys \in Nat /\ PageSize \in Nat \ {0}
        /\ AddressSpan \in Nat /\ ManagedBasePhys + TotalManagedPages * PageSize <= AddressSpan
    BY PmmAssumption
  <2>2. TotalManagedPages * PageSize > 0
    BY <2>1
  <2>3. TotalManagedPages * PageSize \in Nat
    BY <2>1
  <2> QED BY <2>1, <2>2, <2>3
<1>1. CASE m = 0
  BY <1>0, <1>1 DEF MaxPageIndex
<1>2. CASE m # 0 /\ m < ManagedBasePhys
  BY <1>0, <1>2 DEF MaxPageIndex
<1>3. CASE m # 0 /\ ~(m < ManagedBasePhys)
  <2> DEFINE w == (m - ManagedBasePhys + 1) % AddressSpan
             l == w \div PageSize
  <2>1. w \in Nat
    BY <1>0, <1>3
  <2> HIDE DEF w
  <2>2. l \in Nat
    BY <1>0, <2>1
  <2>3. MaxPageIndex(m) = IF l < TotalManagedPages THEN l ELSE TotalManagedPages
    BY <1>3 DEF MaxPageIndex, w
  <2> HIDE DEF l
  <2> QED BY <1>0, <2>2, <2>3
<1> QED BY <1>1, <1>2, <1>3

\* A multiple has no remainder, and only a multiple has none.
LEMMA Multiples ==
  ASSUME NEW a \in Nat \ {0}, NEW x \in Nat
  PROVE  x % a = 0 <=> \E q \in Nat : x = a * q
<1>1. ASSUME x % a = 0 PROVE \E q \in Nat : x = a * q
  <2>1. PICK q \in Nat : x = a * q + (x % a)
    BY Division
  <2>2. x = a * q
    BY <1>1, <2>1
  <2> QED BY <2>2
<1>2. ASSUME NEW q \in Nat, x = a * q PROVE x % a = 0
  <2>1. PICK r \in Nat : x = a * r + (x % a) /\ x % a \in 0 .. a - 1
    BY Division
  <2>2. a * q \in Nat /\ a * r \in Nat
    OBVIOUS
  <2>3. CASE q = r
    <3> DEFINE m == x % a
               y == a * q
    <3>1. m \in Int /\ y \in Nat /\ x = y /\ x = y + m
      BY <1>2, <2>1, <2>2, <2>3
    <3> HIDE DEF m, y
    <3>2. m = 0
      BY <3>1
    <3> QED BY <3>2 DEF m
  <2>4. CASE q < r
    <3>1. a * q + a <= a * r
      BY <2>4, Products
    <3> QED BY <1>2, <2>1, <2>2, <3>1
  <2>5. CASE r < q
    <3>1. a * r + a <= a * q
      BY <2>5, Products
    <3> QED BY <1>2, <2>1, <2>2, <3>1
  <2> QED BY <2>3, <2>4, <2>5
<1> QED BY <1>1, <1>2

\* When the managed range starts at a multiple of the alignment, an address is
\* aligned exactly if the index of its page in the bitmap is.
LEMMA IndexAlignment ==
  ASSUME NEW a \in Nat \ {0}, NEW s \in Nat \ {0}, NEW base \in Nat, NEW b \in Nat, base % (a * s) = 0
  PROVE  (base + b * s) % (a * s) = 0 <=> b % a = 0
<1>0. a * s \in Nat \ {0} /\ base + b * s \in Nat
  <2>1. a * s \in Nat /\ b * s \in Nat
    OBVIOUS
  <2>2. a * s # 0
    OBVIOUS
  <2> QED BY <2>1, <2>2
<1>1. PICK k \in Nat : base = (a * s) * k
  BY <1>0, Multiples
<1>2. ASSUME b % a = 0 PROVE (base + b * s) % (a * s) = 0
  <2>1. PICK q \in Nat : b = a * q
    BY <1>2, Multiples
  <2>2. b * s = (a * s) * q
    BY <2>1
  <2>3. base + b * s = (a * s) * (k + q) /\ k + q \in Nat
    BY <1>1, <2>2
  <2> QED BY <1>0, <2>3, Multiples
<1>3. ASSUME (base + b * s) % (a * s) = 0 PROVE b % a = 0
  <2>1. PICK q \in Nat : base + b * s = (a * s) * q
    BY <1>0, <1>3, Multiples
  <2>2. s * b = s * (a * (q - k))
    <3>1. (a * s) * q = s * (a * q) /\ (a * s) * k = s * (a * k) /\ b * s = s * b
      OBVIOUS
    <3>2. s * (a * q) - s * (a * k) = s * (a * q - a * k) /\ a * q - a * k = a * (q - k)
      OBVIOUS
    <3>3. s * b \in Int /\ s * (a * q) \in Int /\ s * (a * k) \in Int
      OBVIOUS
    <3>4. s * b = s * (a * q) - s * (a * k)
      BY <1>1, <2>1, <3>1, <3>3
    <3> QED BY <3>2, <3>4
  <2> DEFINE y == a * (q - k)
  <2>3. y \in Int
    OBVIOUS
  <2> HIDE DEF y
  <2>4. b = y
    <3>1. ~(b < y)
      <4> SUFFICES ASSUME b < y PROVE FALSE
        OBVIOUS
      <4>1. s * b + s <= s * y /\ s * b \in Int
        BY <2>3, Products
      <4> QED BY <2>2, <4>1 DEF y
    <3>2. ~(y < b)
      <4> SUFFICES ASSUME y < b PROVE FALSE
        OBVIOUS
      <4>1. s * y + s <= s * b /\ s * y \in Int
        BY <2>3, Products
      <4> QED BY <2>2, <4>1 DEF y
    <3> QED BY <2>3, <3>1, <3>2
  <2>5. q - k \in Nat
    <3>1. ~(q - k < 0)
      <4> SUFFICES ASSUME q - k < 0 PROVE FALSE
        OBVIOUS
      <4>1. a * (q - k) + a <= a * 0
        BY Products
      <4>2. a * 0 = 0
        OBVIOUS
      <4> QED BY <2>3, <2>4, <4>1, <4>2 DEF y
    <3> QED BY <3>1
  <2> QED BY <2>4, <2>5, Multiples DEF y
<1> QED BY <1>2, <1>3

\* The constants ask for what BitmapAllocPages can give: the managed range
\* starts at a multiple of every alignment that is asked for, since the code
\* aligns the index of a page and not its address, and no limit is the last
\* address there is, whose successor is 0.
RequestsCanBeMet ==
    /\ \A a \in Alignments : ManagedBasePhys % (a * PageSize) = 0
    /\ \A m \in MaxPhysAddrs : m - ManagedBasePhys + 1 < AddressSpan

\* A run lies below the page limit exactly if its last byte is not above the
\* address limit.
LEMMA LimitMeansAddress ==
  ASSUME NEW c \in Nat \ {0}, NEW m \in Nat, m - ManagedBasePhys + 1 < AddressSpan,
         NEW b \in Nat, b + c <= TotalManagedPages
  PROVE  b + c <= MaxPageIndex(m) <=> m = 0 \/ LastByte(b, c) <= m
<1>0. /\ TotalManagedPages \in Nat /\ ManagedBasePhys \in Nat /\ PageSize \in Nat \ {0} /\ AddressSpan \in Nat
      /\ (b + c) * PageSize \in Nat /\ (b + c) * PageSize > 0
  <2>1. /\ TotalManagedPages \in Nat /\ ManagedBasePhys \in Nat /\ PageSize \in Nat \ {0} /\ AddressSpan \in Nat
    BY PmmAssumption
  <2>2. \A x \in Nat \ {0} : x * PageSize \in Nat /\ x * PageSize > 0
    BY <2>1
  <2>3. b + c \in Nat \ {0}
    OBVIOUS
  <2> QED BY <2>1, <2>2, <2>3
<1>1. CASE m = 0
  BY <1>0, <1>1 DEF MaxPageIndex
<1>2. CASE m # 0 /\ m < ManagedBasePhys
  <2>1. MaxPageIndex(m) = 0
    BY <1>2 DEF MaxPageIndex
  <2>2. ~(LastByte(b, c) <= m)
    BY <1>0, <1>2 DEF LastByte
  <2> QED BY <1>2, <2>1, <2>2
<1>3. CASE m # 0 /\ ~(m < ManagedBasePhys)
  <2> DEFINE w == m - ManagedBasePhys + 1
             l == w \div PageSize
  <2>1. w \in Nat /\ w < AddressSpan
    BY <1>0, <1>3
  <2>2. w % AddressSpan = w
    <3> HIDE DEF w
    <3>1. PICK q \in Nat : w = AddressSpan * q + (w % AddressSpan) /\ w % AddressSpan \in 0 .. AddressSpan - 1
      <4>1. AddressSpan \in Nat \ {0}
        BY <1>0, <2>1
      <4> QED BY <2>1, <4>1, Division
    <3>2. CASE q = 0
      <4>1. AddressSpan * 0 = 0
        BY <1>0
      <4> QED BY <1>0, <3>1, <3>2, <4>1
    <3>3. CASE q # 0
      <4>1. AddressSpan * 0 + AddressSpan <= AddressSpan * q /\ AddressSpan * 0 = 0 /\ AddressSpan * q \in Nat
        BY <1>0, <3>3, Products
      <4> QED BY <1>0, <2>1, <3>1, <4>1
    <3> QED BY <3>2, <3>3
  <2>3. MaxPageIndex(m) = IF l < TotalManagedPages THEN l ELSE TotalManagedPages
    BY <1>3, <2>2 DEF MaxPageIndex
  <2>4. LastByte(b, c) <= m <=> (b + c) * PageSize <= w
    BY <1>0 DEF LastByte
  <2> HIDE DEF w
  <2>5. l \in Nat /\ PageSize * l <= w /\ w < PageSize * l + PageSize /\ PageSize * l \in Nat
    BY <1>0, <2>1
  <2> HIDE DEF l
  <2>6. b + c <= l <=> (b + c) * PageSize <= w
    <3> DEFINE n == b + c
    <3>0. n \in Nat /\ (b + c) * PageSize = PageSize * n /\ PageSize * n \in Nat
      BY <1>0
    <3> HIDE DEF n
    <3>1. ASSUME n <= l PROVE PageSize * n <= w
      <4>1. CASE n = l
        BY <2>5, <4>1
      <4>2. CASE n < l
        <5>1. PageSize * n + PageSize <= PageSize * l
          BY <1>0, <2>5, <3>0, <4>2, Products
        <5> QED BY <1>0, <2>1, <2>5, <3>0, <5>1
      <4> QED BY <2>5, <3>0, <3>1, <4>1, <4>2
    <3>2. ASSUME ~(n <= l) PROVE ~(PageSize * n <= w)
      <4>1. PageSize * l + PageSize <= PageSize * n
        BY <1>0, <2>5, <3>0, <3>2, Products
      <4> QED BY <1>0, <2>1, <2>5, <3>0, <4>1
    <3> QED BY <3>0, <3>1, <3>2 DEF n
  <2> QED BY <1>0, <1>3, <2>3, <2>4, <2>5, <2>6
<1> QED BY <1>1, <1>2, <1>3

\* ScanFindsLowestFit in every state, reachable or not, for every size of the
\* bitmap and every request, when the constants allow what is asked for.
THEOREM FirstFit ==
  ASSUME RequestsCanBeMet
  PROVE  ScanFindsLowestFit
<1> SUFFICES ASSUME NEW c \in Counts, NEW a \in Alignments, NEW m \in MaxPhysAddrs
             PROVE  LET fits == {b \in Page : Meets(b, c, a, m)} IN
                    Scan(c, a, MaxPageIndex(m)) = IF fits = {} THEN NoPage ELSE Min(fits)
  BY DEF ScanFindsLowestFit
<1> DEFINE fits == {b \in Page : Meets(b, c, a, m)}
           l == MaxPageIndex(m)
           x == Scan(c, a, l)
<1>0. /\ c \in Nat \ {0} /\ a \in Nat \ {0} /\ m \in Nat /\ PageSize \in Nat \ {0} /\ ManagedBasePhys \in Nat
      /\ TotalManagedPages \in Nat /\ m - ManagedBasePhys + 1 < AddressSpan
      /\ ManagedBasePhys % (a * PageSize) = 0
  BY PmmAssumption DEF RequestsCanBeMet
<1>1. l \in 0 .. TotalManagedPages
  BY <1>0, MaxPageIndexType
<1>2. \/ x = NoPage /\ \A b \in Nat : ~FitsAt(b, c, a, l)
      \/ x \in Nat /\ FitsAt(x, c, a, l) /\ \A b \in 0 .. x - 1 : ~FitsAt(b, c, a, l)
  BY <1>0, <1>1, ScanResult
<1>3. ASSUME NEW b \in Nat
      PROVE  b \in fits <=> FitsAt(b, c, a, l)
  <2>1. Run(b, c) \subseteq InState("free") <=>
          b + c <= TotalManagedPages /\ \A p \in Run(b, c) : bitmap[p] = "free"
    <3>1. b + c <= TotalManagedPages => Run(b, c) \subseteq Page
      BY <1>0 DEF Run, Page
    <3>2. Run(b, c) \subseteq Page => b + c <= TotalManagedPages
      <4>1. b + c - 1 \in Run(b, c)
        BY <1>0 DEF Run
      <4>2. b + c - 1 \in Page => b + c <= TotalManagedPages
        BY <1>0 DEF Page
      <4> QED BY <4>1, <4>2
    <3> QED BY <3>1, <3>2 DEF InState
  <2>2. b + c <= l => b + c <= TotalManagedPages
    BY <1>0, <1>1
  <2>3. FirstByte(b) % (a * PageSize) = 0 <=> b % a = 0
    <3>1. /\ a \in Nat \ {0} /\ PageSize \in Nat \ {0} /\ ManagedBasePhys \in Nat /\ b \in Nat
          /\ ManagedBasePhys % (a * PageSize) = 0
      BY <1>0
    <3>2. (ManagedBasePhys + b * PageSize) % (a * PageSize) = 0 <=> b % a = 0
      BY ZenonT(30), <3>1, IndexAlignment
    <3> QED BY <3>2, Zenon DEF FirstByte
  <2>4. b + c <= TotalManagedPages => (b + c <= l <=> m = 0 \/ LastByte(b, c) <= m)
    BY <1>0, LimitMeansAddress
  <2>5. b + c <= TotalManagedPages => b \in Page
    BY <1>0 DEF Page
  <2> HIDE DEF l
  <2> QED BY <2>1, <2>2, <2>3, <2>4, <2>5 DEF Meets, FitsAt
<1>4. fits \subseteq Nat
  BY DEF Page
<1> HIDE DEF x, fits, l
<1>5. CASE x = NoPage /\ \A b \in Nat : ~FitsAt(b, c, a, l)
  <2>1. fits = {}
    BY <1>3, <1>4, <1>5
  <2> QED BY <1>5, <2>1 DEF x, fits, l
<1>6. CASE x \in Nat /\ FitsAt(x, c, a, l) /\ \A b \in 0 .. x - 1 : ~FitsAt(b, c, a, l)
  <2>1. x \in fits
    BY <1>3, <1>6
  <2>2. Min(fits) \in fits /\ \A b \in fits : Min(fits) <= b
    BY <1>4, <2>1, MinProperties
  <2> DEFINE y == Min(fits)
  <2>3. y \in Nat /\ y \in fits /\ y <= x
    BY <1>4, <2>1, <2>2
  <2> HIDE DEF y
  <2>4. ~(y \in 0 .. x - 1)
    BY <1>3, <1>6, <2>3
  <2>5. y = x
    BY <1>6, <2>3, <2>4
  <2> QED BY <2>1, <2>5 DEF x, fits, l, y
<1> QED BY <1>2, <1>5, <1>6

-----------------------------------------------------------------------------
(* The inductive invariant.                                                *)

Ranges == [arena : Arena, generation : Nat, base : Nat, lower : Nat, usable : Nat \ {0}, upper : Nat,
           owns : BOOLEAN]
Handles == [id : Record, range : Ranges]
Tokens == [slot : Slot, generation : Nat]
States == {"free", "alloc", "guard", "retired"}
Building == {"check", "alloc", "mark", "map", "give back", "undo"}
Steps == Building \cup {"run", "take", "use"}

\* A value from S for every page of every arena.
OnArenas(f, S) ==
    /\ f = [a \in Arena |-> f[a]]
    /\ \A a \in Arena : f[a] \in [0 .. PageCount(a) - 1 -> S]

PmmTypes ==
    /\ bitmap \in [Page -> {"free", "allocated", "reserved"}]
    /\ found \in [Threads -> SUBSET Page] /\ held \in [Threads -> SUBSET Page]

LayoutTypes ==
    /\ OnArenas(pageStates, States)
    /\ OnArenas(pt, Page \cup {NotPresent, Alias})
    /\ ranges \in [Record -> Ranges \cup {NoRange}]
    /\ slotGenerations \in [Slot -> Nat]

HandleTypes ==
    /\ rangeGeneration \in Nat
    /\ pc \in [Threads -> Steps]
    /\ range \in [Threads -> Handles \cup {NoRange}]
    /\ index \in [Threads -> Nat]
    /\ live \subseteq Handles /\ stale \subseteq Handles
    /\ tokens \subseteq Tokens /\ staleTokens \subseteq Tokens
    /\ panicked \in BOOLEAN

\* The records: inside their arena, apart from one another, temporary maps of
\* one page in the fixmap arena and ranges with their own pages in the others.
RecordsApart ==
    /\ \A i \in Record : InUse(i) =>
         /\ Covered(ranges[i]) \subseteq 0 .. PageCount(ranges[i].arena) - 1
         /\ ranges[i].owns <=> ranges[i].arena # "fixmap"
         /\ ranges[i].arena = "fixmap" => Total(ranges[i]) = 1
    /\ \A i, j \in Record : InUse(i) /\ InUse(j) /\ ranges[i].arena = ranges[j].arena /\ i # j =>
         Covered(ranges[i]) \cap Covered(ranges[j]) = {}

\* The page states and the page table follow the records.
PagesFollow ==
    \A a \in Arena : \A p \in 0 .. PageCount(a) - 1 :
       /\ \A i \in Record : InUse(i) /\ ranges[i].arena = a /\ p \in Covered(ranges[i]) =>
            pageStates[a][p] = IF p \in Usable(ranges[i]) THEN "alloc" ELSE "guard"
       /\ (\A i \in Record : InUse(i) /\ ranges[i].arena = a => p \notin Covered(ranges[i])) =>
            \/ pageStates[a][p] = "free"
            \/ pageStates[a][p] = "retired" /\ a = "fixmap" /\ FixmapSlotRetired(p)
       /\ pt[a][p] # NotPresent => pageStates[a][p] = "alloc"

\* Generations are handed out once.
Generations ==
    /\ \A h \in live \cup stale : h.range.generation < rangeGeneration \/ rangeGeneration = 0
    /\ \A t \in Threads : range[t] # NoRange =>
         range[t].range.generation < rangeGeneration \/ rangeGeneration = 0
    /\ \A k \in tokens \cup staleTokens : k.generation <= slotGenerations[k.slot]

\* Who holds which handle, as long as the machine runs.
HandlesHeld ==
    /\ \A h \in live \cup stale : h.range.arena # "fixmap"
    /\ \A h \in live : FindRecordById(h)
    /\ \A h \in stale : ~FindRecordById(h)
    /\ \A t \in Threads :
         /\ range[t] # NoRange <=> pc[t] \in Building
         /\ range[t] # NoRange => /\ FindRecordById(range[t]) /\ range[t] \notin live
                                  /\ range[t].range.arena # "fixmap"
                                  /\ \A u \in Threads : u # t => range[t] # range[u]
         /\ pc[t] = "map" => held[t] # {}
    /\ \A k \in tokens : /\ FindRecordByUsableBase("fixmap", k.slot) # {}
                         /\ slotGenerations[k.slot] = k.generation
    /\ \A k \in staleTokens : /\ k \notin tokens
                              /\ slotGenerations[k.slot] = k.generation
                                    => FindRecordByUsableBase("fixmap", k.slot) = {}

\* What is mapped: all of a range in a caller's hands, the first pages of one
\* that is being built, and every temporary map.
MapsMade ==
    /\ \A h \in live : Mapped(h.range) = Usable(h.range)
    /\ \A k \in tokens : pt["fixmap"][k.slot] = Alias
    /\ \A t \in Threads : pc[t] \in {"alloc", "mark", "map"} =>
         \A p \in Usable(range[t].range) :
            p < UsableBase(range[t].range) + index[t] => pt[range[t].range.arena][p] # NotPresent

Layout == LayoutTypes /\ RecordsApart /\ PagesFollow

KvaInv == PmmTypes /\ HandleTypes /\ Layout /\ Generations /\ MapsMade /\ (panicked \/ HandlesHeld)

-----------------------------------------------------------------------------
(* Facts about ranges and arenas.                                          *)

\* The sizes of the arenas.
LEMMA ArenaSizes ==
  /\ \A a \in Arena : PageCount(a) \in Nat
  /\ PageCount("fixmap") = FixmapPages /\ Slot = 0 .. PageCount("fixmap") - 1
  /\ "fixmap" \in Arena /\ "stack" \in Arena /\ "heap" \in Arena
  BY KvaAssumption DEF PageCount, Arena, Slot

\* An empty record is not a range and not a handle.
LEMMA NoRangeIsNone == NoRange \notin Ranges /\ NoRange \notin Handles
<1>1. NoRange \notin Ranges
  BY DEF NoRange, Ranges, Arena
<1>2. \A h \in Handles : DOMAIN h = {"id", "range"}
  BY DEF Handles
<1>3. DOMAIN NoRange = {"arena"}
  BY DEF NoRange
<1>4. {"id", "range"} # {"arena"}
  OBVIOUS
<1> QED BY <1>1, <1>2, <1>3, <1>4

\* The pages of a range.
LEMMA RangePages ==
  ASSUME NEW r \in Ranges
  PROVE  /\ r.base \in Nat /\ r.lower \in Nat /\ r.usable \in Nat \ {0} /\ r.upper \in Nat
         /\ r.generation \in Nat /\ r.arena \in Arena /\ r.owns \in BOOLEAN
         /\ UsableBase(r) \in Usable(r) /\ UsableBase(r) \in Nat
         /\ Usable(r) \subseteq Covered(r) /\ Covered(r) \subseteq Nat
         /\ Total(r) \in Nat
<1>1. /\ r.base \in Nat /\ r.lower \in Nat /\ r.usable \in Nat \ {0} /\ r.upper \in Nat
      /\ r.generation \in Nat /\ r.arena \in Arena /\ r.owns \in BOOLEAN
  BY DEF Ranges
<1>2. /\ UsableBase(r) \in Usable(r) /\ UsableBase(r) \in Nat
      /\ Usable(r) \subseteq Covered(r) /\ Covered(r) \subseteq Nat /\ Total(r) \in Nat
  BY <1>1 DEF UsableBase, Usable, Covered, Total
<1> QED BY <1>1, <1>2

\* A record in use holds a range.
LEMMA UsedRecord ==
  ASSUME LayoutTypes, NEW i \in Record
  PROVE  /\ InUse(i) <=> ranges[i] \in Ranges
         /\ ~InUse(i) => ranges[i] = NoRange
  BY NoRangeIsNone DEF LayoutTypes, InUse

\* A handle that names a record is determined by it.
LEMMA HandleOfRecord ==
  ASSUME NEW h \in Handles, NEW g \in Handles, FindRecordById(h), FindRecordById(g), h.id = g.id
  PROVE  h = g
<1>1. h.range = g.range
  BY DEF FindRecordById
<1>2. h = [id |-> h.id, range |-> h.range] /\ g = [id |-> g.id, range |-> g.range]
  BY DEF Handles
<1> QED BY <1>1, <1>2

\* One arena is changed.
LEMMA ArenaChanged ==
  ASSUME NEW f, NEW S, OnArenas(f, S), NEW a \in Arena, NEW x \in [0 .. PageCount(a) - 1 -> S],
         NEW g, g = [f EXCEPT ![a] = x]
  PROVE  OnArenas(g, S) /\ \A b \in Arena : g[b] = IF b = a THEN x ELSE f[b]
<1>1. f = [b \in Arena |-> f[b]] /\ \A b \in Arena : f[b] \in [0 .. PageCount(b) - 1 -> S]
  BY DEF OnArenas
<1>2. g = [b \in Arena |-> IF b = a THEN x ELSE f[b]]
  BY <1>1
<1>3. g[a] = x /\ \A b \in Arena : b # a => g[b] = f[b]
  BY <1>2
<1>4. g = [b \in Arena |-> g[b]]
  BY <1>2
<1>5. \A b \in Arena : g[b] \in [0 .. PageCount(b) - 1 -> S]
  BY <1>1, <1>3
<1> QED BY <1>2, <1>4, <1>5 DEF OnArenas

-----------------------------------------------------------------------------
(* The layout: records, page states and page table.                        *)

\* A step that touches none of them.
LEMMA SameLayout ==
  ASSUME Layout, UNCHANGED <<ranges, pageStates, pt, slotGenerations>>
  PROVE  Layout'
<1>1. LayoutTypes'
  BY DEF Layout, LayoutTypes
<1>2. RecordsApart'
  BY DEF Layout, RecordsApart, InUse
<1>3. PagesFollow'
  BY DEF Layout, PagesFollow, InUse, FixmapSlotRetired
<1> QED BY <1>1, <1>2, <1>3 DEF Layout

\* The pages that the release of a record would give back.
PhysOf(i) == IF ranges[i].owns THEN {pt[ranges[i].arena][p] : p \in Mapped(ranges[i])} ELSE {}

\* The release of a record, when the allocator takes its pages back.
ReleasedRecord(i) ==
    /\ \A j \in Record : ranges'[j] = IF j = i THEN NoRange ELSE ranges[j]
    /\ \A b \in Arena : \A p \in 0 .. PageCount(b) - 1 :
         pt'[b][p] = IF b = ranges[i].arena /\ p \in Usable(ranges[i]) THEN NotPresent ELSE pt[b][p]

\* KiKvaReleaseRecord stops the machine, or takes the record with its page
\* states and maps out of the layout.
LEMMA ReleaseEffect ==
  ASSUME Layout, NEW i \in Record, InUse(i), KiKvaReleaseRecord(i), UNCHANGED slotGenerations
  PROVE  \/ /\ ~Freeable(PhysOf(i)) /\ panicked' = TRUE
            /\ UNCHANGED <<bitmap, FreePages, AllocatedPages, ReservedPages, pt, pageStates, ranges>>
         \/ /\ Freeable(PhysOf(i)) /\ panicked' = panicked /\ BitmapFreePages(PhysOf(i))
            /\ Layout' /\ ReleasedRecord(i)
<1> DEFINE r == ranges[i]
           a == r.arena
           released == IF a = "fixmap" /\ Total(r) = 1 /\ FixmapSlotRetired(r.base) THEN "retired" ELSE "free"
<1>0. /\ r \in Ranges /\ a \in Arena /\ LayoutTypes /\ Covered(r) \subseteq 0 .. PageCount(a) - 1
      /\ Usable(r) \subseteq Covered(r) /\ PageCount(a) \in Nat
  BY UsedRecord, RangePages, ArenaSizes DEF Layout, RecordsApart
<1>1. CASE ~Freeable(PhysOf(i))
  BY <1>1 DEF KiKvaReleaseRecord, PhysOf
<1>2. CASE Freeable(PhysOf(i))
  <2> DEFINE newPt == [p \in DOMAIN pt[a] |-> IF p \in Usable(r) THEN NotPresent ELSE pt[a][p]]
             newStates == [p \in DOMAIN pageStates[a] |-> IF p \in Covered(r) THEN released ELSE pageStates[a][p]]
  <2>1. /\ panicked' = panicked /\ BitmapFreePages(PhysOf(i))
        /\ pt' = [pt EXCEPT ![a] = newPt]
        /\ pageStates' = [pageStates EXCEPT ![a] = newStates]
        /\ ranges' = [ranges EXCEPT ![i] = NoRange]
    BY <1>2 DEF KiKvaReleaseRecord, PhysOf
  <2>2. OnArenas(pt, Page \cup {NotPresent, Alias}) /\ OnArenas(pageStates, States)
        /\ ranges \in [Record -> Ranges \cup {NoRange}] /\ slotGenerations \in [Slot -> Nat]
    BY <1>0 DEF LayoutTypes
  <2>3. /\ DOMAIN pt[a] = 0 .. PageCount(a) - 1 /\ DOMAIN pageStates[a] = 0 .. PageCount(a) - 1
        /\ pt[a] \in [0 .. PageCount(a) - 1 -> Page \cup {NotPresent, Alias}]
        /\ pageStates[a] \in [0 .. PageCount(a) - 1 -> States]
    BY <1>0, <2>2 DEF OnArenas
  <2>r. released \in {"free", "retired"} /\ released \in States
        /\ (released = "retired" => a = "fixmap" /\ Total(r) = 1 /\ FixmapSlotRetired(r.base))
    BY DEF States
  <2> HIDE DEF r, a, released
  <2>4. newPt \in [0 .. PageCount(a) - 1 -> Page \cup {NotPresent, Alias}]
        /\ \A p \in 0 .. PageCount(a) - 1 : newPt[p] = IF p \in Usable(r) THEN NotPresent ELSE pt[a][p]
    BY <2>3
  <2>5. newStates \in [0 .. PageCount(a) - 1 -> States]
        /\ \A p \in 0 .. PageCount(a) - 1 : newStates[p] = IF p \in Covered(r) THEN released ELSE pageStates[a][p]
    BY <2>3, <2>r
  <2> HIDE DEF newPt, newStates
  <2>6. /\ OnArenas(pt', Page \cup {NotPresent, Alias})
        /\ \A b \in Arena : pt'[b] = IF b = a THEN newPt ELSE pt[b]
    <3>1. /\ OnArenas(pt, Page \cup {NotPresent, Alias}) /\ a \in Arena
          /\ newPt \in [0 .. PageCount(a) - 1 -> Page \cup {NotPresent, Alias}]
          /\ pt' = [pt EXCEPT ![a] = newPt]
      BY <1>0, <2>1, <2>2, <2>4 DEF a
    <3>2. \A b \in Arena : pt'[b] = IF b = a THEN newPt ELSE pt[b]
      BY <3>1 DEF OnArenas
    <3>3. OnArenas(pt', Page \cup {NotPresent, Alias})
      BY <3>1, ArenaChanged
    <3> QED BY <3>2, <3>3
  <2>7. /\ OnArenas(pageStates', States)
        /\ \A b \in Arena : pageStates'[b] = IF b = a THEN newStates ELSE pageStates[b]
    <3>1. /\ OnArenas(pageStates, States) /\ a \in Arena
          /\ newStates \in [0 .. PageCount(a) - 1 -> States]
          /\ pageStates' = [pageStates EXCEPT ![a] = newStates]
      BY <1>0, <2>1, <2>2, <2>5 DEF a
    <3>2. \A b \in Arena : pageStates'[b] = IF b = a THEN newStates ELSE pageStates[b]
      BY <3>1 DEF OnArenas
    <3>3. OnArenas(pageStates', States)
      BY <3>1, ArenaChanged
    <3> QED BY <3>2, <3>3
  <2>8. \A b \in Arena : \A p \in 0 .. PageCount(b) - 1 :
          /\ pt'[b][p] = IF b = a /\ p \in Usable(r) THEN NotPresent ELSE pt[b][p]
          /\ pageStates'[b][p] = IF b = a /\ p \in Covered(r) THEN released ELSE pageStates[b][p]
    BY <2>4, <2>5, <2>6, <2>7
  <2>9. /\ ranges' \in [Record -> Ranges \cup {NoRange}]
        /\ \A j \in Record : ranges'[j] = IF j = i THEN NoRange ELSE ranges[j]
    BY <2>1, <2>2
  <2>10. \A j \in Record : /\ InUse(j)' <=> InUse(j) /\ j # i
                           /\ InUse(j)' => ranges'[j] = ranges[j]
    BY <2>9 DEF InUse
  <2>11. LayoutTypes'
    BY <2>2, <2>6, <2>7, <2>9 DEF LayoutTypes
  <2>12. RecordsApart'
    BY <2>10 DEF Layout, RecordsApart
  <2>13. r = ranges[i] /\ a = ranges[i].arena /\ InUse(i)
    BY DEF r, a
  <2>14. ASSUME NEW b \in Arena, NEW p \in 0 .. PageCount(b) - 1
         PROVE  /\ \A j \in Record : InUse(j)' /\ ranges'[j].arena = b /\ p \in Covered(ranges'[j]) =>
                     pageStates'[b][p] = IF p \in Usable(ranges'[j]) THEN "alloc" ELSE "guard"
                /\ (\A j \in Record : InUse(j)' /\ ranges'[j].arena = b => p \notin Covered(ranges'[j])) =>
                     \/ pageStates'[b][p] = "free"
                     \/ pageStates'[b][p] = "retired" /\ b = "fixmap" /\ FixmapSlotRetired(p)'
                /\ pt'[b][p] # NotPresent => pageStates'[b][p] = "alloc"
    <3>0. /\ \A j \in Record : InUse(j) /\ ranges[j].arena = b /\ p \in Covered(ranges[j]) =>
               pageStates[b][p] = IF p \in Usable(ranges[j]) THEN "alloc" ELSE "guard"
          /\ (\A j \in Record : InUse(j) /\ ranges[j].arena = b => p \notin Covered(ranges[j])) =>
               \/ pageStates[b][p] = "free"
               \/ pageStates[b][p] = "retired" /\ b = "fixmap" /\ FixmapSlotRetired(p)
          /\ pt[b][p] # NotPresent => pageStates[b][p] = "alloc"
      BY DEF Layout, PagesFollow
    <3>1. FixmapSlotRetired(p)' <=> FixmapSlotRetired(p)
      BY DEF FixmapSlotRetired
    <3>2. CASE b = a /\ p \in Covered(r)
      <4>1. \A j \in Record : j # i /\ InUse(j) /\ ranges[j].arena = b => p \notin Covered(ranges[j])
        BY <2>13, <3>2 DEF Layout, RecordsApart
      <4>2. pageStates'[b][p] = released
        BY <2>8, <3>2
      <4>3. pt'[b][p] = NotPresent
        BY <2>8, <2>13, <3>0, <3>2
      <4>4. released = "retired" => b = "fixmap" /\ FixmapSlotRetired(p)
        <5> SUFFICES ASSUME released = "retired" PROVE b = "fixmap" /\ FixmapSlotRetired(p)
          OBVIOUS
        <5>1. r.base \in Nat /\ Total(r) = 1 /\ FixmapSlotRetired(r.base) /\ a = "fixmap"
          BY <1>0, <2>r, RangePages DEF r
        <5>2. p = r.base
          BY <3>2, <5>1 DEF Covered
        <5> QED BY <3>2, <5>1, <5>2
      <4> QED BY <2>r, <2>10, <3>1, <4>1, <4>2, <4>3, <4>4
    <3>3. CASE ~(b = a /\ p \in Covered(r))
      <4>1. pageStates'[b][p] = pageStates[b][p] /\ pt'[b][p] = pt[b][p]
        BY <1>0, <2>8, <3>3 DEF r, a
      <4>2. (\A j \in Record : InUse(j)' /\ ranges'[j].arena = b => p \notin Covered(ranges'[j])) =>
            (\A j \in Record : InUse(j) /\ ranges[j].arena = b => p \notin Covered(ranges[j]))
        BY <2>10, <2>13, <3>3
      <4> QED BY <2>10, <3>0, <3>1, <4>1, <4>2
    <3> QED BY <3>2, <3>3
  <2>15. PagesFollow'
    BY <2>14 DEF PagesFollow
  <2>16. ReleasedRecord(i)
    BY <2>8, <2>9, <2>13 DEF ReleasedRecord
  <2> QED BY <1>2, <2>1, <2>11, <2>12, <2>15, <2>16 DEF Layout
<1> QED BY <1>1, <1>2

\* A record is added for pages that were free.  A step may retire exhausted slots
\* on the way, as KeFixmapAcquire does.
LEMMA RecordAdded ==
  ASSUME Layout, LayoutTypes', NEW i \in Record, ~InUse(i), NEW r \in Ranges,
         Covered(r) \subseteq 0 .. PageCount(r.arena) - 1,
         r.owns <=> r.arena # "fixmap", r.arena = "fixmap" => Total(r) = 1,
         \A j \in Record : ranges'[j] = IF j = i THEN r ELSE ranges[j],
         \A p \in Covered(r) : pageStates[r.arena][p] = "free",
         \A s \in Slot : FixmapSlotRetired(s) => FixmapSlotRetired(s)',
         \A b \in Arena : \A p \in 0 .. PageCount(b) - 1 :
           \/ /\ b = r.arena /\ p \in Covered(r)
              /\ pageStates'[b][p] = IF p \in Usable(r) THEN "alloc" ELSE "guard"
           \/ ~(b = r.arena /\ p \in Covered(r)) /\ pageStates'[b][p] = pageStates[b][p]
           \/ /\ ~(b = r.arena /\ p \in Covered(r)) /\ pageStates[b][p] = "free"
              /\ pageStates'[b][p] = "retired" /\ b = "fixmap" /\ FixmapSlotRetired(p)',
         \A b \in Arena : \A p \in 0 .. PageCount(b) - 1 :
           pt'[b][p] # NotPresent => pt[b][p] # NotPresent \/ (b = r.arena /\ p \in Usable(r))
  PROVE  Layout'
<1>0. /\ Usable(r) \subseteq Covered(r) /\ LayoutTypes /\ RecordsApart /\ PagesFollow /\ r.arena \in Arena
      /\ Slot = 0 .. PageCount("fixmap") - 1
  BY RangePages, ArenaSizes DEF Layout
<1>1. \A j \in Record : /\ InUse(j)' <=> InUse(j) \/ j = i
                        /\ j # i => ranges'[j] = ranges[j]
                        /\ InUse(j) => j # i
      /\ ranges'[i] = r
  BY NoRangeIsNone DEF InUse
\* Pages that are free belong to no record.
<1>2. ASSUME NEW j \in Record, InUse(j), ranges[j].arena = r.arena
      PROVE  Covered(ranges[j]) \cap Covered(r) = {}
  <2>1. SUFFICES ASSUME NEW p, p \in Covered(ranges[j]), p \in Covered(r)
                 PROVE  FALSE
    OBVIOUS
  <2>2. p \in 0 .. PageCount(r.arena) - 1
    BY <2>1
  <2>3. pageStates[r.arena][p] = IF p \in Usable(ranges[j]) THEN "alloc" ELSE "guard"
    BY <1>0, <1>2, <2>1, <2>2 DEF PagesFollow
  <2>4. pageStates[r.arena][p] = "free"
    BY <2>1
  <2> QED BY <2>3, <2>4
<1>3. RecordsApart'
  <2>1. ASSUME NEW j \in Record, InUse(j)'
        PROVE  /\ Covered(ranges'[j]) \subseteq 0 .. PageCount(ranges'[j].arena) - 1
               /\ ranges'[j].owns <=> ranges'[j].arena # "fixmap"
               /\ ranges'[j].arena = "fixmap" => Total(ranges'[j]) = 1
    BY <1>0, <1>1, <2>1 DEF RecordsApart
  <2>2. ASSUME NEW j \in Record, NEW k \in Record, InUse(j)', InUse(k)', ranges'[j].arena = ranges'[k].arena, j # k
        PROVE  Covered(ranges'[j]) \cap Covered(ranges'[k]) = {}
    <3>1. CASE j = i
      BY <1>1, <1>2, <2>2, <3>1
    <3>2. CASE k = i
      BY <1>1, <1>2, <2>2, <3>2
    <3>3. CASE j # i /\ k # i
      BY <1>0, <1>1, <2>2, <3>3 DEF RecordsApart
    <3> QED BY <3>1, <3>2, <3>3
  <2> QED BY <2>1, <2>2 DEF RecordsApart
<1>4. ASSUME NEW b \in Arena, NEW p \in 0 .. PageCount(b) - 1
      PROVE  /\ \A j \in Record : InUse(j)' /\ ranges'[j].arena = b /\ p \in Covered(ranges'[j]) =>
                  pageStates'[b][p] = IF p \in Usable(ranges'[j]) THEN "alloc" ELSE "guard"
             /\ (\A j \in Record : InUse(j)' /\ ranges'[j].arena = b => p \notin Covered(ranges'[j])) =>
                  \/ pageStates'[b][p] = "free"
                  \/ pageStates'[b][p] = "retired" /\ b = "fixmap" /\ FixmapSlotRetired(p)'
             /\ pt'[b][p] # NotPresent => pageStates'[b][p] = "alloc"
  <2>0. /\ \A j \in Record : InUse(j) /\ ranges[j].arena = b /\ p \in Covered(ranges[j]) =>
             pageStates[b][p] = IF p \in Usable(ranges[j]) THEN "alloc" ELSE "guard"
        /\ (\A j \in Record : InUse(j) /\ ranges[j].arena = b => p \notin Covered(ranges[j])) =>
             \/ pageStates[b][p] = "free"
             \/ pageStates[b][p] = "retired" /\ b = "fixmap" /\ FixmapSlotRetired(p)
        /\ pt[b][p] # NotPresent => pageStates[b][p] = "alloc"
    BY <1>0 DEF PagesFollow
  <2>1. CASE /\ b = r.arena /\ p \in Covered(r)
             /\ pageStates'[b][p] = IF p \in Usable(r) THEN "alloc" ELSE "guard"
    <3>1. \A j \in Record : InUse(j)' /\ ranges'[j].arena = b /\ p \in Covered(ranges'[j]) => j = i
      BY <1>1, <1>2, <2>1
    <3>2. pageStates[b][p] = "free"
      BY <2>1
    <3>3. pt[b][p] = NotPresent
      BY <2>0, <3>2
    <3>4. pt'[b][p] # NotPresent => p \in Usable(r)
      BY <3>3
    <3> QED BY <1>1, <2>1, <3>1, <3>4
  <2>2. CASE ~(b = r.arena /\ p \in Covered(r)) /\ pageStates'[b][p] = pageStates[b][p]
    <3>1. pt'[b][p] # NotPresent => pt[b][p] # NotPresent
      BY <1>0, <2>2
    <3>2. b = "fixmap" /\ FixmapSlotRetired(p) => FixmapSlotRetired(p)'
      BY <1>0
    <3> QED BY <1>1, <2>0, <2>2, <3>1, <3>2
  <2>3. CASE /\ ~(b = r.arena /\ p \in Covered(r)) /\ pageStates[b][p] = "free"
             /\ pageStates'[b][p] = "retired" /\ b = "fixmap" /\ FixmapSlotRetired(p)'
    <3>1. pt'[b][p] = NotPresent
      BY <1>0, <2>0, <2>3
    <3>2. \A j \in Record : InUse(j)' /\ ranges'[j].arena = b => p \notin Covered(ranges'[j])
      BY <1>1, <2>0, <2>3
    <3> QED BY <2>3, <3>1, <3>2
  <2> QED BY <2>1, <2>2, <2>3
<1>5. PagesFollow'
  BY <1>4 DEF PagesFollow
<1> QED BY <1>3, <1>5 DEF Layout

\* Slots are retired, or nothing happens to the pages.
LEMMA SlotsRetired ==
  ASSUME Layout, LayoutTypes', UNCHANGED <<ranges, pt>>,
         \A s \in Slot : FixmapSlotRetired(s) => FixmapSlotRetired(s)',
         \A b \in Arena : \A p \in 0 .. PageCount(b) - 1 :
           \/ pageStates'[b][p] = pageStates[b][p]
           \/ /\ pageStates[b][p] = "free"
              /\ pageStates'[b][p] = "retired" /\ b = "fixmap" /\ FixmapSlotRetired(p)'
  PROVE  Layout'
<1>0. LayoutTypes /\ RecordsApart /\ PagesFollow /\ Slot = 0 .. PageCount("fixmap") - 1
  BY ArenaSizes DEF Layout
<1>1. \A j \in Record : InUse(j)' <=> InUse(j)
  BY DEF InUse
<1>2. RecordsApart'
  BY <1>0, <1>1 DEF RecordsApart
<1>3. ASSUME NEW b \in Arena, NEW p \in 0 .. PageCount(b) - 1
      PROVE  /\ \A j \in Record : InUse(j) /\ ranges[j].arena = b /\ p \in Covered(ranges[j]) =>
                  pageStates'[b][p] = IF p \in Usable(ranges[j]) THEN "alloc" ELSE "guard"
             /\ (\A j \in Record : InUse(j) /\ ranges[j].arena = b => p \notin Covered(ranges[j])) =>
                  \/ pageStates'[b][p] = "free"
                  \/ pageStates'[b][p] = "retired" /\ b = "fixmap" /\ FixmapSlotRetired(p)'
             /\ pt[b][p] # NotPresent => pageStates'[b][p] = "alloc"
  <2>0. /\ \A j \in Record : InUse(j) /\ ranges[j].arena = b /\ p \in Covered(ranges[j]) =>
             pageStates[b][p] = IF p \in Usable(ranges[j]) THEN "alloc" ELSE "guard"
        /\ (\A j \in Record : InUse(j) /\ ranges[j].arena = b => p \notin Covered(ranges[j])) =>
             \/ pageStates[b][p] = "free"
             \/ pageStates[b][p] = "retired" /\ b = "fixmap" /\ FixmapSlotRetired(p)
        /\ pt[b][p] # NotPresent => pageStates[b][p] = "alloc"
    BY <1>0 DEF PagesFollow
  <2>1. b = "fixmap" /\ FixmapSlotRetired(p) => FixmapSlotRetired(p)'
    BY <1>0
  <2>2. \/ pageStates'[b][p] = pageStates[b][p]
        \/ /\ pageStates[b][p] = "free"
           /\ pageStates'[b][p] = "retired" /\ b = "fixmap" /\ FixmapSlotRetired(p)'
    OBVIOUS
  <2> QED BY <2>0, <2>1, <2>2
<1>4. PagesFollow'
  BY <1>1, <1>3 DEF PagesFollow
<1> QED BY <1>2, <1>4 DEF Layout

\* The arguments of KeKvaAllocRange describe a range that fits its arena.
AllocatedRange(shape) ==
    [arena |-> shape.arena, generation |-> rangeGeneration,
     base |-> Min(Fits(shape.arena, shape.lower + shape.usable + shape.upper)),
     lower |-> shape.lower, usable |-> shape.usable, upper |-> shape.upper, owns |-> TRUE]

\* KeKvaAllocRange takes a free record and free pages.
LEMMA AllocRangeLayout ==
  ASSUME KvaInv, NEW t \in Threads, NEW shape \in Shapes, KeKvaAllocRange(t, shape)
  PROVE  /\ Min(FreeRecords) \in Record /\ ~InUse(Min(FreeRecords))
         /\ AllocatedRange(shape) \in Ranges /\ AllocatedRange(shape).arena # "fixmap"
         /\ \A j \in Record : ranges'[j] = IF j = Min(FreeRecords) THEN AllocatedRange(shape) ELSE ranges[j]
         /\ range'[t] = Handle(Min(FreeRecords), AllocatedRange(shape))
         /\ Layout'
<1> DEFINE i == Min(FreeRecords)
           r == AllocatedRange(shape)
           a == shape.arena
           n == shape.lower + shape.usable + shape.upper
           b == Min(Fits(a, n))
<1>0. /\ Layout /\ LayoutTypes /\ rangeGeneration \in Nat /\ range \in [Threads -> Handles \cup {NoRange}]
      /\ slotGenerations' = slotGenerations /\ pt' = pt
      /\ shape.arena \in {"stack", "heap"} /\ shape.usable \in Nat \ {0} /\ shape.lower \in Nat /\ shape.upper \in Nat
      /\ a \in Arena /\ n \in Nat /\ PageCount(a) \in Nat
  BY KvaAssumption, ArenaSizes DEF KvaInv, Layout, HandleTypes, KeKvaAllocRange, Arena
<1>1. i \in Record /\ ~InUse(i)
  <2>1. FreeRecords \subseteq Nat /\ FreeRecords # {}
    BY DEF FreeRecords, Record, KeKvaAllocRange
  <2>2. i \in FreeRecords
    BY <2>1, MinProperties
  <2> QED BY <2>2 DEF FreeRecords
<1>2. b \in 0 .. PageCount(a) - n /\ b \in Nat /\ \A p \in b .. b + n - 1 : pageStates[a][p] = "free"
  <2>1. Fits(a, n) \subseteq Nat /\ Fits(a, n) # {}
    BY DEF Fits, KeKvaAllocRange
  <2>2. b \in Fits(a, n)
    BY <2>1, MinProperties
  <2> HIDE DEF b, a, n
  <2> QED BY <1>0, <2>2 DEF Fits
<1> HIDE DEF b
<1>3. r = [arena |-> a, generation |-> rangeGeneration, base |-> b, lower |-> shape.lower,
           usable |-> shape.usable, upper |-> shape.upper, owns |-> TRUE]
  BY DEF AllocatedRange, b
<1>4. r \in Ranges /\ r.arena = a /\ r.owns = TRUE /\ r.arena # "fixmap"
      /\ Total(r) = n /\ Covered(r) = b .. b + n - 1
  BY <1>0, <1>2, <1>3 DEF Ranges, Total, Covered
<1>5. Covered(r) \subseteq 0 .. PageCount(a) - 1 /\ \A p \in Covered(r) : pageStates[a][p] = "free"
  BY <1>0, <1>2, <1>4
<1>6. /\ ranges' = [ranges EXCEPT ![i] = r] /\ range' = [range EXCEPT ![t] = Handle(i, r)]
      /\ pageStates' = [pageStates EXCEPT ![a] =
             [p \in DOMAIN pageStates[a] |-> IF p \in Usable(r) THEN "alloc"
                                 ELSE IF p \in Covered(r) THEN "guard" ELSE pageStates[a][p]]]
  BY DEF KeKvaAllocRange, AllocatedRange, Claim
<1> HIDE DEF i, r, a, n
<1>7. \A j \in Record : ranges'[j] = IF j = i THEN r ELSE ranges[j]
  BY <1>0, <1>6 DEF LayoutTypes
<1> DEFINE new == [p \in DOMAIN pageStates[a] |-> IF p \in Usable(r) THEN "alloc"
                                 ELSE IF p \in Covered(r) THEN "guard" ELSE pageStates[a][p]]
<1>8. new \in [0 .. PageCount(a) - 1 -> States]
      /\ \A p \in 0 .. PageCount(a) - 1 : new[p] = IF p \in Usable(r) THEN "alloc"
                                 ELSE IF p \in Covered(r) THEN "guard" ELSE pageStates[a][p]
  <2>1. pageStates[a] \in [0 .. PageCount(a) - 1 -> States]
    BY <1>0 DEF LayoutTypes, OnArenas
  <2> QED BY <2>1 DEF States
<1>9. pageStates' = [pageStates EXCEPT ![a] = new]
  BY <1>6
<1> HIDE DEF new
<1>10. OnArenas(pageStates', States)
  <2>1. OnArenas(pageStates, States)
    BY <1>0 DEF LayoutTypes
  <2> QED BY <1>0, <1>8, <1>9, <2>1, ArenaChanged
<1>11. \A c \in Arena : pageStates'[c] = IF c = a THEN new ELSE pageStates[c]
  BY <1>0, <1>9 DEF LayoutTypes, OnArenas
<1>12. LayoutTypes'
  BY <1>0, <1>1, <1>4, <1>6, <1>10 DEF LayoutTypes
<1>13. \A c \in Arena : \A p \in 0 .. PageCount(c) - 1 :
           \/ /\ c = r.arena /\ p \in Covered(r)
              /\ pageStates'[c][p] = IF p \in Usable(r) THEN "alloc" ELSE "guard"
           \/ ~(c = r.arena /\ p \in Covered(r)) /\ pageStates'[c][p] = pageStates[c][p]
  <2>1. Usable(r) \subseteq Covered(r)
    BY <1>4, RangePages
  <2> QED BY <1>4, <1>8, <1>11, <2>1
<1>14. \A s \in Slot : FixmapSlotRetired(s) => FixmapSlotRetired(s)'
  BY <1>0 DEF FixmapSlotRetired
<1>15. \A c \in Arena : \A p \in 0 .. PageCount(c) - 1 :
           pt'[c][p] # NotPresent => pt[c][p] # NotPresent \/ (c = r.arena /\ p \in Usable(r))
  BY <1>0
<1>16. Layout'
  <2>1. /\ Layout /\ LayoutTypes' /\ i \in Record /\ ~InUse(i) /\ r \in Ranges
        /\ Covered(r) \subseteq 0 .. PageCount(r.arena) - 1
        /\ (r.owns <=> r.arena # "fixmap") /\ r.arena # "fixmap"
        /\ \A p \in Covered(r) : pageStates[r.arena][p] = "free"
    BY <1>0, <1>1, <1>4, <1>5, <1>12
  <2> QED BY <1>7, <1>13, <1>14, <1>15, <2>1, RecordAdded
<1>17. range'[t] = Handle(i, r)
  BY <1>0, <1>6
<1> QED BY <1>1, <1>4, <1>7, <1>16, <1>17 DEF i, r

\* SetSlots retires the slots it passes and takes the others it is told to.
LEMMA SlotStates ==
  ASSUME LayoutTypes, NEW taken \in SUBSET Slot, SetSlots(taken)
  PROVE  /\ OnArenas(pageStates', States)
         /\ \A b \in Arena : \A p \in 0 .. PageCount(b) - 1 :
              pageStates'[b][p] = IF b = "fixmap" /\ p \in Passed THEN "retired"
                                  ELSE IF b = "fixmap" /\ p \in taken THEN "alloc" ELSE pageStates[b][p]
<1> DEFINE old == pageStates["fixmap"]
           new == [s \in Slot |-> IF s \in Passed THEN "retired" ELSE IF s \in taken THEN "alloc" ELSE old[s]]
<1>0. /\ "fixmap" \in Arena /\ Slot = 0 .. PageCount("fixmap") - 1 /\ OnArenas(pageStates, States)
      /\ old \in [0 .. PageCount("fixmap") - 1 -> States]
  BY ArenaSizes DEF LayoutTypes, OnArenas
<1>1. pageStates' = [pageStates EXCEPT !["fixmap"] = new]
  BY DEF SetSlots
<1>2. new \in [0 .. PageCount("fixmap") - 1 -> States]
  BY <1>0 DEF States
<1>3. \A p \in 0 .. PageCount("fixmap") - 1 :
        new[p] = IF p \in Passed THEN "retired" ELSE IF p \in taken THEN "alloc" ELSE old[p]
  BY <1>0
<1> HIDE DEF new
<1>4. OnArenas(pageStates', States)
  BY <1>0, <1>1, <1>2, ArenaChanged
<1>5. \A c \in Arena : pageStates'[c] = IF c = "fixmap" THEN new ELSE pageStates[c]
  BY <1>0, <1>1 DEF OnArenas
<1> QED BY <1>3, <1>4, <1>5

\* What SetSlots passes is free and exhausted; the lowest open slot is neither.
LEMMA OpenSlot ==
  ASSUME LayoutTypes
  PROVE  /\ \A s \in Passed : s \in Slot /\ pageStates["fixmap"][s] = "free" /\ FixmapSlotRetired(s)
         /\ OpenSlots # {} => /\ Min(OpenSlots) \in Slot /\ pageStates["fixmap"][Min(OpenSlots)] = "free"
                              /\ ~FixmapSlotRetired(Min(OpenSlots))
<1>1. \A s \in Passed : s \in Slot /\ pageStates["fixmap"][s] = "free" /\ FixmapSlotRetired(s)
  BY DEF Passed, FreeSlots, OpenSlots
<1>2. OpenSlots \subseteq Nat
  BY DEF OpenSlots, FreeSlots, Slot
<1>3. OpenSlots # {} => Min(OpenSlots) \in OpenSlots
  BY <1>2, MinProperties
<1> QED BY <1>1, <1>3 DEF OpenSlots, FreeSlots

-----------------------------------------------------------------------------
(* Every step keeps the invariant.                                         *)

\* Initially nothing is mapped, held or in the middle of anything.
LEMMA KvaStarts == Init => KvaInv
<1> SUFFICES ASSUME Init PROVE KvaInv
  OBVIOUS
<1>1. PmmTypes
  BY DEF Init, PmmInit, PmmTypes
<1>2. HandleTypes
  BY DEF Init, HandleTypes, Steps
<1>3. /\ pageStates = [a \in Arena |-> [p \in 0 .. PageCount(a) - 1 |-> "free"]]
      /\ pt = [a \in Arena |-> [p \in 0 .. PageCount(a) - 1 |-> NotPresent]]
      /\ \A i \in Record : ranges[i] = NoRange
  BY DEF Init
<1>4. OnArenas(pageStates, States) /\ OnArenas(pt, Page \cup {NotPresent, Alias})
  BY <1>3 DEF OnArenas, States
<1>5. LayoutTypes
  BY <1>4, KvaAssumption DEF Init, LayoutTypes, Slot
<1>6. \A i \in Record : ~InUse(i)
  BY <1>3 DEF InUse
<1>7. RecordsApart
  BY <1>6 DEF RecordsApart
<1>8. \A a \in Arena : \A p \in 0 .. PageCount(a) - 1 : pageStates[a][p] = "free" /\ pt[a][p] = NotPresent
  BY <1>3
<1>9. PagesFollow
  BY <1>6, <1>8 DEF PagesFollow
<1>10. Generations
  BY DEF Init, Generations
<1>11. MapsMade
  BY DEF Init, MapsMade
<1>12. HandlesHeld
  <2>1. live = {} /\ stale = {} /\ tokens = {} /\ staleTokens = {}
        /\ \A t \in Threads : range[t] = NoRange /\ pc[t] = "run"
    BY DEF Init
  <2> QED BY <2>1 DEF HandlesHeld, Building
<1> QED BY <1>1, <1>2, <1>5, <1>7, <1>9, <1>10, <1>11, <1>12 DEF KvaInv, Layout

\* A step of the page allocator or of KeKvaMapOwnedPages between its pages: the
\* layout and the handles stay as they are.
LEMMA OnlyThreads ==
  ASSUME KvaInv, ~panicked, UNCHANGED <<kvaVars, range>>, PmmTypes',
         pc' \in [Threads -> Steps], index' \in [Threads -> Nat],
         \A t \in Threads :
           /\ pc'[t] \in Building <=> pc[t] \in Building
           /\ pc'[t] = "map" => held'[t] # {}
           /\ pc'[t] \in {"alloc", "mark", "map"} =>
                index'[t] = 0 \/ (pc[t] \in {"alloc", "mark", "map"} /\ index'[t] = index[t])
  PROVE  KvaInv'
<1>0. /\ pageStates' = pageStates /\ ranges' = ranges /\ rangeGeneration' = rangeGeneration
      /\ slotGenerations' = slotGenerations /\ pt' = pt /\ live' = live /\ stale' = stale
      /\ tokens' = tokens /\ staleTokens' = staleTokens /\ panicked' = panicked /\ range' = range
  BY DEF kvaVars
<1>1. HandleTypes'
  BY <1>0 DEF KvaInv, HandleTypes
<1>2. Layout'
  BY <1>0, SameLayout DEF KvaInv
<1>3. Generations'
  BY <1>0 DEF KvaInv, Generations
<1>4. \A h : FindRecordById(h)' <=> FindRecordById(h)
  BY <1>0 DEF FindRecordById, InUse
<1>5. \A a, p : FindRecordByUsableBase(a, p)' = FindRecordByUsableBase(a, p)
  BY <1>0 DEF FindRecordByUsableBase, InUse
<1>6. HandlesHeld'
  <2>1. HandlesHeld
    BY DEF KvaInv
  <2> QED BY <1>0, <1>4, <1>5, <2>1 DEF HandlesHeld
<1>7. MapsMade'
  <2>1. MapsMade /\ Layout /\ HandleTypes /\ HandlesHeld
    BY DEF KvaInv
  <2>2. \A h \in live' : Mapped(h.range)' = Usable(h.range)
    BY <1>0, <2>1 DEF MapsMade, Mapped
  <2>3. \A k \in tokens' : pt'["fixmap"][k.slot] = Alias
    BY <1>0, <2>1 DEF MapsMade
  <2>4. ASSUME NEW t \in Threads, pc'[t] \in {"alloc", "mark", "map"},
               NEW p \in Usable(range[t].range), p < UsableBase(range[t].range) + index'[t]
        PROVE  pt[range[t].range.arena][p] # NotPresent
    <3>1. CASE pc[t] \in {"alloc", "mark", "map"} /\ index'[t] = index[t]
      BY <2>1, <2>4, <3>1 DEF MapsMade
    <3>2. CASE index'[t] = 0
      <4>1. range[t] \in Handles
        BY <2>1, <2>4 DEF HandlesHeld, HandleTypes, Building
      <4>2. range[t].range \in Ranges
        BY <4>1 DEF Handles
      <4>3. UsableBase(range[t].range) \in Nat
        BY <4>2, RangePages
      <4> QED BY <2>4, <3>2, <4>3 DEF Usable
    <3> QED BY <2>4, <3>1, <3>2
  <2> QED BY <1>0, <2>2, <2>3, <2>4 DEF MapsMade
<1> QED BY <1>1, <1>2, <1>3, <1>6, <1>7 DEF KvaInv

\* A scan that succeeds returns free pages of the bitmap.
LEMMA ScanFindsFreePages ==
  ASSUME NEW c \in Nat \ {0}, NEW a \in Nat \ {0}, NEW m \in Nat,
         Scan(c, a, MaxPageIndex(m)) # NoPage
  PROVE  /\ Scan(c, a, MaxPageIndex(m)) \in Nat
         /\ Run(Scan(c, a, MaxPageIndex(m)), c) \subseteq InState("free")
         /\ Run(Scan(c, a, MaxPageIndex(m)), c) # {}
<1> DEFINE l == MaxPageIndex(m)
           x == Scan(c, a, l)
<1>1. l \in 0 .. TotalManagedPages
  BY MaxPageIndexType
<1> HIDE DEF l
<1>2. x \in Nat /\ FitsAt(x, c, a, l)
  BY <1>1, ScanResult DEF l
<1> HIDE DEF x
<1>3. x + c <= l /\ \A p \in Run(x, c) : bitmap[p] = "free"
  BY <1>2 DEF FitsAt
<1>4. Run(x, c) \subseteq Page /\ x \in Run(x, c)
  BY <1>1, <1>2, <1>3, PmmAssumption DEF Run, Page
<1>5. Run(x, c) \subseteq InState("free")
  BY <1>3, <1>4 DEF InState
<1> QED BY <1>2, <1>4, <1>5 DEF x, l

\* The steps of the page allocator, with and without a range, and the steps of
\* KeKvaMapOwnedPages that neither map nor release.
LEMMA PageStepsKeep ==
  ASSUME KvaInv, NEW t \in Threads,
         \/ KeKvaMapOwnedPages(t) \/ AllocOwnedPage(t) \/ MarkOwnedPage(t) \/ NoPageLeft(t)
         \/ MapPageFails(t) \/ GiveBackPage(t) \/ KePmmAllocPages(t) \/ TakePages(t)
         \/ FreeTakenPages(t) \/ ReservePages
  PROVE  KvaInv'
<1>0. /\ PmmTypes /\ pc \in [Threads -> Steps] /\ index \in [Threads -> Nat]
      /\ \A u \in Threads : pc[u] = "map" => panicked \/ held[u] # {}
      /\ bitmap \in [Page -> {"free", "allocated", "reserved"}]
      /\ found \in [Threads -> SUBSET Page] /\ held \in [Threads -> SUBSET Page]
  BY DEF KvaInv, HandleTypes, HandlesHeld, PmmTypes
<1>1. /\ Building = {"check", "alloc", "mark", "map", "give back", "undo"}
      /\ Steps = {"check", "alloc", "mark", "map", "give back", "undo", "run", "take", "use"}
  BY DEF Building, Steps
<1>2. CASE KeKvaMapOwnedPages(t)
  <2>1. /\ ~panicked /\ pc[t] = "check" /\ pc' = [pc EXCEPT ![t] = "alloc"] /\ index' = [index EXCEPT ![t] = 0]
        /\ UNCHANGED <<pmmVars, kvaVars, range>>
    BY <1>2 DEF KeKvaMapOwnedPages, At
  <2>2. PmmTypes' /\ held' = held
    BY <1>0, <2>1 DEF PmmTypes, pmmVars
  <2> QED BY <1>0, <1>1, <2>1, <2>2, OnlyThreads
<1>3. CASE NoPageLeft(t)
  <2>1. /\ ~panicked /\ pc[t] = "alloc" /\ pc' = [pc EXCEPT ![t] = "undo"]
        /\ UNCHANGED <<pmmVars, kvaVars, range, index>>
    BY <1>3 DEF NoPageLeft, At
  <2>2. PmmTypes' /\ held' = held
    BY <1>0, <2>1 DEF PmmTypes, pmmVars
  <2> QED BY <1>0, <1>1, <2>1, <2>2, OnlyThreads
<1>4. CASE MapPageFails(t)
  <2>1. /\ ~panicked /\ pc[t] = "map" /\ pc' = [pc EXCEPT ![t] = "give back"]
        /\ UNCHANGED <<pmmVars, kvaVars, range, index>>
    BY <1>4 DEF MapPageFails, At
  <2>2. PmmTypes' /\ held' = held
    BY <1>0, <2>1 DEF PmmTypes, pmmVars
  <2> QED BY <1>0, <1>1, <2>1, <2>2, OnlyThreads
<1>5. CASE AllocOwnedPage(t)
  <2>1. /\ ~panicked /\ pc[t] = "alloc" /\ pc' = [pc EXCEPT ![t] = "mark"]
        /\ UNCHANGED <<kvaVars, range, index, bitmap, held>>
        /\ Scan(1, 1, MaxPageIndex(0)) # NoPage
        /\ found' = [found EXCEPT ![t] = Run(Scan(1, 1, MaxPageIndex(0)), 1)]
    BY <1>5 DEF AllocOwnedPage, At, KePmmAllocScan
  <2>2. Run(Scan(1, 1, MaxPageIndex(0)), 1) \subseteq Page
    BY <2>1, ScanFindsFreePages DEF InState
  <2>3. PmmTypes'
    BY <1>0, <2>1, <2>2 DEF PmmTypes
  <2> QED BY <1>0, <1>1, <2>1, <2>3, OnlyThreads
<1>6. CASE KePmmAllocPages(t)
  <2>1. PICK c \in Counts, a \in Alignments, m \in MaxPhysAddrs : KePmmAllocScan(t, c, a, m)
    BY <1>6 DEF KePmmAllocPages
  <2>2. /\ ~panicked /\ pc[t] = "run" /\ pc' = [pc EXCEPT ![t] = "take"]
        /\ UNCHANGED <<kvaVars, range, index, bitmap, held>>
        /\ Scan(c, a, MaxPageIndex(m)) # NoPage
        /\ found' = [found EXCEPT ![t] = Run(Scan(c, a, MaxPageIndex(m)), c)]
    BY <1>6, <2>1 DEF KePmmAllocPages, At, KePmmAllocScan
  <2>3. c \in Nat \ {0} /\ a \in Nat \ {0} /\ m \in Nat
    BY PmmAssumption
  <2>4. Run(Scan(c, a, MaxPageIndex(m)), c) \subseteq Page
    BY <2>2, <2>3, ScanFindsFreePages DEF InState
  <2>5. PmmTypes'
    BY <1>0, <2>2, <2>4 DEF PmmTypes
  <2> QED BY <1>0, <1>1, <2>2, <2>5, OnlyThreads
<1>7. CASE MarkOwnedPage(t)
  <2>1. /\ ~panicked /\ pc[t] = "mark" /\ pc' = [pc EXCEPT ![t] = "map"]
        /\ UNCHANGED <<kvaVars, range, index>>
        /\ found[t] # {} /\ BitmapSetRange(found[t], "allocated")
        /\ held' = [held EXCEPT ![t] = @ \cup found[t]] /\ found' = [found EXCEPT ![t] = {}]
    BY <1>7 DEF MarkOwnedPage, At, KePmmAllocMark
  <2>2. PmmTypes'
    BY <1>0, <2>1 DEF PmmTypes, BitmapSetRange
  <2>3. held'[t] # {} /\ \A u \in Threads : u # t => held'[u] = held[u]
    BY <1>0, <2>1
  <2> QED BY <1>0, <1>1, <2>1, <2>2, <2>3, OnlyThreads
<1>8. CASE TakePages(t)
  <2>1. /\ ~panicked /\ pc[t] = "take" /\ pc' = [pc EXCEPT ![t] = "use"]
        /\ UNCHANGED <<kvaVars, range, index>>
        /\ BitmapSetRange(found[t], "allocated")
        /\ held' = [held EXCEPT ![t] = @ \cup found[t]] /\ found' = [found EXCEPT ![t] = {}]
    BY <1>8 DEF TakePages, At, KePmmAllocMark
  <2>2. PmmTypes'
    BY <1>0, <2>1 DEF PmmTypes, BitmapSetRange
  <2>3. \A u \in Threads : u # t => held'[u] = held[u]
    BY <1>0, <2>1
  <2> QED BY <1>0, <1>1, <2>1, <2>2, <2>3, OnlyThreads
<1>9. CASE GiveBackPage(t)
  <2>1. /\ ~panicked /\ pc[t] = "give back" /\ pc' = [pc EXCEPT ![t] = "undo"]
        /\ UNCHANGED <<kvaVars, range, index, found>>
        /\ BitmapSetRange(held[t], "free") \/ bitmap' = bitmap
        /\ held' = [held EXCEPT ![t] = {}]
    BY <1>9 DEF GiveBackPage, At, BitmapFreePages
  <2>2. PmmTypes'
    BY <1>0, <2>1 DEF PmmTypes, BitmapSetRange
  <2>3. \A u \in Threads : u # t => held'[u] = held[u]
    BY <1>0, <2>1
  <2> QED BY <1>0, <1>1, <2>1, <2>2, <2>3, OnlyThreads
<1>10. CASE FreeTakenPages(t)
  <2>1. PICK pages : /\ ~panicked /\ pc[t] = "use" /\ pc' = [pc EXCEPT ![t] = "run"]
                     /\ UNCHANGED <<kvaVars, range, index, found>>
                     /\ BitmapSetRange(pages, "free")
                     /\ held' = [held EXCEPT ![t] = @ \ pages]
    BY <1>10 DEF FreeTakenPages, At, KePmmFreePages, BitmapFreePages
  <2>2. PmmTypes'
    BY <1>0, <2>1 DEF PmmTypes, BitmapSetRange
  <2>3. \A u \in Threads : u # t => held'[u] = held[u]
    BY <1>0, <2>1
  <2> QED BY <1>0, <1>1, <2>1, <2>2, <2>3, OnlyThreads
<1>11. CASE ReservePages
  <2>1. PICK pages : /\ ~panicked /\ UNCHANGED <<kvaVars, threadVars, found, held>>
                     /\ BitmapSetRange(pages, "reserved")
    BY <1>11 DEF ReservePages, KePmmReservePages
  <2>2. PmmTypes'
    BY <1>0, <2>1 DEF PmmTypes, BitmapSetRange
  <2>3. pc' = pc /\ index' = index /\ range' = range /\ held' = held
    BY <2>1 DEF threadVars
  <2> QED BY <1>0, <1>1, <2>1, <2>2, <2>3, OnlyThreads
<1> QED BY <1>2, <1>3, <1>4, <1>5, <1>6, <1>7, <1>8, <1>9, <1>10, <1>11

\* Handle h names its range among the records R.
NamesIn(R, h) == R[h.id] # NoRange /\ h.range = R[h.id]

\* FindRecordById, before and after a step.
LEMMA FindRecord ==
  /\ \A h : FindRecordById(h) <=> NamesIn(ranges, h)
  /\ \A h : FindRecordById(h)' <=> NamesIn(ranges', h)
  /\ \A t \in Threads : FindRecordById(range[t])' <=> NamesIn(ranges', range'[t])
  BY DEF FindRecordById, InUse, NamesIn

\* KeKvaAllocRange: no handle, old or new, names the new record by accident,
\* because its generation is new.
LEMMA AllocRangeKeeps ==
  ASSUME KvaInv, NEW t \in Threads, NEW shape \in Shapes, KeKvaAllocRange(t, shape)
  PROVE  KvaInv'
<1> DEFINE i == Min(FreeRecords)
           r == AllocatedRange(shape)
<1>0. /\ PmmTypes /\ HandleTypes /\ Layout /\ LayoutTypes /\ Generations /\ MapsMade
      /\ ~panicked /\ HandlesHeld /\ pc[t] = "run" /\ rangeGeneration # 0
      /\ rangeGeneration' = NextRangeGeneration(rangeGeneration)
      /\ range' = [range EXCEPT ![t] = Handle(i, r)] /\ pc' = [pc EXCEPT ![t] = "check"]
      /\ UNCHANGED <<pmmVars, slotGenerations, pt, index, live, stale, tokens, staleTokens, panicked>>
  BY DEF KvaInv, Layout, KeKvaAllocRange, At, AllocatedRange
<1>1. /\ i \in Record /\ ~InUse(i) /\ r \in Ranges /\ r.arena # "fixmap" /\ Layout'
      /\ \A j \in Record : ranges'[j] = IF j = i THEN r ELSE ranges[j]
  BY AllocRangeLayout
<1>2. r.generation = rangeGeneration
  BY DEF AllocatedRange
<1>3. rangeGeneration \in Nat /\ MaxGeneration \in Nat
      /\ rangeGeneration' \in Nat /\ (rangeGeneration' = 0 \/ rangeGeneration' = rangeGeneration + 1)
  BY <1>0, KvaAssumption DEF HandleTypes, NextRangeGeneration
<1> HIDE DEF i, r
<1>4. PICK h0 \in Handles : h0.id = i /\ h0.range = r /\ h0 # NoRange /\ h0 = Handle(i, r)
  <2>1. Handle(i, r) \in Handles /\ Handle(i, r).id = i /\ Handle(i, r).range = r
    BY <1>1 DEF Handle, Handles
  <2> QED BY <2>1, NoRangeIsNone
<1>5. /\ pc \in [Threads -> Steps] /\ range \in [Threads -> Handles \cup {NoRange}] /\ live \subseteq Handles
      /\ stale \subseteq Handles /\ tokens \subseteq Tokens /\ staleTokens \subseteq Tokens
  BY <1>0 DEF HandleTypes
<1>6. /\ range'[t] = h0 /\ pc'[t] = "check"
      /\ \A u \in Threads : u # t => range'[u] = range[u] /\ pc'[u] = pc[u]
  BY <1>0, <1>4, <1>5
<1>7. PmmTypes'
  BY <1>0 DEF PmmTypes, pmmVars
<1>8. HandleTypes'
  BY <1>0, <1>3, <1>4 DEF HandleTypes, Steps, Building
<1>9. \A j \in Record : /\ InUse(j)' <=> InUse(j) \/ j = i
                        /\ j # i => ranges'[j] = ranges[j]
                        /\ InUse(j) => j # i
      /\ ranges'[i] = r
  BY <1>1, NoRangeIsNone DEF InUse
<1>10. Generations'
  <2>1. \A h \in live \cup stale : h.range.generation < rangeGeneration' \/ rangeGeneration' = 0
    <3>1. ASSUME NEW h \in live \cup stale PROVE h.range.generation \in Nat
      BY <1>5 DEF Handles, Ranges
    <3> QED BY <1>0, <1>3, <3>1 DEF Generations
  <2>2. ASSUME NEW u \in Threads, range'[u] # NoRange
        PROVE  range'[u].range.generation < rangeGeneration' \/ rangeGeneration' = 0
    <3>1. CASE u = t
      BY <1>2, <1>3, <1>4, <1>6, <3>1
    <3>2. CASE u # t
      <4>1. range[u] # NoRange /\ range'[u] = range[u] /\ range[u] \in Handles
        BY <1>5, <1>6, <2>2, <3>2
      <4>2. range[u].range.generation \in Nat
        BY <4>1 DEF Handles, Ranges
      <4> QED BY <1>0, <1>3, <4>1, <4>2 DEF Generations
    <3> QED BY <3>1, <3>2
  <2>3. \A k \in tokens \cup staleTokens : k.generation <= slotGenerations[k.slot]
    BY <1>0 DEF Generations
  <2> QED BY <1>0, <2>1, <2>2, <2>3 DEF Generations
<1>11. MapsMade'
  <2>1. \A h \in live : Mapped(h.range)' = Mapped(h.range)
    BY <1>0 DEF Mapped
  <2>2. \A u \in Threads : pc'[u] \in {"alloc", "mark", "map"} => u # t
    BY <1>6
  <2> QED BY <1>0, <1>6, <2>1, <2>2 DEF MapsMade
\* A handle of an older generation names a record if and only if it did before.
<1>12. ASSUME NEW h \in Handles, h.range.generation < rangeGeneration
       PROVE  NamesIn(ranges', h) <=> NamesIn(ranges, h)
  <2>1. h.id \in Record /\ h.range.generation \in Nat
    BY DEF Handles, Ranges
  <2>2. h.id = i => h.range # r
    BY <1>2, <1>3, <1>12, <2>1
  <2> QED BY <1>1, <1>9, <2>1, <2>2 DEF NamesIn, InUse
<1>13. \A s \in Slot : FindRecordByUsableBase("fixmap", s)' = FindRecordByUsableBase("fixmap", s)
  BY <1>1, <1>9 DEF FindRecordByUsableBase
<1>14. HandlesHeld'
  <2>0. /\ \A h \in live : NamesIn(ranges, h)
        /\ \A h \in stale : ~NamesIn(ranges, h)
        /\ \A u \in Threads : range[u] # NoRange => NamesIn(ranges, range[u])
    BY <1>0, FindRecord DEF HandlesHeld
  <2>1. \A h \in live' : NamesIn(ranges', h)
    BY <1>0, <1>5, <1>12, <2>0 DEF Generations
  <2>2. \A h \in stale' : ~NamesIn(ranges', h)
    BY <1>0, <1>5, <1>12, <2>0 DEF Generations
  <2>3. NamesIn(ranges', h0) /\ h0 \notin live' /\ \A u \in Threads : range[u] # h0
    <3>1. NamesIn(ranges', h0)
      BY <1>1, <1>4, <1>9 DEF NamesIn, InUse
    <3>2. \A h \in live : h.range.generation < rangeGeneration /\ h.range.generation \in Nat
      BY <1>0, <1>5 DEF Generations, Handles, Ranges
    <3>3. \A u \in Threads : range[u] # NoRange => range[u].range.generation < rangeGeneration
      BY <1>0 DEF Generations
    <3> QED BY <1>0, <1>2, <1>3, <1>4, <3>1, <3>2, <3>3
  <2>4. ASSUME NEW u \in Threads
        PROVE  /\ range'[u] # NoRange <=> pc'[u] \in Building
               /\ range'[u] # NoRange => /\ NamesIn(ranges', range'[u]) /\ range'[u] \notin live'
                                         /\ range'[u].range.arena # "fixmap"
                                         /\ \A v \in Threads : v # u => range'[u] # range'[v]
               /\ pc'[u] = "map" => held'[u] # {}
    <3>1. CASE u = t
      <4>1. pc'[u] \in Building /\ pc'[u] # "map" /\ range'[u] = h0
        BY <1>6, <3>1 DEF Building
      <4> QED BY <1>1, <1>4, <1>6, <2>3, <3>1, <4>1
    <3>2. CASE u # t
      <4>1. range'[u] = range[u] /\ pc'[u] = pc[u] /\ held' = held /\ live' = live
        BY <1>0, <1>6, <3>2 DEF pmmVars
      <4>2. /\ range[u] # NoRange <=> pc[u] \in Building
            /\ range[u] # NoRange => /\ range[u] \notin live
                                     /\ range[u].range.arena # "fixmap"
                                     /\ \A v \in Threads : v # u => range[u] # range[v]
            /\ pc[u] = "map" => held[u] # {}
        BY <1>0 DEF HandlesHeld
      <4>3. range[u] # NoRange => NamesIn(ranges', range[u])
        BY <1>0, <1>5, <1>12, <2>0 DEF Generations
      <4>4. \A v \in Threads : range'[v] = h0 \/ range'[v] = range[v]
        BY <1>6
      <4> QED BY <2>3, <4>1, <4>2, <4>3, <4>4
    <3> QED BY <3>1, <3>2
  <2>5. \A k \in tokens \cup staleTokens : k.slot \in Slot
    BY <1>5 DEF Tokens
  <2>6. \A h \in live' \cup stale' : h.range.arena # "fixmap"
    BY <1>0 DEF HandlesHeld
  <2>7. \A k \in tokens' : /\ FindRecordByUsableBase("fixmap", k.slot)' # {}
                           /\ slotGenerations'[k.slot] = k.generation
    BY <1>0, <1>13, <2>5 DEF HandlesHeld
  <2>8. \A k \in staleTokens' : /\ k \notin tokens'
                                /\ slotGenerations'[k.slot] = k.generation
                                     => FindRecordByUsableBase("fixmap", k.slot)' = {}
    BY <1>0, <1>13, <2>5 DEF HandlesHeld
  <2>9. /\ \A h \in live' : FindRecordById(h)'
        /\ \A h \in stale' : ~FindRecordById(h)'
        /\ \A u \in Threads : range'[u] # NoRange => FindRecordById(range[u])'
    BY <2>1, <2>2, <2>4, FindRecord
  <2> QED BY <2>4, <2>6, <2>7, <2>8, <2>9 DEF HandlesHeld
<1> QED BY <1>1, <1>7, <1>8, <1>10, <1>11, <1>14 DEF KvaInv

\* KeKvaMapPage maps a page of the hand at the next address of the range; after
\* the last one the whole range is mapped.
LEMMA MapPageKeeps ==
  ASSUME KvaInv, NEW t \in Threads, KeKvaMapPage(t)
  PROVE  KvaInv'
<1> DEFINE last == index[t] + 1 = range[t].range.usable
<1>0. /\ PmmTypes /\ HandleTypes /\ Layout /\ LayoutTypes /\ RecordsApart /\ PagesFollow /\ Generations /\ MapsMade
      /\ ~panicked /\ HandlesHeld /\ pc[t] = "map" /\ FindRecordById(range[t])
      /\ index[t] < range[t].range.usable
      /\ pt' = [pt EXCEPT ![range[t].range.arena][VirtAddr(t)] = PhysAddr(t)]
      /\ held' = [held EXCEPT ![t] = @ \ {PhysAddr(t)}]
      /\ index' = [index EXCEPT ![t] = IF last THEN 0 ELSE @ + 1]
      /\ pc' = [pc EXCEPT ![t] = IF last THEN "run" ELSE "alloc"]
      /\ range' = [range EXCEPT ![t] = IF last THEN NoRange ELSE @]
      /\ live' = IF last THEN live \cup {range[t]} ELSE live
      /\ UNCHANGED <<bitmap, found, pageStates, ranges, rangeGeneration, slotGenerations,
                     stale, tokens, staleTokens, panicked>>
  BY DEF KvaInv, Layout, KeKvaMapPage, At
<1>1. /\ pc \in [Threads -> Steps] /\ range \in [Threads -> Handles \cup {NoRange}] /\ index \in [Threads -> Nat]
      /\ live \subseteq Handles /\ stale \subseteq Handles /\ tokens \subseteq Tokens /\ staleTokens \subseteq Tokens
      /\ held \in [Threads -> SUBSET Page] /\ held[t] # {} /\ range[t] # NoRange
  BY <1>0 DEF HandleTypes, PmmTypes, HandlesHeld, Building
<1>2. PICK h \in Handles : h = range[t]
  BY <1>1
<1>3. PICK r \in Ranges : r = h.range
  BY DEF Handles
<1>4. PICK v : v = UsableBase(r) + index[t]
  OBVIOUS
<1>5. PICK x : x = PhysAddr(t)
  OBVIOUS
<1>6. x \in Page /\ x # NotPresent
  <2>1. PhysAddr(t) \in held[t]
    BY <1>1 DEF PhysAddr
  <2> QED BY <1>1, <1>5, <2>1, PmmAssumption DEF Page, NotPresent
<1>7. /\ r.arena \in Arena /\ UsableBase(r) \in Nat /\ Usable(r) \subseteq Covered(r) /\ r.usable \in Nat \ {0}
      /\ Usable(r) = UsableBase(r) .. UsableBase(r) + r.usable - 1 /\ index[t] \in Nat
  BY <1>1, RangePages DEF Usable
<1>8. h.id \in Record /\ InUse(h.id) /\ r = ranges[h.id]
  BY <1>0, <1>2, <1>3 DEF FindRecordById, Handles
<1>9. v \in Usable(r) /\ v \in Covered(r) /\ v \in 0 .. PageCount(r.arena) - 1
  <2>1. v \in Usable(r)
    BY <1>0, <1>2, <1>3, <1>4, <1>7
  <2>2. Covered(r) \subseteq 0 .. PageCount(r.arena) - 1
    BY <1>0, <1>8 DEF RecordsApart
  <2> QED BY <1>7, <2>1, <2>2
<1>10. pageStates[r.arena][v] = "alloc"
  BY <1>0, <1>7, <1>8, <1>9 DEF PagesFollow
<1> DEFINE new == [pt[r.arena] EXCEPT ![v] = x]
<1>11. pt' = [pt EXCEPT ![r.arena] = new]
  BY <1>0, <1>2, <1>3, <1>4, <1>5 DEF VirtAddr
<1>12. /\ new \in [0 .. PageCount(r.arena) - 1 -> Page \cup {NotPresent, Alias}]
       /\ \A p \in 0 .. PageCount(r.arena) - 1 : new[p] = IF p = v THEN x ELSE pt[r.arena][p]
       /\ OnArenas(pt, Page \cup {NotPresent, Alias})
  BY <1>0, <1>6, <1>7 DEF LayoutTypes, OnArenas
<1> HIDE DEF new
<1>13. OnArenas(pt', Page \cup {NotPresent, Alias})
  BY <1>7, <1>11, <1>12, ArenaChanged
<1>14. \A b \in Arena : pt'[b] = IF b = r.arena THEN new ELSE pt[b]
  BY <1>7, <1>11, <1>12 DEF OnArenas
<1>15. \A b \in Arena : \A p \in 0 .. PageCount(b) - 1 :
         pt'[b][p] = IF b = r.arena /\ p = v THEN x ELSE pt[b][p]
  BY <1>12, <1>14
<1>16. PmmTypes'
  BY <1>0, <1>1 DEF PmmTypes
<1>17. HandleTypes'
  <2>1. rangeGeneration' \in Nat /\ live' \subseteq Handles /\ stale' \subseteq Handles
        /\ tokens' \subseteq Tokens /\ staleTokens' \subseteq Tokens /\ panicked' \in BOOLEAN
    BY <1>0, <1>1, <1>2 DEF HandleTypes
  <2>2. range' \in [Threads -> Handles \cup {NoRange}]
    BY <1>0, <1>1
  <2>3. pc' \in [Threads -> Steps]
    BY <1>0, <1>1 DEF Steps, Building
  <2>4. index' \in [Threads -> Nat]
    BY <1>0, <1>1
  <2> QED BY <2>1, <2>2, <2>3, <2>4 DEF HandleTypes
<1>18. \A j \in Record : InUse(j)' <=> InUse(j)
  BY <1>0 DEF InUse
<1>19. Layout'
  <2>1. LayoutTypes'
    BY <1>0, <1>13 DEF LayoutTypes
  <2>2. RecordsApart'
    BY <1>0, <1>18 DEF RecordsApart
  <2>3. ASSUME NEW b \in Arena, NEW p \in 0 .. PageCount(b) - 1, pt'[b][p] # NotPresent
        PROVE  pageStates[b][p] = "alloc"
    BY <1>0, <1>10, <1>15, <2>3 DEF PagesFollow
  <2>4. PagesFollow'
    BY <1>0, <1>18, <2>3 DEF PagesFollow, FixmapSlotRetired
  <2> QED BY <2>1, <2>2, <2>4 DEF Layout
<1>20. Generations'
  <2>1. range[t].range.generation < rangeGeneration \/ rangeGeneration = 0
    BY <1>0, <1>1 DEF Generations
  <2>2. \A u \in Threads : range'[u] = range[u] \/ range'[u] = NoRange
    BY <1>0, <1>1
  <2>3. \A g \in live' : g \in live \/ g = range[t]
    BY <1>0
  <2> QED BY <1>0, <2>1, <2>2, <2>3 DEF Generations
<1>21. /\ last => /\ pc'[t] = "run" /\ range'[t] = NoRange /\ live' = live \cup {h}
       /\ ~last => pc'[t] = "alloc" /\ range'[t] = range[t] /\ live' = live /\ index'[t] = index[t] + 1
       /\ \A u \in Threads : u # t => /\ pc'[u] = pc[u] /\ range'[u] = range[u] /\ index'[u] = index[u]
                                      /\ held'[u] = held[u]
  BY <1>0, <1>1, <1>2
\* The pages of the range below the next index are mapped.
<1>22. \A p \in Usable(r) : p < UsableBase(r) + index[t] + 1 => pt'[r.arena][p] # NotPresent
  <2>1. SUFFICES ASSUME NEW p \in Usable(r), p < UsableBase(r) + index[t] + 1
                 PROVE  pt'[r.arena][p] # NotPresent
    OBVIOUS
  <2>2. p \in 0 .. PageCount(r.arena) - 1
    BY <1>0, <1>7, <1>8 DEF RecordsApart
  <2>3. p < UsableBase(r) + index[t] => pt[r.arena][p] # NotPresent
    BY <1>0, <1>2, <1>3 DEF MapsMade
  <2>4. p = v \/ p < UsableBase(r) + index[t]
    BY <1>4, <1>7, <2>1, <2>2
  <2> QED BY <1>6, <1>7, <1>15, <2>2, <2>3, <2>4
<1>23. \A b \in Arena : \A p \in 0 .. PageCount(b) - 1 : pt[b][p] # NotPresent => pt'[b][p] # NotPresent
  BY <1>6, <1>15
\* The usable pages of a handle that names its record lie in the arena.
<1>24. ASSUME NEW g \in Handles, FindRecordById(g)
       PROVE  /\ g.range.arena \in Arena /\ Usable(g.range) \subseteq 0 .. PageCount(g.range.arena) - 1
              /\ g.range.arena # "fixmap" => g.range.owns
  <2>1. g.id \in Record /\ InUse(g.id) /\ g.range = ranges[g.id] /\ g.range \in Ranges
    BY <1>24 DEF FindRecordById, Handles
  <2> QED BY <1>0, <2>1, RangePages DEF RecordsApart
<1>25. MapsMade'
  <2>1. ASSUME NEW g \in live' PROVE Mapped(g.range)' = Usable(g.range)
    <3>1. CASE g \in live
      <4>1. Mapped(g.range) = Usable(g.range) /\ FindRecordById(g) /\ g \in Handles
        BY <1>0, <1>1, <3>1 DEF MapsMade, HandlesHeld
      <4> QED BY <1>23, <1>24, <4>1 DEF Mapped
    <3>2. CASE g = h /\ last
      <4>1. \A p \in Usable(r) : p < UsableBase(r) + index[t] + 1
        BY <1>2, <1>3, <1>7, <3>2
      <4> QED BY <1>3, <1>22, <3>2, <4>1 DEF Mapped
    <3> QED BY <1>21, <3>1, <3>2
  <2>2. ASSUME NEW k \in tokens' PROVE pt'["fixmap"][k.slot] = Alias
    <3>1. k \in tokens /\ k.slot \in Slot /\ pt["fixmap"][k.slot] = Alias
      BY <1>0, <1>1 DEF MapsMade, Tokens
    <3>2. r.arena # "fixmap"
      BY <1>0, <1>2, <1>3, <1>1 DEF HandlesHeld
    <3> QED BY <1>14, <3>1, <3>2, ArenaSizes
  <2>3. ASSUME NEW u \in Threads, pc'[u] \in {"alloc", "mark", "map"}, NEW p \in Usable(range'[u].range),
               p < UsableBase(range'[u].range) + index'[u]
        PROVE  pt'[range'[u].range.arena][p] # NotPresent
    <3>1. CASE u = t
      <4>1. ~last /\ range'[u] = range[u] /\ index'[u] = index[t] + 1
        BY <1>21, <2>3, <3>1
      <4>2. p < UsableBase(r) + index[t] + 1
        BY <1>2, <1>3, <1>7, <2>3, <3>1, <4>1
      <4> QED BY <1>2, <1>3, <1>22, <2>3, <3>1, <4>1, <4>2
    <3>2. CASE u # t
      <4>1. pc'[u] = pc[u] /\ range'[u] = range[u] /\ index'[u] = index[u]
        BY <1>21, <3>2
      <4>2. pt[range[u].range.arena][p] # NotPresent
        BY <1>0, <2>3, <4>1 DEF MapsMade
      <4>3. range[u] # NoRange /\ range[u] \in Handles /\ FindRecordById(range[u])
        BY <1>0, <1>1, <2>3, <4>1 DEF HandlesHeld, Building
      <4>4. range[u].range.arena \in Arena /\ p \in 0 .. PageCount(range[u].range.arena) - 1
        BY <1>24, <2>3, <4>1, <4>3
      <4> QED BY <1>23, <4>1, <4>2, <4>4
    <3> QED BY <3>1, <3>2
  <2> QED BY <2>1, <2>2, <2>3 DEF MapsMade
<1>26. HandlesHeld'
  <2>0. /\ \A g \in live : NamesIn(ranges, g) /\ g.range.arena # "fixmap"
        /\ \A g \in stale : ~NamesIn(ranges, g) /\ g.range.arena # "fixmap"
        /\ NamesIn(ranges, h) /\ h.range.arena # "fixmap"
        /\ ranges' = ranges /\ stale' = stale
    BY <1>0, <1>1, <1>2, FindRecord DEF HandlesHeld
  <2>1. \A g \in live' : NamesIn(ranges', g) /\ g.range.arena # "fixmap"
    BY <1>21, <2>0
  <2>2. \A g \in stale' : ~NamesIn(ranges', g) /\ g.range.arena # "fixmap"
    BY <2>0
  <2>3. ASSUME NEW u \in Threads
        PROVE  /\ range'[u] # NoRange <=> pc'[u] \in Building
               /\ range'[u] # NoRange => /\ NamesIn(ranges', range'[u]) /\ range'[u] \notin live'
                                         /\ range'[u].range.arena # "fixmap"
                                         /\ \A w \in Threads : w # u => range'[u] # range'[w]
               /\ pc'[u] = "map" => held'[u] # {}
    <3>1. /\ range[u] # NoRange <=> pc[u] \in Building
          /\ range[u] # NoRange => /\ NamesIn(ranges, range[u]) /\ range[u] \notin live
                                   /\ range[u].range.arena # "fixmap"
                                   /\ \A w \in Threads : w # u => range[u] # range[w]
          /\ pc[u] = "map" => held[u] # {}
      BY <1>0, FindRecord DEF HandlesHeld
    <3>2. \A w \in Threads : range'[w] = range[w] \/ range'[w] = NoRange
      BY <1>21
    <3>3. CASE u = t
      <4>1. "run" \notin Building /\ "alloc" \in Building
        BY DEF Building
      <4> QED BY <1>1, <1>21, <2>0, <3>1, <3>2, <3>3, <4>1
    <3>4. CASE u # t
      <4>1. pc'[u] = pc[u] /\ range'[u] = range[u] /\ held'[u] = held[u]
        BY <1>21, <3>4
      <4>2. range[u] # NoRange => range[u] \notin live'
        BY <1>2, <1>21, <3>1, <3>4
      <4> QED BY <2>0, <3>1, <3>2, <4>1, <4>2
    <3> QED BY <3>3, <3>4
  <2>4. \A s : FindRecordByUsableBase("fixmap", s)' = FindRecordByUsableBase("fixmap", s)
    BY <1>0 DEF FindRecordByUsableBase, InUse
  <2>5. /\ \A k \in tokens' : /\ FindRecordByUsableBase("fixmap", k.slot)' # {}
                              /\ slotGenerations'[k.slot] = k.generation
        /\ \A k \in staleTokens' : /\ k \notin tokens'
                                   /\ slotGenerations'[k.slot] = k.generation
                                        => FindRecordByUsableBase("fixmap", k.slot)' = {}
    BY <1>0, <2>4 DEF HandlesHeld
  <2>6. /\ \A g \in live' : FindRecordById(g)'
        /\ \A g \in stale' : ~FindRecordById(g)'
        /\ \A u \in Threads : range'[u] # NoRange => FindRecordById(range[u])'
    BY <2>1, <2>2, <2>3, FindRecord
  <2> QED BY <2>1, <2>2, <2>3, <2>5, <2>6 DEF HandlesHeld
<1> QED BY <1>16, <1>17, <1>19, <1>20, <1>25, <1>26 DEF KvaInv

\* A step releases record i and gives up every handle and token that names it.
LEMMA ReleaseKeeps ==
  ASSUME KvaInv, ~panicked, NEW i \in Record, InUse(i), KiKvaReleaseRecord(i),
         UNCHANGED <<found, held, rangeGeneration, slotGenerations>>,
         pc' \in [Threads -> Steps], index' \in [Threads -> Nat], range' \in [Threads -> Handles \cup {NoRange}],
         \A h \in live' : h \in live /\ h.id # i,
         \A h \in stale' : \/ h \in stale
                           \/ /\ h \in Handles /\ h.id = i /\ h.range.arena # "fixmap"
                              /\ h.range.generation < rangeGeneration \/ rangeGeneration = 0,
         \A t \in Threads : \/ range'[t] = NoRange /\ pc'[t] = "run"
                            \/ /\ range'[t] = range[t] /\ pc'[t] = pc[t] /\ index'[t] = index[t]
                               /\ range[t] # NoRange => range[t].id # i,
         \A k \in tokens' : k \in tokens /\ ~(ranges[i].arena = "fixmap" /\ UsableBase(ranges[i]) = k.slot),
         \A k \in staleTokens' :
            /\ k \notin tokens'
            /\ \/ k \in staleTokens
               \/ /\ k \in Tokens /\ k.generation <= slotGenerations[k.slot]
                  /\ ranges[i].arena = "fixmap" /\ UsableBase(ranges[i]) = k.slot
  PROVE  KvaInv'
<1>0. /\ PmmTypes /\ HandleTypes /\ Layout /\ LayoutTypes /\ RecordsApart /\ Generations /\ MapsMade /\ HandlesHeld
      /\ bitmap \in [Page -> {"free", "allocated", "reserved"}]
      /\ live \subseteq Handles /\ stale \subseteq Handles /\ tokens \subseteq Tokens /\ staleTokens \subseteq Tokens
      /\ range \in [Threads -> Handles \cup {NoRange}] /\ pc \in [Threads -> Steps]
      /\ ranges[i] \in Ranges
  BY UsedRecord DEF KvaInv, Layout, HandleTypes, PmmTypes
<1>1. \/ /\ panicked' = TRUE
         /\ UNCHANGED <<bitmap, pt, pageStates, ranges>>
      \/ /\ panicked' = panicked /\ BitmapFreePages(PhysOf(i))
         /\ Layout' /\ ReleasedRecord(i)
  BY <1>0, ReleaseEffect
<1>2. PmmTypes'
  <2>1. bitmap' \in [Page -> {"free", "allocated", "reserved"}]
    <3>1. CASE bitmap' = bitmap
      BY <1>0, <3>1
    <3>2. CASE BitmapFreePages(PhysOf(i))
      <4>1. bitmap' = [p \in Page |-> IF p \in PhysOf(i) THEN "free" ELSE bitmap[p]]
        BY <3>2 DEF BitmapFreePages, BitmapSetRange
      <4> HIDE DEF PhysOf
      <4> QED BY <1>0, <4>1
    <3> QED BY <1>1, <3>1, <3>2
  <2> QED BY <1>0, <2>1 DEF PmmTypes
<1>3. HandleTypes'
  <2>1. /\ live' \subseteq Handles /\ stale' \subseteq Handles /\ tokens' \subseteq Tokens /\ staleTokens' \subseteq Tokens
        /\ rangeGeneration' \in Nat /\ panicked' \in BOOLEAN
    BY <1>0, <1>1 DEF HandleTypes
  <2> QED BY <2>1 DEF HandleTypes
<1>4. Layout'
  BY <1>0, <1>1, SameLayout
<1>5. Generations'
  <2>1. \A h \in live' \cup stale' : h.range.generation < rangeGeneration \/ rangeGeneration = 0
    BY <1>0 DEF Generations
  <2>2. \A t \in Threads : range'[t] # NoRange => range'[t].range.generation < rangeGeneration \/ rangeGeneration = 0
    BY <1>0 DEF Generations
  <2>3. \A k \in tokens' \cup staleTokens' : k.generation <= slotGenerations[k.slot]
    BY <1>0 DEF Generations
  <2> QED BY <2>1, <2>2, <2>3 DEF Generations
\* The maps of another record survive.
<1>6. ASSUME NEW h \in Handles, FindRecordById(h), h.id # i, NEW p \in Usable(h.range)
      PROVE  h.range.arena \in Arena /\ pt'[h.range.arena][p] = pt[h.range.arena][p]
  <2>1. h.id \in Record /\ InUse(h.id) /\ h.range = ranges[h.id] /\ h.range \in Ranges
    BY <1>6 DEF FindRecordById, Handles
  <2>2. h.range.arena \in Arena /\ p \in Covered(h.range) /\ p \in 0 .. PageCount(h.range.arena) - 1
        /\ Usable(ranges[i]) \subseteq Covered(ranges[i])
    BY <1>0, <2>1, RangePages DEF RecordsApart
  <2>3. h.range.arena = ranges[i].arena => p \notin Covered(ranges[i])
    <3>1. RecordsApart /\ h.id \in Record /\ i \in Record /\ InUse(h.id) /\ InUse(i) /\ h.id # i
      BY <1>0, <1>6, <2>1
    <3>2. ranges[h.id].arena = ranges[i].arena => Covered(ranges[h.id]) \cap Covered(ranges[i]) = {}
      BY <3>1, Zenon DEF RecordsApart
    <3> QED BY <2>1, <2>2, <3>2
  <2>4. ~(h.range.arena = ranges[i].arena /\ p \in Usable(ranges[i]))
    BY <2>2, <2>3
  <2> QED BY <1>1, <2>2, <2>4 DEF ReleasedRecord
<1>7. MapsMade'
  <2>1. ASSUME NEW h \in live' PROVE Mapped(h.range)' = Usable(h.range)
    <3>1. h \in Handles /\ FindRecordById(h) /\ h.id # i /\ Mapped(h.range) = Usable(h.range)
      BY <1>0 DEF HandlesHeld, MapsMade
    <3>2. \A p \in Usable(h.range) : pt'[h.range.arena][p] = pt[h.range.arena][p]
      BY <1>6, <3>1
    <3> QED BY <3>1, <3>2 DEF Mapped
  <2>2. ASSUME NEW k \in tokens' PROVE pt'["fixmap"][k.slot] = Alias
    <3>1. /\ k \in tokens /\ k.slot \in Slot /\ pt["fixmap"][k.slot] = Alias
          /\ ~(ranges[i].arena = "fixmap" /\ UsableBase(ranges[i]) = k.slot)
      BY <1>0 DEF MapsMade, Tokens
    <3>2. ranges[i].arena = "fixmap" => k.slot \notin Usable(ranges[i])
      <4>1. SUFFICES ASSUME ranges[i].arena = "fixmap" PROVE k.slot \notin Usable(ranges[i])
        OBVIOUS
      <4>2. Total(ranges[i]) = 1
        BY <1>0, <4>1 DEF RecordsApart
      <4>3. Usable(ranges[i]) = {UsableBase(ranges[i])}
        <5>1. PICK r \in Ranges : r = ranges[i]
          BY <1>0
        <5>2. r.base \in Nat /\ r.lower \in Nat /\ r.usable \in Nat \ {0} /\ r.upper \in Nat
          BY RangePages
        <5>3. r.usable = 1
          BY <4>2, <5>1, <5>2 DEF Total
        <5> QED BY <5>1, <5>2, <5>3 DEF Usable, UsableBase
      <4> QED BY <3>1, <4>1, <4>3
    <3>3. k.slot \in 0 .. PageCount("fixmap") - 1 /\ "fixmap" \in Arena
      BY <3>1, ArenaSizes
    <3> QED BY <1>1, <3>1, <3>2, <3>3 DEF ReleasedRecord
  <2>3. ASSUME NEW t \in Threads, pc'[t] \in {"alloc", "mark", "map"}, NEW p \in Usable(range'[t].range),
               p < UsableBase(range'[t].range) + index'[t]
        PROVE  pt'[range'[t].range.arena][p] # NotPresent
    <3>1. range'[t] = range[t] /\ pc'[t] = pc[t] /\ index'[t] = index[t] /\ (range[t] # NoRange => range[t].id # i)
      BY <2>3
    <3>2. range[t] # NoRange /\ FindRecordById(range[t]) /\ range[t] \in Handles
      BY <1>0, <2>3, <3>1 DEF HandlesHeld, Building
    <3>3. pt[range[t].range.arena][p] # NotPresent
      BY <1>0, <2>3, <3>1 DEF MapsMade
    <3>4. pt'[range[t].range.arena][p] = pt[range[t].range.arena][p]
      BY <1>6, <2>3, <3>1, <3>2
    <3> QED BY <3>1, <3>3, <3>4
  <2> QED BY <2>1, <2>2, <2>3 DEF MapsMade
<1>8. CASE panicked' = TRUE
  BY <1>2, <1>3, <1>4, <1>5, <1>7, <1>8 DEF KvaInv
<1>9. CASE ReleasedRecord(i)
  <2>1. \A j \in Record : ranges'[j] = IF j = i THEN NoRange ELSE ranges[j]
    BY <1>9 DEF ReleasedRecord
  <2>2. \A h \in Handles : NamesIn(ranges', h) <=> NamesIn(ranges, h) /\ h.id # i
    BY <2>1 DEF NamesIn, Handles
  <2>3. /\ \A h \in live : NamesIn(ranges, h) /\ h.range.arena # "fixmap"
        /\ \A h \in stale : ~NamesIn(ranges, h) /\ h.range.arena # "fixmap"
        /\ \A t \in Threads : range[t] # NoRange => NamesIn(ranges, range[t])
    BY <1>0, FindRecord DEF HandlesHeld
  <2>4. \A h \in live' : NamesIn(ranges', h) /\ h.range.arena # "fixmap"
    BY <1>0, <2>2, <2>3
  <2>5. \A h \in stale' : ~NamesIn(ranges', h) /\ h.range.arena # "fixmap"
    BY <1>0, <2>2, <2>3
  <2>6. ASSUME NEW t \in Threads
        PROVE  /\ range'[t] # NoRange <=> pc'[t] \in Building
               /\ range'[t] # NoRange => /\ NamesIn(ranges', range'[t]) /\ range'[t] \notin live'
                                         /\ range'[t].range.arena # "fixmap"
                                         /\ \A u \in Threads : u # t => range'[t] # range'[u]
               /\ pc'[t] = "map" => held'[t] # {}
    <3>1. /\ range[t] # NoRange <=> pc[t] \in Building
          /\ range[t] # NoRange => /\ range[t] \notin live
                                   /\ range[t].range.arena # "fixmap"
                                   /\ \A u \in Threads : u # t => range[t] # range[u]
          /\ pc[t] = "map" => held[t] # {}
      BY <1>0 DEF HandlesHeld
    <3>2. CASE range'[t] = NoRange /\ pc'[t] = "run"
      BY <3>2 DEF Building
    <3>3. CASE /\ range'[t] = range[t] /\ pc'[t] = pc[t]
               /\ range[t] # NoRange => range[t].id # i
      <4>1. range[t] # NoRange => NamesIn(ranges', range[t])
        BY <1>0, <2>2, <2>3, <3>3
      <4>2. \A u \in Threads : range'[u] = NoRange \/ range'[u] = range[u]
        OBVIOUS
      <4> QED BY <3>1, <3>3, <4>1, <4>2
    <3> QED BY <3>2, <3>3
  <2>7. \A s : FindRecordByUsableBase("fixmap", s)' = FindRecordByUsableBase("fixmap", s) \ {i}
    BY <2>1 DEF FindRecordByUsableBase, InUse
  <2>8. ASSUME NEW s, ranges[i].arena = "fixmap", UsableBase(ranges[i]) = s
        PROVE  FindRecordByUsableBase("fixmap", s) \subseteq {i}
    <3>1. SUFFICES ASSUME NEW j \in FindRecordByUsableBase("fixmap", s), j # i
                   PROVE  FALSE
      OBVIOUS
    <3>2. j \in Record /\ InUse(j) /\ ranges[j].arena = "fixmap" /\ UsableBase(ranges[j]) = s
      BY DEF FindRecordByUsableBase
    <3>3. ranges[j] \in Ranges
      BY <1>0, <3>2, UsedRecord
    <3>4. s \in Covered(ranges[i]) /\ s \in Covered(ranges[j])
      BY <1>0, <2>8, <3>2, <3>3, RangePages
    <3> QED BY <1>0, <2>8, <3>1, <3>2, <3>4 DEF RecordsApart
  <2>9. ASSUME NEW k \in tokens'
        PROVE  /\ FindRecordByUsableBase("fixmap", k.slot)' # {}
               /\ slotGenerations'[k.slot] = k.generation
    <3>1. k \in tokens /\ ~(ranges[i].arena = "fixmap" /\ UsableBase(ranges[i]) = k.slot)
      OBVIOUS
    <3>2. i \notin FindRecordByUsableBase("fixmap", k.slot)
      BY <3>1 DEF FindRecordByUsableBase
    <3> QED BY <1>0, <2>7, <3>1, <3>2 DEF HandlesHeld
  <2>10. ASSUME NEW k \in staleTokens', slotGenerations'[k.slot] = k.generation
         PROVE  FindRecordByUsableBase("fixmap", k.slot)' = {}
    <3>1. CASE k \in staleTokens
      <4>1. FindRecordByUsableBase("fixmap", k.slot) = {}
        BY <1>0, <2>10, <3>1 DEF HandlesHeld
      <4> QED BY <2>7, <4>1
    <3>2. CASE ranges[i].arena = "fixmap" /\ UsableBase(ranges[i]) = k.slot
      BY <2>7, <2>8, <3>2
    <3> QED BY <3>1, <3>2
  <2>11. /\ \A h \in live' : FindRecordById(h)'
         /\ \A h \in stale' : ~FindRecordById(h)'
         /\ \A t \in Threads : range'[t] # NoRange => FindRecordById(range[t])'
    BY <2>4, <2>5, <2>6, FindRecord
  <2>12. HandlesHeld'
    BY <2>4, <2>5, <2>6, <2>9, <2>10, <2>11 DEF HandlesHeld
  <2> QED BY <1>2, <1>3, <1>4, <1>5, <1>7, <2>12 DEF KvaInv
<1> QED BY <1>1, <1>8, <1>9

\* What a running machine knows of a handle that names a record: no second holder
\* has the record, and no token.
LEMMA OneHolder ==
  ASSUME KvaInv, ~panicked, NEW h \in Handles, FindRecordById(h), h.range.arena # "fixmap"
  PROVE  /\ h.id \in Record /\ InUse(h.id) /\ ranges[h.id] = h.range
         /\ \A g \in live : g.id = h.id => g = h
         /\ \A t \in Threads : range[t] # NoRange /\ range[t].id = h.id => range[t] = h
<1>1. h.id \in Record /\ InUse(h.id) /\ ranges[h.id] = h.range
  BY DEF FindRecordById, Handles
<1>2. \A g \in live : g \in Handles /\ FindRecordById(g)
  BY DEF KvaInv, HandleTypes, HandlesHeld
<1>3. \A t \in Threads : range[t] # NoRange => range[t] \in Handles /\ FindRecordById(range[t])
  BY DEF KvaInv, HandleTypes, HandlesHeld
<1>4. \A g \in live : g.id = h.id => g = h
  BY <1>2, HandleOfRecord
<1>5. \A t \in Threads : range[t] # NoRange /\ range[t].id = h.id => range[t] = h
  BY <1>3, HandleOfRecord
<1> QED BY <1>1, <1>4, <1>5

\* The three releases of a range with its own pages: by KeKvaMapOwnedPages, by its
\* handle, and by the address of a heap range.
LEMMA RangeReleasesKeep ==
  ASSUME KvaInv,
         \/ \E t \in Threads : UndoRange(t)
         \/ \E h \in live \cup stale : KeKvaReleaseRangeHandle(h)
         \/ \E h \in live : KeHeapFreePages(h)
  PROVE  KvaInv'
<1>0. /\ HandleTypes /\ Layout /\ RecordsApart /\ LayoutTypes /\ Generations /\ (panicked \/ HandlesHeld)
      /\ live \subseteq Handles /\ stale \subseteq Handles /\ tokens \subseteq Tokens
      /\ range \in [Threads -> Handles \cup {NoRange}] /\ pc \in [Threads -> Steps] /\ index \in [Threads -> Nat]
      /\ "run" \in Steps
  BY DEF KvaInv, HandleTypes, Layout, Steps
<1>1. ~panicked => \A k \in staleTokens : k \notin tokens
  BY <1>0 DEF HandlesHeld
<1>2. ASSUME NEW t \in Threads, UndoRange(t)
      PROVE  KvaInv'
  <2>1. /\ ~panicked /\ pc[t] = "undo" /\ FindRecordById(range[t]) /\ KiKvaReleaseRecord(range[t].id)
        /\ stale' = stale \cup {range[t]} /\ pc' = [pc EXCEPT ![t] = "run"]
        /\ range' = [range EXCEPT ![t] = NoRange] /\ index' = [index EXCEPT ![t] = 0]
        /\ live' = live /\ tokens' = tokens /\ staleTokens' = staleTokens
        /\ UNCHANGED <<found, held, rangeGeneration, slotGenerations>>
    BY <1>2 DEF UndoRange, At
  <2>2. /\ range[t] # NoRange /\ range[t].range.arena # "fixmap" /\ range[t] \notin live
        /\ range[t].range.generation < rangeGeneration \/ rangeGeneration = 0
        /\ \A u \in Threads : u # t => range[t] # range[u]
    BY <1>0, <2>1 DEF HandlesHeld, Building, Generations
  <2>3. PICK h \in Handles : h = range[t]
    BY <1>0, <2>2
  <2>4. /\ h.id \in Record /\ InUse(h.id) /\ ranges[h.id] = h.range
        /\ \A g \in live : g.id = h.id => g = h
        /\ \A u \in Threads : range[u] # NoRange /\ range[u].id = h.id => range[u] = h
    BY <2>1, <2>2, <2>3, OneHolder
  <2>5. \A u \in Threads : \/ range'[u] = NoRange /\ pc'[u] = "run"
                           \/ /\ range'[u] = range[u] /\ pc'[u] = pc[u] /\ index'[u] = index[u]
                              /\ range[u] # NoRange => range[u].id # h.id
    BY <1>0, <2>1, <2>2, <2>3, <2>4
  <2>6. \A g \in live' : g \in live /\ g.id # h.id
    BY <2>1, <2>2, <2>3, <2>4
  <2>7. \A g \in stale' : \/ g \in stale
                          \/ /\ g \in Handles /\ g.id = h.id /\ g.range.arena # "fixmap"
                             /\ g.range.generation < rangeGeneration \/ rangeGeneration = 0
    BY <2>1, <2>2, <2>3
  <2>8. /\ \A k \in tokens' : k \in tokens /\ ~(ranges[h.id].arena = "fixmap" /\ UsableBase(ranges[h.id]) = k.slot)
        /\ \A k \in staleTokens' : k \notin tokens' /\ k \in staleTokens
    BY <1>1, <2>1, <2>2, <2>3, <2>4
  <2>9. pc' \in [Threads -> Steps] /\ index' \in [Threads -> Nat] /\ range' \in [Threads -> Handles \cup {NoRange}]
    BY <1>0, <2>1
  <2>10. KiKvaReleaseRecord(h.id)
    BY <2>1, <2>3
  <2> QED BY <2>1, <2>4, <2>5, <2>6, <2>7, <2>8, <2>9, <2>10, ReleaseKeeps
\* The caller of the other two holds the handle.
<1>3. ASSUME NEW h \in live, ~panicked, KiKvaReleaseRecord(h.id),
             live' = live \ {h}, stale' = stale \cup {h},
             UNCHANGED <<found, held, rangeGeneration, slotGenerations, tokens, staleTokens, threadVars>>
      PROVE  KvaInv'
  <2>1. pc' = pc /\ index' = index /\ range' = range /\ tokens' = tokens /\ staleTokens' = staleTokens
    BY <1>3 DEF threadVars
  <2>2. /\ h \in Handles /\ FindRecordById(h) /\ h.range.arena # "fixmap"
        /\ h.range.generation < rangeGeneration \/ rangeGeneration = 0
        /\ \A u \in Threads : range[u] # NoRange => range[u] # h
    BY <1>0, <1>3 DEF HandlesHeld, Generations
  <2>3. /\ h.id \in Record /\ InUse(h.id) /\ ranges[h.id] = h.range
        /\ \A g \in live : g.id = h.id => g = h
        /\ \A u \in Threads : range[u] # NoRange /\ range[u].id = h.id => range[u] = h
    BY <1>3, <2>2, OneHolder
  <2>4. \A u \in Threads : /\ range'[u] = range[u] /\ pc'[u] = pc[u] /\ index'[u] = index[u]
                           /\ range[u] # NoRange => range[u].id # h.id
    BY <2>1, <2>2, <2>3
  <2>5. \A g \in live' : g \in live /\ g.id # h.id
    BY <1>3, <2>3
  <2>6. \A g \in stale' : \/ g \in stale
                          \/ /\ g \in Handles /\ g.id = h.id /\ g.range.arena # "fixmap"
                             /\ g.range.generation < rangeGeneration \/ rangeGeneration = 0
    BY <1>3, <2>2
  <2>7. /\ \A k \in tokens' : k \in tokens /\ ~(ranges[h.id].arena = "fixmap" /\ UsableBase(ranges[h.id]) = k.slot)
        /\ \A k \in staleTokens' : k \notin tokens' /\ k \in staleTokens
    BY <1>1, <1>3, <2>1, <2>2, <2>3
  <2>8. pc' \in [Threads -> Steps] /\ index' \in [Threads -> Nat] /\ range' \in [Threads -> Handles \cup {NoRange}]
    BY <1>0, <2>1
  <2> QED BY <1>3, <2>3, <2>4, <2>5, <2>6, <2>7, <2>8, ReleaseKeeps
<1>4. ASSUME NEW h \in live \cup stale, KeKvaReleaseRangeHandle(h)
      PROVE  KvaInv'
  <2>1. /\ ~panicked /\ FindRecordById(h) /\ KiKvaReleaseRecord(h.id) /\ live' = live \ {h} /\ stale' = stale \cup {h}
        /\ UNCHANGED <<found, held, rangeGeneration, slotGenerations, tokens, staleTokens, threadVars>>
    BY <1>4 DEF KeKvaReleaseRangeHandle
  <2>2. h \in live
    BY <1>0, <2>1 DEF HandlesHeld
  <2> QED BY <1>3, <2>1, <2>2
<1>5. ASSUME NEW h \in live, KeHeapFreePages(h)
      PROVE  KvaInv'
  <2> DEFINE S == FindRecordByUsableBase("heap", UsableBase(h.range))
  <2>1. /\ ~panicked /\ h.range.arena = "heap" /\ S # {} /\ KiKvaReleaseRecord(Min(S))
        /\ live' = live \ {h} /\ stale' = stale \cup {h}
        /\ UNCHANGED <<found, held, rangeGeneration, slotGenerations, tokens, staleTokens, threadVars>>
    BY <1>5 DEF KeHeapFreePages
  <2>2. h \in Handles /\ FindRecordById(h)
    BY <1>0, <2>1 DEF HandlesHeld
  <2>3. h.id \in Record /\ InUse(h.id) /\ ranges[h.id] = h.range /\ h.range \in Ranges
    BY <2>2 DEF FindRecordById, Handles
  <2>4. Min(S) \in S
    <3>1. S \subseteq Nat
      BY DEF FindRecordByUsableBase, Record
    <3> QED BY <2>1, <3>1, MinProperties
  <2>5. Min(S) \in Record /\ InUse(Min(S)) /\ ranges[Min(S)].arena = "heap" /\ UsableBase(ranges[Min(S)]) = UsableBase(h.range)
    BY <2>4 DEF FindRecordByUsableBase
  <2>6. PICK j \in Record : j = Min(S) /\ InUse(j) /\ ranges[j].arena = "heap" /\ UsableBase(ranges[j]) = UsableBase(h.range)
    BY <2>5
  <2>7. UsableBase(h.range) \in Covered(ranges[j]) /\ UsableBase(h.range) \in Covered(h.range)
    <3>1. ranges[j] \in Ranges
      BY <1>0, <2>6, UsedRecord
    <3> QED BY <2>3, <2>6, <3>1, RangePages
  <2>8. j = h.id
    BY <1>0, <2>1, <2>3, <2>6, <2>7 DEF RecordsApart
  <2>9. KiKvaReleaseRecord(h.id)
    BY <2>1, <2>6, <2>8
  <2> QED BY <1>3, <2>1, <2>9
<1> QED BY <1>2, <1>4, <1>5

\* KeTempPhysMapRelease.
LEMMA TokenReleaseKeeps ==
  ASSUME KvaInv, NEW k \in tokens \cup staleTokens, KeTempPhysMapRelease(k)
  PROVE  KvaInv'
<1> DEFINE owners == FindRecordByUsableBase("fixmap", k.slot)
<1>0. /\ HandleTypes /\ Layout /\ RecordsApart /\ LayoutTypes /\ Generations /\ HandlesHeld /\ ~panicked
      /\ live \subseteq Handles /\ stale \subseteq Handles /\ tokens \subseteq Tokens /\ staleTokens \subseteq Tokens
      /\ range \in [Threads -> Handles \cup {NoRange}] /\ pc \in [Threads -> Steps] /\ index \in [Threads -> Nat]
      /\ owners # {} /\ slotGenerations[k.slot] = k.generation /\ KiKvaReleaseRecord(Min(owners))
      /\ tokens' = tokens \ {k} /\ staleTokens' = staleTokens \cup {k}
      /\ UNCHANGED <<found, held, rangeGeneration, slotGenerations, live, stale>>
      /\ pc' = pc /\ range' = range /\ index' = index
  BY DEF KvaInv, HandleTypes, Layout, KeTempPhysMapRelease, threadVars
<1>1. Min(owners) \in owners
  <2>1. owners \subseteq Nat
    BY DEF FindRecordByUsableBase, Record
  <2> QED BY <1>0, <2>1, MinProperties
<1>2. PICK i \in Record : /\ i = Min(owners) /\ InUse(i) /\ ranges[i].arena = "fixmap" /\ UsableBase(ranges[i]) = k.slot
  BY <1>1 DEF FindRecordByUsableBase
<1> HIDE DEF owners
<1>3. k \in Tokens /\ k.generation \in Nat
  BY <1>0 DEF Tokens
<1>4. \A h \in live : h \in live /\ h.id # i
  <2>1. \A h \in live : FindRecordById(h) /\ h.range.arena # "fixmap"
    BY <1>0 DEF HandlesHeld
  <2> QED BY <1>2, <2>1 DEF FindRecordById
<1>5. \A t \in Threads : range[t] # NoRange => range[t].id # i
  <2>1. \A t \in Threads : range[t] # NoRange => FindRecordById(range[t]) /\ range[t].range.arena # "fixmap"
    BY <1>0 DEF HandlesHeld
  <2> QED BY <1>2, <2>1 DEF FindRecordById
<1>6. ASSUME NEW j \in tokens', ranges[i].arena = "fixmap", UsableBase(ranges[i]) = j.slot
      PROVE  FALSE
  <2>1. j \in tokens /\ j # k /\ j \in Tokens
    BY <1>0
  <2>2. j.slot = k.slot /\ slotGenerations[j.slot] = j.generation
    BY <1>0, <1>2, <1>6, <2>1 DEF HandlesHeld
  <2>3. j = [slot |-> j.slot, generation |-> j.generation] /\ k = [slot |-> k.slot, generation |-> k.generation]
    BY <1>3, <2>1 DEF Tokens
  <2> QED BY <1>0, <2>1, <2>2, <2>3
<1>7. ASSUME NEW j \in staleTokens'
      PROVE  /\ j \notin tokens'
             /\ \/ j \in staleTokens
                \/ /\ j \in Tokens /\ j.generation <= slotGenerations[j.slot]
                   /\ ranges[i].arena = "fixmap" /\ UsableBase(ranges[i]) = j.slot
  <2>1. CASE j = k
    BY <1>0, <1>2, <1>3, <2>1
  <2>2. CASE j \in staleTokens
    BY <1>0, <2>2 DEF HandlesHeld
  <2> QED BY <1>0, <2>1, <2>2
<1>8. KiKvaReleaseRecord(i)
  BY <1>0, <1>2
<1> QED BY <1>0, <1>2, <1>4, <1>5, <1>6, <1>7, <1>8, ReleaseKeeps

\* A slot that some token names is not free.
LEMMA TokenSlotBusy ==
  ASSUME KvaInv, ~panicked, NEW s \in Slot, pageStates["fixmap"][s] = "free"
  PROVE  FindRecordByUsableBase("fixmap", s) = {} /\ \A k \in tokens : k.slot # s
<1>0. /\ Layout /\ LayoutTypes /\ RecordsApart /\ PagesFollow /\ HandlesHeld
      /\ Slot = 0 .. PageCount("fixmap") - 1 /\ "fixmap" \in Arena
  BY ArenaSizes DEF KvaInv, Layout
<1>1. ASSUME NEW i \in FindRecordByUsableBase("fixmap", s) PROVE FALSE
  <2>1. i \in Record /\ InUse(i) /\ ranges[i].arena = "fixmap" /\ UsableBase(ranges[i]) = s
    BY DEF FindRecordByUsableBase
  <2>2. s \in Usable(ranges[i]) /\ s \in Covered(ranges[i])
    BY <1>0, <2>1, UsedRecord, RangePages
  <2>3. pageStates["fixmap"][s] = "alloc"
    BY <1>0, <2>1, <2>2 DEF PagesFollow
  <2> QED BY <2>3
<1>2. FindRecordByUsableBase("fixmap", s) = {}
  BY <1>1
<1> QED BY <1>0, <1>2 DEF HandlesHeld

\* The generation of the slot is spent, with or without a map.
LEMMA SlotGeneration ==
  ASSUME KvaInv, OpenSlots # {}, NEW s, s = Min(OpenSlots),
         slotGenerations' = [slotGenerations EXCEPT ![s] = slotGenerations[s] + 1]
  PROVE  /\ s \in Slot /\ slotGenerations[s] \in Nat
         /\ slotGenerations' \in [Slot -> Nat] /\ slotGenerations'[s] = slotGenerations[s] + 1
         /\ \A z \in Slot : z # s => slotGenerations'[z] = slotGenerations[z]
         /\ \A z \in Slot : FixmapSlotRetired(z) => FixmapSlotRetired(z)'
         /\ \A k \in tokens \cup staleTokens : k \in Tokens /\ k.slot \in Slot /\ k.generation <= slotGenerations'[k.slot]
         /\ \A k \in tokens \cup staleTokens : k.slot = s => k.generation # slotGenerations'[s]
<1>1. LayoutTypes /\ slotGenerations \in [Slot -> Nat] /\ tokens \subseteq Tokens /\ staleTokens \subseteq Tokens
      /\ \A k \in tokens \cup staleTokens : k.generation <= slotGenerations[k.slot]
  BY DEF KvaInv, Layout, LayoutTypes, HandleTypes, Generations
<1>2. s \in Slot
  BY <1>1, OpenSlot
<1>3. /\ slotGenerations[s] \in Nat
      /\ slotGenerations' \in [Slot -> Nat] /\ slotGenerations'[s] = slotGenerations[s] + 1
      /\ \A z \in Slot : z # s => slotGenerations'[z] = slotGenerations[z]
  BY <1>1, <1>2
<1>4. ASSUME NEW z \in Slot, FixmapSlotRetired(z) PROVE FixmapSlotRetired(z)'
  <2>1. slotGenerations'[z] >= TokenGenerationMask
    <3>1. slotGenerations[z] >= TokenGenerationMask /\ slotGenerations[z] \in Nat /\ TokenGenerationMask \in Nat
      BY <1>1, <1>4, KvaAssumption DEF FixmapSlotRetired
    <3> QED BY <1>3, <3>1
  <2> QED BY <2>1 DEF FixmapSlotRetired
<1>5. ASSUME NEW k \in tokens \cup staleTokens
      PROVE  /\ k \in Tokens /\ k.slot \in Slot /\ k.generation <= slotGenerations'[k.slot]
             /\ k.slot = s => k.generation # slotGenerations'[s]
  <2>1. k \in Tokens /\ k.slot \in Slot /\ k.generation \in Nat /\ k.generation <= slotGenerations[k.slot]
        /\ slotGenerations[k.slot] \in Nat
    BY <1>1 DEF Tokens
  <2> QED BY <1>3, <2>1
<1> QED BY <1>2, <1>3, <1>4, <1>5

\* A step of the fixmap that takes no record: slots retire, a generation may be
\* spent.
LEMMA FixmapFailuresKeep ==
  ASSUME KvaInv, FixmapAcquireFails \/ FixmapExhausted
  PROVE  KvaInv'
<1>0. /\ ~panicked /\ HandlesHeld /\ PmmTypes /\ HandleTypes /\ Layout /\ LayoutTypes /\ Generations /\ MapsMade
      /\ SetSlots({}) /\ slotGenerations \in [Slot -> Nat]
      /\ UNCHANGED <<pmmVars, ranges, pt, rangeGeneration, live, stale, tokens, staleTokens, panicked, threadVars>>
      /\ tokens \subseteq Tokens /\ staleTokens \subseteq Tokens
  BY DEF KvaInv, Layout, LayoutTypes, HandleTypes, FixmapAcquireFails, FixmapExhausted
<1>1. /\ pc' = pc /\ range' = range /\ index' = index /\ bitmap' = bitmap /\ found' = found /\ held' = held
      /\ Slot = 0 .. PageCount("fixmap") - 1
  BY <1>0, ArenaSizes DEF threadVars, pmmVars
<1>2. /\ slotGenerations' \in [Slot -> Nat]
      /\ \A z \in Slot : FixmapSlotRetired(z) => FixmapSlotRetired(z)'
      /\ \A k \in tokens \cup staleTokens : k.generation <= slotGenerations'[k.slot]
      /\ \A k \in tokens : slotGenerations'[k.slot] = k.generation
      /\ \A k \in staleTokens : slotGenerations'[k.slot] = k.generation => slotGenerations[k.slot] = k.generation
  <2>1. CASE FixmapExhausted
    <3>1. slotGenerations' = slotGenerations
      BY <2>1 DEF FixmapExhausted
    <3> QED BY <1>0, <3>1 DEF FixmapSlotRetired, Generations, HandlesHeld
  <2>2. CASE FixmapAcquireFails
    <3>1. PICK s : s = Min(OpenSlots) /\ OpenSlots # {}
                   /\ slotGenerations' = [slotGenerations EXCEPT ![s] = slotGenerations[s] + 1]
      BY <2>2 DEF FixmapAcquireFails
    <3>2. /\ s \in Slot
          /\ slotGenerations' \in [Slot -> Nat]
          /\ \A z \in Slot : z # s => slotGenerations'[z] = slotGenerations[z]
          /\ \A z \in Slot : FixmapSlotRetired(z) => FixmapSlotRetired(z)'
          /\ \A k \in tokens \cup staleTokens : k.slot \in Slot /\ k.generation <= slotGenerations'[k.slot]
          /\ \A k \in tokens \cup staleTokens : k.slot = s => k.generation # slotGenerations'[s]
      BY <3>1, SlotGeneration
    <3>3. pageStates["fixmap"][s] = "free"
      BY <1>0, <3>1, OpenSlot
    <3>4. \A k \in tokens : k.slot # s
      BY <1>0, <3>2, <3>3, TokenSlotBusy
    <3>5. \A k \in tokens : slotGenerations[k.slot] = k.generation
      BY <1>0 DEF HandlesHeld
    <3> QED BY <3>2, <3>4, <3>5
  <2> QED BY <2>1, <2>2
<1>3. OnArenas(pageStates', States) /\ \A b \in Arena : \A p \in 0 .. PageCount(b) - 1 :
              pageStates'[b][p] = IF b = "fixmap" /\ p \in Passed THEN "retired" ELSE pageStates[b][p]
  <2>1. {} \in SUBSET Slot
    OBVIOUS
  <2> QED BY <1>0, <2>1, SlotStates
<1>4. \A b \in Arena : \A p \in 0 .. PageCount(b) - 1 :
           \/ pageStates'[b][p] = pageStates[b][p]
           \/ /\ pageStates[b][p] = "free"
              /\ pageStates'[b][p] = "retired" /\ b = "fixmap" /\ FixmapSlotRetired(p)'
  <2>1. \A p \in Passed : p \in Slot /\ pageStates["fixmap"][p] = "free" /\ FixmapSlotRetired(p)'
    BY <1>0, <1>2, OpenSlot
  <2> QED BY <1>3, <2>1
<1>5. LayoutTypes'
  BY <1>0, <1>2, <1>3 DEF LayoutTypes
<1>6. Layout'
  BY <1>0, <1>2, <1>4, <1>5, SlotsRetired
<1>7. PmmTypes' /\ HandleTypes'
  BY <1>0, <1>1 DEF PmmTypes, HandleTypes
<1>8. Generations'
  BY <1>0, <1>1, <1>2 DEF Generations
<1>9. MapsMade'
  <2>1. \A h \in live : Mapped(h.range)' = Mapped(h.range)
    BY <1>0 DEF Mapped
  <2> QED BY <1>0, <1>1, <2>1 DEF MapsMade
<1>10. HandlesHeld'
  <2>1. /\ \A h : FindRecordById(h)' <=> FindRecordById(h)
        /\ \A t \in Threads : FindRecordById(range[t])' <=> FindRecordById(range[t])
        /\ \A s : FindRecordByUsableBase("fixmap", s)' = FindRecordByUsableBase("fixmap", s)
    BY <1>0, <1>1 DEF FindRecordById, FindRecordByUsableBase, InUse
  <2>2. /\ \A h \in live' : FindRecordById(h)'
        /\ \A h \in stale' : ~FindRecordById(h)'
        /\ \A t \in Threads : range'[t] # NoRange => FindRecordById(range[t])'
    BY <1>0, <1>1, <2>1 DEF HandlesHeld
  <2>3. \A k \in tokens' : /\ FindRecordByUsableBase("fixmap", k.slot)' # {}
                           /\ slotGenerations'[k.slot] = k.generation
    BY <1>0, <1>2, <2>1 DEF HandlesHeld
  <2>4. \A k \in staleTokens' : /\ k \notin tokens'
                                /\ slotGenerations'[k.slot] = k.generation
                                     => FindRecordByUsableBase("fixmap", k.slot)' = {}
    BY <1>0, <1>2, <2>1 DEF HandlesHeld
  <2> QED BY <1>0, <1>1, <2>2, <2>3, <2>4 DEF HandlesHeld
<1> QED BY <1>6, <1>7, <1>8, <1>9, <1>10 DEF KvaInv

\* KeFixmapAcquire: a free slot gets a record, a map and a token of a new
\* generation.
LEMMA FixmapAcquireKeeps ==
  ASSUME KvaInv, KeFixmapAcquire
  PROVE  KvaInv'
<1>0. /\ ~panicked /\ HandlesHeld /\ PmmTypes /\ HandleTypes /\ Layout /\ LayoutTypes /\ Generations /\ MapsMade
      /\ FreeRecords # {} /\ OpenSlots # {}
      /\ UNCHANGED <<pmmVars, rangeGeneration, live, stale, staleTokens, panicked, threadVars>>
      /\ tokens \subseteq Tokens /\ staleTokens \subseteq Tokens /\ live \subseteq Handles /\ stale \subseteq Handles
      /\ range \in [Threads -> Handles \cup {NoRange}]
  BY DEF KvaInv, Layout, LayoutTypes, HandleTypes, KeFixmapAcquire
<1>1. /\ pc' = pc /\ range' = range /\ index' = index /\ bitmap' = bitmap /\ found' = found /\ held' = held
      /\ Slot = 0 .. PageCount("fixmap") - 1 /\ "fixmap" \in Arena
  BY <1>0, ArenaSizes DEF threadVars, pmmVars
<1>2. PICK s : s = Min(OpenSlots)
  OBVIOUS
<1>3. PICK g : g = slotGenerations[s] + 1
  OBVIOUS
<1>4. PICK r : r = [arena |-> "fixmap", generation |-> g, base |-> s,
                    lower |-> 0, usable |-> 1, upper |-> 0, owns |-> FALSE]
  OBVIOUS
<1>5. /\ slotGenerations' = [slotGenerations EXCEPT ![s] = g] /\ SetSlots({s})
      /\ ranges' = [ranges EXCEPT ![Min(FreeRecords)] = r]
      /\ pt' = [pt EXCEPT !["fixmap"][s] = Alias]
      /\ tokens' = tokens \cup {[slot |-> s, generation |-> g]}
  BY <1>2, <1>3, <1>4 DEF KeFixmapAcquire
<1>6. /\ s \in Slot /\ g \in Nat /\ slotGenerations' \in [Slot -> Nat] /\ slotGenerations'[s] = g
      /\ \A z \in Slot : z # s => slotGenerations'[z] = slotGenerations[z]
      /\ \A z \in Slot : FixmapSlotRetired(z) => FixmapSlotRetired(z)'
      /\ \A k \in tokens \cup staleTokens : k \in Tokens /\ k.slot \in Slot /\ k.generation <= slotGenerations'[k.slot]
      /\ \A k \in tokens \cup staleTokens : k.slot = s => k.generation # g
  <2>1. slotGenerations' = [slotGenerations EXCEPT ![s] = slotGenerations[s] + 1]
    BY <1>3, <1>5
  <2>2. /\ s \in Slot /\ slotGenerations[s] \in Nat
        /\ slotGenerations' \in [Slot -> Nat] /\ slotGenerations'[s] = slotGenerations[s] + 1
        /\ \A z \in Slot : z # s => slotGenerations'[z] = slotGenerations[z]
        /\ \A z \in Slot : FixmapSlotRetired(z) => FixmapSlotRetired(z)'
        /\ \A k \in tokens \cup staleTokens : k \in Tokens /\ k.slot \in Slot /\ k.generation <= slotGenerations'[k.slot]
        /\ \A k \in tokens \cup staleTokens : k.slot = s => k.generation # slotGenerations'[s]
    BY <1>0, <1>2, <2>1, SlotGeneration
  <2>3. g \in Nat /\ slotGenerations'[s] = g
    BY <1>3, <2>2
  <2> QED BY <2>2, <2>3
<1>7. pageStates["fixmap"][s] = "free" /\ ~FixmapSlotRetired(s)
      /\ \A z \in Passed : z \in Slot /\ pageStates["fixmap"][z] = "free" /\ FixmapSlotRetired(z)
  BY <1>0, <1>2, OpenSlot
<1>8. FindRecordByUsableBase("fixmap", s) = {} /\ \A k \in tokens : k.slot # s
  BY <1>0, <1>6, <1>7, TokenSlotBusy
<1>9. PICK i \in Record : i = Min(FreeRecords) /\ ~InUse(i)
  <2>1. FreeRecords \subseteq Nat
    BY DEF FreeRecords, Record
  <2>2. Min(FreeRecords) \in FreeRecords
    BY <1>0, <2>1, MinProperties
  <2> QED BY <2>2 DEF FreeRecords
<1>10. /\ r \in Ranges /\ r.arena = "fixmap" /\ r.owns = FALSE /\ Total(r) = 1 /\ r # NoRange
       /\ Covered(r) = {s} /\ Usable(r) = {s} /\ UsableBase(r) = s
  <2>1. s \in Nat
    BY <1>6 DEF Slot
  <2>2. r \in Ranges
    BY <1>4, <1>6, <2>1 DEF Ranges, Arena
  <2>3. r.arena = "fixmap" /\ r.owns = FALSE /\ r.base = s /\ r.lower = 0 /\ r.usable = 1 /\ r.upper = 0
    BY <1>4
  <2>4. UsableBase(r) = s /\ Total(r) = 1
    BY <2>1, <2>3 DEF UsableBase, Total
  <2>5. Usable(r) = {s} /\ Covered(r) = {s}
    BY <2>1, <2>3, <2>4 DEF Usable, Covered
  <2> QED BY <2>2, <2>3, <2>4, <2>5, NoRangeIsNone
<1>11. /\ \A j \in Record : ranges'[j] = IF j = i THEN r ELSE ranges[j]
       /\ ranges' \in [Record -> Ranges \cup {NoRange}]
  BY <1>0, <1>5, <1>9, <1>10 DEF LayoutTypes
<1>12. OnArenas(pageStates', States) /\ \A b \in Arena : \A p \in 0 .. PageCount(b) - 1 :
              pageStates'[b][p] = IF b = "fixmap" /\ p \in Passed THEN "retired"
                                  ELSE IF b = "fixmap" /\ p \in {s} THEN "alloc" ELSE pageStates[b][p]
  <2>1. {s} \in SUBSET Slot
    BY <1>6
  <2> QED BY <1>0, <1>5, <2>1, SlotStates
<1> DEFINE new == [pt["fixmap"] EXCEPT ![s] = Alias]
<1>13. pt' = [pt EXCEPT !["fixmap"] = new]
  BY <1>5
<1>14. /\ new \in [0 .. PageCount("fixmap") - 1 -> Page \cup {NotPresent, Alias}]
       /\ \A p \in 0 .. PageCount("fixmap") - 1 : new[p] = IF p = s THEN Alias ELSE pt["fixmap"][p]
       /\ OnArenas(pt, Page \cup {NotPresent, Alias})
  BY <1>0, <1>1, <1>6 DEF LayoutTypes, OnArenas
<1> HIDE DEF new
<1>15. OnArenas(pt', Page \cup {NotPresent, Alias})
  BY <1>1, <1>13, <1>14, ArenaChanged
<1>16. \A b \in Arena : pt'[b] = IF b = "fixmap" THEN new ELSE pt[b]
  BY <1>1, <1>13, <1>14 DEF OnArenas
<1>17. \A b \in Arena : \A p \in 0 .. PageCount(b) - 1 :
         pt'[b][p] = IF b = "fixmap" /\ p = s THEN Alias ELSE pt[b][p]
  BY <1>14, <1>16
<1>18. LayoutTypes'
  BY <1>6, <1>11, <1>12, <1>15 DEF LayoutTypes
<1>19. \A b \in Arena : \A p \in 0 .. PageCount(b) - 1 :
           \/ /\ b = r.arena /\ p \in Covered(r)
              /\ pageStates'[b][p] = IF p \in Usable(r) THEN "alloc" ELSE "guard"
           \/ ~(b = r.arena /\ p \in Covered(r)) /\ pageStates'[b][p] = pageStates[b][p]
           \/ /\ ~(b = r.arena /\ p \in Covered(r)) /\ pageStates[b][p] = "free"
              /\ pageStates'[b][p] = "retired" /\ b = "fixmap" /\ FixmapSlotRetired(p)'
  <2>1. s \notin Passed
    BY <1>7
  <2>2. \A p \in Passed : pageStates["fixmap"][p] = "free" /\ FixmapSlotRetired(p)'
    BY <1>6, <1>7
  <2> QED BY <1>10, <1>12, <2>1, <2>2
<1>20. Layout'
  <2>1. /\ Covered(r) \subseteq 0 .. PageCount(r.arena) - 1 /\ (r.owns <=> r.arena # "fixmap")
        /\ r.arena = "fixmap" => Total(r) = 1
        /\ \A p \in Covered(r) : pageStates[r.arena][p] = "free"
    BY <1>1, <1>6, <1>7, <1>10
  <2>2. \A b \in Arena : \A p \in 0 .. PageCount(b) - 1 :
          pt'[b][p] # NotPresent => pt[b][p] # NotPresent \/ (b = r.arena /\ p \in Usable(r))
    BY <1>10, <1>17
  <2> QED BY <1>0, <1>6, <1>9, <1>10, <1>11, <1>18, <1>19, <2>1, <2>2, RecordAdded
<1>21. PICK k0 \in Tokens : k0.slot = s /\ k0.generation = g /\ tokens' = tokens \cup {k0}
  <2>1. [slot |-> s, generation |-> g] \in Tokens
    BY <1>6 DEF Tokens
  <2> QED BY <1>5, <2>1
<1>22. PmmTypes' /\ HandleTypes'
  BY <1>0, <1>1, <1>21 DEF PmmTypes, HandleTypes
<1>23. Generations'
  BY <1>0, <1>1, <1>6, <1>21 DEF Generations
<1>24. MapsMade'
  <2>1. ASSUME NEW h \in live PROVE Mapped(h.range)' = Usable(h.range)
    <3>1. h.range.arena # "fixmap" /\ h.range.arena \in Arena /\ Mapped(h.range) = Usable(h.range)
      BY <1>0 DEF HandlesHeld, MapsMade, Handles, Ranges
    <3>2. pt'[h.range.arena] = pt[h.range.arena]
      BY <1>16, <3>1
    <3> QED BY <3>1, <3>2 DEF Mapped
  <2>2. ASSUME NEW k \in tokens' PROVE pt'["fixmap"][k.slot] = Alias
    <3>1. CASE k = k0
      BY <1>1, <1>6, <1>17, <1>21, <3>1
    <3>2. CASE k \in tokens
      BY <1>0, <1>1, <1>6, <1>17, <3>2 DEF MapsMade
    <3> QED BY <1>21, <3>1, <3>2
  <2>3. ASSUME NEW t \in Threads, pc[t] \in {"alloc", "mark", "map"}
        PROVE  pt'[range[t].range.arena] = pt[range[t].range.arena]
    <3>1. range[t] # NoRange /\ range[t].range.arena # "fixmap"
      BY <1>0, <2>3 DEF HandlesHeld, Building
    <3>2. range[t].range.arena \in Arena
      BY <1>0, <3>1 DEF Handles, Ranges
    <3> QED BY <1>16, <3>1, <3>2
  <2> QED BY <1>0, <1>1, <2>1, <2>2, <2>3 DEF MapsMade
<1>25. HandlesHeld'
  <2>1. \A h \in Handles : h.range.arena # "fixmap" => (NamesIn(ranges', h) <=> NamesIn(ranges, h))
    <3>1. SUFFICES ASSUME NEW h \in Handles, h.range.arena # "fixmap"
                   PROVE  NamesIn(ranges', h) <=> NamesIn(ranges, h)
      OBVIOUS
    <3>2. h.id \in Record
      BY DEF Handles
    <3>3. CASE h.id = i
      <4>1. ranges'[h.id] = r /\ ranges[h.id] = NoRange
        BY <1>9, <1>11, <3>3 DEF InUse
      <4> QED BY <1>10, <3>1, <4>1 DEF NamesIn
    <3>4. CASE h.id # i
      BY <1>11, <3>2, <3>4 DEF NamesIn
    <3> QED BY <3>3, <3>4
  <2>2. /\ \A h \in live : NamesIn(ranges, h) /\ h.range.arena # "fixmap"
        /\ \A h \in stale : ~NamesIn(ranges, h) /\ h.range.arena # "fixmap"
        /\ \A t \in Threads : range[t] # NoRange => NamesIn(ranges, range[t]) /\ range[t].range.arena # "fixmap"
    BY <1>0, FindRecord DEF HandlesHeld
  <2>3. /\ \A h \in live : NamesIn(ranges', h)
        /\ \A h \in stale : ~NamesIn(ranges', h)
        /\ \A t \in Threads : range[t] # NoRange => NamesIn(ranges', range[t])
    BY <1>0, <2>1, <2>2
  <2>4. /\ \A h \in live' : FindRecordById(h)'
        /\ \A h \in stale' : ~FindRecordById(h)'
        /\ \A t \in Threads : range'[t] # NoRange => FindRecordById(range[t])'
    BY <1>0, <1>1, <2>3, FindRecord
  <2>5. \A z \in Slot : FindRecordByUsableBase("fixmap", z)' =
                          FindRecordByUsableBase("fixmap", z) \cup (IF z = s THEN {i} ELSE {})
    <3>1. \A j \in Record : /\ InUse(j)' <=> InUse(j) \/ j = i
                            /\ j # i => ranges'[j] = ranges[j]
                            /\ InUse(j) => j # i
          /\ ranges'[i] = r
      BY <1>9, <1>10, <1>11 DEF InUse
    <3> QED BY <1>10, <3>1 DEF FindRecordByUsableBase
  <2>6. ASSUME NEW k \in tokens'
        PROVE  /\ FindRecordByUsableBase("fixmap", k.slot)' # {}
               /\ slotGenerations'[k.slot] = k.generation
    <3>1. CASE k = k0
      BY <1>6, <1>21, <2>5, <3>1
    <3>2. CASE k \in tokens
      <4>1. k.slot \in Slot /\ k.slot # s
        BY <1>6, <1>8, <3>2
      <4>2. FindRecordByUsableBase("fixmap", k.slot) # {} /\ slotGenerations[k.slot] = k.generation
        BY <1>0, <3>2 DEF HandlesHeld
      <4> QED BY <1>6, <2>5, <4>1, <4>2
    <3> QED BY <1>21, <3>1, <3>2
  <2>7. ASSUME NEW k \in staleTokens'
        PROVE  /\ k \notin tokens'
               /\ slotGenerations'[k.slot] = k.generation => FindRecordByUsableBase("fixmap", k.slot)' = {}
    <3>1. k \in staleTokens /\ k \notin tokens /\ k.slot \in Slot
          /\ (slotGenerations[k.slot] = k.generation => FindRecordByUsableBase("fixmap", k.slot) = {})
      BY <1>0, <1>6 DEF HandlesHeld
    <3>2. k # k0
      BY <1>6, <1>21, <3>1
    <3>3. k.slot = s => slotGenerations'[k.slot] # k.generation
      BY <1>6, <3>1
    <3>4. k.slot # s => slotGenerations'[k.slot] = slotGenerations[k.slot]
                        /\ FindRecordByUsableBase("fixmap", k.slot)' = FindRecordByUsableBase("fixmap", k.slot)
      BY <1>6, <2>5, <3>1
    <3> QED BY <1>21, <3>1, <3>2, <3>3, <3>4
  <2> QED BY <1>0, <1>1, <2>4, <2>6, <2>7 DEF HandlesHeld
<1> QED BY <1>20, <1>22, <1>23, <1>24, <1>25 DEF KvaInv

\* No step breaks the invariant.
LEMMA KvaInductive == KvaInv /\ [Next]_vars => KvaInv'
<1> SUFFICES ASSUME KvaInv, [Next]_vars PROVE KvaInv'
  OBVIOUS
<1>1. ASSUME NEW t \in Threads, NEW shape \in Shapes, KeKvaAllocRange(t, shape) PROVE KvaInv'
  BY <1>1, AllocRangeKeeps
<1>2. ASSUME NEW t \in Threads, KeKvaMapPage(t) PROVE KvaInv'
  BY <1>2, MapPageKeeps
<1>3. ASSUME NEW t \in Threads,
             \/ KeKvaMapOwnedPages(t) \/ AllocOwnedPage(t) \/ MarkOwnedPage(t) \/ NoPageLeft(t)
             \/ MapPageFails(t) \/ GiveBackPage(t) \/ KePmmAllocPages(t) \/ TakePages(t)
             \/ FreeTakenPages(t)
      PROVE  KvaInv'
  BY <1>3, PageStepsKeep
<1>4. ASSUME ReservePages PROVE KvaInv'
  <2>1. ASSUME NEW t \in Threads PROVE KvaInv'
    BY <1>4, PageStepsKeep
  <2>2. CASE Threads = {}
    <3>1. PICK pages : /\ UNCHANGED <<kvaVars, threadVars, found, held>> /\ BitmapSetRange(pages, "reserved") /\ ~panicked
      BY <1>4 DEF ReservePages, KePmmReservePages
    <3>2. PmmTypes'
      BY <3>1 DEF KvaInv, PmmTypes, BitmapSetRange
    <3>3. range' = range /\ pc' = pc /\ index' = index
      BY <3>1 DEF threadVars
    <3>4. pc' \in [Threads -> Steps] /\ index' \in [Threads -> Nat]
      BY <3>3 DEF KvaInv, HandleTypes
    <3> QED BY <2>2, <3>1, <3>2, <3>3, <3>4, OnlyThreads
  <2> QED BY <2>1, <2>2
<1>5. ASSUME \/ \E t \in Threads : UndoRange(t)
             \/ \E h \in live \cup stale : KeKvaReleaseRangeHandle(h)
             \/ \E h \in live : KeHeapFreePages(h)
      PROVE  KvaInv'
  BY <1>5, RangeReleasesKeep
<1>6. ASSUME KeFixmapAcquire PROVE KvaInv'
  BY <1>6, FixmapAcquireKeeps
<1>7. ASSUME FixmapAcquireFails \/ FixmapExhausted PROVE KvaInv'
  BY <1>7, FixmapFailuresKeep
<1>8. ASSUME NEW k \in tokens \cup staleTokens, KeTempPhysMapRelease(k) PROVE KvaInv'
  BY <1>8, TokenReleaseKeeps
<1>9. CASE UNCHANGED vars
  <2>1. UNCHANGED <<ranges, pageStates, pt, slotGenerations>>
    BY <1>9 DEF vars, kvaVars
  <2>2. Layout'
    BY <2>1, SameLayout DEF KvaInv
  <2>3. PmmTypes' /\ HandleTypes' /\ Generations'
    BY <1>9 DEF KvaInv, PmmTypes, HandleTypes, Generations, vars, pmmVars, kvaVars, threadVars
  <2>4. MapsMade'
    BY <1>9 DEF KvaInv, MapsMade, Mapped, vars, kvaVars, threadVars
  <2>5. (panicked \/ HandlesHeld)'
    BY <1>9 DEF KvaInv, HandlesHeld, FindRecordById, FindRecordByUsableBase, InUse, vars, kvaVars, threadVars, pmmVars
  <2> QED BY <2>2, <2>3, <2>4, <2>5 DEF KvaInv
<1> QED BY <1>1, <1>2, <1>3, <1>4, <1>5, <1>6, <1>7, <1>8, <1>9 DEF Next

\* Page states, records and page table describe the same layout.
LEMMA LayoutAgrees == Layout => ArenasMatchRecords
<1> SUFFICES ASSUME Layout, NEW a \in Arena, NEW p \in 0 .. PageCount(a) - 1
             PROVE  \/ /\ Owners(a, p) = {}
                       /\ \/ pageStates[a][p] = "free"
                          \/ pageStates[a][p] = "retired" /\ a = "fixmap" /\ FixmapSlotRetired(p)
                    \/ \E i \in Record : /\ Owners(a, p) = {i}
                                         /\ pageStates[a][p] = IF p \in Usable(ranges[i]) THEN "alloc" ELSE "guard"
  BY DEF ArenasMatchRecords
<1>1. CASE Owners(a, p) = {}
  <2>1. \A i \in Record : InUse(i) /\ ranges[i].arena = a => p \notin Covered(ranges[i])
    BY <1>1 DEF Owners
  <2> QED BY <1>1, <2>1 DEF Layout, PagesFollow
<1>2. CASE Owners(a, p) # {}
  <2>1. PICK i \in Record : InUse(i) /\ ranges[i].arena = a /\ p \in Covered(ranges[i])
    BY <1>2 DEF Owners
  <2>2. Owners(a, p) = {i}
    BY <2>1 DEF Owners, Layout, RecordsApart
  <2>3. pageStates[a][p] = IF p \in Usable(ranges[i]) THEN "alloc" ELSE "guard"
    BY <2>1 DEF Layout, PagesFollow
  <2> QED BY <2>2, <2>3
<1> QED BY <1>1, <1>2

\* kva.c keeps its handles: for every arena size, record table, number of threads
\* and sequence of calls, a handle names its range until its holder releases it
\* and a copy that outlived its range names nothing (HandlesNameTheirRange).
THEOREM HandlesKept == Spec => []HandlesNameTheirRange
<1>1. KvaInv => HandlesNameTheirRange
  BY DEF KvaInv, HandlesHeld, HandlesNameTheirRange
<1> QED BY <1>1, KvaStarts, KvaInductive, PTL DEF Spec

\* KeKvaAllocRange, KeKvaMapOwnedPages, KiKvaReleaseRecord and the fixmap keep the
\* page states, the records and the page table in agreement: guard, free and
\* retired pages fault and a range in a caller's hands is mapped on all of
\* its usable pages (MappedExactlyWhereUsable).
THEOREM MapsFollowRecords == Spec => []MappedExactlyWhereUsable
<1>1. KvaInv => MappedExactlyWhereUsable
  <2>1. KvaInv => ArenasMatchRecords
    BY LayoutAgrees DEF KvaInv
  <2> QED BY <2>1 DEF KvaInv, Layout, PagesFollow, MapsMade, MappedExactlyWhereUsable
<1> QED BY <1>1, KvaStarts, KvaInductive, PTL DEF Spec

-----------------------------------------------------------------------------
(* The pages behind the ranges, until two calls of the page allocator      *)
(* overlap.                                                                *)

OwnArena == {"stack", "heap"}
Places(a) == 0 .. PageCount(a) - 1

\* A mapped page of an arena with its own pages is allocated, mapped nowhere else
\* and in nobody's hands.
MapsOwn ==
    /\ \A a \in OwnArena : \A p \in Places(a) : pt[a][p] # NotPresent => pt[a][p] \in InState("allocated")
    /\ \A a, b \in OwnArena : \A p \in Places(a), q \in Places(b) :
         pt[a][p] # NotPresent /\ pt[a][p] = pt[b][q] => a = b /\ p = q
    /\ \A a \in OwnArena : \A p \in Places(a), t \in Threads : pt[a][p] # NotPresent => pt[a][p] \notin held[t]

\* A page in hand is allocated and in one hand only; a page that a scan chose is
\* still free, and only one scan at a time waits to mark its pages.
HandsOwn ==
    /\ \A t \in Threads : held[t] \subseteq InState("allocated") /\ found[t] \subseteq InState("free")
    /\ \A t, u \in Threads : t # u => held[t] \cap held[u] = {}
    /\ \A t, u \in Threads : t # u => found[t] = {} \/ found[u] = {}

\* Every allocated page is mapped or in hand.
NoneLost ==
    \A x \in InState("allocated") : \/ \E a \in OwnArena : \E p \in Places(a) : pt[a][p] = x
                                    \/ \E t \in Threads : x \in held[t]

PhysInv == ~panicked /\ BitmapCheckInvariants /\ MapsOwn /\ HandsOwn /\ NoneLost

\* BitmapSetRange moves pages from one state to another: the sets of pages and
\* their sizes.
LEMMA PagesMove ==
  ASSUME PmmTypes, NEW o \in {"free", "allocated", "reserved"}, NEW s \in {"free", "allocated", "reserved"}, o # s,
         NEW pages \in SUBSET InState(o), BitmapSetRange(pages, s)
  PROVE  /\ InState(o)' = InState(o) \ pages
         /\ InState(s)' = InState(s) \cup pages
         /\ \A z \in {"free", "allocated", "reserved"} : z # o /\ z # s => InState(z)' = InState(z)
         /\ Cardinality(pages) \in Nat
         /\ \A z \in {"free", "allocated", "reserved"} : Cardinality(InState(z)) \in Nat
         /\ Cardinality(InState(o)') = Cardinality(InState(o)) - Cardinality(pages)
         /\ Cardinality(InState(s)') = Cardinality(InState(s)) + Cardinality(pages)
<1>1. /\ bitmap' = [p \in Page |-> IF p \in pages THEN s ELSE bitmap[p]]
      /\ bitmap \in [Page -> {"free", "allocated", "reserved"}]
      /\ pages \subseteq Page /\ \A p \in pages : bitmap[p] = o
  BY DEF BitmapSetRange, PmmTypes, InState
<1>2. \A p \in Page : bitmap'[p] = IF p \in pages THEN s ELSE bitmap[p]
  BY <1>1
<1>3. InState(o)' = InState(o) \ pages /\ InState(s)' = InState(s) \cup pages
  BY <1>1, <1>2 DEF InState
<1>4. \A z \in {"free", "allocated", "reserved"} : z # o /\ z # s => InState(z)' = InState(z)
  BY <1>1, <1>2 DEF InState
<1>5. IsFiniteSet(Page)
  BY FS_Interval, PmmAssumption DEF Page
<1>6. \A z : IsFiniteSet(InState(z))
  <2>1. \A z : InState(z) \subseteq Page
    BY DEF InState
  <2> QED BY <1>5, <2>1, FS_Subset
<1>7. IsFiniteSet(pages)
  BY <1>1, <1>5, FS_Subset
<1>8. Cardinality(pages) \in Nat /\ \A z \in {"free", "allocated", "reserved"} : Cardinality(InState(z)) \in Nat
  BY <1>6, <1>7, FS_CardinalityType
<1>9. InState(o) \cap pages = pages /\ InState(s) \cap pages = {}
  BY <1>1 DEF InState
<1>10. Cardinality(InState(o) \ pages) = Cardinality(InState(o)) - Cardinality(pages)
  BY <1>6, <1>9, FS_Difference
<1>11. Cardinality(InState(s) \cup pages) = Cardinality(InState(s)) + Cardinality(pages)
  <2>1. Cardinality(InState(s) \cup pages) = Cardinality(InState(s)) + Cardinality(pages) - Cardinality({})
    BY <1>6, <1>7, <1>9, FS_Union
  <2>2. Cardinality({}) = 0
    BY FS_EmptySet
  <2> QED BY <1>8, <2>1, <2>2
<1> QED BY <1>3, <1>4, <1>8, <1>10, <1>11

\* Nothing happens to the pages behind the ranges.
LEMMA PhysSame ==
  ASSUME PhysInv, UNCHANGED <<bitmap, FreePages, AllocatedPages, ReservedPages, found, held, panicked>>,
         \A a \in OwnArena : pt'[a] = pt[a]
  PROVE  PhysInv'
<1>1. \A s : InState(s)' = InState(s)
  BY DEF InState
<1>2. BitmapCheckInvariants'
  BY <1>1 DEF PhysInv, BitmapCheckInvariants
<1>3. MapsOwn'
  BY <1>1 DEF PhysInv, MapsOwn
<1>4. HandsOwn'
  BY <1>1 DEF PhysInv, HandsOwn
<1>5. NoneLost'
  BY <1>1 DEF PhysInv, NoneLost
<1> QED BY <1>2, <1>3, <1>4, <1>5 DEF PhysInv

\* A page is mapped at one place.
LEMMA MappedOnce ==
  ASSUME MapsOwn, NEW a \in OwnArena, NEW b \in OwnArena, NEW p \in Places(a), NEW q \in Places(b),
         pt[a][p] # NotPresent, pt[a][p] = pt[b][q]
  PROVE  a = b /\ p = q
  BY DEF MapsOwn

\* Allocated pages go back: they leave the hands and the maps they were in.
LEMMA PhysFreed ==
  ASSUME PmmTypes, PhysInv, NEW pages \in SUBSET InState("allocated"), BitmapFreePages(pages),
         found' = found, panicked' = panicked,
         \A t \in Threads : held'[t] = held[t] \ pages,
         \A a \in OwnArena : \A p \in Places(a) : pt'[a][p] = IF pt[a][p] \in pages THEN NotPresent ELSE pt[a][p]
  PROVE  PhysInv'
<1> DEFINE n == Cardinality(pages)
<1>0. /\ BitmapSetRange(pages, "free") /\ FreePages' = FreePages + n /\ AllocatedPages' = AllocatedPages - n
      /\ ReservedPages' = ReservedPages
  BY DEF BitmapFreePages
<1>1. /\ InState("allocated")' = InState("allocated") \ pages
      /\ InState("free")' = InState("free") \cup pages
      /\ InState("reserved")' = InState("reserved")
      /\ Cardinality(InState("allocated")') = Cardinality(InState("allocated")) - n
      /\ Cardinality(InState("free")') = Cardinality(InState("free")) + n
  BY <1>0, PagesMove
<1> HIDE DEF n
<1>2. BitmapCheckInvariants'
  BY <1>0, <1>1 DEF PhysInv, BitmapCheckInvariants
<1>3. HandsOwn'
  <2>1. HandsOwn
    BY DEF PhysInv
  <2>2. \A t \in Threads : held'[t] \subseteq InState("allocated")' /\ found'[t] \subseteq InState("free")'
    BY <1>1, <2>1 DEF HandsOwn
  <2>3. \A t, u \in Threads : t # u => held'[t] \cap held'[u] = {}
    BY <2>1 DEF HandsOwn
  <2> QED BY <2>1, <2>2, <2>3 DEF HandsOwn
<1>4. MapsOwn'
  <2>1. MapsOwn
    BY DEF PhysInv
  <2>2. \A a \in OwnArena : \A p \in Places(a) : pt'[a][p] # NotPresent => pt'[a][p] = pt[a][p] /\ pt[a][p] \notin pages
    OBVIOUS
  <2>3. \A a \in OwnArena : \A p \in Places(a) : pt'[a][p] # NotPresent => pt'[a][p] \in InState("allocated")'
    BY <1>1, <2>1, <2>2 DEF MapsOwn
  <2>4. \A a, b \in OwnArena : \A p \in Places(a), q \in Places(b) :
          pt'[a][p] # NotPresent /\ pt'[a][p] = pt'[b][q] => a = b /\ p = q
    <3>1. SUFFICES ASSUME NEW a \in OwnArena, NEW b \in OwnArena, NEW p \in Places(a), NEW q \in Places(b),
                          pt'[a][p] # NotPresent, pt'[a][p] = pt'[b][q]
                   PROVE  a = b /\ p = q
      OBVIOUS
    <3>2. pt'[a][p] = pt[a][p]
      BY <2>2, <3>1, Zenon
    <3>3. pt'[b][q] = pt[b][q]
      BY <2>2, <3>1
    <3>4. pt[a][p] # NotPresent /\ pt[a][p] = pt[b][q]
      BY <3>1, <3>2, <3>3
    <3> QED BY <2>1, <3>4, MappedOnce
  <2>5. \A a \in OwnArena : \A p \in Places(a), t \in Threads : pt'[a][p] # NotPresent => pt'[a][p] \notin held'[t]
    BY <2>1, <2>2 DEF MapsOwn
  <2> QED BY <2>3, <2>4, <2>5 DEF MapsOwn
<1>5. NoneLost'
  <2>1. SUFFICES ASSUME NEW x \in InState("allocated")'
                 PROVE  \/ \E a \in OwnArena : \E p \in Places(a) : pt'[a][p] = x
                        \/ \E t \in Threads : x \in held'[t]
    BY DEF NoneLost
  <2>2. x \in InState("allocated") /\ x \notin pages
    BY <1>1
  <2> QED BY <2>2 DEF PhysInv, NoneLost
<1> QED BY <1>2, <1>3, <1>4, <1>5 DEF PhysInv

\* The scan sees only free pages, and nobody else has chosen any.
LEMMA PhysScan ==
  ASSUME KvaInv, PhysInv, ~overlapped', NEW t \in Threads,
         NEW c \in Nat \ {0}, NEW a \in Nat \ {0}, NEW m \in Nat, KePmmAllocScan(t, c, a, m), pt' = pt, panicked' = panicked
  PROVE  PhysInv'
<1> DEFINE run == Run(Scan(c, a, MaxPageIndex(m)), c)
<1>1. /\ \A u \in Threads : found[u] = {}
      /\ found' = [found EXCEPT ![t] = run]
      /\ UNCHANGED <<bitmap, FreePages, AllocatedPages, ReservedPages, held>>
      /\ found \in [Threads -> SUBSET Page]
  BY DEF KePmmAllocScan, CallRuns, KvaInv, PmmTypes
<1>2. run \subseteq InState("free")
  BY ScanFindsFreePages DEF KePmmAllocScan
<1> HIDE DEF run
<1>3. \A u \in Threads : found'[u] = IF u = t THEN run ELSE {}
  BY <1>1
<1>4. \A s : InState(s)' = InState(s)
  BY <1>1 DEF InState
<1>5. BitmapCheckInvariants' /\ MapsOwn' /\ NoneLost'
  BY <1>1, <1>4 DEF PhysInv, BitmapCheckInvariants, MapsOwn, NoneLost
<1>6. HandsOwn'
  <2>1. \A u \in Threads : held'[u] \subseteq InState("allocated")' /\ found'[u] \subseteq InState("free")'
    BY <1>1, <1>2, <1>3, <1>4 DEF PhysInv, HandsOwn
  <2>2. \A u, v \in Threads : u # v => found'[u] = {} \/ found'[v] = {}
    BY <1>3
  <2>3. \A u, v \in Threads : u # v => held'[u] \cap held'[v] = {}
    BY <1>1 DEF PhysInv, HandsOwn
  <2> QED BY <2>1, <2>2, <2>3 DEF HandsOwn
<1> QED BY <1>5, <1>6 DEF PhysInv

\* The chosen pages are marked and taken in hand.
LEMMA PhysMark ==
  ASSUME KvaInv, PhysInv, NEW t \in Threads, KePmmAllocMark(t), pt' = pt, panicked' = panicked
  PROVE  PhysInv'
<1> DEFINE pages == found[t]
           n == Cardinality(pages)
<1>0. /\ PmmTypes /\ found \in [Threads -> SUBSET Page] /\ held \in [Threads -> SUBSET Page]
      /\ pages # {} /\ BitmapSetRange(pages, "allocated")
      /\ FreePages' = FreePages - n /\ AllocatedPages' = AllocatedPages + n
      /\ ReservedPages' = ReservedPages
      /\ held' = [held EXCEPT ![t] = @ \cup pages] /\ found' = [found EXCEPT ![t] = {}]
  BY DEF KvaInv, PmmTypes, KePmmAllocMark
<1>1. HandsOwn /\ MapsOwn /\ NoneLost /\ pages \in SUBSET InState("free")
  BY DEF PhysInv, HandsOwn
<1>2. /\ InState("free")' = InState("free") \ pages
      /\ InState("allocated")' = InState("allocated") \cup pages
      /\ InState("reserved")' = InState("reserved")
      /\ Cardinality(InState("free")') = Cardinality(InState("free")) - n
      /\ Cardinality(InState("allocated")') = Cardinality(InState("allocated")) + n
  BY <1>0, <1>1, PagesMove
<1> HIDE DEF n
<1>3. BitmapCheckInvariants'
  BY <1>0, <1>2 DEF PhysInv, BitmapCheckInvariants
<1>4. \A u \in Threads : u # t => found[u] = {}
  BY <1>0, <1>1 DEF HandsOwn
<1>5. InState("allocated") \cap pages = {}
  BY <1>1 DEF InState
<1> HIDE DEF pages
<1>6. /\ \A u \in Threads : found'[u] = {}
      /\ \A u \in Threads : held'[u] = IF u = t THEN held[t] \cup pages ELSE held[u]
  BY <1>0, <1>4
<1>7. HandsOwn'
  <2>1. \A u \in Threads : held'[u] \subseteq InState("allocated")' /\ found'[u] \subseteq InState("free")'
    BY <1>1, <1>2, <1>6 DEF HandsOwn
  <2>2. \A u \in Threads : held[u] \cap pages = {}
    BY <1>1, <1>5 DEF HandsOwn
  <2>3. \A u, v \in Threads : u # v => held'[u] \cap held'[v] = {}
    <3>1. \A u, v \in Threads : u # v => held[u] \cap held[v] = {}
      BY <1>1 DEF HandsOwn
    <3> QED BY <1>6, <2>2, <3>1
  <2> QED BY <1>6, <2>1, <2>3 DEF HandsOwn
<1>8. MapsOwn'
  <2>1. \A a \in OwnArena : \A p \in Places(a) : pt[a][p] # NotPresent => pt[a][p] \in InState("allocated")'
    BY <1>1, <1>2 DEF MapsOwn
  <2>2. \A a \in OwnArena : \A p \in Places(a), u \in Threads : pt[a][p] # NotPresent => pt[a][p] \notin held'[u]
    BY <1>1, <1>5, <1>6 DEF MapsOwn
  <2> QED BY <1>1, <2>1, <2>2 DEF MapsOwn
<1>9. NoneLost'
  <2>1. SUFFICES ASSUME NEW x \in InState("allocated")'
                 PROVE  \/ \E a \in OwnArena : \E p \in Places(a) : pt[a][p] = x
                        \/ \E u \in Threads : x \in held'[u]
    BY DEF NoneLost
  <2>2. CASE x \in pages
    BY <1>6, <2>2
  <2>3. CASE x \in InState("allocated")
    BY <1>1, <1>6, <2>3 DEF NoneLost
  <2> QED BY <1>2, <2>2, <2>3
<1> QED BY <1>3, <1>7, <1>8, <1>9 DEF PhysInv

\* BitmapReservePages takes free pages out of the allocator.
LEMMA PhysReserve ==
  ASSUME KvaInv, PhysInv, ~overlapped', ReservePages
  PROVE  PhysInv'
<1>1. PICK b \in Page, c \in Counts : KePmmReservePages(b, c)
  BY DEF ReservePages
<1> DEFINE pages == Run(b, c)
<1>2. /\ PmmTypes /\ pages \in SUBSET InState("free") /\ BitmapSetRange(pages, "reserved")
      /\ FreePages' = FreePages - c /\ ReservedPages' = ReservedPages + c
      /\ UNCHANGED <<AllocatedPages, found, held>> /\ pt' = pt /\ panicked' = panicked
      /\ \A t \in Threads : found[t] = {}
  BY <1>1 DEF KePmmReservePages, CallRuns, ReservePages, KvaInv, kvaVars
<1>3. Cardinality(pages) = c /\ c \in Nat
  <2>1. b \in Int /\ c \in Nat \ {0} /\ b + c - 1 \in Int
    BY PmmAssumption DEF Page
  <2>2. Cardinality(b .. b + c - 1) = (b + c - 1) - b + 1
    BY <2>1, FS_Interval
  <2> QED BY <2>1, <2>2 DEF Run
<1> HIDE DEF pages
<1>4. /\ InState("free")' = InState("free") \ pages
      /\ InState("reserved")' = InState("reserved") \cup pages
      /\ InState("allocated")' = InState("allocated")
      /\ Cardinality(InState("free")') = Cardinality(InState("free")) - Cardinality(pages)
      /\ Cardinality(InState("reserved")') = Cardinality(InState("reserved")) + Cardinality(pages)
  BY <1>2, PagesMove
<1>5. BitmapCheckInvariants'
  BY <1>2, <1>3, <1>4 DEF PhysInv, BitmapCheckInvariants
<1>6. MapsOwn' /\ NoneLost'
  BY <1>2, <1>4 DEF PhysInv, MapsOwn, NoneLost
<1>7. HandsOwn'
  BY <1>2, <1>4 DEF PhysInv, HandsOwn
<1> QED BY <1>2, <1>5, <1>6, <1>7 DEF PhysInv

\* The release of a record gives back exactly the pages mapped in it, so the
\* allocator never refuses one.
LEMMA PhysRelease ==
  ASSUME KvaInv, PhysInv, NEW i \in Record, InUse(i), KiKvaReleaseRecord(i),
         UNCHANGED <<slotGenerations, found, held>>
  PROVE  PhysInv'
<1> DEFINE r == ranges[i]
           a == r.arena
<1>0. /\ Layout /\ LayoutTypes /\ PmmTypes /\ RecordsApart /\ MapsOwn /\ HandsOwn /\ r \in Ranges /\ a \in Arena
      /\ Usable(r) \subseteq 0 .. PageCount(a) - 1 /\ (r.owns <=> a # "fixmap")
  <2>1. Layout /\ LayoutTypes /\ PmmTypes /\ RecordsApart /\ MapsOwn /\ HandsOwn
    BY DEF KvaInv, Layout, PhysInv
  <2>2. r \in Ranges /\ Covered(r) \subseteq 0 .. PageCount(a) - 1 /\ (r.owns <=> a # "fixmap")
    BY <2>1, UsedRecord DEF RecordsApart
  <2> QED BY <2>1, <2>2, RangePages
<1>1. PICK pages : pages = PhysOf(i)
  OBVIOUS
<1>2. pages = IF r.owns THEN {pt[a][p] : p \in {q \in Usable(r) : pt[a][q] # NotPresent}} ELSE {}
  BY <1>1 DEF PhysOf, Mapped
<1> HIDE DEF r, a
<1>3. r.owns => a \in OwnArena /\ Usable(r) \subseteq Places(a)
  BY <1>0 DEF OwnArena, Arena, Places
<1>4. pages \subseteq InState("allocated")
  BY <1>0, <1>2, <1>3 DEF MapsOwn
<1>5. panicked' = panicked /\ BitmapFreePages(pages) /\ ReleasedRecord(i)
  BY <1>0, <1>1, <1>4, ReleaseEffect DEF Freeable
<1>6. \A t \in Threads : held'[t] = held[t] \ pages
  <2>1. \A t \in Threads : held[t] \cap pages = {}
    BY <1>0, <1>2, <1>3 DEF MapsOwn
  <2> QED BY <2>1
<1>7. ASSUME NEW b \in OwnArena, NEW p \in Places(b)
      PROVE  pt'[b][p] = IF pt[b][p] \in pages THEN NotPresent ELSE pt[b][p]
  <2>1. pt'[b][p] = IF b = a /\ p \in Usable(r) THEN NotPresent ELSE pt[b][p]
    BY <1>5 DEF ReleasedRecord, OwnArena, Arena, Places, r, a
  <2>2. CASE b = a /\ p \in Usable(r)
    <3>1. r.owns
      BY <1>0, <2>2 DEF OwnArena
    <3>2. pt[b][p] # NotPresent => pt[b][p] \in pages
      BY <1>2, <2>2, <3>1
    <3> QED BY <2>1, <2>2, <3>2
  <2>3. CASE ~(b = a /\ p \in Usable(r))
    <3>1. ASSUME pt[b][p] \in pages PROVE FALSE
      <4>1. PICK q \in Usable(r) : r.owns /\ pt[a][q] # NotPresent /\ pt[b][p] = pt[a][q]
        BY <1>2, <3>1
      <4>2. a \in OwnArena /\ q \in Places(a)
        BY <1>3, <4>1
      <4>3. a = b /\ q = p
        BY <1>0, <4>1, <4>2, MappedOnce
      <4> QED BY <2>3, <4>3
    <3> QED BY <2>1, <2>3, <3>1
  <2> QED BY <2>2, <2>3
<1> QED BY <1>0, <1>4, <1>5, <1>6, <1>7, PhysFreed

\* KeKvaMapPage moves a page from the hand of a thread into the page table.
LEMMA PhysMap ==
  ASSUME KvaInv, PhysInv, NEW t \in Threads, KeKvaMapPage(t)
  PROVE  PhysInv'
<1>0. /\ PmmTypes /\ HandleTypes /\ Layout /\ LayoutTypes /\ RecordsApart /\ HandlesHeld /\ MapsOwn /\ HandsOwn /\ NoneLost
      /\ pc[t] = "map" /\ FindRecordById(range[t]) /\ index[t] < range[t].range.usable
      /\ pt[range[t].range.arena][VirtAddr(t)] = NotPresent
      /\ pt' = [pt EXCEPT ![range[t].range.arena][VirtAddr(t)] = PhysAddr(t)]
      /\ held' = [held EXCEPT ![t] = @ \ {PhysAddr(t)}]
      /\ UNCHANGED <<bitmap, FreePages, AllocatedPages, ReservedPages, found, panicked>>
  BY DEF KvaInv, Layout, PhysInv, KeKvaMapPage, At
<1>1. /\ held \in [Threads -> SUBSET Page] /\ held[t] # {} /\ range[t] \in Handles /\ range[t].range.arena # "fixmap"
      /\ index[t] \in Nat
  BY <1>0 DEF HandleTypes, PmmTypes, HandlesHeld, Building
<1>2. PICK r \in Ranges : r = range[t].range
  BY <1>1 DEF Handles
<1>3. PICK v : v = UsableBase(r) + index[t]
  OBVIOUS
<1>4. PICK x \in held[t] : x = PhysAddr(t)
  BY <1>1 DEF PhysAddr
<1>5. PICK a \in OwnArena : a = r.arena
  BY <1>1, <1>2, RangePages DEF OwnArena, Arena
<1>6. v \in Places(a)
  <2>1. range[t].id \in Record /\ InUse(range[t].id) /\ r = ranges[range[t].id]
    BY <1>0, <1>1, <1>2 DEF FindRecordById, Handles
  <2>2. Covered(r) \subseteq 0 .. PageCount(a) - 1
    BY <1>0, <1>5, <2>1 DEF RecordsApart
  <2>3. v \in Usable(r)
    BY <1>0, <1>1, <1>2, <1>3, RangePages DEF Usable
  <2> QED BY <2>2, <2>3, RangePages DEF Places
<1>7. pt[a][v] = NotPresent /\ pt' = [pt EXCEPT ![a][v] = x] /\ held' = [held EXCEPT ![t] = @ \ {x}]
  BY <1>0, <1>2, <1>3, <1>4, <1>5 DEF VirtAddr
<1>8. \A b \in OwnArena : \A p \in Places(b) : pt'[b][p] = IF b = a /\ p = v THEN x ELSE pt[b][p]
  <2>1. /\ \A b \in Arena : pt[b] \in [0 .. PageCount(b) - 1 -> Page \cup {NotPresent, Alias}]
        /\ pt = [b \in Arena |-> pt[b]]
    BY <1>0 DEF LayoutTypes, OnArenas
  <2>2. \A b \in Arena : pt'[b] = IF b = a THEN [pt[a] EXCEPT ![v] = x] ELSE pt[b]
    BY <1>7, <2>1
  <2>3. a \in Arena /\ OwnArena \subseteq Arena
    BY DEF OwnArena, Arena
  <2> QED BY <2>1, <2>2, <2>3 DEF Places
<1>9. \A u \in Threads : held'[u] = IF u = t THEN held[t] \ {x} ELSE held[u]
  BY <1>1, <1>7
<1>10. x \in InState("allocated") /\ x # NotPresent
  <2>1. x \in InState("allocated")
    BY <1>0 DEF HandsOwn
  <2>2. NotPresent \notin Page
    BY PmmAssumption DEF Page, NotPresent
  <2> QED BY <2>1, <2>2 DEF InState
<1>11. \A s : InState(s)' = InState(s)
  BY <1>0 DEF InState
<1>12. BitmapCheckInvariants'
  BY <1>0, <1>11 DEF PhysInv, BitmapCheckInvariants
<1>13. HandsOwn'
  <2>1. \A u \in Threads : held'[u] \subseteq held[u]
    BY <1>9
  <2>2. \A u \in Threads : held'[u] \subseteq InState("allocated") /\ found[u] \subseteq InState("free")
    BY <1>0, <2>1 DEF HandsOwn
  <2>3. \A u, w \in Threads : u # w => held'[u] \cap held'[w] = {}
    BY <1>0, <2>1 DEF HandsOwn
  <2> QED BY <1>0, <1>11, <2>2, <2>3 DEF HandsOwn
\* Before the step the page is mapped nowhere.
<1>14. \A b \in OwnArena : \A p \in Places(b) : pt[b][p] # x
  BY <1>0, <1>4, <1>10 DEF MapsOwn
<1>15. MapsOwn'
  <2>1. ASSUME NEW b \in OwnArena, NEW p \in Places(b), pt'[b][p] # NotPresent
        PROVE  pt'[b][p] \in InState("allocated") /\ \A u \in Threads : pt'[b][p] \notin held'[u]
    <3>1. CASE b = a /\ p = v
      <4>1. \A u \in Threads : u # t => x \notin held[u]
        BY <1>0, <1>4 DEF HandsOwn
      <4> QED BY <1>8, <1>9, <1>10, <3>1, <4>1
    <3>2. CASE ~(b = a /\ p = v)
      <4>1. pt'[b][p] = pt[b][p]
        BY <1>8, <3>2
      <4>2. pt[b][p] \in InState("allocated") /\ \A u \in Threads : pt[b][p] \notin held[u]
        BY <1>0, <2>1, <4>1 DEF MapsOwn
      <4> QED BY <1>9, <4>1, <4>2
    <3> QED BY <3>1, <3>2
  <2>2. ASSUME NEW b \in OwnArena, NEW c \in OwnArena, NEW p \in Places(b), NEW q \in Places(c),
               pt'[b][p] # NotPresent, pt'[b][p] = pt'[c][q]
        PROVE  b = c /\ p = q
    <3>1. /\ pt'[b][p] = IF b = a /\ p = v THEN x ELSE pt[b][p]
          /\ pt'[c][q] = IF c = a /\ q = v THEN x ELSE pt[c][q]
          /\ pt[b][p] # x /\ pt[c][q] # x
      BY <1>8, <1>14
    <3>2. CASE (b = a /\ p = v) /\ (c = a /\ q = v)
      BY <3>2
    <3>3. CASE ~(b = a /\ p = v) /\ ~(c = a /\ q = v)
      <4>1. pt[b][p] # NotPresent /\ pt[b][p] = pt[c][q]
        BY <2>2, <3>1, <3>3
      <4> QED BY <1>0, <4>1, MappedOnce
    <3> QED BY <2>2, <3>1, <3>2, <3>3
  <2> QED BY <1>11, <2>1, <2>2 DEF MapsOwn
<1>16. NoneLost'
  <2>1. SUFFICES ASSUME NEW y \in InState("allocated")
                 PROVE  \/ \E b \in OwnArena : \E p \in Places(b) : pt'[b][p] = y
                        \/ \E u \in Threads : y \in held'[u]
    BY <1>11 DEF NoneLost
  <2>2. CASE y = x
    BY <1>6, <1>8, <2>2
  <2>3. CASE y # x
    <3>1. CASE \E u \in Threads : y \in held[u]
      BY <1>9, <2>3, <3>1
    <3>2. CASE \E b \in OwnArena : \E p \in Places(b) : pt[b][p] = y
      <4>1. PICK b \in OwnArena : \E p \in Places(b) : pt[b][p] = y
        BY <3>2
      <4>2. PICK p \in Places(b) : pt[b][p] = y
        BY <4>1
      <4>3. y # NotPresent
        BY PmmAssumption DEF InState, Page, NotPresent
      <4>4. ~(b = a /\ p = v)
        BY <1>7, <4>2, <4>3
      <4> QED BY <1>8, <4>2, <4>4
    <3> QED BY <1>0, <3>1, <3>2 DEF NoneLost
  <2> QED BY <2>2, <2>3
<1> QED BY <1>0, <1>12, <1>13, <1>15, <1>16 DEF PhysInv

\* A thread gives back pages of its hand.
LEMMA PhysGiveBack ==
  ASSUME KvaInv, PhysInv, NEW t \in Threads, NEW pages \in SUBSET held[t], BitmapFreePages(pages),
         held' = [held EXCEPT ![t] = @ \ pages], found' = found, pt' = pt, panicked' = panicked
  PROVE  PhysInv'
<1>1. PmmTypes /\ held \in [Threads -> SUBSET Page] /\ HandsOwn /\ MapsOwn
  BY DEF KvaInv, PmmTypes, PhysInv
<1>2. pages \subseteq InState("allocated")
  BY <1>1 DEF HandsOwn
<1>3. \A u \in Threads : held'[u] = held[u] \ pages
  <2>1. \A u \in Threads : u # t => held[u] \cap pages = {}
    BY <1>1 DEF HandsOwn
  <2> QED BY <1>1, <2>1
<1>4. \A a \in OwnArena : \A p \in Places(a) : pt'[a][p] = IF pt[a][p] \in pages THEN NotPresent ELSE pt[a][p]
  <2>1. \A a \in OwnArena : \A p \in Places(a) : pt[a][p] \in pages => pt[a][p] = NotPresent
    BY <1>1 DEF MapsOwn
  <2> QED BY <2>1
<1> QED BY <1>1, <1>2, <1>3, <1>4, PhysFreed

\* No step breaks the ownership of pages, as long as calls do not overlap.
LEMMA PhysInductive ==
  ASSUME ~overlapped', KvaInv, PhysInv, [Next]_vars
  PROVE  PhysInv'
<1>0. HandlesHeld /\ HandleTypes /\ live \subseteq Handles /\ stale \subseteq Handles /\ ~panicked
      /\ range \in [Threads -> Handles \cup {NoRange}]
  BY DEF PhysInv, KvaInv, HandleTypes
<1>1. ASSUME NEW t \in Threads, NEW shape \in Shapes, KeKvaAllocRange(t, shape) PROVE PhysInv'
  BY <1>1, PhysSame DEF KeKvaAllocRange, pmmVars
<1>2. ASSUME NEW t \in Threads, KeKvaMapOwnedPages(t) \/ NoPageLeft(t) \/ MapPageFails(t) PROVE PhysInv'
  BY <1>2, PhysSame DEF KeKvaMapOwnedPages, NoPageLeft, MapPageFails, pmmVars, kvaVars
<1>3. ASSUME NEW t \in Threads, AllocOwnedPage(t) PROVE PhysInv'
  <2>1. KePmmAllocScan(t, 1, 1, 0) /\ pt' = pt /\ panicked' = panicked
    BY <1>3 DEF AllocOwnedPage, kvaVars
  <2> QED BY <2>1, PhysScan
<1>4. ASSUME NEW t \in Threads, KePmmAllocPages(t) PROVE PhysInv'
  <2>1. PICK c \in Counts, a \in Alignments, m \in MaxPhysAddrs : KePmmAllocScan(t, c, a, m)
    BY <1>4 DEF KePmmAllocPages
  <2>2. c \in Nat \ {0} /\ a \in Nat \ {0} /\ m \in Nat /\ pt' = pt /\ panicked' = panicked
    BY <1>4, PmmAssumption DEF KePmmAllocPages, kvaVars
  <2> QED BY <2>1, <2>2, PhysScan
<1>5. ASSUME NEW t \in Threads, MarkOwnedPage(t) \/ TakePages(t) PROVE PhysInv'
  <2>1. KePmmAllocMark(t) /\ pt' = pt /\ panicked' = panicked
    BY <1>5 DEF MarkOwnedPage, TakePages, kvaVars
  <2> QED BY <2>1, PhysMark
<1>6. ASSUME NEW t \in Threads, KeKvaMapPage(t) PROVE PhysInv'
  BY <1>6, PhysMap
<1>7. ASSUME NEW t \in Threads, GiveBackPage(t) PROVE PhysInv'
  <2>1. held[t] \subseteq InState("allocated") /\ held \in [Threads -> SUBSET Page]
    BY DEF PhysInv, HandsOwn, KvaInv, PmmTypes
  <2>2. BitmapFreePages(held[t]) /\ held' = [held EXCEPT ![t] = {}] /\ found' = found /\ pt' = pt /\ panicked' = panicked
    BY <1>7, <2>1 DEF GiveBackPage, Freeable, kvaVars
  <2>3. held' = [held EXCEPT ![t] = @ \ held[t]]
    BY <2>1, <2>2
  <2> QED BY <2>2, <2>3, PhysGiveBack
<1>8. ASSUME NEW t \in Threads, FreeTakenPages(t) PROVE PhysInv'
  <2>1. PICK pages \in SUBSET held[t] : /\ BitmapFreePages(pages) /\ held' = [held EXCEPT ![t] = @ \ pages]
                                        /\ found' = found /\ pt' = pt /\ panicked' = panicked
    BY <1>8 DEF FreeTakenPages, KePmmFreePages, kvaVars
  <2> QED BY <2>1, PhysGiveBack
<1>9. ASSUME ReservePages PROVE PhysInv'
  BY <1>9, PhysReserve
<1>10. ASSUME NEW t \in Threads, UndoRange(t) PROVE PhysInv'
  <2>1. /\ FindRecordById(range[t]) /\ KiKvaReleaseRecord(range[t].id) /\ UNCHANGED <<slotGenerations, found, held>>
        /\ range[t] \in Handles
    BY <1>0, <1>10 DEF UndoRange, At, HandlesHeld, Building
  <2>2. range[t].id \in Record /\ InUse(range[t].id)
    BY <2>1 DEF FindRecordById, Handles
  <2> QED BY <2>1, <2>2, PhysRelease
<1>11. ASSUME NEW h \in live \cup stale, KeKvaReleaseRangeHandle(h) PROVE PhysInv'
  <2>1. FindRecordById(h) /\ KiKvaReleaseRecord(h.id) /\ UNCHANGED <<slotGenerations, found, held>>
    BY <1>11 DEF KeKvaReleaseRangeHandle
  <2>2. h.id \in Record /\ InUse(h.id)
    BY <1>0, <2>1 DEF FindRecordById, Handles
  <2> QED BY <2>1, <2>2, PhysRelease
<1>12. ASSUME NEW h \in live, KeHeapFreePages(h) PROVE PhysInv'
  <2> DEFINE S == FindRecordByUsableBase("heap", UsableBase(h.range))
  <2>1. S # {} /\ KiKvaReleaseRecord(Min(S)) /\ UNCHANGED <<slotGenerations, found, held>>
    BY <1>12 DEF KeHeapFreePages
  <2>2. S \subseteq Nat
    BY DEF FindRecordByUsableBase, Record
  <2>3. Min(S) \in S
    BY <2>1, <2>2, MinProperties
  <2>4. PICK i : i = Min(S)
    OBVIOUS
  <2>5. i \in Record /\ InUse(i) /\ KiKvaReleaseRecord(i)
    BY <2>1, <2>3, <2>4 DEF FindRecordByUsableBase
  <2> QED BY <2>1, <2>5, PhysRelease
<1>13. ASSUME NEW k \in tokens \cup staleTokens, KeTempPhysMapRelease(k) PROVE PhysInv'
  <2> DEFINE S == FindRecordByUsableBase("fixmap", k.slot)
  <2>1. S # {} /\ KiKvaReleaseRecord(Min(S)) /\ UNCHANGED <<slotGenerations, found, held>>
    BY <1>13 DEF KeTempPhysMapRelease
  <2>2. S \subseteq Nat
    BY DEF FindRecordByUsableBase, Record
  <2>3. Min(S) \in S
    BY <2>1, <2>2, MinProperties
  <2>4. PICK i : i = Min(S)
    OBVIOUS
  <2>5. i \in Record /\ InUse(i) /\ KiKvaReleaseRecord(i)
    BY <2>1, <2>3, <2>4 DEF FindRecordByUsableBase
  <2> QED BY <2>1, <2>5, PhysRelease
<1>14. ASSUME KeFixmapAcquire PROVE PhysInv'
  <2>1. UNCHANGED <<bitmap, FreePages, AllocatedPages, ReservedPages, found, held, panicked>>
    BY <1>14 DEF KeFixmapAcquire, pmmVars
  <2>2. \A a \in OwnArena : pt'[a] = pt[a]
    <3>1. PICK s : pt' = [pt EXCEPT !["fixmap"][s] = Alias]
      BY <1>14 DEF KeFixmapAcquire
    <3>2. pt = [a \in Arena |-> pt[a]]
      BY DEF KvaInv, Layout, LayoutTypes, OnArenas
    <3> QED BY <3>1, <3>2 DEF OwnArena, Arena
  <2> QED BY <2>1, <2>2, PhysSame
<1>15. ASSUME FixmapAcquireFails \/ FixmapExhausted PROVE PhysInv'
  BY <1>15, PhysSame DEF FixmapAcquireFails, FixmapExhausted, pmmVars
<1>16. CASE UNCHANGED vars
  BY <1>16, PhysSame DEF vars, pmmVars, kvaVars
<1> QED BY <1>1, <1>2, <1>3, <1>4, <1>5, <1>6, <1>7, <1>8, <1>9, <1>10, <1>11, <1>12, <1>13, <1>14, <1>15, <1>16 DEF Next

\* Initially no page is allocated.
LEMMA PhysStarts == Init => PhysInv
<1> SUFFICES ASSUME Init PROVE PhysInv
  OBVIOUS
<1>1. /\ bitmap \in [Page -> {"free", "reserved"}] /\ AllocatedPages = 0 /\ ~panicked
      /\ FreePages = Cardinality(InState("free")) /\ ReservedPages = Cardinality(InState("reserved"))
      /\ \A t \in Threads : found[t] = {} /\ held[t] = {}
      /\ pt = [a \in Arena |-> [p \in 0 .. PageCount(a) - 1 |-> NotPresent]]
  BY DEF Init, PmmInit
<1>2. InState("allocated") = {}
  BY <1>1 DEF InState
<1>3. BitmapCheckInvariants
  BY <1>1, <1>2, FS_EmptySet DEF BitmapCheckInvariants
<1>4. \A a \in OwnArena : \A p \in Places(a) : pt[a][p] = NotPresent
  BY <1>1 DEF OwnArena, Arena, Places
<1>5. MapsOwn /\ NoneLost
  BY <1>2, <1>4 DEF MapsOwn, NoneLost
<1>6. HandsOwn
  BY <1>1 DEF HandsOwn
<1> QED BY <1>1, <1>3, <1>5, <1>6 DEF PhysInv

\* The places of the property are the mapped places of the two arenas.
LEMMA PlacesMapped ==
  ASSUME KvaInv
  PROVE  /\ \A x \in OwnedPlaces : x[1] \in OwnArena /\ x[2] \in Places(x[1]) /\ pt[x[1]][x[2]] # NotPresent
                                   /\ x = <<x[1], x[2]>>
         /\ \A a \in OwnArena : \A p \in Places(a) : pt[a][p] # NotPresent => <<a, p>> \in OwnedPlaces
<1>1. \A a \in OwnArena : DOMAIN pt[a] = Places(a)
  BY DEF KvaInv, Layout, LayoutTypes, OnArenas, OwnArena, Arena, Places
<1>2. OwnedPlaces = UNION {{<<a, p>> : p \in {q \in DOMAIN pt[a] : pt[a][q] # NotPresent}} : a \in OwnArena}
  BY DEF OwnedPlaces, OwnArena
<1>3. ASSUME NEW x \in OwnedPlaces
      PROVE  x[1] \in OwnArena /\ x[2] \in Places(x[1]) /\ pt[x[1]][x[2]] # NotPresent /\ x = <<x[1], x[2]>>
  <2>1. PICK a \in OwnArena : x \in {<<a, p>> : p \in {q \in DOMAIN pt[a] : pt[a][q] # NotPresent}}
    BY <1>2
  <2>2. PICK p \in DOMAIN pt[a] : pt[a][p] # NotPresent /\ x = <<a, p>>
    BY <2>1
  <2> QED BY <1>1, <2>2
<1>4. ASSUME NEW a \in OwnArena, NEW p \in Places(a), pt[a][p] # NotPresent
      PROVE  <<a, p>> \in OwnedPlaces
  <2>1. <<a, p>> \in {<<a, j>> : j \in {q \in DOMAIN pt[a] : pt[a][q] # NotPresent}}
    BY <1>1, <1>4
  <2> QED BY <1>2, <2>1
<1> QED BY <1>3, <1>4

\* Calls that have overlapped stay recorded.
LEMMA OverlapStays ==
  ASSUME overlapped, [Next]_vars
  PROVE  overlapped'
<1>1. ASSUME NEW i, KiKvaReleaseRecord(i) PROVE overlapped'
  BY <1>1 DEF KiKvaReleaseRecord, BitmapFreePages, CallRuns
<1>2. ASSUME NEW t \in Threads, NEW shape \in Shapes, KeKvaAllocRange(t, shape) PROVE overlapped'
  BY <1>2 DEF KeKvaAllocRange, pmmVars
<1>3. ASSUME NEW t \in Threads,
             \/ KeKvaMapOwnedPages(t) \/ AllocOwnedPage(t) \/ MarkOwnedPage(t) \/ NoPageLeft(t)
             \/ KeKvaMapPage(t) \/ MapPageFails(t) \/ GiveBackPage(t) \/ KePmmAllocPages(t)
             \/ TakePages(t) \/ FreeTakenPages(t)
      PROVE  overlapped'
  BY <1>3 DEF KeKvaMapOwnedPages, AllocOwnedPage, MarkOwnedPage, NoPageLeft, KeKvaMapPage, MapPageFails,
              GiveBackPage, KePmmAllocPages, TakePages, FreeTakenPages, KePmmAllocScan, KePmmAllocMark,
              KePmmFreePages, BitmapFreePages, CallRuns, pmmVars
<1>4. ASSUME NEW t \in Threads, UndoRange(t) PROVE overlapped'
  BY <1>1, <1>4 DEF UndoRange
<1>5. ASSUME ReservePages PROVE overlapped'
  BY <1>5 DEF ReservePages, KePmmReservePages, CallRuns
<1>6. ASSUME NEW h, KeKvaReleaseRangeHandle(h) \/ KeHeapFreePages(h) PROVE overlapped'
  BY <1>1, <1>6 DEF KeKvaReleaseRangeHandle, KeHeapFreePages
<1>7. ASSUME NEW k, KeTempPhysMapRelease(k) PROVE overlapped'
  BY <1>1, <1>7 DEF KeTempPhysMapRelease
<1>8. ASSUME KeFixmapAcquire \/ FixmapAcquireFails \/ FixmapExhausted PROVE overlapped'
  BY <1>8 DEF KeFixmapAcquire, FixmapAcquireFails, FixmapExhausted, pmmVars
<1>9. CASE UNCHANGED vars
  BY <1>9 DEF vars, pmmVars
<1> QED BY <1>2, <1>3, <1>4, <1>5, <1>6, <1>7, <1>8, <1>9 DEF Next

\* Until two calls of KePmmAllocPages, KePmmFreePages or KePmmReservePages
\* overlap, every allocated page has one owner, the counters agree with the
\* bitmap, and HO_KPANIC in KiKvaReleaseRecord is never reached, for every
\* number of threads, pages, records and every sequence of calls, failures
\* and undone ranges (PhysicalPageHasOneOwner).  The code does not exclude
\* the overlap: kva.c:660 calls the allocator with no lock held.
THEOREM PagesHaveOneOwner == Spec => []PhysicalPageHasOneOwner
<1>1. KvaInv /\ PhysInv => PhysicalPageHasOneOwner
  <2> SUFFICES ASSUME KvaInv, PhysInv PROVE PhysicalPageHasOneOwner
    OBVIOUS
  <2>0. MapsOwn /\ HandsOwn /\ NoneLost /\ BitmapCheckInvariants /\ ~panicked
    BY DEF PhysInv
  <2>1. \A x \in OwnedPlaces : x[1] \in OwnArena /\ x[2] \in Places(x[1]) /\ pt[x[1]][x[2]] # NotPresent
                               /\ x = <<x[1], x[2]>>
    BY PlacesMapped
  <2>2. ASSUME NEW x \in OwnedPlaces, NEW y \in OwnedPlaces, pt[x[1]][x[2]] = pt[y[1]][y[2]]
        PROVE  x = y
    <3>1. x[1] = y[1] /\ x[2] = y[2]
      BY <2>0, <2>1, <2>2, MappedOnce
    <3> QED BY <2>1, <3>1
  <2>3. ASSUME NEW x \in OwnedPlaces, NEW t \in Threads
        PROVE  pt[x[1]][x[2]] \notin held[t] \cup found[t] /\ pt[x[1]][x[2]] \in InState("allocated")
    <3>1. pt[x[1]][x[2]] \in InState("allocated") /\ pt[x[1]][x[2]] \notin held[t]
      BY <2>0, <2>1 DEF MapsOwn
    <3>2. found[t] \cap InState("allocated") = {}
      BY <2>0 DEF HandsOwn, InState
    <3> QED BY <3>1, <3>2
  <2>4. ASSUME NEW t \in Threads, NEW u \in Threads, t # u
        PROVE  (held[t] \cup found[t]) \cap (held[u] \cup found[u]) = {}
    <3>1. held[t] \cap held[u] = {} /\ (found[t] = {} \/ found[u] = {})
      BY <2>0, <2>4 DEF HandsOwn
    <3>2. \A v, w \in Threads : held[v] \cap found[w] = {}
      BY <2>0 DEF HandsOwn, InState
    <3> QED BY <3>1, <3>2
  <2>5. InState("allocated") = {pt[x[1]][x[2]] : x \in OwnedPlaces} \cup UNION {held[t] : t \in Threads}
    <3>1. ASSUME NEW z \in InState("allocated")
          PROVE  z \in {pt[x[1]][x[2]] : x \in OwnedPlaces} \cup UNION {held[t] : t \in Threads}
      <4>1. CASE \E t \in Threads : z \in held[t]
        BY <4>1
      <4>2. CASE \E a \in OwnArena : \E p \in Places(a) : pt[a][p] = z
        <5>1. PICK a \in OwnArena : \E p \in Places(a) : pt[a][p] = z
          BY <4>2
        <5>2. PICK p \in Places(a) : pt[a][p] = z
          BY <5>1
        <5>3. z # NotPresent
          BY PmmAssumption DEF InState, Page, NotPresent
        <5>4. <<a, p>> \in OwnedPlaces
          BY <5>2, <5>3, PlacesMapped
        <5>5. <<a, p>>[1] = a /\ <<a, p>>[2] = p
          OBVIOUS
        <5>6. \E x \in OwnedPlaces : z = pt[x[1]][x[2]]
          BY <5>2, <5>4, <5>5
        <5> QED BY <5>6
      <4> QED BY <2>0, <4>1, <4>2 DEF NoneLost
    <3>2. ASSUME NEW x \in OwnedPlaces PROVE pt[x[1]][x[2]] \in InState("allocated")
      BY <2>0, <2>1 DEF MapsOwn
    <3>3. \A t \in Threads : held[t] \subseteq InState("allocated")
      BY <2>0 DEF HandsOwn
    <3> QED BY <3>1, <3>2, <3>3
  <2> QED BY <2>0, <2>2, <2>3, <2>4, <2>5 DEF PhysicalPageHasOneOwner, TeardownNeverPanics
<1>2. Init => KvaInv /\ (overlapped \/ PhysInv)
  BY KvaStarts, PhysStarts
<1>3. KvaInv /\ (overlapped \/ PhysInv) /\ [Next]_vars => KvaInv' /\ (overlapped' \/ PhysInv')
  BY KvaInductive, PhysInductive, OverlapStays
<1>4. KvaInv /\ (overlapped \/ PhysInv) => PhysicalPageHasOneOwner
  BY <1>1 DEF PhysicalPageHasOneOwner
<1> QED BY <1>2, <1>3, <1>4, PTL DEF Spec
=============================================================================
