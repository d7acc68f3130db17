------------------------------ MODULE ErmLemmas ------------------------------
(***************************************************************************)
(* The lemmas about the operators of the resource manager that the proofs  *)
(* about its modules rest on: the operations on pending lists keep them    *)
(* sequences of requests, ordered by priority; and what the scan of the    *)
(* resource table by essRMFindSuitableResource returns.                    *)
(***************************************************************************)
EXTENDS ErmArbiter, ErmQueueOps, SequenceTheorems, FiniteSetTheorems, TLAPS

----------------------------------------------------------------------------
(* The pending lists.                                                      *)

\* essRMInsertPendingByPriority yields a pending list one longer.
LEMMA InsertType ==
  ASSUME NEW S, NEW q \in Seq(S), NEW x \in S
  PROVE  /\ InsertByPriority(q, x) \in Seq(S)
         /\ Len(InsertByPriority(q, x)) = Len(q) + 1
<1>1. Len(q) \in Nat
  OBVIOUS
<1>2. ASSUME NEW i \in 1..Len(q) + 1
      PROVE  (IF i <= Len(q) /\ Passes(q, x, i) THEN q[i]
              ELSE IF Passes(q, x, i - 1) THEN x ELSE q[i-1]) \in S
  <2>1. Passes(q, x, 0)
    BY DEF Passes
  <2>2. i # 1 => i - 1 \in 1..Len(q)
    BY <1>1
  <2>3. QED
    BY <1>1, <2>1, <2>2
<1>3. InsertByPriority(q, x) \in [1..Len(q) + 1 -> S]
  BY <1>2 DEF InsertByPriority
<1>4. QED
  BY <1>1, <1>3

\* Inserting into an ordered list leaves it ordered: the new entry is behind
\* every entry that is not less important, and in front of the others.
LEMMA InsertSorted ==
  ASSUME NEW S, NEW q \in Seq(S), NEW x \in S,
         \A y \in S : y.priority \in Int,
         Sorted(q)
  PROVE  Sorted(InsertByPriority(q, x))
<1> DEFINE r == InsertByPriority(q, x)
           P(i) == Passes(q, x, i)
<1>1. Len(q) \in Nat /\ Len(r) = Len(q) + 1 /\ \A i \in 1..Len(q) : q[i] \in S
  <2>1. Len(q) \in Nat /\ \A i \in 1..Len(q) : q[i] \in S
    OBVIOUS
  <2>2. Len(r) = Len(q) + 1
    <3> HIDE DEF r
    <3>1. InsertByPriority(q, x) = r
      BY DEF r
    <3>2. QED
      BY <3>1, InsertType
  <2>3. QED
    BY <2>1, <2>2
<1>2. \A i \in 1..Len(q) : q[i].priority \in Int /\ x.priority \in Int
  BY <1>1
<1>3. SUFFICES ASSUME NEW i \in 1..Len(r), NEW j \in 1..Len(r), i < j
               PROVE  r[i].priority <= r[j].priority
  BY DEF Sorted
<1>4. /\ i \in 1..Len(q)
      /\ j - 1 \in 1..Len(q)
      /\ j \in 1..Len(q) + 1
      /\ i \in 1..Len(q) + 1
      /\ i <= j - 1
  BY <1>1, <1>3
<1>5. /\ r[i] = IF P(i) THEN q[i] ELSE IF P(i - 1) THEN x ELSE q[i-1]
      /\ r[j] = IF j <= Len(q) /\ P(j) THEN q[j] ELSE IF P(j - 1) THEN x ELSE q[j-1]
  BY <1>1, <1>4 DEF InsertByPriority
<1>6. \A a, b \in 1..Len(q) : a <= b => q[a].priority <= q[b].priority
  BY <1>2 DEF Sorted
<1>7. CASE P(i)
  <2>1. q[i].priority <= x.priority
    BY <1>4, <1>7 DEF Passes
  <2>2. j <= Len(q) => q[i].priority <= q[j].priority
    BY <1>1, <1>4, <1>6
  <2>3. q[i].priority <= q[j-1].priority
    BY <1>4, <1>6
  <2>4. QED
    BY <1>5, <1>7, <2>1, <2>2, <2>3
<1>8. CASE ~P(i)
  <2>1. PICK k \in 1..i : ~(q[k].priority <= x.priority)
    BY <1>8 DEF Passes
  <2>2. ~P(j) /\ ~P(j - 1)
    BY <1>4, <2>1 DEF Passes
  <2>3. r[j] = q[j-1]
    BY <1>5, <2>2
  <2>4. k \in 1..Len(q) /\ k <= j - 1
    BY <1>1, <1>4, <2>1
  <2>5. x.priority <= q[j-1].priority
    <3>1. q[k].priority <= q[j-1].priority
      BY <1>4, <1>6, <2>4
    <3>2. QED
      BY <1>2, <1>4, <2>1, <2>4, <3>1
  <2>6. i # 1 => i - 1 \in 1..Len(q) /\ q[i-1].priority <= q[j-1].priority
    BY <1>1, <1>4, <1>6
  <2>7. P(0)
    BY DEF Passes
  <2>8. QED
    BY <1>5, <1>8, <2>3, <2>5, <2>6, <2>7
<1>9. QED
  BY <1>7, <1>8

\* essRMRemovePending yields a pending list with entries of the old one.
LEMMA RemoveType ==
  ASSUME NEW S, NEW q \in Seq(S), NEW k \in 1..Len(q)
  PROVE  RemovePendingAt(q, k) \in Seq(S)
<1>1. Len(q) \in Nat
  OBVIOUS
<1>2. SubSeq(q, 1, k - 1) \in Seq(S)
  BY <1>1, SubSeqProperties
<1>3. SubSeq(q, k + 1, Len(q)) \in Seq(S)
  BY <1>1, SubSeqProperties
<1>4. QED
  BY <1>2, <1>3 DEF RemovePendingAt, RemoveAt

\* It leaves them ordered.
LEMMA RemoveSorted ==
  ASSUME NEW S, NEW q \in Seq(S), NEW k \in 1..Len(q),
         \A y \in S : y.priority \in Int,
         Sorted(q)
  PROVE  Sorted(RemovePendingAt(q, k))
<1>1. Len(q) \in Nat /\ k \in Nat
  OBVIOUS
<1>2. CASE k = 1
  BY <1>2 DEF RemovePendingAt, Sorted
<1>3. CASE k # 1
  <2> DEFINE a == SubSeq(q, 1, k - 1)
             b == SubSeq(q, k + 1, Len(q))
             r == a \o b
  <2>1. /\ a \in Seq(S) /\ Len(a) = k - 1
        /\ \A i \in 1..k-1 : a[i] = q[i]
    BY <1>1, SubSeqProperties
  <2>2. /\ b \in Seq(S) /\ Len(b) = Len(q) - k
        /\ \A i \in 1..Len(q)-k : b[i] = q[k+i]
    BY <1>1, SubSeqProperties
  <2>3. /\ Len(r) = Len(q) - 1
        /\ \A i \in 1..Len(q)-1 : r[i] = IF i < k THEN q[i] ELSE q[i+1]
    <3> HIDE DEF a, b
    <3>1. Len(r) = Len(a) + Len(b)
      BY <2>1, <2>2, ConcatProperties
    <3>2. \A i \in 1..Len(a) + Len(b) :
            r[i] = IF i <= Len(a) THEN a[i] ELSE b[i - Len(a)]
      BY <2>1, <2>2
    <3>3. ASSUME NEW i \in 1..Len(q)-1
          PROVE  r[i] = IF i < k THEN q[i] ELSE q[i+1]
      <4>1. CASE i < k
        BY <1>1, <2>1, <2>2, <3>2, <4>1
      <4>2. CASE ~(i < k)
        <5>1. i - (k - 1) \in 1..Len(q)-k /\ k + (i - (k - 1)) = i + 1
          BY <1>1, <4>2
        <5>2. r[i] = b[i - (k - 1)]
          BY <1>1, <2>1, <2>2, <3>2, <4>2
        <5>3. QED
          BY <2>2, <4>2, <5>1, <5>2
      <4>3. QED
        BY <4>1, <4>2
    <3>4. QED
      BY <1>1, <2>1, <2>2, <3>1, <3>3
  <2>4. Sorted(r)
    <3> HIDE DEF r
    <3>1. SUFFICES ASSUME NEW i \in 1..Len(r), NEW j \in 1..Len(r), i < j
                   PROVE  r[i].priority <= r[j].priority
      BY DEF Sorted
    <3>2. /\ i \in 1..Len(q) /\ i + 1 \in 1..Len(q)
          /\ j \in 1..Len(q) /\ j + 1 \in 1..Len(q)
          /\ i \in 1..Len(q)-1 /\ j \in 1..Len(q)-1
      BY <1>1, <2>3, <3>1
    <3>3. \A c, d \in 1..Len(q) : c < d => q[c].priority <= q[d].priority
      BY DEF Sorted
    <3>4. r[i] = (IF i < k THEN q[i] ELSE q[i+1]) /\ r[j] = (IF j < k THEN q[j] ELSE q[j+1])
      BY <2>3, <3>2
    <3>5. QED
      BY <1>1, <3>1, <3>2, <3>3, <3>4
  <2>5. QED
    BY <1>3, <2>4 DEF RemovePendingAt, RemoveAt
<1>4. QED
  BY <1>2, <1>3

\* Taking the head off leaves the list ordered.
LEMMA TailSorted ==
  ASSUME NEW S, NEW q \in Seq(S), q # <<>>, Sorted(q)
  PROVE  Tail(q) \in Seq(S) /\ Sorted(Tail(q))
<1>1. Len(q) \in Nat /\ Len(q) > 0
  OBVIOUS
<1>2. /\ Tail(q) \in Seq(S)
      /\ Len(Tail(q)) = Len(q) - 1
      /\ \A i \in 1..Len(Tail(q)) : Tail(q)[i] = q[i+1]
  BY <1>1
<1>3. QED
  BY <1>1, <1>2 DEF Sorted

\* The head after an insertion is the new entry or the old head; after a
\* removal it is the old head, if anything is left.
LEMMA InsertHead ==
  ASSUME NEW S, NEW q \in Seq(S), NEW x \in S
  PROVE  /\ InsertByPriority(q, x) # <<>>
         /\ \/ Head(InsertByPriority(q, x)) = x
            \/ q # <<>> /\ Head(InsertByPriority(q, x)) = Head(q)
<1> DEFINE r == InsertByPriority(q, x)
<1>1. Len(q) \in Nat /\ 1 \in 1..Len(q) + 1
  OBVIOUS
<1>2. r[1] = IF 1 <= Len(q) /\ Passes(q, x, 1) THEN q[1] ELSE IF Passes(q, x, 0) THEN x ELSE q[0]
  BY <1>1 DEF InsertByPriority
<1>3. Passes(q, x, 0)
  BY DEF Passes
<1>4. r \in Seq(S) /\ Len(r) = Len(q) + 1
  <2>1. r = InsertByPriority(q, x)
    OBVIOUS
  <2> HIDE DEF r
  <2>2. QED
    BY <2>1, InsertType
<1> HIDE DEF r
<1>5. r # <<>> /\ Head(r) = r[1]
  BY <1>1, <1>4
<1>6. QED
  BY <1>1, <1>2, <1>3, <1>5 DEF r

\* Without its k-th entry, a list is empty or has the head it had, or k was 1.
LEMMA RemoveHead ==
  ASSUME NEW S, NEW q \in Seq(S), NEW k \in 1..Len(q)
  PROVE  \/ RemovePendingAt(q, k) = <<>>
         \/ q # <<>> /\ Head(RemovePendingAt(q, k)) = Head(q)
<1>1. Len(q) \in Nat /\ k \in Nat
  OBVIOUS
<1>2. CASE k = 1
  BY <1>2 DEF RemovePendingAt
<1>3. CASE k # 1
  <2> DEFINE a == SubSeq(q, 1, k - 1)
             b == SubSeq(q, k + 1, Len(q))
  <2>1. a \in Seq(S) /\ Len(a) = k - 1 /\ \A i \in 1..k-1 : a[i] = q[i]
    BY <1>1, SubSeqProperties
  <2>2. b \in Seq(S)
    BY <1>1, SubSeqProperties
  <2> HIDE DEF a, b
  <2>3. 1 \in 1..k-1 /\ a # <<>> /\ Head(a) = a[1]
    BY <1>1, <1>3, <2>1
  <2>4. Head(a \o b) = Head(a)
    BY <2>1, <2>2, <2>3, ConcatProperties
  <2>5. Head(a \o b) = Head(q) /\ q # <<>>
    BY <1>1, <2>1, <2>3, <2>4
  <2>6. QED
    BY <1>3, <2>5 DEF RemovePendingAt, RemoveAt, a, b
<1>4. QED
  BY <1>2, <1>3

\* Where the entries that are left were before a removal.
LEMMA RemovePlaces ==
  ASSUME NEW S, NEW q \in Seq(S), NEW k \in 1..Len(q),
         NEW i \in 1..Len(RemovePendingAt(q, k))
  PROVE  LET j == IF i < k THEN i ELSE i + 1
         IN  /\ j \in 1..Len(q)
             /\ RemovePendingAt(q, k)[i] = q[j]
<1>1. Len(q) \in Nat /\ k \in Nat
  OBVIOUS
<1>2. CASE k = 1
  BY <1>2 DEF RemovePendingAt
<1>3. CASE k # 1
  <2> DEFINE a == SubSeq(q, 1, k - 1)
             b == SubSeq(q, k + 1, Len(q))
  <2>1. a \in Seq(S) /\ Len(a) = k - 1 /\ \A n \in 1..k-1 : a[n] = q[n]
    BY <1>1, SubSeqProperties
  <2>2. b \in Seq(S) /\ Len(b) = Len(q) - k /\ \A n \in 1..Len(q)-k : b[n] = q[k+n]
    BY <1>1, SubSeqProperties
  <2>3. RemovePendingAt(q, k) = a \o b
    BY <1>3 DEF RemovePendingAt, RemoveAt
  <2> HIDE DEF a, b
  <2>4. i \in 1..Len(a) + Len(b) /\ (a \o b)[i] = IF i <= Len(a) THEN a[i] ELSE b[i - Len(a)]
    BY <2>1, <2>2, <2>3, ConcatProperties
  <2>5. CASE i < k
    BY <1>1, <2>1, <2>2, <2>3, <2>4, <2>5
  <2>6. CASE ~(i < k)
    <3>1. i - (k - 1) \in 1..Len(q)-k /\ k + (i - (k - 1)) = i + 1
      BY <1>1, <2>1, <2>2, <2>4, <2>6
    <3>2. (a \o b)[i] = b[i - (k - 1)]
      BY <1>1, <2>1, <2>4, <2>6
    <3>3. QED
      BY <1>1, <2>2, <2>3, <2>6, <3>1, <3>2
  <2>7. QED
    BY <2>5, <2>6
<1>4. QED
  BY <1>2, <1>3

----------------------------------------------------------------------------
(* Induction.  The well-foundedness of the strict inclusion of finite sets *)
(* of numbers gives a least number, that gives induction over a set of     *)
(* numbers, and that the value of a function defined by recursion.         *)

\* Every nonempty set of natural numbers has a least element.
LEMMA LeastNumber ==
  ASSUME NEW T \in SUBSET Nat, T # {}
  PROVE  \E n \in T : \A m \in T : n <= m
<1> DEFINE Below == {1..n : n \in T}
           R == StrictSubsetOrdering(Nat)
<1>1. IsWellFoundedOn(R, FiniteSubsetsOf(Nat))
  BY FS_StrictSubsetOrderingWellFounded
<1>2. \A n \in T : IsFiniteSet(1..n) /\ 1..n \in SUBSET Nat
  BY FS_Interval
<1>3. Below \subseteq FiniteSubsetsOf(Nat) /\ Below # {}
  BY <1>2 DEF FiniteSubsetsOf
<1>4. PICK x \in Below : \A y \in Below : ~(<<y, x>> \in R)
  BY <1>1, <1>3, WFMin
<1>5. PICK n \in T : x = 1..n
  OBVIOUS
<1>6. ASSUME NEW m \in T, m < n PROVE FALSE
  <2>1. 1..m \subseteq 1..n /\ n \in 1..n /\ n \notin 1..m
    BY <1>6
  <2>2. 1..m \in Below /\ 1..m \in SUBSET Nat /\ x \in SUBSET Nat
    BY <1>5
  <2>3. QED
    BY <1>4, <1>5, <2>1, <2>2 DEF StrictSubsetOrdering
<1>7. QED
  BY <1>6

\* A set of natural numbers with 0 that is closed under successor is Nat.
LEMMA NatInduct ==
  ASSUME NEW S \in SUBSET Nat, 0 \in S, \A n \in S : n + 1 \in S
  PROVE  S = Nat
<1> SUFFICES ASSUME Nat \ S # {} PROVE FALSE
  OBVIOUS
<1>1. PICK n \in Nat \ S : \A m \in Nat \ S : n <= m
  BY LeastNumber
<1>2. n - 1 \in S
  BY <1>1
<1>3. (n - 1) + 1 = n
  BY <1>1
<1>4. QED
  BY <1>2, <1>3

\* new is q with x as a further entry, the j-th.
InsertedAt(new, q, x, j) ==
  \A i \in 1..Len(q) + 1 : new[i] = IF i < j THEN q[i] ELSE IF i = j THEN x ELSE q[i-1]

\* Where an entry is inserted: the others keep their order around it.
LEMMA InsertPlaces ==
  ASSUME NEW S, NEW q \in Seq(S), NEW x \in S
  PROVE  \E j \in 1..Len(q) + 1 : InsertedAt(InsertByPriority(q, x), q, x, j)
<1> DEFINE L == Len(q)
           Stops == {i \in 1..L + 1 : i = L + 1 \/ ~Passes(q, x, i)}
<1>1. L \in Nat
  OBVIOUS
<1>2. Stops \in SUBSET Nat /\ L + 1 \in Stops
  BY <1>1
<1>3. PICK j \in Stops : \A i \in Stops : j <= i
  <2> HIDE DEF Stops
  <2>1. QED
    BY <1>2, LeastNumber
<1>4. j \in 1..L + 1 /\ (j = L + 1 \/ ~Passes(q, x, j))
  OBVIOUS
<1>5. \A i \in 1..L + 1 : i < j => i # L + 1 /\ Passes(q, x, i)
  <2> SUFFICES ASSUME NEW i \in 1..L + 1, i < j PROVE i \notin Stops
    OBVIOUS
  <2>1. QED
    BY <1>1, <1>3, <1>4
<1>6. Passes(q, x, 0)
  BY DEF Passes
<1>7. ASSUME NEW i \in 1..L + 1
      PROVE  InsertByPriority(q, x)[i] = IF i < j THEN q[i] ELSE IF i = j THEN x ELSE q[i-1]
  <2>1. InsertByPriority(q, x)[i] =
          IF i <= L /\ Passes(q, x, i) THEN q[i] ELSE IF Passes(q, x, i - 1) THEN x ELSE q[i-1]
    BY DEF InsertByPriority
  <2> HIDE DEF Stops
  <2>2. CASE i < j
    BY <1>1, <1>5, <2>1, <2>2
  <2>3. CASE i = j
    <3>1. Passes(q, x, i - 1)
      <4>1. CASE i = 1
        BY <1>6, <4>1
      <4>2. CASE i # 1
        <5>1. i - 1 \in 1..L + 1 /\ i - 1 < j
          BY <1>1, <2>3, <4>2
        <5>2. QED
          BY <1>5, <5>1
      <4>3. QED
        BY <4>1, <4>2
    <3>2. ~(i <= L /\ Passes(q, x, i))
      BY <1>1, <1>4, <2>3
    <3>3. QED
      BY <2>1, <2>3, <3>1, <3>2
  <2>4. CASE i > j
    <3>1. ~Passes(q, x, j)
      BY <1>1, <1>4, <2>4
    <3>2. ~Passes(q, x, i) /\ ~Passes(q, x, i - 1)
      BY <1>1, <1>4, <2>4, <3>1 DEF Passes
    <3>3. QED
      BY <1>1, <1>4, <2>1, <2>4, <3>2
  <2>5. QED
    BY <1>1, <1>4, <2>2, <2>3, <2>4
<1>8. InsertedAt(InsertByPriority(q, x), q, x, j)
  BY <1>7 DEF InsertedAt
<1>9. QED
  BY <1>4, <1>8

\* f[0..L] are the values of a scan of L entries: the first value, and after
\* each entry what the step makes of the value before it.
Runs(f, L, first, step) ==
  f[0] = first /\ \A n \in 1..L : f[n] = step[<<n, f[n-1]>>]

\* A scan has values: the definition of a recursive function has a solution.
LEMMA RecursionExists ==
  ASSUME NEW D, NEW first \in D, NEW L \in Nat, NEW step \in [(1..L) \X D -> D]
  PROVE  \E f \in [0..L -> D] : Runs(f, L, first, step)
<1> DEFINE Upto(m, f) == Runs(f, m, first, step)
           S == {m \in Nat : m <= L => \E f \in [0..m -> D] : Upto(m, f)}
<1>1. 0 \in S
  <2>1. [n \in 0..0 |-> first] \in [0..0 -> D] /\ Upto(0, [n \in 0..0 |-> first])
    BY DEF Runs
  <2>2. QED
    BY <2>1
<1>2. ASSUME NEW m \in S PROVE m + 1 \in S
  <2> SUFFICES ASSUME m + 1 <= L PROVE \E f \in [0..m+1 -> D] : Upto(m + 1, f)
    OBVIOUS
  <2>1. PICK f \in [0..m -> D] : Upto(m, f)
    OBVIOUS
  <2> DEFINE g == [n \in 0..m+1 |-> IF n = m + 1 THEN step[<<m + 1, f[m]>>] ELSE f[n]]
  <2>2. step[<<m + 1, f[m]>>] \in D
    OBVIOUS
  <2>3. g \in [0..m+1 -> D]
    BY <2>2
  <2>4. ASSUME NEW n \in 1..m+1 PROVE g[n] = step[<<n, g[n-1]>>]
    <3>1. n - 1 \in 0..m /\ g[n-1] = f[n-1]
      OBVIOUS
    <3>2. CASE n = m + 1
      <4>1. n - 1 = m /\ g[n] = step[<<m + 1, f[m]>>] /\ g[n-1] = f[m]
        BY <3>1, <3>2
      <4>2. QED
        BY <3>2, <4>1
    <3>3. CASE n # m + 1
      BY <2>1, <3>1, <3>3 DEF Runs
    <3>4. QED
      BY <3>2, <3>3
  <2>5. g[0] = first
    BY <2>1 DEF Runs
  <2>6. QED
    BY <2>3, <2>4, <2>5 DEF Runs
<1>3. S = Nat
  <2> HIDE DEF S
  <2>1. S \in SUBSET Nat
    BY DEF S
  <2>2. QED
    BY <1>1, <1>2, <2>1, NatInduct
<1>4. PICK f \in [0..L -> D] : Upto(L, f)
  <2>1. L \in {m \in Nat : m <= L => \E f \in [0..m -> D] : Upto(m, f)}
    BY <1>3, Zenon
  <2> HIDE DEF Upto
  <2>2. QED
    BY <2>1
<1>5. QED
  BY <1>4

----------------------------------------------------------------------------
(* The scan of the resource table.                                         *)

\* The rule of the scan: what holds of the accumulator first and is carried
\* over each entry, looked at or left out, holds of the result.  Good[n] are
\* the accumulators allowed after n entries.
LEMMA ScanRule ==
  ASSUME NEW res, NEW X, NEW ids \in Seq(X), NEW group, NEW isVideo, NEW tieWins,
         NEW priority, NEW usage, NEW D, NEW first,
         \A acc \in D, i \in X :
           Consider(res, isVideo, tieWins, priority, usage, acc, i) \in D,
         NEW Good \in [0..Len(ids) -> SUBSET D],
         first \in Good[0],
         \A n \in 1..Len(ids) : \A acc \in Good[n-1] :
           IF ids[n] \in group
           THEN Consider(res, isVideo, tieWins, priority, usage, acc, ids[n]) \in Good[n]
           ELSE acc \in Good[n]
  PROVE  Scan(res, ids, group, isVideo, tieWins, priority, usage, first) \in Good[Len(ids)]
<1> DEFINE L == Len(ids)
           Look(acc, i) == Consider(res, isVideo, tieWins, priority, usage, acc, i)
           step == [p \in (1..L) \X D |->
                      IF ids[p[1]] \in group THEN Look(p[2], ids[p[1]]) ELSE p[2]]
           Is(f) == f = [n \in 0..L |->
                           IF n = 0 THEN first
                           ELSE IF ids[n] \in group THEN Look(f[n-1], ids[n]) ELSE f[n-1]]
<1>1. L \in Nat /\ \A n \in 1..L : ids[n] \in X
  OBVIOUS
<1>2. step \in [(1..L) \X D -> D]
  <2> HIDE DEF Look
  <2>1. \A acc \in D, i \in X : Look(acc, i) \in D
    BY DEF Look
  <2>2. ASSUME NEW p \in (1..L) \X D
        PROVE  (IF ids[p[1]] \in group THEN Look(p[2], ids[p[1]]) ELSE p[2]) \in D
    <3>1. p[1] \in 1..L /\ p[2] \in D
      OBVIOUS
    <3>2. QED
      BY <1>1, <2>1, <3>1
  <2>3. QED
    BY <2>2
<1>3. first \in D
  BY <1>1
<1>4. \E f \in [0..L -> D] : Is(f)
  <2>1. PICK f \in [0..L -> D] : Runs(f, L, first, step)
    <3> HIDE DEF step, L
    <3>1. QED
      BY <1>1, <1>2, <1>3, RecursionExists
  <2>2. ASSUME NEW n \in 1..L
        PROVE  step[<<n, f[n-1]>>]
                 = IF ids[n] \in group THEN Look(f[n-1], ids[n]) ELSE f[n-1]
    <3> HIDE DEF Look
    <3>1. n - 1 \in 0..L
      BY <1>1
    <3>2. <<n, f[n-1]>> \in (1..L) \X D
      BY <3>1
    <3>3. QED
      BY <3>2
  <2>3. \A n \in 0..L :
          f[n] = IF n = 0 THEN first
                 ELSE IF ids[n] \in group THEN Look(f[n-1], ids[n]) ELSE f[n-1]
    <3> HIDE DEF step, Look
    <3>1. \A n \in 0..L : n # 0 => n \in 1..L
      BY <1>1
    <3>2. QED
      BY <2>1, <2>2, <3>1 DEF Runs
  <2>4. Is(f)
    <3> HIDE DEF step, Look
    <3>1. f = [n \in 0..L |-> f[n]]
      OBVIOUS
    <3>2. QED
      BY <2>3, <3>1
  <2>5. QED
    BY <2>4
<1> DEFINE scan == CHOOSE f : Is(f)
<1>5. Scan(res, ids, group, isVideo, tieWins, priority, usage, first) = scan[L]
  BY DEF Scan
<1>6. Is(scan)
  <2>1. \E f : Is(f)
    <3> HIDE DEF Is
    <3>1. QED
      BY <1>4
  <2> HIDE DEF Is
  <2>2. QED
    BY <2>1, Zenon
<1>7. /\ scan[0] = first
      /\ \A n \in 1..L :
           scan[n] = IF ids[n] \in group THEN Look(scan[n-1], ids[n]) ELSE scan[n-1]
  <2> HIDE DEF scan, Look
  <2>1. \A n \in 0..L :
          scan[n] = IF n = 0 THEN first
                    ELSE IF ids[n] \in group THEN Look(scan[n-1], ids[n]) ELSE scan[n-1]
    BY <1>6
  <2>2. 0 \in 0..L /\ \A n \in 1..L : n \in 0..L /\ n # 0
    BY <1>1
  <2>3. QED
    BY <2>1, <2>2
<1> DEFINE S == {n \in Nat : n <= L => scan[n] \in Good[n]}
<1>8. S = Nat
  <2> HIDE DEF scan, Look
  <2>1. 0 \in S
    BY <1>7
  <2>2. ASSUME NEW n \in S PROVE n + 1 \in S
    <3> SUFFICES ASSUME n + 1 <= L PROVE scan[n + 1] \in Good[n + 1]
      OBVIOUS
    <3>1. n + 1 \in 1..L /\ (n + 1) - 1 = n /\ scan[n] \in Good[n]
      BY <1>1
    <3>2. IF ids[n + 1] \in group THEN Look(scan[n], ids[n + 1]) \in Good[n + 1]
          ELSE scan[n] \in Good[n + 1]
      BY <3>1 DEF Look
    <3>3. QED
      BY <1>7, <3>1, <3>2
  <2>3. S \in SUBSET Nat
    OBVIOUS
  <2> HIDE DEF S
  <2>4. QED
    BY <2>1, <2>2, <2>3, NatInduct
<1>9. QED
  <2> HIDE DEF scan
  <2>1. L \in S
    BY <1>1, <1>8
  <2>2. QED
    BY <1>5, <2>1

\* A resource the request may take, one it has to wait for, and one it takes
\* on a tie when nothing else is left.
Yields(r, priority, usage) == ~Tied(r, priority, usage) /\ ~Outranks(r, priority)
Kept(r, tieWins, priority, usage) ==
  IF Tied(r, priority, usage) THEN ~tieWins ELSE Outranks(r, priority)
LostByTie(r, tieWins, priority, usage) == Tied(r, priority, usage) /\ tieWins

\* The accumulators of a scan of resources of X, M being their size limits.
Accumulators(X, M) ==
  [suitable : X \cup {Nobody}, maxSize : M, pending : X \cup {Nobody}, preempt : X \cup {Nobody}]

\* What the accumulator a says about the resources of a group seen so far:
\* each of its fields is a resource of the right kind, and it is set when a
\* resource of that kind has been seen; a free one has been preferred.
Found(res, seen, group, isVideo, tieWins, priority, usage, a) ==
  LET Fit(i) == i \in group /\ ~TooSmall(res[i], isVideo, usage)
  IN  /\ a.suitable # Nobody =>
           Fit(a.suitable) /\ Yields(res[a.suitable], priority, usage)
      /\ a.pending # Nobody =>
           Fit(a.pending) /\ Kept(res[a.pending], tieWins, priority, usage)
      /\ a.preempt # Nobody =>
           Fit(a.preempt) /\ LostByTie(res[a.preempt], tieWins, priority, usage)
      /\ \A i \in seen : Fit(i) =>
           /\ Yields(res[i], priority, usage) =>
                /\ a.suitable # Nobody
                /\ ~Owned(res[i]) => ~Owned(res[a.suitable])
           /\ Kept(res[i], tieWins, priority, usage) => a.pending # Nobody
           /\ LostByTie(res[i], tieWins, priority, usage) => a.preempt # Nobody

\* Looking at a resource yields an accumulator again.
LEMMA ConsiderType ==
  ASSUME NEW res, NEW X, NEW M, NEW isVideo, NEW tieWins, NEW priority, NEW usage,
         NEW a \in Accumulators(X, M), NEW i \in X, SizeLimit(res[i], isVideo) \in M
  PROVE  Consider(res, isVideo, tieWins, priority, usage, a, i) \in Accumulators(X, M)
<1>1. /\ [a EXCEPT !.preempt = i] \in Accumulators(X, M)
      /\ FirstPending(a, i) \in Accumulators(X, M)
      /\ [a EXCEPT !.suitable = i, !.maxSize = SizeLimit(res[i], isVideo)]
           \in Accumulators(X, M)
  BY DEF Accumulators, FirstPending
<1>2. QED
  BY <1>1, Zenon DEF Consider

\* What the accumulator says stays true of the resources seen before and
\* becomes true of the one looked at.
LEMMA ConsiderFinds ==
  ASSUME NEW res, NEW X, NEW M, NEW seen, NEW group, NEW isVideo, NEW tieWins \in BOOLEAN,
         NEW priority, NEW usage,
         Nobody \notin X,
         NEW a \in Accumulators(X, M), NEW i \in X, i \in group,
         Found(res, seen, group, isVideo, tieWins, priority, usage, a)
  PROVE  Found(res, seen \cup {i}, group, isVideo, tieWins, priority, usage,
               Consider(res, isVideo, tieWins, priority, usage, a, i))
<1> DEFINE b == Consider(res, isVideo, tieWins, priority, usage, a, i)
<1>1. i # Nobody
  OBVIOUS
<1>2. CASE TooSmall(res[i], isVideo, usage)
  <2>1. b = a
    BY <1>2 DEF Consider
  <2> HIDE DEF b
  <2>2. QED
    <3> SUFFICES Found(res, seen \cup {i}, group, isVideo, tieWins, priority, usage, a)
      BY <2>1 DEF b
    <3>1. QED
      BY <1>2 DEF Found
<1>3. CASE ~TooSmall(res[i], isVideo, usage) /\ LostByTie(res[i], tieWins, priority, usage)
  <2>1. b = [a EXCEPT !.preempt = i]
    BY <1>3 DEF Consider, LostByTie
  <2>2. /\ b.preempt = i
        /\ b.suitable = a.suitable /\ b.pending = a.pending
    BY <2>1 DEF Accumulators
  <2> HIDE DEF b
  <2>3. ~Kept(res[i], tieWins, priority, usage) /\ ~Yields(res[i], priority, usage)
    BY <1>3 DEF LostByTie, Kept, Yields
  <2>4. Found(res, seen \cup {i}, group, isVideo, tieWins, priority, usage, b)
    BY <1>1, <1>3, <2>2, <2>3 DEF Found
  <2>5. QED
    BY <2>4 DEF b
<1>4. CASE ~TooSmall(res[i], isVideo, usage) /\ Kept(res[i], tieWins, priority, usage)
  <2>1. b = FirstPending(a, i)
    BY <1>4 DEF Consider, Kept
  <2>2. /\ b.pending = IF a.pending = Nobody THEN i ELSE a.pending
        /\ b.suitable = a.suitable /\ b.preempt = a.preempt
    BY <2>1 DEF Accumulators, FirstPending
  <2> HIDE DEF b
  <2>3. /\ ~LostByTie(res[i], tieWins, priority, usage)
        /\ ~Yields(res[i], priority, usage)
    BY <1>4 DEF LostByTie, Kept, Yields
  <2>4. Found(res, seen \cup {i}, group, isVideo, tieWins, priority, usage, b)
    BY <1>1, <1>4, <2>2, <2>3 DEF Found
  <2>5. QED
    BY <2>4 DEF b
<1>5. CASE ~TooSmall(res[i], isVideo, usage) /\ Yields(res[i], priority, usage)
  <2>1. b = IF Displaces(res, isVideo, a, i)
            THEN [a EXCEPT !.suitable = i, !.maxSize = SizeLimit(res[i], isVideo)]
            ELSE a
    BY <1>5 DEF Consider, Yields
  <2>2. /\ b.suitable = IF Displaces(res, isVideo, a, i) THEN i ELSE a.suitable
        /\ b.pending = a.pending /\ b.preempt = a.preempt
    BY <2>1 DEF Accumulators
  <2> HIDE DEF b
  <2>3. /\ ~LostByTie(res[i], tieWins, priority, usage)
        /\ ~Kept(res[i], tieWins, priority, usage)
    BY <1>5 DEF LostByTie, Kept, Yields
  <2>4. /\ a.suitable = Nobody => Displaces(res, isVideo, a, i)
        /\ Owned(res[a.suitable]) /\ ~Owned(res[i]) => Displaces(res, isVideo, a, i)
        /\ (/\ Displaces(res, isVideo, a, i)
            /\ a.suitable # Nobody
            /\ ~Owned(res[a.suitable])) => ~Owned(res[i])
    BY DEF Displaces
  <2>5. Found(res, seen \cup {i}, group, isVideo, tieWins, priority, usage, b)
    BY <1>1, <1>5, <2>2, <2>3, <2>4 DEF Found
  <2>6. QED
    BY <2>5 DEF b
<1>6. QED
  BY <1>2, <1>3, <1>4, <1>5 DEF LostByTie, Kept, Yields

\* What a scan of a group returns.
LEMMA ScanFinds ==
  ASSUME NEW res, NEW X, NEW ids \in Seq(X), NEW group, NEW isVideo, NEW tieWins \in BOOLEAN,
         NEW priority, NEW usage, NEW M,
         Nobody \notin X,
         \A i \in X : SizeLimit(res[i], isVideo) \in M,
         NEW first \in Accumulators(X, M),
         Found(res, {}, group, isVideo, tieWins, priority, usage, first)
  PROVE  LET a == Scan(res, ids, group, isVideo, tieWins, priority, usage, first)
         IN  /\ a \in Accumulators(X, M)
             /\ Found(res, ToSet(ids), group, isVideo, tieWins, priority, usage, a)
<1> DEFINE D == Accumulators(X, M)
           L == Len(ids)
           Seen(n) == {ids[k] : k \in 1..n}
           Ok(seen, a) == Found(res, seen, group, isVideo, tieWins, priority, usage, a)
           Look(a, i) == Consider(res, isVideo, tieWins, priority, usage, a, i)
           Good == [n \in 0..L |-> {a \in D : Ok(Seen(n), a)}]
<1>1. L \in Nat /\ \A n \in 1..L : ids[n] \in X
  OBVIOUS
<1>2. \A a \in D, i \in X : Look(a, i) \in D
  BY ConsiderType
<1>3. Good \in [0..L -> SUBSET D]
  <2> HIDE DEF D, Ok
  <2>1. QED
    OBVIOUS
<1>4. first \in Good[0]
  <2>1. Seen(0) = {}
    OBVIOUS
  <2> HIDE DEF Seen
  <2>2. first \in D /\ Ok(Seen(0), first)
    BY <2>1
  <2> HIDE DEF D, Ok
  <2>3. QED
    BY <1>1, <2>2
<1>5. ASSUME NEW n \in 1..L, NEW a \in Good[n-1]
      PROVE  IF ids[n] \in group THEN Look(a, ids[n]) \in Good[n] ELSE a \in Good[n]
  <2>1. n - 1 \in 0..L /\ n \in 0..L
    BY <1>1
  <2>2. a \in D /\ Ok(Seen(n - 1), a)
    <3> HIDE DEF D, Ok, Seen
    <3>1. QED
      BY <2>1
  <2>3. Seen(n) = Seen(n - 1) \cup {ids[n]}
    <3>1. 1..n = (1..n-1) \cup {n}
      BY <1>1
    <3>2. QED
      BY <3>1
  <2>4. CASE ids[n] \in group
    <3>1. Look(a, ids[n]) \in D
      BY <1>1, <1>2, <2>2
    <3>2. Ok(Seen(n), Look(a, ids[n]))
      <4> HIDE DEF Seen
      <4>1. QED
        BY <1>1, <2>2, <2>3, <2>4, ConsiderFinds
    <3> HIDE DEF D, Ok, Seen, Look
    <3>3. QED
      BY <2>1, <2>4, <3>1, <3>2
  <2>5. CASE ids[n] \notin group
    <3>1. Ok(Seen(n), a)
      <4> HIDE DEF Seen
      <4>1. QED
        BY <2>2, <2>3, <2>5 DEF Found
    <3> HIDE DEF D, Ok, Seen, Look
    <3>2. QED
      BY <2>1, <2>2, <2>5, <3>1
  <2>6. QED
    BY <2>4, <2>5
<1> DEFINE result == Scan(res, ids, group, isVideo, tieWins, priority, usage, first)
<1>6. result \in Good[L]
  <2> HIDE DEF Good, D
  <2>1. QED
    BY <1>2, <1>3, <1>4, <1>5, ScanRule
<1>7. Seen(L) = ToSet(ids)
  BY <1>1 DEF ToSet
<1>8. result \in D /\ Ok(Seen(L), result)
  <2> HIDE DEF result, D, Ok, Seen
  <2>1. QED
    BY <1>1, <1>6
<1>9. QED
  BY <1>7, <1>8

\* What essRMFindSuitableResource promises of its answer a.  A resource that
\* is taken can serve the request and is not kept by its owner; one that is
\* waited for can serve it and is kept; nothing is returned only when every
\* resource that could serve the request is kept, and then one of them is
\* waited for.  Among the ideal resources that yield, or else among all that
\* yield, a free one is taken first.
Suits(res, ids, isVideo, tieWins, priority, usage, a) ==
  LET fitting == {i \in ToSet(ids) : /\ Eligible(res[i], usage)
                                     /\ ~TooSmall(res[i], isVideo, usage)}
      open == {i \in fitting : Yields(res[i], priority, usage)}
      ideal == {i \in open : Ideal(res[i], usage)}
      group == IF ideal # {} THEN ideal ELSE open
  IN  /\ a.suitable \in fitting \cup {Nobody}
      /\ a.pending \in fitting \cup {Nobody}
      /\ a.suitable # Nobody =>
           \/ Yields(res[a.suitable], priority, usage)
           \/ LostByTie(res[a.suitable], tieWins, priority, usage)
      /\ a.pending # Nobody => Kept(res[a.pending], tieWins, priority, usage)
      /\ a.suitable = Nobody =>
           \A i \in fitting : /\ Kept(res[i], tieWins, priority, usage)
                              /\ a.pending # Nobody
      /\ open # {} => /\ a.suitable \in group
                      /\ Owned(res[a.suitable]) => \A k \in group : Owned(res[k])

\* The answer of essRMFindSuitableResource is of that kind for every table.
LEMMA FindSuitable ==
  ASSUME NEW res, NEW X, NEW ids \in Seq(X), NEW isVideo, NEW tieWins \in BOOLEAN,
         NEW priority, NEW usage, Nobody \notin X
  PROVE  Suits(res, ids, isVideo, tieWins, priority, usage,
               FindSuitableResource(res, ids, isVideo, tieWins, priority, usage))
<1> DEFINE all  == {i \in ToSet(ids) : Eligible(res[i], usage)}
           some == {i \in all : Ideal(res[i], usage)}
           Result(group, first) ==
             Scan(res, ids, group, isVideo, tieWins, priority, usage, first)
           Ok(seen, group, a) ==
             Found(res, seen, group, isVideo, tieWins, priority, usage, a)
           M == {-1} \cup {SizeLimit(res[i], isVideo) : i \in X}
           D == Accumulators(X, M)
           best == Result(some, NothingFound)
           last == IF best.suitable # Nobody THEN best ELSE Result(all, best)
           a == FindSuitableResource(res, ids, isVideo, tieWins, priority, usage)
<1>1. NothingFound \in D /\ Ok({}, some, NothingFound)
  BY DEF NothingFound, Accumulators, Found
<1>2. \A i \in X : SizeLimit(res[i], isVideo) \in M
  OBVIOUS
<1>3. best \in D /\ Ok(ToSet(ids), some, best)
  <2> HIDE DEF M, some
  <2>1. QED
    BY <1>1, <1>2, ScanFinds
<1>4. best.suitable = Nobody => Ok({}, all, best)
  <2> HIDE DEF best
  <2>1. some \subseteq all
    OBVIOUS
  <2> HIDE DEF some, all
  <2>2. QED
    BY <1>3, <2>1 DEF Found
<1>5. best.suitable = Nobody =>
        Result(all, best) \in D /\ Ok(ToSet(ids), all, Result(all, best))
  <2> HIDE DEF M, all, best
  <2>1. QED
    BY <1>2, <1>3, <1>4, ScanFinds
<1>6. a = [suitable |-> IF last.suitable = Nobody THEN last.preempt ELSE last.suitable,
           pending  |-> last.pending]
  BY Zenon DEF FindSuitableResource
<1>7. /\ a.suitable = IF last.suitable = Nobody THEN last.preempt ELSE last.suitable
      /\ a.pending = last.pending
  <2> HIDE DEF a, last
  <2>1. QED
    BY <1>6
<1> DEFINE fitting == {i \in ToSet(ids) : /\ Eligible(res[i], usage)
                                        /\ ~TooSmall(res[i], isVideo, usage)}
           open == {i \in fitting : Yields(res[i], priority, usage)}
           ideal == {i \in open : Ideal(res[i], usage)}
           group == IF ideal # {} THEN ideal ELSE open
           kept == {i \in fitting : Kept(res[i], tieWins, priority, usage)}
           lost == {i \in fitting : LostByTie(res[i], tieWins, priority, usage)}
           choices == {x \in group : Owned(res[x]) => \A k \in group : Owned(res[k])}
           Answer(x, w) ==
             /\ x # Nobody => x \in choices \/ (x \in lost /\ open = {})
             /\ w # Nobody => w \in kept
             /\ x = Nobody => fitting = kept /\ (kept # {} => w # Nobody)
<1>8. /\ fitting = open \cup kept \cup lost
      /\ open \cap kept = {}
  BY DEF Yields, Kept, LostByTie
<1>9. ASSUME best.suitable # Nobody
      PROVE  Answer(a.suitable, a.pending)
  <2>1. a.suitable = best.suitable /\ a.pending = best.pending
    BY <1>7, <1>9
  <2>2. best.pending # Nobody => best.pending \in kept
    <3> HIDE DEF best
    <3>1. QED
      BY <1>3 DEF Found
  <2>3. best.suitable \in ideal
    <3> HIDE DEF best
    <3>1. QED
      BY <1>3, <1>9 DEF Found
  <2>4. \A i \in ideal : Owned(res[best.suitable]) => Owned(res[i])
    <3> HIDE DEF best
    <3>1. QED
      BY <1>3, <1>9 DEF Found
  <2>5. best.suitable \in choices
    <3> HIDE DEF best, ideal, open
    <3>1. QED
      BY <2>3, <2>4
  <2> HIDE DEF a, best, choices, kept, lost, open, fitting
  <2>6. QED
    BY <1>9, <2>1, <2>2, <2>5
<1>10. ASSUME best.suitable = Nobody
       PROVE  Answer(a.suitable, a.pending)
  <2> DEFINE b == Result(all, best)
  <2>1. b \in D /\ Ok(ToSet(ids), all, b)
    BY <1>5, <1>10
  <2>2. /\ a.suitable = IF b.suitable = Nobody THEN b.preempt ELSE b.suitable
        /\ a.pending = b.pending
    BY <1>7, <1>10
  <2>3. ideal = {}
    <3> HIDE DEF best
    <3>1. QED
      BY <1>3, <1>10 DEF Found
  <2> HIDE DEF best, b
  <2>4. b.suitable # Nobody => b.suitable \in open
    BY <2>1 DEF Found
  <2>5. b.preempt # Nobody => b.preempt \in lost
    BY <2>1 DEF Found
  <2>6. b.pending # Nobody => b.pending \in kept
    BY <2>1 DEF Found
  <2>7. \A i \in open : /\ b.suitable # Nobody
                        /\ ~Owned(res[i]) => ~Owned(res[b.suitable])
    BY <2>1 DEF Found
  <2>8. \A i \in kept : b.pending # Nobody
    BY <2>1 DEF Found
  <2>9. \A i \in lost : b.preempt # Nobody
    BY <2>1 DEF Found
  <2>10. b.suitable # Nobody => b.suitable \in choices
    <3> HIDE DEF ideal, open
    <3>1. QED
      BY <2>3, <2>4, <2>7
  <2> HIDE DEF a, choices, kept, lost, open, fitting
  <2>11. QED
    BY <1>8, <2>2, <2>5, <2>6, <2>7, <2>8, <2>9, <2>10
<1>11. Answer(a.suitable, a.pending)
  BY <1>9, <1>10
<1>12. choices \subseteq open
  OBVIOUS
<1>13. /\ \A i \in kept : Kept(res[i], tieWins, priority, usage)
       /\ \A i \in lost : LostByTie(res[i], tieWins, priority, usage)
       /\ \A i \in open : Yields(res[i], priority, usage)
  OBVIOUS
<1>14. \A x \in choices : x \in group /\ (Owned(res[x]) => \A k \in group : Owned(res[k]))
  OBVIOUS
<1> HIDE DEF a, choices, kept, lost, open, fitting, group
<1>15. /\ a.suitable \in fitting \cup {Nobody}
       /\ a.pending \in fitting \cup {Nobody}
  BY <1>8, <1>11, <1>12
<1>16. a.suitable # Nobody =>
         \/ Yields(res[a.suitable], priority, usage)
         \/ LostByTie(res[a.suitable], tieWins, priority, usage)
  BY <1>11, <1>12, <1>13
<1>17. /\ a.pending # Nobody => Kept(res[a.pending], tieWins, priority, usage)
       /\ a.suitable = Nobody =>
            \A i \in fitting : /\ Kept(res[i], tieWins, priority, usage)
                               /\ a.pending # Nobody
  BY <1>11, <1>13
<1>18. open # {} => /\ a.suitable \in group
                    /\ Owned(res[a.suitable]) => \A k \in group : Owned(res[k])
  BY <1>8, <1>11, <1>14
<1>19. QED
  BY <1>15, <1>16, <1>17, <1>18 DEF a, fitting, open, group, Suits

=============================================================================
