------------------------ MODULE ErmArbiterPoolProofs ------------------------
(***************************************************************************)
(* What the server does for one resource type while it holds the state     *)
(* mutex, proved for any table and any number of pending entries.          *)
(*                                                                         *)
(* The arbiter: what MCErmArbiter checks of essRMFindSuitableResource on   *)
(* small tables, for tables of any length, with any capability bits, sizes *)
(* and priorities.  The argument is lemma FindSuitable: an induction over  *)
(* the entries of the table that the scan looks at.                        *)
(*                                                                         *)
(* The pending lists: ErmPool implements ErmQueues, and the lists never    *)
(* share an entry.  List says which sequence a chain of links stands for;  *)
(* one lemma per list operation says what it does to the sequences, one    *)
(* per queue operation that the sequences change as ErmQueues says, and    *)
(* one per action combines them.                                           *)
(***************************************************************************)
EXTENDS MCErmArbiter, ErmPool, ErmLemmas

----------------------------------------------------------------------------
(* The arbiter.                                                            *)

Answered == FindSuitableResource(res, ids, TRUE, request.tieWins, request.priority, request.usage)

\* The table is one of decoders, and what has been answered is what the
\* function returns for the request and the table.
AnswerInv ==
  /\ res \in [1..Decoders -> Decoder]
  /\ request.tieWins \in BOOLEAN
  /\ request.priority \in AskedPriorities \cup {0}
  /\ Asked => answer = Answered

\* The priorities of the owners and of the request can be compared.
LEMMA DecoderPriority ==
  ASSUME NEW d \in Decoder
  PROVE  d.priorityOwner \in Int
<1>1. \A e \in Idle : e.priorityOwner = 0
  BY DEF Idle, IdleDecoder
<1>2. \A e \in Idle : \A p, u : OwnedDecoder(e, p, u).priorityOwner = p
  BY DEF Idle, IdleDecoder, OwnedDecoder
<1>3. QED
  BY <1>1, <1>2, ArbiterAssumption DEF Decoder

\* AnswerInv holds of the initial tables and is kept by the one step.
LEMMA AnswerInvInvariant == ArbiterSpec => []AnswerInv
<1>1. ArbiterInit => AnswerInv
  BY DEF ArbiterInit, AnswerInv, NoRequest, Asked
<1>2. AnswerInv /\ [ArbiterNext]_arbiterVars => AnswerInv'
  <2> SUFFICES ASSUME AnswerInv, [ArbiterNext]_arbiterVars PROVE AnswerInv'
    OBVIOUS
  <2>1. CASE ArbiterNext
    <3>1. PICK tieWins \in BOOLEAN, p \in AskedPriorities, u \in Usages :
            /\ request' = [tieWins |-> tieWins, priority |-> p, usage |-> u]
            /\ answer' = FindSuitableResource(res, ids, TRUE, tieWins, p, u)
            /\ res' = res
      BY <2>1 DEF ArbiterNext
    <3>2. request'.tieWins = tieWins /\ request'.priority = p /\ request'.usage = u
      BY <3>1
    <3>3. answer' = Answered'
      BY <3>1, <3>2 DEF Answered
    <3>4. QED
      BY <3>1, <3>2, <3>3 DEF AnswerInv
  <2>2. CASE UNCHANGED arbiterVars
    BY <2>2 DEF AnswerInv, Asked, Answered, arbiterVars
  <2>3. QED
    BY <2>1, <2>2
<1>3. QED
  BY <1>1, <1>2, PTL DEF ArbiterSpec

\* What the answer says in terms of the decoders that can serve the request.
LEMMA AnswerMeaning ==
  ASSUME AnswerInv, Asked
  PROVE  /\ answer.suitable \in Fitting \cup {Nobody}
         /\ answer.pending \in Fitting \cup {Nobody}
         /\ answer.suitable # Nobody =>
              \/ Yields(res[answer.suitable], request.priority, request.usage)
              \/ LostByTie(res[answer.suitable], request.tieWins, request.priority, request.usage)
         /\ answer.suitable = Nobody =>
              \A i \in Fitting :
                /\ Kept(res[i], request.tieWins, request.priority, request.usage)
                /\ answer.pending # Nobody
         /\ FreeFirstInGroup
<1> DEFINE fitting == {i \in ToSet(ids) : /\ Eligible(res[i], request.usage)
                                        /\ ~TooSmall(res[i], TRUE, request.usage)}
           open == {i \in fitting : Yields(res[i], request.priority, request.usage)}
           ideal == {i \in open : Ideal(res[i], request.usage)}
           group == IF ideal # {} THEN ideal ELSE open
<1>1. ids \in Seq(1..Decoders) /\ ToSet(ids) = 1..Decoders
  BY ArbiterAssumption DEF ids, ToSet
<1>2. fitting = Fitting
  BY <1>1 DEF Fitting, Fits
<1>3. open = Contestable
  BY <1>2 DEF Contestable, Yields
<1>4. answer = Answered /\ request.tieWins \in BOOLEAN
  BY DEF AnswerInv
<1>5. /\ answer.suitable \in fitting \cup {Nobody}
      /\ answer.pending \in fitting \cup {Nobody}
      /\ answer.suitable # Nobody =>
           \/ Yields(res[answer.suitable], request.priority, request.usage)
           \/ LostByTie(res[answer.suitable], request.tieWins, request.priority, request.usage)
      /\ answer.suitable = Nobody =>
           \A i \in fitting :
             /\ Kept(res[i], request.tieWins, request.priority, request.usage)
             /\ answer.pending # Nobody
      /\ open # {} => /\ answer.suitable \in group
                      /\ Owned(res[answer.suitable]) => \A k \in group : Owned(res[k])
  <2>1. Suits(res, ids, TRUE, request.tieWins, request.priority, request.usage, answer)
    BY <1>1, <1>4, ArbiterAssumption, FindSuitable DEF Answered
  <2>2. QED
    BY <2>1, Zenon DEF Suits
<1>6. FreeFirstInGroup
  BY <1>3, <1>5 DEF FreeFirstInGroup
<1>7. QED
  BY <1>2, <1>5, <1>6

\* Whatever the table and the request, a decoder that is given can serve the
\* request and is not taken from a more important owner, nor on a tie from
\* an owner that wins it.
THEOREM ArbiterTakesOnlyFromWeaker == ArbiterSpec => []OnlyFromWeaker
<1>1. AnswerInv => OnlyFromWeaker
  <2> SUFFICES ASSUME AnswerInv, Asked, answer.suitable # Nobody
               PROVE  LET i == answer.suitable
                      IN  /\ i \in Fitting
                          /\ Owned(res[i]) =>
                               /\ res[i].priorityOwner >= request.priority
                               /\ Tied(res[i], request.priority, request.usage) => request.tieWins
    BY DEF OnlyFromWeaker
  <2> DEFINE i == answer.suitable
  <2>0. AnswerInv
    OBVIOUS
  <2>1. /\ i \in Fitting
        /\ \/ Yields(res[i], request.priority, request.usage)
           \/ LostByTie(res[i], request.tieWins, request.priority, request.usage)
    BY AnswerMeaning
  <2>2. res[i] \in Decoder /\ request.priority \in Int
    <3>1. res \in [1..Decoders -> Decoder] /\ request.priority \in AskedPriorities \cup {0}
      BY <2>0 DEF AnswerInv
    <3>2. i \in 1..Decoders
      BY <2>1 DEF Fitting
    <3> HIDE DEF i
    <3>3. request.priority \in Int
      <4>1. \A p \in AskedPriorities : p \in Int
        BY ArbiterAssumption
      <4>2. QED
        BY <3>1, <4>1
    <3>4. QED
      BY <3>1, <3>2, <3>3
  <2>3. res[i].priorityOwner \in Int
    BY <2>2, DecoderPriority
  <2> HIDE DEF i
  <2>4. i \in Fitting /\ (Owned(res[i]) =>
                               /\ res[i].priorityOwner >= request.priority
                               /\ Tied(res[i], request.priority, request.usage) => request.tieWins)
    BY <2>1, <2>2, <2>3 DEF Yields, LostByTie, Tied, Outranks
  <2>5. QED
    BY <2>4 DEF i
<1>2. QED
  BY <1>1, AnswerInvInvariant, PTL

\* A request that gets nothing is turned away for good only when no decoder
\* could serve it; otherwise it is told to wait for one that could, and each
\* of those is held by an owner it cannot displace.
THEOREM ArbiterDeniesOnlyIfUnservable == ArbiterSpec => []DeniedOnlyIfUnservable
<1>1. AnswerInv => DeniedOnlyIfUnservable
  <2> SUFFICES ASSUME AnswerInv, Asked, answer.suitable = Nobody
               PROVE  /\ Fitting = {} <=> answer.pending = Nobody
                      /\ Contestable = {}
                      /\ answer.pending # Nobody => answer.pending \in Fitting
    BY DEF DeniedOnlyIfUnservable
  <2>1. /\ answer.pending \in Fitting \cup {Nobody}
        /\ \A i \in Fitting : /\ Kept(res[i], request.tieWins, request.priority, request.usage)
                              /\ answer.pending # Nobody
    BY AnswerMeaning
  <2>2. Contestable = {}
    BY <2>1 DEF Contestable, Kept
  <2>3. QED
    BY <2>1, <2>2
<1>2. QED
  BY <1>1, AnswerInvInvariant, PTL

\* The choice is made among the ideal decoders when one of them can be had,
\* and inside the group nobody is preempted while a free decoder is left.
THEOREM ArbiterFreeFirst == ArbiterSpec => []FreeFirstInGroup
<1>1. AnswerInv => FreeFirstInGroup
  BY AnswerMeaning DEF FreeFirstInGroup
<1>2. QED
  BY <1>1, AnswerInvInvariant, PTL

----------------------------------------------------------------------------
(* The pending lists.                                                      *)

\* The entries of s, in this order, are the list that starts at "first".
List(c, first, s) ==
  /\ s \in Seq(Entries)
  /\ IsInjective(s)
  /\ first = IF s = <<>> THEN Nil ELSE s[1]
  /\ \A i \in 1..Len(s) :
       /\ c.next[s[i]] = IF i = Len(s) THEN Nil ELSE s[i+1]
       /\ c.prev[s[i]] = IF i = 1 THEN Nil ELSE s[i-1]

\* The control block holds the pool p and the pending lists q.
Stored(c, p, q) ==
  /\ q \in [Items -> Seq(Entries)]
  /\ List(c, c.pendingPoolIdx, p)
  /\ \A r \in Items : List(c, c.pendingNtfyIdx[r], q[r])
  /\ \A r \in Items : ToSet(p) \cap ToSet(q[r]) = {}
  /\ \A r, s \in Items : r # s => ToSet(q[r]) \cap ToSet(q[s]) = {}

\* The entry is in no list.
Unlisted(e, p, q) == e \notin ToSet(p) /\ \A r \in Items : e \notin ToSet(q[r])

\* What the links of the pool and of the pending lists read as.
Pool == Chain(ctrl, ctrl.pendingPoolIdx)
Lists == [r \in Items |-> Pending(ctrl, r)]

\* The inductive invariant: the chains that are read are well-formed lists
\* that share no entry, and the entry of a waiting preemption is in none.
PoolInv ==
  /\ TypeOK
  /\ Stored(ctrl, Pool, Lists)
  /\ held # Nil => Unlisted(held, Pool, Lists)

\* The control blocks.
Blocks ==
  [next : [Entries -> Links], prev : [Entries -> Links],
   priorityUser : [Entries -> Priorities \cup {0}],
   pendingPoolIdx : Links, pendingNtfyIdx : [Items -> Links]]

----------------------------------------------------------------------------
(* Reading a list.                                                         *)

\* No list is longer than the array.
LEMMA ListShort ==
  ASSUME NEW c, NEW first, NEW s, List(c, first, s)
  PROVE  Len(s) \in Nat /\ Len(s) <= PoolItems
<1>1. s \in Seq(Entries) /\ IsInjective(s) /\ Len(s) \in Nat /\ DOMAIN s = 1..Len(s)
  BY DEF List
<1>2. s \in [1..Len(s) -> Entries]
  BY <1>1
<1>3. s \in Injection(1..Len(s), Entries)
  BY <1>1, <1>2 DEF Injection, IsInjective
<1>4. PoolItems \in Nat /\ PoolItems - 1 \in Int /\ ~(0 > PoolItems - 1)
  BY PoolAssumption
<1>5. IsFiniteSet(Entries) /\ Cardinality(Entries) = PoolItems
  BY <1>4, FS_Interval DEF Entries
<1>6. Cardinality(1..Len(s)) = Len(s)
  BY <1>1, FS_Interval
<1>7. Cardinality(1..Len(s)) <= Cardinality(Entries)
  BY <1>3, <1>5, FS_Injection
<1>8. QED
  BY <1>1, <1>5, <1>6, <1>7

\* Following the links from its first entry reads the whole list.
LEMMA ListRead ==
  ASSUME NEW c, NEW first, NEW s, List(c, first, s)
  PROVE  Chain(c, first) = s
<1> DEFINE L == Len(s)
           Is(f) == f = [k \in 0..PoolItems |->
                           IF k = 0 THEN first
                           ELSE IF f[k-1] = Nil THEN Nil ELSE c.next[f[k-1]]]
           g == [k \in 0..PoolItems |-> IF k < L THEN s[k+1] ELSE Nil]
           nth == CHOOSE f : Is(f)
<1>1. L \in Nat /\ L <= PoolItems /\ PoolItems \in Nat
  BY ListShort, PoolAssumption
<1>2. s \in Seq(Entries) /\ \A i \in 1..L : s[i] \in Entries /\ s[i] # Nil
  BY PoolAssumption DEF List, Entries, Nil
<1>3. ASSUME NEW k \in 0..PoolItems
      PROVE  g[k] = IF k = 0 THEN first
                    ELSE IF g[k-1] = Nil THEN Nil ELSE c.next[g[k-1]]
  <2>1. CASE k = 0
    <3>1. first = IF L = 0 THEN Nil ELSE s[1]
      BY <1>2 DEF List
    <3>2. QED
      BY <1>1, <2>1, <3>1
  <2>2. CASE k # 0
    <3>1. k - 1 \in 0..PoolItems /\ k \in Nat /\ (k - 1) + 1 = k
      BY <1>1, <2>2
    <3>2. CASE k - 1 < L
      <4>1. k \in 1..L /\ g[k-1] = s[k] /\ g[k-1] # Nil
        BY <1>1, <1>2, <2>2, <3>1, <3>2
      <4>2. c.next[s[k]] = IF k = L THEN Nil ELSE s[k+1]
        BY <4>1 DEF List
      <4>3. g[k] = IF k = L THEN Nil ELSE s[k+1]
        BY <1>1, <4>1
      <4>4. QED
        BY <2>2, <4>1, <4>2, <4>3
    <3>3. CASE ~(k - 1 < L)
      <4>1. g[k-1] = Nil /\ g[k] = Nil
        BY <1>1, <3>1, <3>3
      <4>2. QED
        BY <2>2, <4>1
    <3>4. QED
      BY <3>2, <3>3
  <2>3. QED
    BY <2>1, <2>2
<1>4. Is(g)
  <2>1. g = [k \in 0..PoolItems |-> g[k]]
    OBVIOUS
  <2> HIDE DEF g
  <2>2. QED
    BY <1>3, <2>1
<1>5. Is(nth)
  <2>1. \E f : Is(f)
    BY <1>4
  <2> HIDE DEF Is
  <2>2. QED
    BY <2>1, Zenon
<1>6. \A k \in 0..PoolItems :
        nth[k] = IF k = 0 THEN first ELSE IF nth[k-1] = Nil THEN Nil ELSE c.next[nth[k-1]]
  <2> HIDE DEF nth
  <2>1. QED
    BY <1>5
<1> DEFINE S == {n \in Nat : n <= PoolItems => nth[n] = g[n]}
<1>7. S = Nat
  <2> HIDE DEF nth, g
  <2>1. 0 \in S
    BY <1>1, <1>3, <1>6
  <2>2. ASSUME NEW n \in S PROVE n + 1 \in S
    <3> SUFFICES ASSUME n + 1 <= PoolItems PROVE nth[n+1] = g[n+1]
      OBVIOUS
    <3>1. n + 1 \in 0..PoolItems /\ n + 1 # 0 /\ (n + 1) - 1 = n /\ nth[n] = g[n]
      BY <1>1
    <3>2. nth[n+1] = IF nth[n] = Nil THEN Nil ELSE c.next[nth[n]]
      BY <1>6, <3>1
    <3>3. g[n+1] = IF g[n] = Nil THEN Nil ELSE c.next[g[n]]
      BY <1>3, <3>1
    <3>4. QED
      BY <3>1, <3>2, <3>3
  <2>3. S \in SUBSET Nat
    OBVIOUS
  <2> HIDE DEF S
  <2>4. QED
    BY <2>1, <2>2, <2>3, NatInduct
<1>8. \A k \in 0..PoolItems : nth[k] = g[k]
  <2> SUFFICES ASSUME NEW k \in 0..PoolItems PROVE nth[k] = g[k]
    OBVIOUS
  <2>1. k \in Nat /\ k <= PoolItems
    BY <1>1
  <2>2. k \in S
    <3> HIDE DEF S
    <3>1. QED
      BY <1>7, <2>1
  <2> HIDE DEF nth, g
  <2>3. QED
    BY <2>1, <2>2
<1>9. {k \in 0..PoolItems : nth[k] # Nil} = 0..L-1
  <2> HIDE DEF nth
  <2>1. \A k \in 0..PoolItems : nth[k] = IF k < L THEN s[k+1] ELSE Nil
    BY <1>8
  <2>2. \A k \in 0..L-1 : k \in 0..PoolItems /\ k < L /\ k + 1 \in 1..L
    BY <1>1
  <2>3. \A k \in 0..PoolItems : k < L => k \in 0..L-1
    BY <1>1
  <2>4. QED
    BY <1>2, <2>1, <2>2, <2>3
<1>10. Cardinality(0..L-1) = L
  <2> HIDE DEF L
  <2>1. 0 \in Int /\ L - 1 \in Int /\ (IF 0 > L - 1 THEN 0 ELSE (L - 1) - 0 + 1) = L
    BY <1>1
  <2>2. QED
    BY <2>1, FS_Interval
<1>11. Chain(c, first) = [i \in 1..Cardinality({k \in 0..PoolItems : nth[k] # Nil}) |-> nth[i-1]]
  BY DEF Chain
<1>12. \A i \in 1..L : nth[i-1] = s[i]
  <2> HIDE DEF nth
  <2>1. \A i \in 1..L : i - 1 \in 0..PoolItems /\ i - 1 < L /\ (i - 1) + 1 = i
    BY <1>1
  <2>2. QED
    BY <1>8, <2>1
<1>13. s = [i \in 1..L |-> s[i]]
  BY <1>2
<1>14. QED
  <2> HIDE DEF nth, L
  <2>1. Chain(c, first) = [i \in 1..L |-> nth[i-1]]
    BY <1>9, <1>10, <1>11
  <2>2. QED
    BY <1>12, <1>13, <2>1

\* What a control block stores is read from it.
LEMMA StoredRead ==
  ASSUME NEW c, NEW p, NEW q, Stored(c, p, q)
  PROVE  /\ Chain(c, c.pendingPoolIdx) = p
         /\ \A r \in Items : Pending(c, r) = q[r]
  BY ListRead DEF Stored, Pending

\* What a list looks like at its ends and inside.
LEMMA ListFacts ==
  ASSUME NEW c, NEW first, NEW s, List(c, first, s)
  PROVE  /\ s \in Seq(Entries) /\ Len(s) \in Nat /\ DOMAIN s = 1..Len(s)
         /\ \A i \in 1..Len(s) : s[i] \in Entries /\ s[i] # Nil /\ s[i] \in ToSet(s)
         /\ \A i, j \in 1..Len(s) : s[i] = s[j] => i = j
         /\ \A e \in ToSet(s) : \E i \in 1..Len(s) : e = s[i]
         /\ s = <<>> <=> Len(s) = 0
         /\ first = Nil <=> Len(s) = 0
<1>1. s \in Seq(Entries) /\ IsInjective(s) /\ first = IF s = <<>> THEN Nil ELSE s[1]
  BY DEF List
<1>2. Len(s) \in Nat /\ DOMAIN s = 1..Len(s) /\ (s = <<>> <=> Len(s) = 0)
  BY <1>1
<1>3. \A i \in 1..Len(s) : s[i] \in Entries /\ s[i] # Nil
  BY <1>1, PoolAssumption DEF Entries, Nil
<1>4. QED
  BY <1>1, <1>2, <1>3 DEF IsInjective, ToSet

\* A list stays when the links of its entries do.
LEMMA ListStays ==
  ASSUME NEW c, NEW d, NEW first, NEW s, List(c, first, s),
         \A e \in ToSet(s) : d.next[e] = c.next[e] /\ d.prev[e] = c.prev[e]
  PROVE  List(d, first, s)
<1>1. \A i \in 1..Len(s) : s[i] \in ToSet(s)
  BY ListFacts
<1>2. QED
  BY <1>1 DEF List
----------------------------------------------------------------------------
(* Linking and unlinking an entry.                                         *)

\* s with e behind its first k entries, and s without the k-th.
Placed(s, k, e) ==
  [i \in 1..Len(s) + 1 |-> IF i <= k THEN s[i] ELSE IF i = k + 1 THEN e ELSE s[i-1]]
Without(s, k) ==
  [i \in 1..Len(s) - 1 |-> IF i < k THEN s[i] ELSE s[i+1]]

\* A new entry makes the sequence longer.
LEMMA PlacedFacts ==
  ASSUME NEW S, NEW s \in Seq(S), NEW k \in 0..Len(s), NEW e \in S
  PROVE  /\ Placed(s, k, e) \in Seq(S) /\ Len(Placed(s, k, e)) = Len(s) + 1
         /\ ToSet(Placed(s, k, e)) = ToSet(s) \cup {e}
         /\ IsInjective(s) /\ e \notin ToSet(s) => IsInjective(Placed(s, k, e))
<1> DEFINE t == Placed(s, k, e)
           L == Len(s)
<1>1. L \in Nat /\ k \in Nat /\ k <= L /\ DOMAIN s = 1..L /\ \A i \in 1..L : s[i] \in S
  OBVIOUS
<1>2. ASSUME NEW i \in 1..L + 1
      PROVE  /\ i <= k => i \in 1..L /\ t[i] = s[i]
             /\ i = k + 1 => t[i] = e
             /\ i > k + 1 => i - 1 \in 1..L /\ t[i] = s[i-1]
  BY <1>1 DEF Placed
<1>3. DOMAIN t = 1..L + 1
  BY DEF Placed
<1>4. \A i \in 1..L + 1 : t[i] \in S
  BY <1>1, <1>2
<1>5. t \in Seq(S) /\ Len(t) = L + 1
  <2>1. t = [i \in 1..L + 1 |-> t[i]]
    BY DEF Placed
  <2> HIDE DEF t
  <2>2. t \in [1..L + 1 -> S] /\ L + 1 \in Nat
    BY <1>1, <1>4, <2>1
  <2>3. QED
    BY <2>2
<1>6. ToSet(t) = ToSet(s) \cup {e}
  <2> HIDE DEF t
  <2>1. \A i \in 1..L + 1 : t[i] \in ToSet(s) \cup {e}
    BY <1>1, <1>2 DEF ToSet
  <2>2. \A i \in 1..L : \E j \in 1..L + 1 : t[j] = s[i]
    <3> SUFFICES ASSUME NEW i \in 1..L PROVE \E j \in 1..L + 1 : t[j] = s[i]
      OBVIOUS
    <3>1. CASE i <= k
      BY <1>1, <1>2, <3>1
    <3>2. CASE i > k
      <4>1. i + 1 \in 1..L + 1 /\ i + 1 > k + 1 /\ (i + 1) - 1 = i
        BY <1>1, <3>2
      <4>2. t[i+1] = s[i]
        BY <1>2, <4>1
      <4>3. QED
        BY <4>1, <4>2
    <3>3. QED
      BY <1>1, <3>1, <3>2
  <2>3. k + 1 \in 1..L + 1 /\ t[k+1] = e
    BY <1>1, <1>2
  <2>4. QED
    BY <1>1, <1>3, <2>1, <2>2, <2>3 DEF ToSet
<1>7. ASSUME IsInjective(s), e \notin ToSet(s) PROVE IsInjective(t)
  <2>1. \A i, j \in 1..L : s[i] = s[j] => i = j
    BY <1>1, <1>7 DEF IsInjective
  <2>2. \A i \in 1..L : s[i] # e
    BY <1>1, <1>7 DEF ToSet
  <2> HIDE DEF t
  <2>3. \A i, j \in 1..L + 1 : t[i] = t[j] => i = j
    <3> SUFFICES ASSUME NEW i \in 1..L + 1, NEW j \in 1..L + 1, t[i] = t[j] PROVE i = j
      OBVIOUS
    <3>1. CASE i <= k
      BY <1>1, <1>2, <2>1, <2>2, <3>1
    <3>2. CASE i = k + 1
      BY <1>1, <1>2, <2>1, <2>2, <3>2
    <3>3. CASE i > k + 1
      BY <1>1, <1>2, <2>1, <2>2, <3>3
    <3>4. QED
      BY <1>1, <3>1, <3>2, <3>3
  <2>4. QED
    BY <1>3, <2>3 DEF IsInjective
<1>8. QED
  BY <1>5, <1>6, <1>7

\* An entry that leaves makes it shorter.
LEMMA WithoutFacts ==
  ASSUME NEW S, NEW s \in Seq(S), NEW k \in 1..Len(s)
  PROVE  /\ Without(s, k) \in Seq(S) /\ Len(Without(s, k)) = Len(s) - 1
         /\ IsInjective(s) => /\ IsInjective(Without(s, k))
                              /\ ToSet(Without(s, k)) = ToSet(s) \ {s[k]}
<1> DEFINE t == Without(s, k)
           L == Len(s)
<1>1. L \in Nat /\ k \in Nat /\ 1 <= k /\ k <= L /\ DOMAIN s = 1..L /\ \A i \in 1..L : s[i] \in S
  OBVIOUS
<1>2. ASSUME NEW i \in 1..L - 1
      PROVE  /\ i \in 1..L /\ i + 1 \in 1..L
             /\ i < k => t[i] = s[i]
             /\ i >= k => t[i] = s[i+1]
  BY <1>1 DEF Without
<1>3. DOMAIN t = 1..L - 1
  BY DEF Without
<1>4. \A i \in 1..L - 1 : t[i] \in S
  BY <1>1, <1>2
<1>5. t \in Seq(S) /\ Len(t) = L - 1
  <2>1. t = [i \in 1..L - 1 |-> t[i]]
    BY DEF Without
  <2> HIDE DEF t
  <2>2. t \in [1..L - 1 -> S] /\ L - 1 \in Nat
    BY <1>1, <1>4, <2>1
  <2>3. QED
    BY <2>2
<1>6. ASSUME IsInjective(s) PROVE IsInjective(t) /\ ToSet(t) = ToSet(s) \ {s[k]}
  <2>1. \A i, j \in 1..L : s[i] = s[j] => i = j
    BY <1>1, <1>6 DEF IsInjective
  <2> HIDE DEF t
  <2>2. \A i, j \in 1..L - 1 : t[i] = t[j] => i = j
    <3> SUFFICES ASSUME NEW i \in 1..L - 1, NEW j \in 1..L - 1, t[i] = t[j] PROVE i = j
      OBVIOUS
    <3>1. CASE i < k
      BY <1>1, <1>2, <2>1, <3>1
    <3>2. CASE i >= k
      BY <1>1, <1>2, <2>1, <3>2
    <3>3. QED
      BY <1>1, <3>1, <3>2
  <2>3. \A i \in 1..L - 1 : \E j \in 1..L : t[i] = s[j] /\ j # k
    <3> SUFFICES ASSUME NEW i \in 1..L - 1 PROVE \E j \in 1..L : t[i] = s[j] /\ j # k
      OBVIOUS
    <3>1. CASE i < k
      BY <1>1, <1>2, <3>1
    <3>2. CASE i >= k
      <4>1. i + 1 \in 1..L /\ t[i] = s[i+1] /\ i + 1 # k
        BY <1>1, <1>2, <3>2
      <4>2. QED
        BY <4>1
    <3>3. QED
      BY <1>1, <3>1, <3>2
  <2>4. \A j \in 1..L : j # k => \E i \in 1..L - 1 : t[i] = s[j]
    <3> SUFFICES ASSUME NEW j \in 1..L, j # k PROVE \E i \in 1..L - 1 : t[i] = s[j]
      OBVIOUS
    <3>1. CASE j < k
      <4>1. j \in 1..L - 1
        BY <1>1, <3>1
      <4>2. QED
        BY <1>2, <3>1, <4>1
    <3>2. CASE j > k
      <4>1. j - 1 \in 1..L - 1 /\ j - 1 >= k /\ (j - 1) + 1 = j
        BY <1>1, <3>2
      <4>2. t[j-1] = s[j]
        BY <1>2, <4>1
      <4>3. QED
        BY <4>1, <4>2
    <3>3. QED
      BY <1>1, <3>1, <3>2
  <2>5. ToSet(t) = ToSet(s) \ {s[k]}
    <3>1. \A x \in ToSet(t) : x \in ToSet(s) /\ x # s[k]
      BY <1>1, <1>3, <2>1, <2>3 DEF ToSet
    <3>2. \A x \in ToSet(s) : x # s[k] => x \in ToSet(t)
      BY <1>1, <1>3, <2>4 DEF ToSet
    <3>3. QED
      BY <3>1, <3>2
  <2>6. QED
    BY <1>3, <2>2, <2>5 DEF IsInjective
<1>7. QED
  BY <1>5, <1>6

\* The links of d are those of c with e put behind the k-th entry of s.
LinkedIn(c, d, s, k, e) ==
  /\ d.next[e] = IF k = Len(s) THEN Nil ELSE s[k+1]
  /\ d.prev[e] = IF k = 0 THEN Nil ELSE s[k]
  /\ \A i \in 1..Len(s) : /\ d.next[s[i]] = IF i = k THEN e ELSE c.next[s[i]]
                          /\ d.prev[s[i]] = IF i = k + 1 THEN e ELSE c.prev[s[i]]

\* They make a list with one entry more.
LEMMA ListPlaced ==
  ASSUME NEW c, NEW d, NEW first, NEW s, List(c, first, s),
         NEW e \in Entries, e \notin ToSet(s), NEW k \in 0..Len(s),
         LinkedIn(c, d, s, k, e)
  PROVE  List(d, IF k = 0 THEN e ELSE first, Placed(s, k, e))
<1> PICK L : L = Len(s)
  OBVIOUS
<1>0. /\ d.next[e] = IF k = L THEN Nil ELSE s[k+1]
      /\ d.prev[e] = IF k = 0 THEN Nil ELSE s[k]
      /\ \A i \in 1..L : d.next[s[i]] = IF i = k THEN e ELSE c.next[s[i]]
      /\ \A i \in 1..L : d.prev[s[i]] = IF i = k + 1 THEN e ELSE c.prev[s[i]]
  BY DEF LinkedIn
<1> DEFINE t == Placed(s, k, e)
<1>1. s \in Seq(Entries) /\ L \in Nat /\ k \in Nat /\ k <= L /\ IsInjective(s)
  BY DEF List
<1>2. t \in Seq(Entries) /\ Len(t) = L + 1 /\ IsInjective(t)
  BY <1>1, PlacedFacts
<1>3. ASSUME NEW i \in 1..L + 1
      PROVE  t[i] = IF i <= k THEN s[i] ELSE IF i = k + 1 THEN e ELSE s[i-1]
  BY DEF Placed
<1>4. \A i \in 1..L : /\ c.next[s[i]] = IF i = L THEN Nil ELSE s[i+1]
                      /\ c.prev[s[i]] = IF i = 1 THEN Nil ELSE s[i-1]
  BY DEF List
<1>5. ASSUME NEW i \in 1..L + 1
      PROVE  /\ d.next[t[i]] = IF i = L + 1 THEN Nil ELSE t[i+1]
             /\ d.prev[t[i]] = IF i = 1 THEN Nil ELSE t[i-1]
  <2> HIDE DEF t
  <2>1. CASE i <= k
    <3>1. i \in 1..L /\ i # L + 1 /\ i + 1 \in 1..L + 1 /\ t[i] = s[i] /\ i # k + 1
      BY <1>1, <1>3, <2>1
    <3>2. d.next[t[i]] = t[i+1]
      <4>1. CASE i = k
        <5>1. t[i+1] = e
          BY <1>1, <1>3, <3>1, <4>1
        <5>2. QED
          BY <1>0, <3>1, <4>1, <5>1
      <4>2. CASE i # k
        <5>1. t[i+1] = s[i+1] /\ i # L
          BY <1>1, <1>3, <2>1, <3>1, <4>2
        <5>2. QED
          BY <1>0, <1>4, <3>1, <4>2, <5>1
      <4>3. QED
        BY <4>1, <4>2
    <3>3. d.prev[t[i]] = IF i = 1 THEN Nil ELSE t[i-1]
      <4>1. d.prev[t[i]] = IF i = 1 THEN Nil ELSE s[i-1]
        BY <1>0, <1>4, <3>1
      <4>2. i # 1 => t[i-1] = s[i-1]
        BY <1>1, <1>3, <2>1, <3>1
      <4>3. QED
        BY <4>1, <4>2
    <3>4. QED
      BY <3>1, <3>2, <3>3
  <2>2. CASE i = k + 1
    <3>1. t[i] = e
      BY <1>1, <1>3, <2>2
    <3>2. k # L => t[i+1] = s[k+1]
      <4>1. k # L => i + 1 \in 1..L + 1 /\ (i + 1) - 1 = k + 1 /\ i + 1 > k + 1
        BY <1>1, <2>2
      <4>2. QED
        BY <1>1, <1>3, <4>1
    <3>3. k # 0 => t[i-1] = s[k]
      <4>1. k # 0 => i - 1 \in 1..L + 1 /\ i - 1 = k
        BY <1>1, <2>2
      <4>2. QED
        BY <1>1, <1>3, <4>1
    <3>4. (i = L + 1 <=> k = L) /\ (i = 1 <=> k = 0)
      BY <1>1, <2>2
    <3>5. QED
      BY <1>0, <3>1, <3>2, <3>3, <3>4
  <2>3. CASE i > k + 1
    <3>1. i - 1 \in 1..L /\ t[i] = s[i-1] /\ i - 1 # k /\ (i - 1 = L <=> i = L + 1) /\ i # 1
      <4>1. i - 1 \in 1..L /\ i - 1 # k /\ (i - 1 = L <=> i = L + 1) /\ i # 1
              /\ ~(i <= k) /\ i # k + 1
        BY <1>1, <2>3
      <4>2. t[i] = s[i-1]
        BY <1>3, <4>1
      <4>3. QED
        BY <4>1, <4>2
    <3>2. i # L + 1 => i + 1 \in 1..L + 1 /\ t[i+1] = s[i]
      <4>1. i # L + 1 => i + 1 \in 1..L + 1 /\ (i + 1) - 1 = i /\ i + 1 > k + 1
        BY <1>1, <2>3
      <4>2. QED
        BY <1>1, <1>3, <4>1
    <3>3. d.next[t[i]] = IF i = L + 1 THEN Nil ELSE t[i+1]
      <4>1. d.next[t[i]] = c.next[s[i-1]] /\ (i - 1) + 1 = i
        BY <1>0, <3>1
      <4>2. c.next[s[i-1]] = IF i = L + 1 THEN Nil ELSE s[i]
        BY <1>4, <3>1, <4>1
      <4>3. QED
        BY <3>2, <4>1, <4>2
    <3>4. d.prev[t[i]] = t[i-1]
      <4>1. CASE i - 1 = k + 1
        <5>1. i - 1 \in 1..L + 1 /\ t[i-1] = e
          BY <1>1, <1>3, <3>1, <4>1
        <5>2. QED
          BY <1>0, <3>1, <4>1, <5>1
      <4>2. CASE i - 1 # k + 1
        <5>1. i - 1 \in 1..L + 1 /\ t[i-1] = s[i-2] /\ i - 1 # 1 /\ (i - 1) - 1 = i - 2
          BY <1>1, <1>3, <2>3, <3>1, <4>2
        <5>2. QED
          BY <1>0, <1>4, <3>1, <4>2, <5>1
      <4>3. QED
        BY <4>1, <4>2
    <3>5. QED
      BY <3>1, <3>3, <3>4
  <2>4. QED
    BY <1>1, <2>1, <2>2, <2>3
<1>6. (IF k = 0 THEN e ELSE first) = IF t = <<>> THEN Nil ELSE t[1]
  <2>1. t # <<>>
    BY <1>1, <1>2
  <2>2. k = 0 => t[1] = e
    BY <1>1, <1>3
  <2>3. k # 0 => s # <<>> /\ t[1] = s[1]
    <3>1. 1 \in 1..L + 1
      BY <1>1
    <3>2. QED
      BY <1>1, <1>3, <3>1
  <2>4. s # <<>> => first = s[1]
    BY DEF List
  <2> HIDE DEF t
  <2>5. QED
    BY <2>1, <2>2, <2>3, <2>4
<1>7. QED
  <2> HIDE DEF t
  <2>1. List(d, IF k = 0 THEN e ELSE first, t)
    BY <1>2, <1>5, <1>6 DEF List
  <2>2. QED
    BY <2>1 DEF t

\* The links of d are those of c with the k-th entry of s left out.
LinkedOut(c, d, s, k) ==
  \A i \in 1..Len(s) : i # k =>
    /\ d.next[s[i]] = IF i + 1 = k THEN c.next[s[k]] ELSE c.next[s[i]]
    /\ d.prev[s[i]] = IF i = k + 1 THEN c.prev[s[k]] ELSE c.prev[s[i]]

\* They make a list with one entry less.
LEMMA ListWithout ==
  ASSUME NEW c, NEW d, NEW first, NEW s, List(c, first, s), NEW k \in 1..Len(s),
         LinkedOut(c, d, s, k)
  PROVE  List(d, IF k = 1 THEN c.next[s[1]] ELSE first, Without(s, k))
<1> \A i \in 1..Len(s) : i # k =>
      /\ d.next[s[i]] = IF i + 1 = k THEN c.next[s[k]] ELSE c.next[s[i]]
      /\ d.prev[s[i]] = IF i = k + 1 THEN c.prev[s[k]] ELSE c.prev[s[i]]
  BY DEF LinkedOut
<1> DEFINE t == Without(s, k)
           L == Len(s)
<1>1. s \in Seq(Entries) /\ L \in Nat /\ k \in Nat /\ 1 <= k /\ k <= L /\ IsInjective(s)
  BY DEF List
<1>2. t \in Seq(Entries) /\ Len(t) = L - 1 /\ IsInjective(t)
  BY <1>1, WithoutFacts
<1>3. ASSUME NEW i \in 1..L - 1 PROVE t[i] = IF i < k THEN s[i] ELSE s[i+1]
  BY DEF Without
<1>4. \A i \in 1..L : /\ c.next[s[i]] = IF i = L THEN Nil ELSE s[i+1]
                      /\ c.prev[s[i]] = IF i = 1 THEN Nil ELSE s[i-1]
  BY DEF List
<1>5. ASSUME NEW i \in 1..L - 1
      PROVE  /\ d.next[t[i]] = IF i = L - 1 THEN Nil ELSE t[i+1]
             /\ d.prev[t[i]] = IF i = 1 THEN Nil ELSE t[i-1]
  <2> HIDE DEF t
  <2>1. CASE i < k
    <3>1. i \in 1..L /\ t[i] = s[i] /\ i # k /\ i # k + 1
      BY <1>1, <1>3, <2>1
    <3>2. d.next[t[i]] = IF i = L - 1 THEN Nil ELSE t[i+1]
      <4>1. CASE i + 1 = k
        <5>1. d.next[t[i]] = IF k = L THEN Nil ELSE s[k+1]
          BY <1>4, <3>1, <4>1
        <5>2. i # L - 1 => i + 1 \in 1..L - 1 /\ t[i+1] = s[k+1]
          BY <1>1, <1>3, <4>1
        <5>3. i = L - 1 <=> k = L
          BY <1>1, <4>1
        <5>4. QED
          BY <5>1, <5>2, <5>3
      <4>2. CASE i + 1 # k
        <5>1. i + 1 \in 1..L - 1 /\ i + 1 < k /\ i # L /\ i # L - 1
          BY <1>1, <2>1, <4>2
        <5>2. t[i+1] = s[i+1]
          BY <1>3, <5>1
        <5>3. QED
          BY <1>4, <3>1, <4>2, <5>1, <5>2
      <4>3. QED
        BY <4>1, <4>2
    <3>3. d.prev[t[i]] = IF i = 1 THEN Nil ELSE t[i-1]
      <4>1. i # 1 => i - 1 \in 1..L - 1 /\ i - 1 < k
        BY <1>1, <2>1
      <4>2. i # 1 => t[i-1] = s[i-1]
        BY <1>3, <4>1
      <4>3. QED
        BY <1>4, <3>1, <4>2
    <3>4. QED
      BY <3>2, <3>3
  <2>2. CASE i >= k
    <3>1. i + 1 \in 1..L /\ t[i] = s[i+1] /\ i + 1 # k /\ (i + 1) + 1 # k
      <4>1. i + 1 \in 1..L /\ i + 1 # k /\ (i + 1) + 1 # k /\ ~(i < k)
        BY <1>1, <2>2
      <4>2. t[i] = s[i+1]
        BY <1>3, <4>1
      <4>3. QED
        BY <4>1, <4>2
    <3>2. d.next[t[i]] = IF i = L - 1 THEN Nil ELSE t[i+1]
      <4>1. d.next[t[i]] = IF i + 1 = L THEN Nil ELSE s[(i+1)+1]
        BY <1>4, <3>1
      <4>2. i # L - 1 => i + 1 \in 1..L - 1 /\ ~(i + 1 < k)
        BY <1>1, <2>2
      <4>3. i # L - 1 => t[i+1] = s[(i+1)+1]
        <5> SUFFICES ASSUME i # L - 1 PROVE t[i+1] = s[(i+1)+1]
          OBVIOUS
        <5>1. PICK j : j = i + 1 /\ j \in 1..L - 1 /\ ~(j < k)
          BY <4>2
        <5>2. t[j] = s[j+1]
          BY <1>3, <5>1
        <5>3. QED
          BY <5>1, <5>2
      <4>4. i = L - 1 <=> i + 1 = L
        <5>1. L \in Nat
          BY <1>1
        <5> HIDE DEF L
        <5>2. QED
          BY <5>1
      <4>5. QED
        BY <4>1, <4>3, <4>4
    <3>3. d.prev[t[i]] = IF i = 1 THEN Nil ELSE t[i-1]
      <4>1. CASE i = k
        <5>1. d.prev[t[i]] = IF i = 1 THEN Nil ELSE s[i-1]
          BY <1>4, <3>1, <4>1
        <5>2. i # 1 => i - 1 \in 1..L - 1 /\ i - 1 < k
          BY <1>1, <4>1
        <5>3. i # 1 => t[i-1] = s[i-1]
          BY <1>3, <5>2
        <5>4. QED
          BY <5>1, <5>3
      <4>2. CASE i # k
        <5>1. i - 1 \in 1..L - 1 /\ ~(i - 1 < k) /\ (i - 1) + 1 = i /\ i # 1
                /\ i + 1 # k + 1 /\ (i + 1) - 1 = i /\ i + 1 # 1
          BY <1>1, <2>2, <4>2
        <5>2. t[i-1] = s[i]
          BY <1>3, <5>1
        <5>3. c.prev[s[i+1]] = s[i]
          BY <1>4, <3>1, <5>1
        <5>4. QED
          BY <3>1, <5>1, <5>2, <5>3
      <4>3. QED
        BY <4>1, <4>2
    <3>4. QED
      BY <3>2, <3>3
  <2>3. QED
    BY <1>1, <2>1, <2>2
<1>6. (IF k = 1 THEN c.next[s[1]] ELSE first) = IF t = <<>> THEN Nil ELSE t[1]
  <2>1. t = <<>> <=> L = 1
    BY <1>1, <1>2
  <2>2. first = s[1] /\ 1 \in 1..L
    <3>1. s # <<>> /\ 1 \in 1..L
      BY <1>1
    <3>2. QED
      BY <3>1 DEF List
  <2>3. c.next[s[1]] = IF L = 1 THEN Nil ELSE s[2]
    <3>1. c.next[s[1]] = IF 1 = L THEN Nil ELSE s[1+1]
      BY <1>4, <2>2
    <3>2. QED
      BY <3>1
  <2>4. L # 1 => 1 \in 1..L - 1
    <3>1. L \in Nat /\ 1 <= L
      BY <1>1
    <3> HIDE DEF L
    <3>2. QED
      BY <3>1
  <2>5. L # 1 => t[1] = IF k = 1 THEN s[2] ELSE s[1]
    BY <1>1, <1>3, <2>4
  <2>6. L = 1 => k = 1
    BY <1>1
  <2> HIDE DEF t
  <2>7. QED
    BY <2>1, <2>2, <2>3, <2>5, <2>6
<1>7. QED
  <2> HIDE DEF t, L
  <2>1. List(d, IF k = 1 THEN c.next[s[1]] ELSE first, t)
    BY <1>2, <1>5, <1>6 DEF List
  <2>2. QED
    BY <2>1 DEF t

----------------------------------------------------------------------------
(* The operations on the control block.                                    *)

\* From c to d, no first but that of r is written, and no entry outside S.
OneListWritten(c, d, r, S) ==
  /\ d.pendingPoolIdx = c.pendingPoolIdx
  /\ \A u \in Items : u # r => d.pendingNtfyIdx[u] = c.pendingNtfyIdx[u]
  /\ \A x \in Entries : x \notin S => d.next[x] = c.next[x] /\ d.prev[x] = c.prev[x]

\* One pending list changes, and at most one unlisted entry with it.
LEMMA OneListChanges ==
  ASSUME NEW c, NEW p, NEW q, Stored(c, p, q), NEW r \in Items,
         NEW d, NEW e, Unlisted(e, p, q), OneListWritten(c, d, r, ToSet(q[r]) \cup {e}),
         NEW t, List(d, d.pendingNtfyIdx[r], t), ToSet(t) \subseteq ToSet(q[r]) \cup {e}
  PROVE  Stored(d, p, [q EXCEPT ![r] = t])
<1>0. /\ d.pendingPoolIdx = c.pendingPoolIdx
      /\ \A u \in Items : u # r => d.pendingNtfyIdx[u] = c.pendingNtfyIdx[u]
      /\ \A x \in Entries : x \notin ToSet(q[r]) \cup {e} =>
           d.next[x] = c.next[x] /\ d.prev[x] = c.prev[x]
  BY DEF OneListWritten
<1>1. /\ q \in [Items -> Seq(Entries)] /\ List(c, c.pendingPoolIdx, p)
      /\ \A s \in Items : List(c, c.pendingNtfyIdx[s], q[s])
      /\ \A s \in Items : ToSet(p) \cap ToSet(q[s]) = {}
      /\ \A s, u \in Items : s # u => ToSet(q[s]) \cap ToSet(q[u]) = {}
  BY DEF Stored
<1>2. PICK z : z = [q EXCEPT ![r] = t]
  OBVIOUS
<1>3. t \in Seq(Entries)
  BY DEF List
<1>4. z \in [Items -> Seq(Entries)] /\ z[r] = t /\ \A s \in Items : s # r => z[s] = q[s]
  BY <1>1, <1>2, <1>3
<1>5. e \notin ToSet(p) /\ \A s \in Items : e \notin ToSet(q[s])
  BY DEF Unlisted
<1>6. List(d, d.pendingPoolIdx, p)
  <2>1. \A x \in ToSet(p) : x \in Entries
    BY <1>1, ListFacts
  <2>2. \A x \in ToSet(p) : d.next[x] = c.next[x] /\ d.prev[x] = c.prev[x]
    BY <1>0, <1>1, <1>5, <2>1
  <2>3. QED
    BY <1>0, <1>1, <2>2, ListStays
<1>7. ASSUME NEW s \in Items PROVE List(d, d.pendingNtfyIdx[s], z[s])
  <2>1. CASE s = r
    BY <1>4, <2>1
  <2>2. CASE s # r
    <3>1. \A x \in ToSet(q[s]) : x \in Entries
      BY <1>1, ListFacts
    <3>2. \A x \in ToSet(q[s]) : d.next[x] = c.next[x] /\ d.prev[x] = c.prev[x]
      BY <1>0, <1>1, <1>5, <2>2, <3>1
    <3>3. QED
      BY <1>0, <1>1, <1>4, <2>2, <3>2, ListStays
  <2>3. QED
    BY <2>1, <2>2
<1>8. \A s \in Items : ToSet(p) \cap ToSet(z[s]) = {}
  <2>1. ToSet(p) \cap ToSet(t) = {}
    <3>1. ToSet(p) \cap ToSet(q[r]) = {}
      BY <1>1
    <3>2. QED
      BY <1>5, <3>1
  <2>2. QED
    BY <1>1, <1>4, <2>1
<1>9. ASSUME NEW s \in Items, NEW u \in Items, s # u PROVE ToSet(z[s]) \cap ToSet(z[u]) = {}
  <2>1. CASE s = r
    BY <1>1, <1>4, <1>5, <1>9, <2>1
  <2>2. CASE u = r
    BY <1>1, <1>4, <1>5, <1>9, <2>2
  <2>3. CASE s # r /\ u # r
    BY <1>1, <1>4, <1>9, <2>3
  <2>4. QED
    BY <2>1, <2>2, <2>3
<1>10. QED
  <2>1. Stored(d, p, z)
    BY <1>4, <1>6, <1>7, <1>8, <1>9 DEF Stored
  <2>2. QED
    BY <1>2, <2>1

\* The pool changes, and at most one unlisted entry with it.
LEMMA PoolChanges ==
  ASSUME NEW c, NEW p, NEW q, Stored(c, p, q),
         NEW d, d.pendingNtfyIdx = c.pendingNtfyIdx,
         NEW e, Unlisted(e, p, q),
         \A x \in Entries : x \notin ToSet(p) \cup {e} =>
           d.next[x] = c.next[x] /\ d.prev[x] = c.prev[x],
         NEW t, List(d, d.pendingPoolIdx, t), ToSet(t) \subseteq ToSet(p) \cup {e}
  PROVE  Stored(d, t, q)
<1>1. /\ q \in [Items -> Seq(Entries)] /\ List(c, c.pendingPoolIdx, p)
      /\ \A s \in Items : List(c, c.pendingNtfyIdx[s], q[s])
      /\ \A s \in Items : ToSet(p) \cap ToSet(q[s]) = {}
      /\ \A s, u \in Items : s # u => ToSet(q[s]) \cap ToSet(q[u]) = {}
  BY DEF Stored
<1>2. \A s \in Items : e \notin ToSet(q[s])
  BY DEF Unlisted
<1>3. ASSUME NEW s \in Items PROVE List(d, d.pendingNtfyIdx[s], q[s])
  <2>1. \A x \in ToSet(q[s]) : x \in Entries
    BY <1>1, ListFacts
  <2>2. \A x \in ToSet(q[s]) : d.next[x] = c.next[x] /\ d.prev[x] = c.prev[x]
    BY <1>1, <1>2, <2>1
  <2>3. QED
    BY <1>1, <2>2, ListStays
<1>4. \A s \in Items : ToSet(t) \cap ToSet(q[s]) = {}
  BY <1>1, <1>2
<1>5. QED
  BY <1>1, <1>3, <1>4 DEF Stored

\* essRMGetPendingPoolItem takes the first entry of the pool.
LEMMA GetKeeps ==
  ASSUME NEW c \in Blocks, NEW p, NEW q, Stored(c, p, q), c.pendingPoolIdx # Nil
  PROVE  LET d == GetPendingPoolItem(c)
             e == c.pendingPoolIdx
         IN  /\ e \in Entries /\ p # <<>> /\ e = p[1] /\ d \in Blocks
             /\ d.priorityUser = c.priorityUser
             /\ Stored(d, Without(p, 1), q)
             /\ Unlisted(e, Without(p, 1), q)
<1>1. PICK e : e = c.pendingPoolIdx
  OBVIOUS
<1>2. PICK n : n = c.next[e]
  OBVIOUS
<1>3. PICK d : d = GetPendingPoolItem(c)
  OBVIOUS
<1>4. List(c, e, p) /\ \A r \in Items : ToSet(p) \cap ToSet(q[r]) = {}
  BY <1>1 DEF Stored
<1>5. /\ p \in Seq(Entries) /\ Len(p) \in Nat /\ Len(p) > 0 /\ p # <<>>
      /\ e = p[1] /\ e \in Entries /\ e \in ToSet(p)
      /\ IsInjective(p)
      /\ \A i \in 1..Len(p) : p[i] \in Entries /\ p[i] # Nil
      /\ \A i, j \in 1..Len(p) : p[i] = p[j] => i = j
  <2>1. p \in Seq(Entries) /\ Len(p) \in Nat /\ Len(p) > 0
    BY <1>1, <1>4, ListFacts
  <2>2. p # <<>> /\ 1 \in 1..Len(p)
    BY <2>1
  <2>3. e = p[1] /\ IsInjective(p)
    BY <1>4, <2>2 DEF List
  <2>4. QED
    BY <1>4, <2>1, <2>2, <2>3, ListFacts
<1>6. n \in Links /\ n = (IF Len(p) = 1 THEN Nil ELSE p[2]) /\ c.prev[e] = Nil
  <2>1. 1 \in 1..Len(p)
    BY <1>5
  <2>2. n = (IF 1 = Len(p) THEN Nil ELSE p[1+1]) /\ c.prev[p[1]] = Nil
    BY <1>2, <1>4, <1>5, <2>1 DEF List
  <2>3. n \in Links
    BY <1>2, <1>5 DEF Blocks
  <2>4. QED
    BY <1>5, <2>2, <2>3
<1>7. /\ d \in Blocks
      /\ d.next = [c.next EXCEPT ![e] = Nil]
      /\ d.prev = IF n = Nil THEN c.prev ELSE [c.prev EXCEPT ![n] = Nil]
      /\ d.priorityUser = c.priorityUser
      /\ d.pendingPoolIdx = n
      /\ d.pendingNtfyIdx = c.pendingNtfyIdx
  BY <1>1, <1>2, <1>3, <1>5, <1>6 DEF GetPendingPoolItem, Blocks, Links
<1>8. List(d, n, Without(p, 1))
  <2>1. \A i \in 1..Len(p) : i # 1 =>
          d.next[p[i]] = IF i + 1 = 1 THEN c.next[p[1]] ELSE c.next[p[i]]
    <3> SUFFICES ASSUME NEW i \in 1..Len(p), i # 1 PROVE d.next[p[i]] = c.next[p[i]]
      BY <1>5
    <3>1. p[i] # e /\ p[i] \in Entries
      BY <1>5
    <3>2. QED
      BY <1>7, <3>1 DEF Blocks
  <2>2. \A i \in 1..Len(p) : i # 1 =>
          d.prev[p[i]] = IF i = 1 + 1 THEN c.prev[p[1]] ELSE c.prev[p[i]]
    <3> SUFFICES ASSUME NEW i \in 1..Len(p), i # 1
                 PROVE  d.prev[p[i]] = IF i = 1 + 1 THEN c.prev[p[1]] ELSE c.prev[p[i]]
      OBVIOUS
    <3>1. p[i] \in Entries /\ Len(p) # 1 /\ n = p[2] /\ 2 \in 1..Len(p) /\ n \in Entries /\ n # Nil
      BY <1>5, <1>6
    <3>2. d.prev = [c.prev EXCEPT ![n] = Nil]
      BY <1>7, <3>1
    <3>3. p[i] = n <=> i = 2
      BY <1>5, <3>1
    <3>4. QED
      BY <1>5, <1>6, <3>1, <3>2, <3>3 DEF Blocks
  <2>3. 1 \in 1..Len(p)
    BY <1>5
  <2>4. List(d, IF 1 = 1 THEN c.next[p[1]] ELSE e, Without(p, 1))
    <3>1. LinkedOut(c, d, p, 1)
      BY <2>1, <2>2 DEF LinkedOut
    <3>2. QED
      BY <1>4, <2>3, <3>1, ListWithout
  <2>5. QED
    BY <1>2, <1>5, <2>4
<1>9. ToSet(Without(p, 1)) = ToSet(p) \ {e}
  <2>1. 1 \in 1..Len(p)
    BY <1>5
  <2>2. QED
    BY <1>5, <2>1, WithoutFacts
<1>10. \A x \in Entries : x \notin ToSet(p) => d.next[x] = c.next[x] /\ d.prev[x] = c.prev[x]
  <2> SUFFICES ASSUME NEW x \in Entries, x \notin ToSet(p)
               PROVE  d.next[x] = c.next[x] /\ d.prev[x] = c.prev[x]
    OBVIOUS
  <2>1. x # e
    BY <1>5
  <2>2. n # Nil => x # n
    <3>1. p \in Seq(Entries) /\ Len(p) \in Nat /\ Len(p) > 0
      BY <1>5
    <3>2. n # Nil => 2 \in 1..Len(p) /\ n = p[2]
      <4>1. PICK L : L = Len(p)
        OBVIOUS
      <4>2. n # Nil => L # 1 /\ n = p[2]
        BY <1>6, <4>1, Zenon
      <4>3. QED
        BY <3>1, <4>1, <4>2
    <3>3. QED
      BY <1>4, <3>2, ListFacts
  <2>3. QED
    BY <1>7, <2>1, <2>2 DEF Blocks
<1>11. Unlisted(Nil, p, q)
  <2>1. \A x \in ToSet(p) : x # Nil
    BY <1>4, ListFacts
  <2>2. \A r \in Items : \A x \in ToSet(q[r]) : x # Nil
    BY ListFacts DEF Stored
  <2>3. QED
    BY <2>1, <2>2 DEF Unlisted
<1>12. Stored(d, Without(p, 1), q)
  <2>1. ToSet(Without(p, 1)) \subseteq ToSet(p) \cup {Nil}
    BY <1>9
  <2>2. \A x \in Entries : x \notin ToSet(p) \cup {Nil} =>
          d.next[x] = c.next[x] /\ d.prev[x] = c.prev[x]
    BY <1>10
  <2>3. List(d, d.pendingPoolIdx, Without(p, 1)) /\ d.pendingNtfyIdx = c.pendingNtfyIdx
    BY <1>7, <1>8
  <2>4. QED
    BY <1>11, <2>1, <2>2, <2>3, PoolChanges
<1>13. Unlisted(e, Without(p, 1), q)
  BY <1>4, <1>5, <1>9 DEF Unlisted
<1>14. QED
  BY <1>1, <1>3, <1>5, <1>7, <1>12, <1>13

\* essRMPutPendingPoolItem puts an entry back on top of the pool.
LEMMA PutKeeps ==
  ASSUME NEW c \in Blocks, NEW p, NEW q, Stored(c, p, q),
         NEW e \in Entries, Unlisted(e, p, q)
  PROVE  LET d == PutPendingPoolItem(c, e)
         IN  /\ d \in Blocks /\ d.priorityUser = c.priorityUser /\ d.pendingPoolIdx = e
             /\ Stored(d, Placed(p, 0, e), q)
<1>1. PICK n : n = c.pendingPoolIdx
  OBVIOUS
<1>2. PICK d : d = PutPendingPoolItem(c, e)
  OBVIOUS
<1>3. List(c, n, p) /\ e \notin ToSet(p) /\ e # Nil
  BY <1>1, PoolAssumption DEF Stored, Unlisted, Entries, Nil
<1>4. /\ p \in Seq(Entries) /\ Len(p) \in Nat /\ 0 \in 0..Len(p)
      /\ \A i \in 1..Len(p) : p[i] \in Entries /\ p[i] # Nil /\ p[i] \in ToSet(p)
      /\ \A i, j \in 1..Len(p) : p[i] = p[j] => i = j
  BY <1>3, ListFacts
<1>5. n \in Links /\ n = IF Len(p) = 0 THEN Nil ELSE p[1]
  <2>1. n \in Links
    BY <1>1 DEF Blocks
  <2>2. n = IF p = <<>> THEN Nil ELSE p[1]
    BY <1>3, Zenon DEF List
  <2>3. p = <<>> <=> Len(p) = 0
    BY <1>3, ListFacts
  <2>4. QED
    BY <2>1, <2>2, <2>3
<1>6. n # e
  <2>1. Len(p) # 0 => 1 \in 1..Len(p)
    BY <1>4
  <2>2. QED
    BY <1>3, <1>4, <1>5, <2>1
<1>7. /\ d \in Blocks
      /\ d.next = [c.next EXCEPT ![e] = n]
      /\ d.prev = [(IF n = Nil THEN c.prev ELSE [c.prev EXCEPT ![n] = e]) EXCEPT ![e] = Nil]
      /\ d.priorityUser = c.priorityUser
      /\ d.pendingPoolIdx = e
      /\ d.pendingNtfyIdx = c.pendingNtfyIdx
  BY <1>1, <1>2, <1>5 DEF PutPendingPoolItem, Blocks, Links
<1>8. ASSUME NEW x \in Entries
      PROVE  /\ d.next[x] = IF x = e THEN n ELSE c.next[x]
             /\ d.prev[x] = IF x = e THEN Nil ELSE IF x = n THEN e ELSE c.prev[x]
  <2>1. c.next \in [Entries -> Links] /\ c.prev \in [Entries -> Links]
    BY DEF Blocks
  <2>2. x # Nil
    BY PoolAssumption DEF Entries, Nil
  <2>3. d.next[x] = IF x = e THEN n ELSE c.next[x]
    BY <1>7, <2>1
  <2>4. CASE n = Nil
    <3>1. d.prev = [c.prev EXCEPT ![e] = Nil]
      BY <1>7, <2>4
    <3>2. QED
      BY <2>1, <2>2, <2>3, <2>4, <3>1
  <2>5. CASE n # Nil
    <3>1. d.prev = [[c.prev EXCEPT ![n] = e] EXCEPT ![e] = Nil]
      BY <1>7, <2>5
    <3>2. QED
      BY <2>1, <2>3, <3>1
  <2>6. QED
    BY <2>4, <2>5
<1>9. List(d, e, Placed(p, 0, e))
  <2>1. d.next[e] = IF 0 = Len(p) THEN Nil ELSE p[0+1]
    BY <1>5, <1>8
  <2>2. d.prev[e] = IF 0 = 0 THEN Nil ELSE p[0]
    BY <1>8
  <2>3. \A i \in 1..Len(p) : d.next[p[i]] = IF i = 0 THEN e ELSE c.next[p[i]]
    <3> SUFFICES ASSUME NEW i \in 1..Len(p) PROVE d.next[p[i]] = c.next[p[i]]
      OBVIOUS
    <3>1. p[i] \in Entries /\ p[i] # e
      BY <1>3, <1>4
    <3>2. QED
      BY <1>8, <3>1
  <2>4. \A i \in 1..Len(p) : d.prev[p[i]] = IF i = 0 + 1 THEN e ELSE c.prev[p[i]]
    <3> SUFFICES ASSUME NEW i \in 1..Len(p)
                 PROVE  d.prev[p[i]] = IF i = 0 + 1 THEN e ELSE c.prev[p[i]]
      OBVIOUS
    <3>1. p[i] \in Entries /\ p[i] # e
      BY <1>3, <1>4
    <3>2. Len(p) # 0 /\ 1 \in 1..Len(p)
      BY <1>4
    <3>3. p[i] = n <=> i = 1
      BY <1>4, <1>5, <3>2
    <3>4. QED
      BY <1>8, <3>1, <3>3
  <2>5. List(d, IF 0 = 0 THEN e ELSE n, Placed(p, 0, e))
    <3>1. LinkedIn(c, d, p, 0, e)
      BY <2>1, <2>2, <2>3, <2>4 DEF LinkedIn
    <3>2. QED
      BY <1>3, <1>4, <3>1, ListPlaced
  <2>6. QED
    BY <2>5
<1>10. ToSet(Placed(p, 0, e)) = ToSet(p) \cup {e}
  BY <1>4, PlacedFacts
<1>11. \A x \in Entries : x \notin ToSet(p) \cup {e} =>
         d.next[x] = c.next[x] /\ d.prev[x] = c.prev[x]
  <2> SUFFICES ASSUME NEW x \in Entries, x \notin ToSet(p), x # e
               PROVE  d.next[x] = c.next[x] /\ d.prev[x] = c.prev[x]
    OBVIOUS
  <2>1. x # n
    <3>1. x # Nil
      BY PoolAssumption DEF Entries, Nil
    <3>2. Len(p) # 0 => 1 \in 1..Len(p)
      BY <1>4
    <3>3. QED
      BY <1>4, <1>5, <3>1, <3>2
  <2>2. QED
    BY <1>8, <2>1
<1>12. Stored(d, Placed(p, 0, e), q)
  <2>1. ToSet(Placed(p, 0, e)) \subseteq ToSet(p) \cup {e}
    BY <1>10
  <2>2. List(d, d.pendingPoolIdx, Placed(p, 0, e)) /\ d.pendingNtfyIdx = c.pendingNtfyIdx
    BY <1>7, <1>9
  <2>3. QED
    BY <1>11, <2>1, <2>2, PoolChanges
<1>13. QED
  BY <1>2, <1>7, <1>12

\* The links say nothing of priorities.
LEMMA PriorityKeeps ==
  ASSUME NEW c \in Blocks, NEW p, NEW q, Stored(c, p, q),
         NEW e \in Entries, NEW v \in Priorities \cup {0}
  PROVE  LET d == WithPriority(c, e, v)
         IN  /\ d \in Blocks /\ Stored(d, p, q)
             /\ d.priorityUser = [c.priorityUser EXCEPT ![e] = v]
             /\ d.pendingPoolIdx = c.pendingPoolIdx
<1>1. PICK d : d = WithPriority(c, e, v)
  OBVIOUS
<1>2. /\ d \in Blocks
      /\ d.next = c.next /\ d.prev = c.prev
      /\ d.priorityUser = [c.priorityUser EXCEPT ![e] = v]
      /\ d.pendingPoolIdx = c.pendingPoolIdx
      /\ d.pendingNtfyIdx = c.pendingNtfyIdx
  BY <1>1 DEF WithPriority, Blocks
<1>3. ASSUME NEW first, NEW s, List(c, first, s) PROVE List(d, first, s)
  BY <1>2, <1>3, ListStays
<1>4. Stored(d, p, q)
  BY <1>2, <1>3 DEF Stored
<1>5. QED
  BY <1>1, <1>2, <1>4

\* A release takes the first entry of a pending list.
LEMMA PopKeeps ==
  ASSUME NEW c \in Blocks, NEW p, NEW q, Stored(c, p, q),
         NEW r \in Items, c.pendingNtfyIdx[r] # Nil
  PROVE  LET e == c.pendingNtfyIdx[r]
             n == c.next[e]
             d == [c EXCEPT !.pendingNtfyIdx[r] = n,
                            !.prev = IF n = Nil THEN @ ELSE [@ EXCEPT ![n] = Nil]]
             z == [q EXCEPT ![r] = Without(q[r], 1)]
         IN  /\ e \in Entries /\ q[r] # <<>> /\ e = q[r][1] /\ d \in Blocks
             /\ d.priorityUser = c.priorityUser
             /\ Stored(d, p, z) /\ Unlisted(e, p, z)
<1>1. PICK e : e = c.pendingNtfyIdx[r]
  OBVIOUS
<1>2. PICK n : n = c.next[e]
  OBVIOUS
<1>3. PICK d : d = [c EXCEPT !.pendingNtfyIdx[r] = n,
                             !.prev = IF n = Nil THEN @ ELSE [@ EXCEPT ![n] = Nil]]
  OBVIOUS
<1>4. PICK s : s = q[r]
  OBVIOUS
<1>5. List(c, e, s) /\ q \in [Items -> Seq(Entries)]
  BY <1>1, <1>4 DEF Stored
<1>6. /\ s \in Seq(Entries) /\ Len(s) \in Nat /\ Len(s) > 0 /\ s # <<>>
      /\ e = s[1] /\ e \in Entries /\ e \in ToSet(s)
      /\ IsInjective(s)
      /\ \A i \in 1..Len(s) : s[i] \in Entries /\ s[i] # Nil
      /\ \A i, j \in 1..Len(s) : s[i] = s[j] => i = j
  <2>1. s \in Seq(Entries) /\ Len(s) \in Nat /\ Len(s) > 0
    BY <1>1, <1>5, ListFacts
  <2>2. s # <<>> /\ 1 \in 1..Len(s)
    BY <2>1
  <2>3. e = s[1] /\ IsInjective(s)
    BY <1>5, <2>2 DEF List
  <2>4. QED
    BY <1>5, <2>1, <2>2, <2>3, ListFacts
<1>7. n \in Links /\ n = (IF Len(s) = 1 THEN Nil ELSE s[2]) /\ c.prev[e] = Nil
  <2>1. 1 \in 1..Len(s)
    BY <1>6
  <2>2. n = (IF 1 = Len(s) THEN Nil ELSE s[1+1]) /\ c.prev[s[1]] = Nil
    BY <1>2, <1>5, <1>6, <2>1 DEF List
  <2>3. n \in Links
    BY <1>2, <1>6 DEF Blocks
  <2>4. QED
    BY <1>6, <2>2, <2>3
<1>8. /\ d \in Blocks
      /\ d.next = c.next
      /\ d.prev = IF n = Nil THEN c.prev ELSE [c.prev EXCEPT ![n] = Nil]
      /\ d.priorityUser = c.priorityUser
      /\ d.pendingPoolIdx = c.pendingPoolIdx
      /\ d.pendingNtfyIdx = [c.pendingNtfyIdx EXCEPT ![r] = n]
  BY <1>3, <1>7 DEF Blocks, Links
<1>9. d.pendingNtfyIdx[r] = n /\ \A x \in Items : x # r => d.pendingNtfyIdx[x] = c.pendingNtfyIdx[x]
  BY <1>8 DEF Blocks
<1>10. List(d, n, Without(s, 1))
  <2>1. \A i \in 1..Len(s) : i # 1 =>
          d.next[s[i]] = IF i + 1 = 1 THEN c.next[s[1]] ELSE c.next[s[i]]
    BY <1>6, <1>8
  <2>2. \A i \in 1..Len(s) : i # 1 =>
          d.prev[s[i]] = IF i = 1 + 1 THEN c.prev[s[1]] ELSE c.prev[s[i]]
    <3> SUFFICES ASSUME NEW i \in 1..Len(s), i # 1
                 PROVE  d.prev[s[i]] = IF i = 1 + 1 THEN c.prev[s[1]] ELSE c.prev[s[i]]
      OBVIOUS
    <3>1. s[i] \in Entries /\ Len(s) # 1 /\ n = s[2] /\ 2 \in 1..Len(s) /\ n \in Entries /\ n # Nil
      BY <1>6, <1>7
    <3>2. d.prev = [c.prev EXCEPT ![n] = Nil]
      BY <1>8, <3>1
    <3>3. s[i] = n <=> i = 2
      BY <1>6, <3>1
    <3>4. QED
      BY <1>6, <1>7, <3>1, <3>2, <3>3 DEF Blocks
  <2>3. 1 \in 1..Len(s)
    BY <1>6
  <2>4. List(d, IF 1 = 1 THEN c.next[s[1]] ELSE e, Without(s, 1))
    <3>1. LinkedOut(c, d, s, 1)
      BY <2>1, <2>2 DEF LinkedOut
    <3>2. QED
      BY <1>5, <2>3, <3>1, ListWithout
  <2>5. QED
    BY <1>2, <1>6, <2>4
<1>11. ToSet(Without(s, 1)) = ToSet(s) \ {e}
  <2>1. 1 \in 1..Len(s)
    BY <1>6
  <2>2. QED
    BY <1>6, <2>1, WithoutFacts
<1>12. \A x \in Entries : x \notin ToSet(s) => d.next[x] = c.next[x] /\ d.prev[x] = c.prev[x]
  <2> SUFFICES ASSUME NEW x \in Entries, x \notin ToSet(s)
               PROVE  d.next[x] = c.next[x] /\ d.prev[x] = c.prev[x]
    OBVIOUS
  <2>1. n # Nil => x # n
    <3>1. s \in Seq(Entries) /\ Len(s) \in Nat /\ Len(s) > 0
      BY <1>6
    <3>2. n # Nil => 2 \in 1..Len(s) /\ n = s[2]
      <4>1. PICK L : L = Len(s)
        OBVIOUS
      <4>2. n # Nil => L # 1 /\ n = s[2]
        BY <1>7, <4>1, Zenon
      <4>3. QED
        BY <3>1, <4>1, <4>2
    <3>3. QED
      BY <1>5, <3>2, ListFacts
  <2>2. QED
    BY <1>8, <2>1 DEF Blocks
<1>13. PICK z : z = [q EXCEPT ![r] = Without(s, 1)]
  OBVIOUS
<1>14. Stored(d, p, z)
  <2>1. Unlisted(Nil, p, q)
    <3>1. \A x \in ToSet(p) : x # Nil
      BY ListFacts DEF Stored
    <3>2. \A u \in Items : \A x \in ToSet(q[u]) : x # Nil
      BY ListFacts DEF Stored
    <3>3. QED
      BY <3>1, <3>2 DEF Unlisted
  <2>2. \A x \in Entries : x \notin ToSet(q[r]) \cup {Nil} =>
          d.next[x] = c.next[x] /\ d.prev[x] = c.prev[x]
    BY <1>4, <1>12
  <2>3. ToSet(Without(s, 1)) \subseteq ToSet(q[r]) \cup {Nil}
    BY <1>4, <1>11
  <2>4. List(d, d.pendingNtfyIdx[r], Without(s, 1)) /\ d.pendingPoolIdx = c.pendingPoolIdx
    BY <1>8, <1>9, <1>10
  <2>5. OneListWritten(c, d, r, ToSet(q[r]) \cup {Nil})
    BY <1>9, <2>2, <2>4 DEF OneListWritten
  <2>6. Stored(d, p, [q EXCEPT ![r] = Without(s, 1)])
    BY <2>1, <2>3, <2>4, <2>5, OneListChanges
  <2>7. QED
    BY <1>13, <2>6
<1>15. Unlisted(e, p, z)
  <2>1. z[r] = Without(s, 1) /\ \A u \in Items : u # r => z[u] = q[u]
    BY <1>5, <1>13
  <2>2. e \notin ToSet(p) /\ \A u \in Items : u # r => e \notin ToSet(q[u])
    BY <1>4, <1>6 DEF Stored
  <2>3. QED
    BY <1>11, <2>1, <2>2 DEF Unlisted
<1>16. QED
  BY <1>1, <1>2, <1>3, <1>4, <1>6, <1>8, <1>13, <1>14, <1>15

\* What is left of a pending list when its k-th entry is removed.
Rest(s, k) == IF k = 1 THEN <<>> ELSE Without(s, k)

\* essRMRemovePending unlinks an entry, and with the first all the others.
LEMMA RemoveKeeps ==
  ASSUME NEW c \in Blocks, NEW p, NEW q, Stored(c, p, q),
         NEW r \in Items, NEW k \in 1..Len(q[r])
  PROVE  LET e == q[r][k]
             d == RemovePending(c, r, e)
             z == [q EXCEPT ![r] = Rest(q[r], k)]
         IN  /\ e \in Entries /\ d \in Blocks
             /\ d.priorityUser = c.priorityUser
             /\ d.pendingPoolIdx = c.pendingPoolIdx
             /\ Stored(d, p, z) /\ Unlisted(e, p, z)
             /\ e \notin ToSet(Rest(q[r], k))
<1>1. PICK s : s = q[r]
  OBVIOUS
<1>2. PICK e : e = s[k]
  OBVIOUS
<1>3. PICK n : n = c.next[e]
  OBVIOUS
<1>4. PICK b : b = c.prev[e]
  OBVIOUS
<1>5. PICK d : d = RemovePending(c, r, e)
  OBVIOUS
<1>6. PICK L : L = Len(s)
  OBVIOUS
<1>7. PICK first : first = c.pendingNtfyIdx[r]
  OBVIOUS
<1>8. List(c, first, s) /\ q \in [Items -> Seq(Entries)]
  BY <1>1, <1>7 DEF Stored
<1>9. /\ s \in Seq(Entries) /\ L \in Nat /\ k \in 1..L /\ k \in Nat
      /\ e \in Entries /\ e \in ToSet(s) /\ e # Nil
      /\ IsInjective(s)
      /\ \A i \in 1..L : s[i] \in Entries /\ s[i] # Nil /\ s[i] \in ToSet(s)
      /\ \A i, j \in 1..L : s[i] = s[j] => i = j
  <2>1. L \in Nat /\ k \in 1..L
    BY <1>1, <1>6, <1>8, ListFacts
  <2>2. \A i \in 1..L : s[i] \in Entries /\ s[i] # Nil /\ s[i] \in ToSet(s)
    BY <1>6, <1>8, ListFacts
  <2>3. IsInjective(s) /\ s \in Seq(Entries)
    BY <1>8 DEF List
  <2>4. \A i, j \in 1..L : s[i] = s[j] => i = j
    BY <1>6, <1>8, ListFacts
  <2>5. QED
    BY <1>2, <2>1, <2>2, <2>3, <2>4
<1>10. /\ n \in Links /\ n = IF k = L THEN Nil ELSE s[k+1]
       /\ b \in Links /\ b = IF k = 1 THEN Nil ELSE s[k-1]
  <2>1. n = (IF k = L THEN Nil ELSE s[k+1]) /\ b = IF k = 1 THEN Nil ELSE s[k-1]
    BY <1>2, <1>3, <1>4, <1>6, <1>8, <1>9, Zenon DEF List
  <2>2. n \in Links /\ b \in Links
    BY <1>3, <1>4, <1>9 DEF Blocks
  <2>3. QED
    BY <2>1, <2>2
<1>11. /\ d \in Blocks
       /\ d.prev = [(IF n = Nil THEN c.prev ELSE [c.prev EXCEPT ![n] = b]) EXCEPT ![e] = Nil]
       /\ d.next = [(IF b = Nil THEN c.next ELSE [c.next EXCEPT ![b] = n]) EXCEPT ![e] = Nil]
       /\ d.priorityUser = c.priorityUser
       /\ d.pendingPoolIdx = c.pendingPoolIdx
       /\ d.pendingNtfyIdx = IF b = Nil THEN [c.pendingNtfyIdx EXCEPT ![r] = Nil]
                             ELSE c.pendingNtfyIdx
  <2>1. d = [c EXCEPT
               !.prev = [(IF n = Nil THEN @ ELSE [@ EXCEPT ![n] = b]) EXCEPT ![e] = Nil],
               !.next = [(IF b = Nil THEN @ ELSE [@ EXCEPT ![b] = n]) EXCEPT ![e] = Nil],
               !.pendingNtfyIdx = IF b = Nil THEN [@ EXCEPT ![r] = Nil] ELSE @]
    BY <1>3, <1>4, <1>5 DEF RemovePending
  <2>2. n \in Links /\ b \in Links /\ Nil \in Links
    BY <1>10 DEF Links
  <2>3. QED
    BY <2>1, <2>2 DEF Blocks
<1>12. ASSUME NEW x \in Entries
       PROVE  /\ d.prev[x] = IF x = e THEN Nil ELSE IF x = n THEN b ELSE c.prev[x]
              /\ d.next[x] = IF x = e THEN Nil ELSE IF x = b THEN n ELSE c.next[x]
  <2>1. c.next \in [Entries -> Links] /\ c.prev \in [Entries -> Links] /\ x # Nil
    BY PoolAssumption DEF Blocks, Entries, Nil
  <2>2. d.prev[x] = IF x = e THEN Nil ELSE IF x = n THEN b ELSE c.prev[x]
    <3>1. CASE n = Nil
      <4>1. d.prev = [c.prev EXCEPT ![e] = Nil]
        BY <1>11, <3>1
      <4>2. QED
        BY <2>1, <3>1, <4>1
    <3>2. CASE n # Nil
      <4>1. d.prev = [[c.prev EXCEPT ![n] = b] EXCEPT ![e] = Nil]
        BY <1>11, <3>2
      <4>2. QED
        BY <2>1, <4>1
    <3>3. QED
      BY <3>1, <3>2
  <2>3. d.next[x] = IF x = e THEN Nil ELSE IF x = b THEN n ELSE c.next[x]
    <3>1. CASE b = Nil
      <4>1. d.next = [c.next EXCEPT ![e] = Nil]
        BY <1>11, <3>1
      <4>2. QED
        BY <2>1, <3>1, <4>1
    <3>2. CASE b # Nil
      <4>1. d.next = [[c.next EXCEPT ![b] = n] EXCEPT ![e] = Nil]
        BY <1>11, <3>2
      <4>2. QED
        BY <2>1, <4>1
    <3>3. QED
      BY <3>1, <3>2
  <2>4. QED
    BY <2>2, <2>3
<1>13. b = Nil <=> k = 1
  <2>1. k # 1 => k - 1 \in 1..L
    BY <1>9
  <2>2. QED
    BY <1>9, <1>10, <2>1
<1>14. PICK t : t = Rest(s, k)
  OBVIOUS
<1>15. List(d, d.pendingNtfyIdx[r], t) /\ ToSet(t) \subseteq ToSet(s) \ {e}
  <2>1. CASE k = 1
    <3>1. t = <<>> /\ d.pendingNtfyIdx[r] = Nil
      BY <1>11, <1>13, <1>14, <2>1 DEF Rest, Blocks
    <3>2. t \in Seq(Entries) /\ Len(t) = 0 /\ ToSet(t) = {} /\ IsInjective(t)
      BY <3>1 DEF ToSet, IsInjective
    <3>3. QED
      BY <3>1, <3>2 DEF List
  <2>2. CASE k # 1
    <3>1. t = Without(s, k) /\ d.pendingNtfyIdx[r] = first
      BY <1>7, <1>11, <1>13, <1>14, <2>2 DEF Rest
    <3>2. b = s[k-1] /\ k - 1 \in 1..L
      BY <1>9, <1>10, <2>2
    <3>3. \A i \in 1..L : i # k => d.next[s[i]] = IF i + 1 = k THEN c.next[s[k]] ELSE c.next[s[i]]
      <4> SUFFICES ASSUME NEW i \in 1..L, i # k
                   PROVE  d.next[s[i]] = IF i + 1 = k THEN c.next[s[k]] ELSE c.next[s[i]]
        OBVIOUS
      <4>1. s[i] # e /\ s[i] \in Entries
        BY <1>2, <1>9
      <4>2. s[i] = b <=> i + 1 = k
        <5>1. s[i] = b <=> i = k - 1
          BY <1>9, <3>2
        <5>2. QED
          BY <1>9, <5>1
      <4>3. QED
        BY <1>2, <1>3, <1>12, <4>1, <4>2
    <3>4. \A i \in 1..L : i # k => d.prev[s[i]] = IF i = k + 1 THEN c.prev[s[k]] ELSE c.prev[s[i]]
      <4> SUFFICES ASSUME NEW i \in 1..L, i # k
                   PROVE  d.prev[s[i]] = IF i = k + 1 THEN c.prev[s[k]] ELSE c.prev[s[i]]
        OBVIOUS
      <4>1. s[i] # e /\ s[i] \in Entries /\ s[i] # Nil
        BY <1>2, <1>9
      <4>2. s[i] = n <=> i = k + 1
        <5>1. CASE k = L
          BY <1>9, <1>10, <4>1, <5>1
        <5>2. CASE k # L
          <6>1. k + 1 \in 1..L /\ n = s[k+1]
            BY <1>9, <1>10, <5>2
          <6>2. QED
            BY <1>9, <6>1
        <5>3. QED
          BY <5>1, <5>2
      <4>3. QED
        BY <1>2, <1>4, <1>12, <4>1, <4>2
    <3>5. List(d, IF k = 1 THEN c.next[s[1]] ELSE first, Without(s, k))
      <4>1. LinkedOut(c, d, s, k)
        BY <1>6, <3>3, <3>4 DEF LinkedOut
      <4>2. k \in 1..Len(s)
        BY <1>6, <1>9
      <4>3. QED
        BY <1>8, <4>1, <4>2, ListWithout
    <3>6. ToSet(Without(s, k)) = ToSet(s) \ {e}
      BY <1>2, <1>6, <1>9, WithoutFacts
    <3>7. QED
      BY <2>2, <3>1, <3>5, <3>6
  <2>3. QED
    BY <2>1, <2>2
<1>16. \A x \in Entries : x \notin ToSet(s) => d.next[x] = c.next[x] /\ d.prev[x] = c.prev[x]
  <2> SUFFICES ASSUME NEW x \in Entries, x \notin ToSet(s)
               PROVE  d.next[x] = c.next[x] /\ d.prev[x] = c.prev[x]
    OBVIOUS
  <2>1. x # Nil
    BY PoolAssumption DEF Entries, Nil
  <2>2. x # n
    <3>1. k # L => k + 1 \in 1..L
      BY <1>9
    <3>2. QED
      BY <1>9, <1>10, <2>1, <3>1
  <2>3. x # b
    <3>1. k # 1 => k - 1 \in 1..L
      BY <1>9
    <3>2. QED
      BY <1>9, <1>10, <2>1, <3>1
  <2>4. QED
    BY <1>9, <1>12, <2>2, <2>3
<1>17. \A u \in Items : u # r => d.pendingNtfyIdx[u] = c.pendingNtfyIdx[u]
  BY <1>11 DEF Blocks
<1>18. PICK z : z = [q EXCEPT ![r] = t]
  OBVIOUS
<1>19. Stored(d, p, z)
  <2>1. Unlisted(Nil, p, q)
    <3>1. \A x \in ToSet(p) : x # Nil
      BY ListFacts DEF Stored
    <3>2. \A u \in Items : \A x \in ToSet(q[u]) : x # Nil
      BY ListFacts DEF Stored
    <3>3. QED
      BY <3>1, <3>2 DEF Unlisted
  <2>2. \A x \in Entries : x \notin ToSet(q[r]) \cup {Nil} =>
          d.next[x] = c.next[x] /\ d.prev[x] = c.prev[x]
    BY <1>1, <1>16
  <2>3. ToSet(t) \subseteq ToSet(q[r]) \cup {Nil}
    BY <1>1, <1>15
  <2>4. List(d, d.pendingNtfyIdx[r], t) /\ d.pendingPoolIdx = c.pendingPoolIdx
    BY <1>11, <1>15
  <2>5. OneListWritten(c, d, r, ToSet(q[r]) \cup {Nil})
    BY <1>17, <2>2, <2>4 DEF OneListWritten
  <2>6. Stored(d, p, [q EXCEPT ![r] = t])
    BY <2>1, <2>3, <2>4, <2>5, OneListChanges
  <2>7. QED
    BY <1>18, <2>6
<1>20. Unlisted(e, p, z)
  <2>1. z[r] = t /\ \A u \in Items : u # r => z[u] = q[u]
    BY <1>8, <1>18
  <2>2. e \notin ToSet(p) /\ \A u \in Items : u # r => e \notin ToSet(q[u])
    BY <1>1, <1>9 DEF Stored
  <2>3. QED
    BY <1>15, <2>1, <2>2 DEF Unlisted
<1>21. QED
  BY <1>1, <1>2, <1>5, <1>9, <1>11, <1>14, <1>15, <1>18, <1>19, <1>20

\* Where the search of essRMInsertPendingByPriority stops: behind the k
\* entries before the first that is strictly less important.
Stops(c, s, e, k) ==
  /\ \A j \in 1..k : c.priorityUser[s[j]] <= c.priorityUser[e]
  /\ k < Len(s) => c.priorityUser[e] < c.priorityUser[s[k+1]]

\* The search stops somewhere.
LEMMA SearchStops ==
  ASSUME NEW c \in Blocks, NEW s \in Seq(Entries), NEW e \in Entries
  PROVE  LET before == SelectInSeq(s, LAMBDA i : c.priorityUser[e] < c.priorityUser[i])
             last == IF before = 0 THEN Len(s) ELSE before - 1
         IN  last \in 0..Len(s) /\ Stops(c, s, e, last)
<1> DEFINE I == {i \in 1..Len(s) : c.priorityUser[e] < c.priorityUser[s[i]]}
           before == IF I # {} THEN Min(I) ELSE 0
           last == IF before = 0 THEN Len(s) ELSE before - 1
<1>1. SelectInSeq(s, LAMBDA i : c.priorityUser[e] < c.priorityUser[i]) = before
  BY DEF SelectInSeq
<1>2. PICK L : L = Len(s)
  OBVIOUS
<1>3. L \in Nat /\ \A i \in 1..L : s[i] \in Entries
  BY <1>2
<1>4. \A x \in Entries : c.priorityUser[x] \in Int
  <2>1. c.priorityUser \in [Entries -> Priorities \cup {0}]
    BY DEF Blocks
  <2>2. Priorities \cup {0} \subseteq Int
    BY PoolAssumption
  <2>3. QED
    BY <2>1, <2>2
<1>5. CASE I = {}
  <2>1. last = L
    BY <1>2, <1>5
  <2>2. \A j \in 1..L : ~(c.priorityUser[e] < c.priorityUser[s[j]])
    BY <1>2, <1>5
  <2>3. \A j \in 1..L : c.priorityUser[s[j]] <= c.priorityUser[e]
    BY <1>3, <1>4, <2>2
  <2> HIDE DEF last
  <2>4. Stops(c, s, e, L)
    BY <1>2, <1>3, <2>3 DEF Stops
  <2>5. last \in 0..Len(s) /\ Stops(c, s, e, last)
    BY <1>2, <1>3, <2>1, <2>4
  <2>6. QED
    BY <1>1, <2>5 DEF last
<1>6. CASE I # {}
  <2>1. PICK m \in I : \A i \in I : m <= i
    <3>1. I \in SUBSET Nat
      OBVIOUS
    <3> HIDE DEF I
    <3>2. QED
      BY <1>6, <3>1, LeastNumber
  <2>2. Min(I) = m
    <3>1. I \in SUBSET Nat
      OBVIOUS
    <3> HIDE DEF I
    <3>2. \A x \in I : (\A y \in I : x <= y) => x = m
      BY <2>1, <3>1
    <3>3. QED
      BY <2>1, <3>2 DEF Min
  <2>3. /\ m \in 1..L /\ c.priorityUser[e] < c.priorityUser[s[m]]
        /\ \A i \in 1..L : c.priorityUser[e] < c.priorityUser[s[i]] => m <= i
    BY <1>2, <2>1
  <2>4. last = m - 1
    <3>1. before = m
      BY <1>6, <2>2
    <3>2. m # 0
      BY <1>3, <2>3
    <3> HIDE DEF before
    <3>3. QED
      BY <3>1, <3>2
  <2>5. ASSUME NEW j \in 1..m-1 PROVE c.priorityUser[s[j]] <= c.priorityUser[e]
    <3>1. j \in 1..L /\ ~(m <= j)
      BY <1>3, <2>3
    <3>2. ~(c.priorityUser[e] < c.priorityUser[s[j]])
      BY <2>3, <3>1
    <3>3. QED
      BY <1>3, <1>4, <3>1, <3>2
  <2> HIDE DEF last
  <2>6. (m - 1) + 1 = m /\ m - 1 \in 0..L
    BY <1>3, <2>3
  <2>7. Stops(c, s, e, m - 1)
    BY <2>3, <2>5, <2>6 DEF Stops
  <2>8. last \in 0..Len(s) /\ Stops(c, s, e, last)
    BY <1>2, <2>4, <2>6, <2>7
  <2>9. QED
    BY <1>1, <2>8 DEF last
<1>7. QED
  BY <1>5, <1>6


\* essRMInsertPendingByPriority links an unlisted entry where its search
\* stops.
LEMMA InsertKeeps ==
  ASSUME NEW c \in Blocks, NEW p, NEW q, Stored(c, p, q),
         NEW r \in Items, NEW e \in Entries, Unlisted(e, p, q)
  PROVE  \E k \in 0..Len(q[r]) :
           LET d == InsertPendingByPriority(c, r, e)
               z == [q EXCEPT ![r] = Placed(q[r], k, e)]
           IN  /\ d \in Blocks
               /\ d.priorityUser = c.priorityUser
               /\ d.pendingPoolIdx = c.pendingPoolIdx
               /\ Stored(d, p, z)
               /\ Stops(c, q[r], e, k)
<1>1. PICK s : s = q[r]
  OBVIOUS
<1>2. PICK L : L = Len(s)
  OBVIOUS
<1>3. PICK first : first = c.pendingNtfyIdx[r]
  OBVIOUS
<1>4. List(c, first, s) /\ q \in [Items -> Seq(Entries)] /\ e \notin ToSet(s)
  BY <1>1, <1>3 DEF Stored, Unlisted
<1>5. /\ s \in Seq(Entries) /\ L \in Nat
      /\ \A i \in 1..L : s[i] \in Entries /\ s[i] # Nil /\ s[i] \in ToSet(s) /\ s[i] # e
      /\ \A i, j \in 1..L : s[i] = s[j] => i = j
  <2>1. s \in Seq(Entries) /\ L \in Nat
    BY <1>2, <1>4, ListFacts
  <2>2. \A i \in 1..L : s[i] \in Entries /\ s[i] # Nil /\ s[i] \in ToSet(s)
    BY <1>2, <1>4, ListFacts
  <2>3. \A i, j \in 1..L : s[i] = s[j] => i = j
    BY <1>2, <1>4, ListFacts
  <2>4. QED
    BY <1>4, <2>1, <2>2, <2>3
<1>6. Pending(c, r) = s
  BY <1>1, StoredRead
<1> DEFINE before == SelectInSeq(s, LAMBDA i : c.priorityUser[e] < c.priorityUser[i])
           last == IF before = 0 THEN Len(s) ELSE before - 1
<1>7. last \in 0..Len(s) /\ Stops(c, s, e, last)
  BY <1>5, SearchStops
<1>8. PICK k : k = last
  OBVIOUS
<1>9. PICK a : a = IF k = 0 THEN Nil ELSE s[k]
  OBVIOUS
<1>10. PICK n : n = IF k = 0 THEN first ELSE c.next[a]
  OBVIOUS
<1>11. PICK d : d = [c EXCEPT
         !.next = IF k = 0 THEN [@ EXCEPT ![e] = n]
                  ELSE [@ EXCEPT ![e] = n, ![a] = e],
         !.prev = IF n = Nil THEN [@ EXCEPT ![e] = a]
                  ELSE [@ EXCEPT ![e] = a, ![n] = e],
         !.pendingNtfyIdx = IF k = 0 THEN [@ EXCEPT ![r] = e] ELSE @]
  OBVIOUS
<1>12. d = InsertPendingByPriority(c, r, e)
  BY <1>3, <1>6, <1>8, <1>9, <1>10, <1>11 DEF InsertPendingByPriority
<1>13. k \in 0..L /\ Stops(c, s, e, k)
  BY <1>2, <1>7, <1>8
<1> HIDE DEF last
<1>14. /\ k = 0 => a = Nil
       /\ k # 0 => k \in 1..L /\ a = s[k] /\ a \in Entries /\ a # Nil /\ a # e
       /\ n = IF k = L THEN Nil ELSE s[k+1]
       /\ k # L => k + 1 \in 1..L
  <2>1. /\ k = 0 => a = Nil
        /\ k # 0 => k \in 1..L /\ a = s[k] /\ a \in Entries /\ a # Nil /\ a # e
    BY <1>5, <1>9, <1>13
  <2>2. k # L => k + 1 \in 1..L
    BY <1>5, <1>13
  <2>3. n = IF k = L THEN Nil ELSE s[k+1]
    <3>1. CASE k = 0
      <4>1. first = IF s = <<>> THEN Nil ELSE s[1]
        BY <1>4 DEF List
      <4>2. s = <<>> <=> L = 0
        BY <1>2, <1>5
      <4>3. 0 + 1 = 1
        OBVIOUS
      <4>4. QED
        BY <1>10, <3>1, <4>1, <4>2, <4>3
    <3>2. CASE k # 0
      <4>1. n = c.next[s[k]] /\ k \in 1..L
        BY <1>10, <2>1, <3>2
      <4>2. \A i \in 1..L : c.next[s[i]] = IF i = L THEN Nil ELSE s[i+1]
        BY <1>2, <1>4, Zenon DEF List
      <4>3. QED
        BY <4>1, <4>2
    <3>3. QED
      BY <3>1, <3>2
  <2>4. QED
    BY <2>1, <2>2, <2>3
<1>15. n \in Links /\ a \in Links /\ e \in Links /\ n # e /\ e # Nil
  BY <1>5, <1>14, PoolAssumption DEF Links, Entries, Nil
<1>16. /\ d \in Blocks
       /\ d.next = IF k = 0 THEN [c.next EXCEPT ![e] = n] ELSE [c.next EXCEPT ![e] = n, ![a] = e]
       /\ d.prev = IF n = Nil THEN [c.prev EXCEPT ![e] = a] ELSE [c.prev EXCEPT ![e] = a, ![n] = e]
       /\ d.priorityUser = c.priorityUser
       /\ d.pendingPoolIdx = c.pendingPoolIdx
       /\ d.pendingNtfyIdx = IF k = 0 THEN [c.pendingNtfyIdx EXCEPT ![r] = e]
                             ELSE c.pendingNtfyIdx
  BY <1>11, <1>15 DEF Blocks
<1>17. ASSUME NEW x \in Entries
       PROVE  /\ d.next[x] = IF x = e THEN n ELSE IF k # 0 /\ x = a THEN e ELSE c.next[x]
              /\ d.prev[x] = IF x = e THEN a ELSE IF n # Nil /\ x = n THEN e ELSE c.prev[x]
  <2>1. c.next \in [Entries -> Links] /\ c.prev \in [Entries -> Links]
    BY DEF Blocks
  <2>2. d.next[x] = IF x = e THEN n ELSE IF k # 0 /\ x = a THEN e ELSE c.next[x]
    <3>1. CASE k = 0
      <4>1. d.next = [c.next EXCEPT ![e] = n]
        BY <1>16, <3>1
      <4>2. QED
        BY <2>1, <3>1, <4>1
    <3>2. CASE k # 0
      <4>1. d.next = [c.next EXCEPT ![e] = n, ![a] = e]
        BY <1>16, <3>2
      <4>2. QED
        BY <1>14, <2>1, <3>2, <4>1
    <3>3. QED
      BY <3>1, <3>2
  <2>3. d.prev[x] = IF x = e THEN a ELSE IF n # Nil /\ x = n THEN e ELSE c.prev[x]
    <3>1. CASE n = Nil
      <4>1. d.prev = [c.prev EXCEPT ![e] = a]
        BY <1>16, <3>1
      <4>2. QED
        BY <2>1, <3>1, <4>1
    <3>2. CASE n # Nil
      <4>1. d.prev = [c.prev EXCEPT ![e] = a, ![n] = e]
        BY <1>16, <3>2
      <4>2. QED
        BY <1>15, <2>1, <3>2, <4>1
    <3>3. QED
      BY <3>1, <3>2
  <2>4. QED
    BY <2>2, <2>3
<1>18. PICK t : t = Placed(s, k, e)
  OBVIOUS
<1>19. List(d, d.pendingNtfyIdx[r], t)
  <2>1. d.next[e] = IF k = L THEN Nil ELSE s[k+1]
    BY <1>14, <1>17
  <2>2. d.prev[e] = IF k = 0 THEN Nil ELSE s[k]
    BY <1>9, <1>17
  <2>3. \A i \in 1..L : d.next[s[i]] = IF i = k THEN e ELSE c.next[s[i]]
    <3> SUFFICES ASSUME NEW i \in 1..L PROVE d.next[s[i]] = IF i = k THEN e ELSE c.next[s[i]]
      OBVIOUS
    <3>1. s[i] \in Entries /\ s[i] # e
      BY <1>5
    <3>2. i = k <=> k # 0 /\ s[i] = a
      BY <1>5, <1>14
    <3>3. QED
      BY <1>17, <3>1, <3>2
  <2>4. \A i \in 1..L : d.prev[s[i]] = IF i = k + 1 THEN e ELSE c.prev[s[i]]
    <3> SUFFICES ASSUME NEW i \in 1..L PROVE d.prev[s[i]] = IF i = k + 1 THEN e ELSE c.prev[s[i]]
      OBVIOUS
    <3>1. s[i] \in Entries /\ s[i] # e /\ s[i] # Nil
      BY <1>5
    <3>2. i = k + 1 <=> n # Nil /\ s[i] = n
      <4>1. CASE k = L
        BY <1>5, <1>14, <4>1
      <4>2. CASE k # L
        <5>1. k + 1 \in 1..L /\ n = s[k+1] /\ n # Nil
          BY <1>5, <1>14, <4>2
        <5>2. QED
          BY <1>5, <5>1
      <4>3. QED
        BY <4>1, <4>2
    <3>3. QED
      BY <1>17, <3>1, <3>2
  <2>5. List(d, IF k = 0 THEN e ELSE first, t)
    <3>1. List(d, IF k = 0 THEN e ELSE first, Placed(s, k, e))
      <4>1. LinkedIn(c, d, s, k, e)
        BY <1>2, <2>1, <2>2, <2>3, <2>4 DEF LinkedIn
      <4>2. k \in 0..Len(s)
        BY <1>2, <1>13
      <4>3. QED
        BY <1>4, <4>1, <4>2, ListPlaced
    <3>2. QED
      BY <1>18, <3>1
  <2>6. d.pendingNtfyIdx[r] = IF k = 0 THEN e ELSE first
    BY <1>3, <1>16 DEF Blocks
  <2>7. QED
    BY <2>5, <2>6
<1>20. ToSet(t) = ToSet(s) \cup {e}
  <2>1. k \in 0..Len(s)
    BY <1>2, <1>13
  <2>2. ToSet(Placed(s, k, e)) = ToSet(s) \cup {e}
    BY <1>5, <2>1, PlacedFacts
  <2>3. QED
    BY <1>18, <2>2
<1>21. \A x \in Entries : x \notin ToSet(q[r]) \cup {e} =>
         d.next[x] = c.next[x] /\ d.prev[x] = c.prev[x]
  <2> SUFFICES ASSUME NEW x \in Entries, x \notin ToSet(s), x # e
               PROVE  d.next[x] = c.next[x] /\ d.prev[x] = c.prev[x]
    BY <1>1
  <2>1. k # 0 => x # a
    BY <1>5, <1>14
  <2>2. n # Nil => x # n
    BY <1>5, <1>14
  <2>3. QED
    BY <1>17, <2>1, <2>2
<1>22. \A u \in Items : u # r => d.pendingNtfyIdx[u] = c.pendingNtfyIdx[u]
  BY <1>16 DEF Blocks
<1>23. PICK z : z = [q EXCEPT ![r] = t]
  OBVIOUS
<1>24. Stored(d, p, z)
  <2>1. ToSet(t) \subseteq ToSet(q[r]) \cup {e}
    BY <1>1, <1>20
  <2>2. OneListWritten(c, d, r, ToSet(q[r]) \cup {e})
    BY <1>16, <1>21, <1>22 DEF OneListWritten
  <2>3. Stored(d, p, [q EXCEPT ![r] = t])
    BY <1>19, <2>1, <2>2, OneListChanges
  <2>4. QED
    BY <1>23, <2>3
<1>25. QED
  BY <1>1, <1>2, <1>12, <1>13, <1>16, <1>18, <1>23, <1>24

----------------------------------------------------------------------------
(* A list as the queue it stands for.                                      *)

\* The requests of the list s, with the priorities c keeps for them.
View(c, s) == [i \in 1..Len(s) |-> [entry |-> s[i], priority |-> c.priorityUser[s[i]]]]

\* What a queue of ErmQueues holds.
Requests == [entry : Entries, priority : Int]

\* Sequences that agree everywhere are the same.
LEMMA SameSequence ==
  ASSUME NEW S, NEW a \in Seq(S), NEW b \in Seq(S), NEW L, Len(a) = L, Len(b) = L,
         \A i \in 1..L : a[i] = b[i]
  PROVE  a = b
<1>1. a = [i \in 1..L |-> a[i]] /\ b = [i \in 1..L |-> b[i]]
  OBVIOUS
<1>2. QED
  BY <1>1

\* Priorities can be compared.
LEMMA PriorityInt ==
  ASSUME NEW c \in Blocks
  PROVE  \A x \in Entries : c.priorityUser[x] \in Int
<1>1. c.priorityUser \in [Entries -> Priorities \cup {0}]
  BY DEF Blocks
<1>2. Priorities \cup {0} \subseteq Int
  BY PoolAssumption
<1>3. QED
  BY <1>1, <1>2

\* The queue has the entries of the list in its order.
LEMMA ViewFacts ==
  ASSUME NEW c \in Blocks, NEW s \in Seq(Entries)
  PROVE  /\ View(c, s) \in Seq(Requests) /\ Len(View(c, s)) = Len(s)
         /\ \A i \in 1..Len(s) :
              View(c, s)[i] = [entry |-> s[i], priority |-> c.priorityUser[s[i]]]
<1>1. PICK L : L = Len(s)
  OBVIOUS
<1>2. L \in Nat /\ \A i \in 1..L : s[i] \in Entries
  BY <1>1
<1>3. PICK v : v = View(c, s)
  OBVIOUS
<1>4. v = [i \in 1..L |-> [entry |-> s[i], priority |-> c.priorityUser[s[i]]]]
  BY <1>1, <1>3 DEF View
<1>5. \A i \in 1..L : [entry |-> s[i], priority |-> c.priorityUser[s[i]]] \in Requests
  BY <1>2, PriorityInt DEF Requests
<1>6. v \in [1..L -> Requests]
  BY <1>4, <1>5
<1>7. v \in Seq(Requests) /\ Len(v) = L
  BY <1>2, <1>6
<1>8. QED
  BY <1>1, <1>3, <1>4, <1>7

\* Where control blocks agree on the priorities of a list, so do the queues.
LEMMA ViewSame ==
  ASSUME NEW c, NEW d, NEW s,
         \A x \in ToSet(s) : d.priorityUser[x] = c.priorityUser[x]
  PROVE  View(d, s) = View(c, s)
<1>1. \A i \in 1..Len(s) : s[i] \in ToSet(s) => d.priorityUser[s[i]] = c.priorityUser[s[i]]
  OBVIOUS
<1>2. QED
  BY DEF View, ToSet

\* The first entry leaves.
LEMMA ViewTail ==
  ASSUME NEW c \in Blocks, NEW s \in Seq(Entries), s # <<>>
  PROVE  /\ View(c, s) # <<>>
         /\ Head(View(c, s)).entry = s[1]
         /\ View(c, Without(s, 1)) = Tail(View(c, s))
<1>1. PICK L : L = Len(s)
  OBVIOUS
<1>2. L \in Nat /\ L > 0 /\ 1 \in 1..Len(s) /\ 1 \in 1..L
  <2>1. L \in Nat /\ L > 0
    BY <1>1
  <2>2. 1 \in 1..L
    BY <2>1
  <2>3. QED
    BY <1>1, <2>1, <2>2
<1>3. PICK v : v = View(c, s)
  OBVIOUS
<1>4. /\ v \in Seq(Requests) /\ Len(v) = L
      /\ \A i \in 1..L : v[i] = [entry |-> s[i], priority |-> c.priorityUser[s[i]]]
  BY <1>1, <1>3, ViewFacts
<1>5. v # <<>> /\ Head(v).entry = s[1]
  BY <1>2, <1>4
<1>6. PICK t : t = Without(s, 1)
  OBVIOUS
<1>7. PICK M : M = L - 1
  OBVIOUS
<1>8. M \in Nat /\ \A i \in 1..M : i + 1 \in 1..L /\ i + 1 = 1 + i /\ ~(i < 1)
  BY <1>2, <1>7
<1>9. t \in Seq(Entries) /\ Len(t) = M /\ \A i \in 1..M : t[i] = s[i+1]
  <2>1. t \in Seq(Entries) /\ Len(t) = M
    BY <1>1, <1>2, <1>6, <1>7, WithoutFacts
  <2>2. t = [i \in 1..M |-> IF i < 1 THEN s[i] ELSE s[i+1]]
    BY <1>1, <1>6, <1>7 DEF Without
  <2>3. QED
    BY <1>8, <2>1, <2>2
<1>10. PICK w : w = View(c, t)
  OBVIOUS
<1>11. /\ w \in Seq(Requests) /\ Len(w) = M
       /\ \A i \in 1..M : w[i] = [entry |-> t[i], priority |-> c.priorityUser[t[i]]]
  BY <1>9, <1>10, ViewFacts
<1>12. Tail(v) \in Seq(Requests) /\ Len(Tail(v)) = M /\ \A i \in 1..M : Tail(v)[i] = v[i+1]
  <2>1. Tail(v) \in Seq(Requests) /\ Len(Tail(v)) = L - 1
    BY <1>4, <1>5
  <2>2. \A i \in 1..M : i \in 1..L - 1
    BY <1>7
  <2>3. \A i \in 1..L - 1 : Tail(v)[i] = v[i+1]
    BY <1>4, <1>5
  <2>4. QED
    BY <1>7, <2>1, <2>2, <2>3
<1>13. ASSUME NEW i \in 1..M
       PROVE  w[i] = Tail(v)[i]
  <2>1. i + 1 \in 1..L
    BY <1>8
  <2>2. Tail(v)[i] = [entry |-> s[i+1], priority |-> c.priorityUser[s[i+1]]]
    BY <1>4, <1>12, <2>1
  <2>3. w[i] = [entry |-> t[i], priority |-> c.priorityUser[t[i]]]
    BY <1>11
  <2>4. t[i] = s[i+1]
    BY <1>9
  <2>5. QED
    BY <2>2, <2>3, <2>4
<1>14. w = Tail(v)
  BY <1>11, <1>12, <1>13, SameSequence
<1>15. QED
  BY <1>3, <1>5, <1>6, <1>10, <1>14

\* How long a queue is after a removal.
LEMMA RemoveLength ==
  ASSUME NEW S, NEW v \in Seq(S), NEW k \in 1..Len(v)
  PROVE  Len(RemovePendingAt(v, k)) = IF k = 1 THEN 0 ELSE Len(v) - 1
<1>1. Len(v) \in Nat /\ k \in Nat
  OBVIOUS
<1>2. CASE k = 1
  BY <1>2 DEF RemovePendingAt
<1>3. CASE k # 1
  <2> DEFINE a == SubSeq(v, 1, k - 1)
             b == SubSeq(v, k + 1, Len(v))
  <2>1. a \in Seq(S) /\ Len(a) = k - 1
    BY <1>1, SubSeqProperties
  <2>2. b \in Seq(S) /\ Len(b) = Len(v) - k
    BY <1>1, SubSeqProperties
  <2>3. RemovePendingAt(v, k) = a \o b
    BY <1>3 DEF RemovePendingAt, RemoveAt
  <2> HIDE DEF a, b
  <2>4. Len(a \o b) = Len(a) + Len(b)
    BY <2>1, <2>2
  <2>5. QED
    BY <1>1, <1>3, <2>1, <2>2, <2>3, <2>4
<1>4. QED
  BY <1>2, <1>3

\* An entry is removed, and the first takes the others along.
LEMMA ViewRemove ==
  ASSUME NEW c \in Blocks, NEW s \in Seq(Entries), NEW k \in 1..Len(s)
  PROVE  /\ View(c, s)[k] = [entry |-> s[k], priority |-> c.priorityUser[s[k]]]
         /\ View(c, Rest(s, k)) = RemovePendingAt(View(c, s), k)
<1>1. PICK L : L = Len(s)
  OBVIOUS
<1>2. L \in Nat /\ k \in Nat /\ k \in 1..L
  BY <1>1
<1>3. PICK v : v = View(c, s)
  OBVIOUS
<1>4. /\ v \in Seq(Requests) /\ Len(v) = L
      /\ \A i \in 1..L : v[i] = [entry |-> s[i], priority |-> c.priorityUser[s[i]]]
  BY <1>1, <1>3, ViewFacts
<1>5. PICK x : x = RemovePendingAt(v, k)
  OBVIOUS
<1>6. k \in 1..Len(v)
  BY <1>2, <1>4
<1>7. x \in Seq(Requests) /\ Len(x) = IF k = 1 THEN 0 ELSE L - 1
  <2>1. x \in Seq(Requests)
    BY <1>4, <1>5, <1>6, RemoveType
  <2>2. Len(x) = IF k = 1 THEN 0 ELSE Len(v) - 1
    BY <1>4, <1>5, <1>6, RemoveLength
  <2>3. QED
    BY <1>4, <2>1, <2>2
<1>8. View(c, Rest(s, k)) = x
  <2>1. CASE k = 1
    <3>1. x = <<>> /\ Rest(s, k) = <<>>
      BY <1>5, <2>1 DEF RemovePendingAt, Rest
    <3>2. View(c, <<>>) = <<>>
      BY DEF View
    <3>3. QED
      BY <3>1, <3>2
  <2>2. CASE k # 1
    <3>1. PICK t : t = Without(s, k)
      OBVIOUS
    <3>2. PICK M : M = L - 1
      OBVIOUS
    <3>3. M \in Nat /\ \A i \in 1..M : i \in 1..L /\ i + 1 \in 1..L
      BY <1>2, <3>2
    <3>4. t \in Seq(Entries) /\ Len(t) = M
      BY <1>1, <3>1, <3>2, WithoutFacts
    <3>5. t = [i \in 1..M |-> IF i < k THEN s[i] ELSE s[i+1]]
      BY <1>1, <3>1, <3>2 DEF Without
    <3>6. PICK w : w = View(c, t)
      OBVIOUS
    <3>7. /\ w \in Seq(Requests) /\ Len(w) = M
          /\ \A i \in 1..M : w[i] = [entry |-> t[i], priority |-> c.priorityUser[t[i]]]
      BY <3>4, <3>6, ViewFacts
    <3>8. Len(x) = M
      BY <1>7, <2>2, <3>2
    <3>9. ASSUME NEW i \in 1..M PROVE w[i] = x[i]
      <4>1. i \in 1..Len(RemovePendingAt(v, k))
        BY <1>5, <3>8
      <4>2. x[i] = v[IF i < k THEN i ELSE i + 1]
        BY <1>4, <1>5, <1>6, <4>1, RemovePlaces
      <4>3. t[i] = s[IF i < k THEN i ELSE i + 1]
        BY <3>5
      <4>4. (IF i < k THEN i ELSE i + 1) \in 1..L
        BY <3>3
      <4>5. QED
        BY <1>4, <3>7, <4>2, <4>3, <4>4
    <3>10. w = x
      BY <1>7, <3>7, <3>8, <3>9, SameSequence
    <3>11. QED
      BY <2>2, <3>1, <3>6, <3>10 DEF Rest
  <2>3. QED
    BY <2>1, <2>2
<1>9. QED
  BY <1>2, <1>3, <1>4, <1>5, <1>8

\* An entry is inserted in the order of priorities.
LEMMA ViewInsert ==
  ASSUME NEW c \in Blocks, NEW s \in Seq(Entries), NEW e \in Entries,
         NEW k \in 0..Len(s), Stops(c, s, e, k)
  PROVE  View(c, Placed(s, k, e)) =
           InsertByPriority(View(c, s), [entry |-> e, priority |-> c.priorityUser[e]])
<1>1. PICK L : L = Len(s)
  OBVIOUS
<1>2. L \in Nat /\ k \in Nat /\ k \in 0..L /\ \A i \in 1..L : s[i] \in Entries
  BY <1>1
<1>3. PICK v : v = View(c, s)
  OBVIOUS
<1>4. /\ v \in Seq(Requests) /\ Len(v) = L
      /\ \A i \in 1..L : v[i] = [entry |-> s[i], priority |-> c.priorityUser[s[i]]]
  BY <1>1, <1>3, ViewFacts
<1>5. PICK x : x = [entry |-> e, priority |-> c.priorityUser[e]]
  OBVIOUS
<1>6. x \in Requests /\ x.priority = c.priorityUser[e] /\ c.priorityUser[e] \in Int
  BY <1>5, PriorityInt DEF Requests
<1>7. PICK y : y = InsertByPriority(v, x)
  OBVIOUS
<1>8. PICK t : t = Placed(s, k, e)
  OBVIOUS
<1>9. PICK w : w = View(c, t)
  OBVIOUS
<1>10. /\ t \in Seq(Entries) /\ Len(t) = L + 1
       /\ t = [i \in 1..L + 1 |-> IF i <= k THEN s[i] ELSE IF i = k + 1 THEN e ELSE s[i-1]]
  BY <1>1, <1>8, PlacedFacts DEF Placed
<1>11. /\ w \in Seq(Requests) /\ Len(w) = L + 1
       /\ \A i \in 1..L + 1 : w[i] = [entry |-> t[i], priority |-> c.priorityUser[t[i]]]
  <2>1. PICK M : M = L + 1
    OBVIOUS
  <2>2. t \in Seq(Entries) /\ Len(t) = M
    BY <1>10, <2>1
  <2>3. /\ w \in Seq(Requests) /\ Len(w) = M
        /\ \A i \in 1..M : w[i] = [entry |-> t[i], priority |-> c.priorityUser[t[i]]]
    BY <1>9, <2>2, ViewFacts
  <2>4. QED
    BY <2>1, <2>3
<1>12. y \in Seq(Requests) /\ Len(y) = L + 1
  BY <1>4, <1>6, <1>7, InsertType
<1>13. \A j \in 1..L : v[j].priority = c.priorityUser[s[j]] /\ c.priorityUser[s[j]] \in Int
  BY <1>2, <1>4, PriorityInt
<1>14. ASSUME NEW i \in 0..L PROVE Passes(v, x, i) <=> i <= k
  <2>1. CASE i <= k
    <3>1. \A j \in 1..i : j \in 1..k /\ j \in 1..L
      BY <1>2, <2>1
    <3>2. \A j \in 1..k : c.priorityUser[s[j]] <= c.priorityUser[e]
      BY DEF Stops
    <3>3. QED
      BY <1>6, <1>13, <2>1, <3>1, <3>2 DEF Passes
  <2>2. CASE ~(i <= k)
    <3>1. k + 1 \in 1..i /\ k + 1 \in 1..L /\ k < L
      BY <1>2, <2>2
    <3>2. c.priorityUser[e] < c.priorityUser[s[k+1]]
      BY <1>1, <3>1 DEF Stops
    <3>3. ~(v[k+1].priority <= x.priority)
      BY <1>6, <1>13, <3>1, <3>2
    <3>4. QED
      BY <2>2, <3>1, <3>3 DEF Passes
  <2>3. QED
    BY <2>1, <2>2
<1>15. ASSUME NEW i \in 1..L + 1 PROVE w[i] = y[i]
  <2>1. y[i] = IF i <= L /\ Passes(v, x, i) THEN v[i]
               ELSE IF Passes(v, x, i - 1) THEN x ELSE v[i-1]
    BY <1>4, <1>7 DEF InsertByPriority
  <2>2. i - 1 \in 0..L /\ (i <= L => i \in 0..L)
    BY <1>2
  <2>3. CASE i <= k
    <3>1. i <= L /\ i \in 1..L
      BY <1>2, <2>3
    <3>2. y[i] = v[i]
      BY <1>14, <2>1, <2>2, <2>3, <3>1
    <3>3. t[i] = s[i]
      BY <1>10, <2>3
    <3>4. QED
      BY <1>4, <1>11, <3>1, <3>2, <3>3
  <2>4. CASE i = k + 1
    <3>1. ~(i <= k) /\ i - 1 <= k
      BY <1>2, <2>4
    <3>2. y[i] = x
      BY <1>14, <2>1, <2>2, <3>1
    <3>3. t[i] = e
      BY <1>10, <2>4, <3>1
    <3>4. QED
      BY <1>5, <1>11, <3>2, <3>3
  <2>5. CASE i > k + 1
    <3>1. ~(i <= k) /\ ~(i - 1 <= k) /\ i # k + 1 /\ i - 1 \in 1..L
      BY <1>2, <2>5
    <3>2. y[i] = v[i-1]
      BY <1>14, <2>1, <2>2, <3>1
    <3>3. t[i] = s[i-1]
      BY <1>10, <3>1
    <3>4. QED
      BY <1>4, <1>11, <3>1, <3>2, <3>3
  <2>6. QED
    BY <1>2, <2>3, <2>4, <2>5
<1>16. w = y
  BY <1>11, <1>12, <1>15, SameSequence
<1>17. QED
  BY <1>3, <1>5, <1>7, <1>8, <1>9, <1>16

----------------------------------------------------------------------------
(* What the operations do to the queues.                                   *)

\* The queues of all the resources.
Views(c, q) == [r \in Items |-> View(c, q[r])]

\* The entries of a list have the same priorities in both.
SamePriorities(c, d, s) == \A x \in ToSet(s) : d.priorityUser[x] = c.priorityUser[x]

\* w is v with x as the queue of r.
ChangedAt(v, w, r, x) == w = [v EXCEPT ![r] = x]

\* One queue changes when the other lists keep their entries and priorities.
LEMMA OneViewChanges ==
  ASSUME NEW c, NEW d, NEW q, NEW r \in Items, NEW z,
         \A u \in Items : u # r => z[u] = q[u] /\ SamePriorities(c, d, q[u])
  PROVE  ChangedAt(Views(c, q), Views(d, z), r, View(d, z[r]))
<1>1. \A u \in Items : u # r => View(d, z[u]) = View(c, q[u])
  <2> SUFFICES ASSUME NEW u \in Items, u # r PROVE View(d, z[u]) = View(c, q[u])
    OBVIOUS
  <2>1. \A x \in ToSet(q[u]) : d.priorityUser[x] = c.priorityUser[x]
    BY DEF SamePriorities
  <2>2. View(d, q[u]) = View(c, q[u])
    BY <2>1, ViewSame
  <2>3. QED
    BY <2>2
<1>2. [u \in Items |-> View(d, z[u])] =
        [[u \in Items |-> View(c, q[u])] EXCEPT ![r] = View(d, z[r])]
  BY <1>1
<1>3. QED
  BY <1>2 DEF Views, ChangedAt

\* Queues are the same where the priorities of the listed entries are.
LEMMA ViewsSame ==
  ASSUME NEW c, NEW d, NEW q,
         \A r \in Items : \A x \in ToSet(q[r]) : d.priorityUser[x] = c.priorityUser[x]
  PROVE  Views(d, q) = Views(c, q)
<1>1. \A r \in Items : View(d, q[r]) = View(c, q[r])
  <2> SUFFICES ASSUME NEW r \in Items PROVE View(d, q[r]) = View(c, q[r])
    OBVIOUS
  <2>1. \A x \in ToSet(q[r]) : d.priorityUser[x] = c.priorityUser[x]
    OBVIOUS
  <2>2. QED
    BY <2>1, ViewSame
<1>2. QED
  BY <1>1 DEF Views

\* What was in no list still is in none.
NoneListed(p, q, t, z) == \A u : Unlisted(u, p, q) => Unlisted(u, t, z)

\* Taking an entry leaves the others in the pool.
LEMMA GetShows ==
  ASSUME NEW c \in Blocks, NEW p, NEW q, Stored(c, p, q), c.pendingPoolIdx # Nil
  PROVE  \E t :
           LET d == GetPendingPoolItem(c)
               e == c.pendingPoolIdx
           IN  /\ d \in Blocks /\ d.priorityUser = c.priorityUser
               /\ Stored(d, t, q) /\ Unlisted(e, t, q)
               /\ e \in Entries /\ e \in ToSet(p) /\ ToSet(t) = ToSet(p) \ {e}
<1>1. PICK e : e = c.pendingPoolIdx
  OBVIOUS
<1>2. PICK d : d = GetPendingPoolItem(c)
  OBVIOUS
<1>3. /\ e \in Entries /\ p # <<>> /\ e = p[1] /\ d \in Blocks
      /\ d.priorityUser = c.priorityUser
      /\ Stored(d, Without(p, 1), q)
      /\ Unlisted(e, Without(p, 1), q)
  BY <1>1, <1>2, GetKeeps
<1>4. List(c, e, p)
  BY <1>1 DEF Stored
<1>5. p \in Seq(Entries) /\ IsInjective(p) /\ 1 \in 1..Len(p)
  <2>1. p \in Seq(Entries) /\ IsInjective(p)
    BY <1>4 DEF List
  <2>2. Len(p) \in Nat /\ Len(p) > 0
    BY <1>3, <2>1
  <2>3. QED
    BY <2>1, <2>2
<1>6. ToSet(Without(p, 1)) = ToSet(p) \ {e}
  BY <1>3, <1>5, WithoutFacts
<1>7. e \in ToSet(p)
  BY <1>3, <1>4, <1>5, ListFacts
<1>8. QED
  BY <1>1, <1>2, <1>3, <1>6, <1>7

\* Putting an entry back adds it to the pool, on top.
LEMMA PutShows ==
  ASSUME NEW c \in Blocks, NEW p, NEW q, Stored(c, p, q),
         NEW e \in Entries, Unlisted(e, p, q)
  PROVE  \E t :
           LET d == PutPendingPoolItem(c, e)
           IN  /\ d \in Blocks /\ d.priorityUser = c.priorityUser
               /\ d.pendingPoolIdx = e
               /\ Stored(d, t, q) /\ ToSet(t) = ToSet(p) \cup {e}
<1>1. PICK d : d = PutPendingPoolItem(c, e)
  OBVIOUS
<1>2. /\ d \in Blocks /\ d.priorityUser = c.priorityUser /\ d.pendingPoolIdx = e
      /\ Stored(d, Placed(p, 0, e), q)
  BY <1>1, PutKeeps
<1>3. p \in Seq(Entries) /\ 0 \in 0..Len(p)
  BY DEF Stored, List
<1>4. ToSet(Placed(p, 0, e)) = ToSet(p) \cup {e}
  BY <1>3, PlacedFacts
<1>5. QED
  BY <1>1, <1>2, <1>4

\* Inserting an entry is InsertByPriority.
LEMMA InsertShows ==
  ASSUME NEW c \in Blocks, NEW p, NEW q, Stored(c, p, q),
         NEW r \in Items, NEW e \in Entries, Unlisted(e, p, q)
  PROVE  \E z :
           LET d == InsertPendingByPriority(c, r, e)
               x == [entry |-> e, priority |-> c.priorityUser[e]]
           IN  /\ d \in Blocks
               /\ Stored(d, p, z)
               /\ ChangedAt(Views(c, q), Views(d, z), r, InsertByPriority(Views(c, q)[r], x))
<1>1. PICK d : d = InsertPendingByPriority(c, r, e)
  OBVIOUS
<1>2. PICK k \in 0..Len(q[r]) :
        /\ d \in Blocks /\ d.priorityUser = c.priorityUser
        /\ d.pendingPoolIdx = c.pendingPoolIdx
        /\ Stored(d, p, [q EXCEPT ![r] = Placed(q[r], k, e)])
        /\ Stops(c, q[r], e, k)
  BY <1>1, InsertKeeps
<1>3. q \in [Items -> Seq(Entries)] /\ q[r] \in Seq(Entries)
  BY DEF Stored
<1>4. PICK t : t = Placed(q[r], k, e)
  OBVIOUS
<1>5. t \in Seq(Entries) /\ ToSet(t) = ToSet(q[r]) \cup {e}
  <2>1. PICK s : s = q[r]
    OBVIOUS
  <2>2. s \in Seq(Entries) /\ k \in 0..Len(s)
    BY <1>2, <1>3, <2>1
  <2>3. Placed(s, k, e) \in Seq(Entries) /\ ToSet(Placed(s, k, e)) = ToSet(s) \cup {e}
    BY <2>2, PlacedFacts
  <2>4. QED
    BY <1>4, <2>1, <2>3
<1>6. PICK z : z = [q EXCEPT ![r] = t]
  OBVIOUS
<1>7. PICK x : x = [entry |-> e, priority |-> c.priorityUser[e]]
  OBVIOUS
<1>8. View(d, t) = InsertByPriority(View(c, q[r]), x)
  <2>1. View(c, t) = InsertByPriority(View(c, q[r]), x)
    BY <1>2, <1>3, <1>4, <1>7, ViewInsert
  <2>2. View(d, t) = View(c, t)
    BY <1>2, ViewSame
  <2>3. QED
    BY <2>1, <2>2
<1>9. Views(d, z) = [Views(c, q) EXCEPT ![r] = View(d, t)]
  <2>1. \A u \in Items : SamePriorities(c, d, q[u])
    BY <1>2 DEF SamePriorities
  <2>2. z[r] = t /\ \A u \in Items : u # r => z[u] = q[u]
    BY <1>3, <1>6
  <2>3. ChangedAt(Views(c, q), Views(d, z), r, View(d, z[r]))
    BY <2>1, <2>2, OneViewChanges
  <2>4. QED
    BY <2>2, <2>3 DEF ChangedAt
<1>10. Views(c, q)[r] = View(c, q[r])
  BY DEF Views
<1>11. Stored(d, p, z)
  BY <1>2, <1>4, <1>6
<1>12. QED
  BY <1>1, <1>2, <1>7, <1>8, <1>9, <1>10, <1>11 DEF ChangedAt

\* Removing an entry is RemovePendingAt, also when its priority has just
\* been changed from what it was in b.
LEMMA RemoveShows ==
  ASSUME NEW b \in Blocks, NEW c \in Blocks, NEW p, NEW q, Stored(c, p, q),
         NEW r \in Items, NEW k \in 1..Len(q[r]),
         \A x \in Entries : x # q[r][k] => c.priorityUser[x] = b.priorityUser[x]
  PROVE  \E z :
           LET e == q[r][k]
               d == RemovePending(c, r, e)
           IN  /\ d \in Blocks /\ d.priorityUser = c.priorityUser
               /\ e \in Entries
               /\ Stored(d, p, z) /\ Unlisted(e, p, z)
               /\ NoneListed(p, q, p, z)
               /\ Views(b, q)[r][k] = [entry |-> e, priority |-> b.priorityUser[e]]
               /\ k \in 1..Len(Views(b, q)[r])
               /\ ChangedAt(Views(b, q), Views(d, z), r, RemovePendingAt(Views(b, q)[r], k))
<1>1. PICK e : e = q[r][k]
  OBVIOUS
<1>2. PICK d : d = RemovePending(c, r, e)
  OBVIOUS
<1>3. PICK t : t = Rest(q[r], k)
  OBVIOUS
<1>4. PICK z : z = [q EXCEPT ![r] = t]
  OBVIOUS
<1>5. /\ e \in Entries /\ d \in Blocks
      /\ d.priorityUser = c.priorityUser
      /\ Stored(d, p, z) /\ Unlisted(e, p, z)
      /\ e \notin ToSet(t)
  <2>1. LET f == q[r][k]
            g == RemovePending(c, r, f)
            y == [q EXCEPT ![r] = Rest(q[r], k)]
        IN  /\ f \in Entries /\ g \in Blocks
            /\ g.priorityUser = c.priorityUser
            /\ Stored(g, p, y) /\ Unlisted(f, p, y)
            /\ f \notin ToSet(Rest(q[r], k))
    BY RemoveKeeps
  <2>2. QED
    BY <1>1, <1>2, <1>3, <1>4, <2>1
<1>6. q \in [Items -> Seq(Entries)] /\ q[r] \in Seq(Entries)
  BY DEF Stored
<1>7. z[r] = t /\ t \in Seq(Entries) /\ \A s \in Items : s # r => z[s] = q[s]
  <2>1. z[r] = t /\ \A s \in Items : s # r => z[s] = q[s]
    BY <1>4, <1>6
  <2>2. z[r] \in Seq(Entries)
    BY <1>5 DEF Stored
  <2>3. QED
    BY <2>1, <2>2
<1>8. ToSet(t) \subseteq ToSet(q[r])
  <2>1. List(c, c.pendingNtfyIdx[r], q[r])
    BY DEF Stored
  <2>2. IsInjective(q[r])
    BY <2>1 DEF List
  <2>3. CASE k = 1
    BY <1>3, <2>3 DEF Rest, ToSet
  <2>4. CASE k # 1
    <3>1. ToSet(Without(q[r], k)) = ToSet(q[r]) \ {q[r][k]}
      BY <1>6, <2>2, WithoutFacts
    <3>2. QED
      BY <1>3, <2>4, <3>1 DEF Rest
  <2>5. QED
    BY <2>3, <2>4
<1>9. \A u \in Items : \A x \in ToSet(q[u]) : x \in Entries
  <2>1. \A u \in Items : List(c, c.pendingNtfyIdx[u], q[u])
    BY DEF Stored
  <2>2. QED
    BY <2>1, ListFacts
<1>10. \A x \in ToSet(t) : d.priorityUser[x] = b.priorityUser[x]
  BY <1>1, <1>5, <1>8, <1>9
<1>11. \A u \in Items : u # r => \A x \in ToSet(q[u]) : d.priorityUser[x] = b.priorityUser[x]
  <2> SUFFICES ASSUME NEW u \in Items, u # r, NEW x \in ToSet(q[u])
               PROVE  d.priorityUser[x] = b.priorityUser[x]
    OBVIOUS
  <2>1. x \in Entries
    BY <1>9
  <2>2. x # e
    BY <1>5, <1>7 DEF Unlisted
  <2>3. QED
    BY <1>1, <1>5, <2>1, <2>2
<1>12. /\ View(b, q[r])[k] = [entry |-> e, priority |-> b.priorityUser[e]]
       /\ View(b, t) = RemovePendingAt(View(b, q[r]), k)
  BY <1>1, <1>3, <1>6, ViewRemove
<1>13. View(d, t) = View(b, t)
  BY <1>10, ViewSame
<1>14. Views(d, z) = [Views(b, q) EXCEPT ![r] = View(d, t)]
  <2>1. \A u \in Items : u # r => z[u] = q[u] /\ SamePriorities(b, d, q[u])
    BY <1>7, <1>11 DEF SamePriorities
  <2>2. ChangedAt(Views(b, q), Views(d, z), r, View(d, z[r]))
    BY <2>1, OneViewChanges
  <2>3. QED
    BY <1>7, <2>2 DEF ChangedAt
<1>15. Views(b, q)[r] = View(b, q[r]) /\ Len(View(b, q[r])) = Len(q[r])
  BY <1>6, ViewFacts DEF Views
<1>16. NoneListed(p, q, p, z)
  BY <1>7, <1>8 DEF Unlisted, NoneListed
<1>17. QED
  BY <1>1, <1>2, <1>5, <1>12, <1>13, <1>14, <1>15, <1>16 DEF ChangedAt

\* A new request takes the entry on top of the pool.
LEMMA EnqueueShows ==
  ASSUME NEW c \in Blocks, NEW p, NEW q, Stored(c, p, q), c.pendingPoolIdx # Nil,
         NEW r \in Items, NEW v \in Priorities \cup {0}
  PROVE  \E t, z :
           LET e == c.pendingPoolIdx
               d == InsertPendingByPriority(WithPriority(GetPendingPoolItem(c), e, v), r, e)
               x == [entry |-> e, priority |-> v]
           IN  /\ d \in Blocks /\ Stored(d, t, z)
               /\ e \in Entries /\ e \in ToSet(p) /\ ToSet(t) = ToSet(p) \ {e}
               /\ ChangedAt(Views(c, q), Views(d, z), r, InsertByPriority(Views(c, q)[r], x))
<1>1. PICK e : e = c.pendingPoolIdx
  OBVIOUS
<1>2. PICK g : g = GetPendingPoolItem(c)
  OBVIOUS
<1>3. PICK t : /\ g \in Blocks /\ g.priorityUser = c.priorityUser
               /\ Stored(g, t, q) /\ Unlisted(e, t, q)
               /\ e \in Entries /\ e \in ToSet(p) /\ ToSet(t) = ToSet(p) \ {e}
  BY <1>1, <1>2, GetShows
<1>4. PICK w : w = WithPriority(g, e, v)
  OBVIOUS
<1>5. /\ w \in Blocks /\ Stored(w, t, q)
      /\ w.priorityUser = [c.priorityUser EXCEPT ![e] = v]
  BY <1>3, <1>4, PriorityKeeps
<1>6. w.priorityUser[e] = v /\ \A u \in Entries : u # e => w.priorityUser[u] = c.priorityUser[u]
  BY <1>3, <1>5 DEF Blocks
<1>7. Views(w, q) = Views(c, q)
  <2>1. ASSUME NEW s \in Items, NEW u \in ToSet(q[s])
        PROVE  w.priorityUser[u] = c.priorityUser[u]
    <3>1. List(w, w.pendingNtfyIdx[s], q[s])
      BY <1>5 DEF Stored
    <3>2. u \in Entries
      BY <3>1, ListFacts
    <3>3. u # e
      BY <1>3 DEF Unlisted
    <3>4. QED
      BY <1>6, <3>2, <3>3
  <2>2. QED
    BY <2>1, ViewsSame
<1>8. PICK d : d = InsertPendingByPriority(w, r, e)
  OBVIOUS
<1>9. PICK x : x = [entry |-> e, priority |-> v]
  OBVIOUS
<1>10. PICK z : /\ d \in Blocks /\ Stored(d, t, z)
                /\ ChangedAt(Views(w, q), Views(d, z), r, InsertByPriority(Views(w, q)[r], x))
  <2>1. \E z : LET f == InsertPendingByPriority(w, r, e)
                   y == [entry |-> e, priority |-> w.priorityUser[e]]
               IN  /\ f \in Blocks /\ Stored(f, t, z)
                   /\ ChangedAt(Views(w, q), Views(f, z), r, InsertByPriority(Views(w, q)[r], y))
    BY <1>3, <1>5, InsertShows
  <2>2. QED
    BY <1>6, <1>8, <1>9, <2>1
<1>11. QED
  BY <1>1, <1>2, <1>3, <1>4, <1>7, <1>8, <1>9, <1>10

\* What a release does to the links before it recycles the entry.
Popped(c, r) ==
  LET n == c.next[c.pendingNtfyIdx[r]]
  IN  [c EXCEPT !.pendingNtfyIdx[r] = n,
                !.prev = IF n = Nil THEN @ ELSE [@ EXCEPT ![n] = Nil]]

\* A release takes the head and recycles its entry.
LEMMA GrantShows ==
  ASSUME NEW c \in Blocks, NEW p, NEW q, Stored(c, p, q),
         NEW r \in Items, c.pendingNtfyIdx[r] # Nil
  PROVE  \E t, z :
           LET e == c.pendingNtfyIdx[r]
               d == PutPendingPoolItem(Popped(c, r), e)
           IN  /\ d \in Blocks /\ Stored(d, t, z)
               /\ Views(c, q)[r] # <<>>
               /\ Head(Views(c, q)[r]).entry = e
               /\ ToSet(t) = ToSet(p) \cup {e}
               /\ ChangedAt(Views(c, q), Views(d, z), r, Tail(Views(c, q)[r]))
               /\ NoneListed(p, q, t, z)
<1>1. PICK e : e = c.pendingNtfyIdx[r]
  OBVIOUS
<1>2. PICK n : n = c.next[e]
  OBVIOUS
<1>3. PICK w : w = [c EXCEPT !.pendingNtfyIdx[r] = n,
                             !.prev = IF n = Nil THEN @ ELSE [@ EXCEPT ![n] = Nil]]
  OBVIOUS
<1>4. PICK s : s = q[r]
  OBVIOUS
<1>5. PICK z : z = [q EXCEPT ![r] = Without(s, 1)]
  OBVIOUS
<1>6. /\ e \in Entries /\ s # <<>> /\ e = s[1] /\ w \in Blocks
      /\ w.priorityUser = c.priorityUser
      /\ Stored(w, p, z) /\ Unlisted(e, p, z)
  <2>1. LET f == c.pendingNtfyIdx[r]
            m == c.next[f]
            g == [c EXCEPT !.pendingNtfyIdx[r] = m,
                           !.prev = IF m = Nil THEN @ ELSE [@ EXCEPT ![m] = Nil]]
            y == [q EXCEPT ![r] = Without(q[r], 1)]
        IN  /\ f \in Entries /\ q[r] # <<>> /\ f = q[r][1] /\ g \in Blocks
            /\ g.priorityUser = c.priorityUser
            /\ Stored(g, p, y) /\ Unlisted(f, p, y)
    BY PopKeeps
  <2>2. QED
    BY <1>1, <1>2, <1>3, <1>4, <1>5, <2>1
<1>7. PICK d : d = PutPendingPoolItem(w, e)
  OBVIOUS
<1>8. PICK t : /\ d \in Blocks /\ d.priorityUser = w.priorityUser
               /\ Stored(d, t, z) /\ ToSet(t) = ToSet(p) \cup {e}
  BY <1>6, <1>7, PutShows
<1>9. q \in [Items -> Seq(Entries)] /\ s \in Seq(Entries)
  BY <1>4 DEF Stored
<1>10. z[r] = Without(s, 1) /\ \A u \in Items : u # r => z[u] = q[u]
  BY <1>5, <1>9
<1>11. ChangedAt(Views(c, q), Views(d, z), r, View(d, z[r]))
  <2>1. \A u \in Items : u # r => z[u] = q[u] /\ SamePriorities(c, d, q[u])
    BY <1>6, <1>8, <1>10 DEF SamePriorities
  <2>2. QED
    BY <2>1, OneViewChanges
<1>12. /\ View(c, s) # <<>> /\ Head(View(c, s)).entry = e
       /\ View(c, z[r]) = Tail(View(c, s))
  BY <1>6, <1>9, <1>10, ViewTail
<1>13. View(d, z[r]) = View(c, z[r])
  BY <1>6, <1>8, ViewSame
<1>14. Views(c, q)[r] = View(c, s)
  BY <1>4 DEF Views
<1>15. ASSUME NEW u, Unlisted(u, p, q) PROVE Unlisted(u, t, z)
  <2>1. e \in ToSet(s)
    <3>1. List(c, e, s)
      BY <1>1, <1>4 DEF Stored
    <3>2. Len(s) \in Nat /\ Len(s) > 0
      BY <1>6, <1>9
    <3>3. 1 \in 1..Len(s)
      BY <3>2
    <3>4. QED
      BY <1>6, <3>1, <3>3, ListFacts
  <2>2. u # e
    BY <1>4, <1>15, <2>1 DEF Unlisted
  <2>3. ToSet(z[r]) \subseteq ToSet(s)
    <3>1. List(c, e, s)
      BY <1>1, <1>4 DEF Stored
    <3>2. IsInjective(s)
      BY <3>1 DEF List
    <3>3. 1 \in 1..Len(s)
      <4>1. Len(s) \in Nat /\ Len(s) > 0
        BY <1>6, <1>9
      <4>2. QED
        BY <4>1
    <3>4. ToSet(Without(s, 1)) = ToSet(s) \ {s[1]}
      BY <1>9, <3>2, <3>3, WithoutFacts
    <3>5. QED
      BY <1>10, <3>4
  <2>4. QED
    BY <1>4, <1>8, <1>10, <1>15, <2>2, <2>3 DEF Unlisted
<1>16. QED
  <2>1. w = Popped(c, r)
    BY <1>1, <1>2, <1>3 DEF Popped
  <2>2. QED
    BY <1>1, <1>6, <1>7, <1>8, <1>11, <1>12, <1>13, <1>14, <1>15, <2>1 DEF NoneListed

\* A request gets another priority and keeps waiting.
LEMMA ReprioritiseShows ==
  ASSUME NEW c \in Blocks, NEW p, NEW q, Stored(c, p, q),
         NEW r \in Items, NEW k \in 1..Len(q[r]), NEW v \in Priorities \cup {0}
  PROVE  \E z :
           LET e == q[r][k]
               d == InsertPendingByPriority(RemovePending(WithPriority(c, e, v), r, e), r, e)
               x == [Views(c, q)[r][k] EXCEPT !.priority = v]
           IN  /\ d \in Blocks /\ Stored(d, p, z)
               /\ k \in 1..Len(Views(c, q)[r])
               /\ ChangedAt(Views(c, q), Views(d, z), r,
                            InsertByPriority(RemovePendingAt(Views(c, q)[r], k), x))
<1>1. PICK e : e = q[r][k]
  OBVIOUS
<1>2. PICK w : w = WithPriority(c, e, v)
  OBVIOUS
<1>3. e \in Entries
  <2>1. List(c, c.pendingNtfyIdx[r], q[r])
    BY DEF Stored
  <2>2. QED
    BY <1>1, <2>1, ListFacts
<1>4. /\ w \in Blocks /\ Stored(w, p, q)
      /\ w.priorityUser = [c.priorityUser EXCEPT ![e] = v]
  BY <1>2, <1>3, PriorityKeeps
<1>5. w.priorityUser[e] = v /\ \A u \in Entries : u # e => w.priorityUser[u] = c.priorityUser[u]
  BY <1>3, <1>4 DEF Blocks
<1>6. PICK m : m = RemovePending(w, r, e)
  OBVIOUS
<1>7. PICK y : /\ m \in Blocks /\ m.priorityUser = w.priorityUser
               /\ Stored(m, p, y) /\ Unlisted(e, p, y)
               /\ Views(c, q)[r][k] = [entry |-> e, priority |-> c.priorityUser[e]]
               /\ k \in 1..Len(Views(c, q)[r])
               /\ ChangedAt(Views(c, q), Views(m, y), r, RemovePendingAt(Views(c, q)[r], k))
  <2>1. \A u \in Entries : u # q[r][k] => w.priorityUser[u] = c.priorityUser[u]
    BY <1>1, <1>5
  <2>2. \E z :
          LET f == q[r][k]
              g == RemovePending(w, r, f)
          IN  /\ g \in Blocks /\ g.priorityUser = w.priorityUser
              /\ f \in Entries
              /\ Stored(g, p, z) /\ Unlisted(f, p, z)
              /\ NoneListed(p, q, p, z)
              /\ Views(c, q)[r][k] = [entry |-> f, priority |-> c.priorityUser[f]]
              /\ k \in 1..Len(Views(c, q)[r])
              /\ ChangedAt(Views(c, q), Views(g, z), r, RemovePendingAt(Views(c, q)[r], k))
    BY <1>4, <2>1, RemoveShows
  <2>3. QED
    BY <1>1, <1>6, <2>2
<1>8. PICK d : d = InsertPendingByPriority(m, r, e)
  OBVIOUS
<1>9. PICK x : x = [entry |-> e, priority |-> v]
  OBVIOUS
<1>10. PICK z : /\ d \in Blocks /\ Stored(d, p, z)
                /\ ChangedAt(Views(m, y), Views(d, z), r, InsertByPriority(Views(m, y)[r], x))
  <2>1. \E z : LET f == InsertPendingByPriority(m, r, e)
                   g == [entry |-> e, priority |-> m.priorityUser[e]]
               IN  /\ f \in Blocks /\ Stored(f, p, z)
                   /\ ChangedAt(Views(m, y), Views(f, z), r, InsertByPriority(Views(m, y)[r], g))
    BY <1>3, <1>7, InsertShows
  <2>2. QED
    BY <1>5, <1>7, <1>8, <1>9, <2>1
<1>11. x = [Views(c, q)[r][k] EXCEPT !.priority = v]
  BY <1>7, <1>9
<1>12. Views(m, y)[r] = RemovePendingAt(Views(c, q)[r], k)
  BY <1>7 DEF Views, ChangedAt
<1>13. ChangedAt(Views(c, q), Views(d, z), r,
                 InsertByPriority(RemovePendingAt(Views(c, q)[r], k), x))
  <2>1. PICK a : a = InsertByPriority(RemovePendingAt(Views(c, q)[r], k), x)
    OBVIOUS
  <2>2. PICK b : b = RemovePendingAt(Views(c, q)[r], k)
    OBVIOUS
  <2>3. PICK f : f = Views(c, q)
    OBVIOUS
  <2>4. Views(d, z) = [[f EXCEPT ![r] = b] EXCEPT ![r] = a]
    BY <1>7, <1>10, <1>12, <2>1, <2>2, <2>3 DEF ChangedAt
  <2>5. [[f EXCEPT ![r] = b] EXCEPT ![r] = a] = [f EXCEPT ![r] = a]
    OBVIOUS
  <2>6. QED
    BY <2>1, <2>3, <2>4, <2>5 DEF ChangedAt
<1>14. QED
  BY <1>1, <1>2, <1>6, <1>7, <1>8, <1>10, <1>11, <1>13

\* A request leaves its list for good and its entry goes back on top of the
\* pool.
LEMMA RecycleShows ==
  ASSUME NEW c \in Blocks, NEW p, NEW q, Stored(c, p, q),
         NEW r \in Items, NEW k \in 1..Len(q[r])
  PROVE  \E t, z :
           LET e == q[r][k]
               d == PutPendingPoolItem(RemovePending(c, r, e), e)
           IN  /\ d \in Blocks /\ Stored(d, t, z)
               /\ d.pendingPoolIdx = e /\ d.priorityUser = c.priorityUser
               /\ e \in Entries /\ e \notin ToSet(p) /\ ToSet(t) = ToSet(p) \cup {e}
               /\ k \in 1..Len(Views(c, q)[r])
               /\ Views(c, q)[r][k] = [entry |-> e, priority |-> c.priorityUser[e]]
               /\ ChangedAt(Views(c, q), Views(d, z), r, RemovePendingAt(Views(c, q)[r], k))
<1>1. PICK e : e = q[r][k]
  OBVIOUS
<1>2. PICK m : m = RemovePending(c, r, e)
  OBVIOUS
<1>3. PICK z : /\ m \in Blocks /\ m.priorityUser = c.priorityUser
               /\ e \in Entries
               /\ Stored(m, p, z) /\ Unlisted(e, p, z)
               /\ Views(c, q)[r][k] = [entry |-> e, priority |-> c.priorityUser[e]]
               /\ k \in 1..Len(Views(c, q)[r])
               /\ ChangedAt(Views(c, q), Views(m, z), r, RemovePendingAt(Views(c, q)[r], k))
  <2>1. \A u \in Entries : u # q[r][k] => c.priorityUser[u] = c.priorityUser[u]
    OBVIOUS
  <2>2. \E z :
          LET f == q[r][k]
              g == RemovePending(c, r, f)
          IN  /\ g \in Blocks /\ g.priorityUser = c.priorityUser
              /\ f \in Entries
              /\ Stored(g, p, z) /\ Unlisted(f, p, z)
              /\ NoneListed(p, q, p, z)
              /\ Views(c, q)[r][k] = [entry |-> f, priority |-> c.priorityUser[f]]
              /\ k \in 1..Len(Views(c, q)[r])
              /\ ChangedAt(Views(c, q), Views(g, z), r, RemovePendingAt(Views(c, q)[r], k))
    BY <2>1, RemoveShows
  <2>3. QED
    BY <1>1, <1>2, <2>2
<1>4. PICK d : d = PutPendingPoolItem(m, e)
  OBVIOUS
<1>5. PICK t : /\ d \in Blocks /\ d.priorityUser = m.priorityUser
               /\ d.pendingPoolIdx = e
               /\ Stored(d, t, z) /\ ToSet(t) = ToSet(p) \cup {e}
  BY <1>3, <1>4, PutShows
<1>6. Views(d, z) = Views(m, z)
  BY <1>5, ViewsSame
<1>7. e \notin ToSet(p)
  BY <1>3 DEF Unlisted
<1>8. QED
  BY <1>1, <1>2, <1>3, <1>4, <1>5, <1>6, <1>7

\* It is made anew for s and takes the same entry.
LEMMA ReissueShows ==
  ASSUME NEW c \in Blocks, NEW p, NEW q, Stored(c, p, q),
         NEW r \in Items, NEW k \in 1..Len(q[r]), NEW s \in Items
  PROVE  \E t, z :
           LET e == q[r][k]
               v == c.priorityUser[e]
               m == PutPendingPoolItem(RemovePending(c, r, e), e)
               top == m.pendingPoolIdx
               d == InsertPendingByPriority(WithPriority(GetPendingPoolItem(m), top, v), s, top)
               f == [Views(c, q) EXCEPT ![r] = RemovePendingAt(Views(c, q)[r], k)]
           IN  /\ d \in Blocks /\ Stored(d, t, z)
               /\ ToSet(t) = ToSet(p)
               /\ k \in 1..Len(Views(c, q)[r])
               /\ ChangedAt(f, Views(d, z), s, InsertByPriority(f[s], Views(c, q)[r][k]))
<1>1. PICK e : e = q[r][k]
  OBVIOUS
<1>2. PICK v : v = c.priorityUser[e]
  OBVIOUS
<1>3. PICK m : m = PutPendingPoolItem(RemovePending(c, r, e), e)
  OBVIOUS
<1>4. PICK f : f = [Views(c, q) EXCEPT ![r] = RemovePendingAt(Views(c, q)[r], k)]
  OBVIOUS
<1>5. PICK t, z :
        /\ m \in Blocks /\ Stored(m, t, z)
        /\ m.pendingPoolIdx = e /\ m.priorityUser = c.priorityUser
        /\ e \in Entries /\ e \notin ToSet(p) /\ ToSet(t) = ToSet(p) \cup {e}
        /\ k \in 1..Len(Views(c, q)[r])
        /\ Views(c, q)[r][k] = [entry |-> e, priority |-> v]
        /\ Views(m, z) = f
  <2>1. \E t, z :
           LET a == q[r][k]
               d == PutPendingPoolItem(RemovePending(c, r, a), a)
           IN  /\ d \in Blocks /\ Stored(d, t, z)
               /\ d.pendingPoolIdx = a /\ d.priorityUser = c.priorityUser
               /\ a \in Entries /\ a \notin ToSet(p) /\ ToSet(t) = ToSet(p) \cup {a}
               /\ k \in 1..Len(Views(c, q)[r])
               /\ Views(c, q)[r][k] = [entry |-> a, priority |-> c.priorityUser[a]]
               /\ ChangedAt(Views(c, q), Views(d, z), r, RemovePendingAt(Views(c, q)[r], k))
    BY RecycleShows
  <2>2. QED
    BY <1>1, <1>2, <1>3, <1>4, <2>1 DEF ChangedAt
<1>6. v \in Priorities \cup {0}
  BY <1>2, <1>5 DEF Blocks
<1>7. m.pendingPoolIdx # Nil
  BY <1>5, PoolAssumption DEF Entries, Nil
<1>8. PICK d : d = InsertPendingByPriority(WithPriority(GetPendingPoolItem(m), e, v), s, e)
  OBVIOUS
<1>9. PICK x : x = [entry |-> e, priority |-> v]
  OBVIOUS
<1>10. PICK u, w : /\ d \in Blocks /\ Stored(d, u, w)
                   /\ ToSet(u) = ToSet(t) \ {e}
                   /\ ChangedAt(Views(m, z), Views(d, w), s, InsertByPriority(Views(m, z)[s], x))
  <2>1. \E u, w :
           LET a == m.pendingPoolIdx
               b == InsertPendingByPriority(WithPriority(GetPendingPoolItem(m), a, v), s, a)
               y == [entry |-> a, priority |-> v]
           IN  /\ b \in Blocks /\ Stored(b, u, w)
               /\ a \in Entries /\ a \in ToSet(t) /\ ToSet(u) = ToSet(t) \ {a}
               /\ ChangedAt(Views(m, z), Views(b, w), s, InsertByPriority(Views(m, z)[s], y))
    BY <1>5, <1>6, <1>7, EnqueueShows
  <2>2. QED
    BY <1>5, <1>8, <1>9, <2>1
<1>11. ToSet(u) = ToSet(p)
  BY <1>5, <1>10
<1>12. x = Views(c, q)[r][k]
  BY <1>5, <1>9
<1>13. /\ d \in Blocks /\ Stored(d, u, w)
       /\ ToSet(u) = ToSet(p)
       /\ k \in 1..Len(Views(c, q)[r])
       /\ ChangedAt(f, Views(d, w), s, InsertByPriority(f[s], Views(c, q)[r][k]))
  BY <1>5, <1>10, <1>11, <1>12
<1>14. d = InsertPendingByPriority(
             WithPriority(GetPendingPoolItem(m), m.pendingPoolIdx, v), s, m.pendingPoolIdx)
  BY <1>5, <1>8
<1>15. QED
  BY <1>1, <1>2, <1>3, <1>4, <1>13, <1>14

----------------------------------------------------------------------------
(* The steps.                                                              *)

\* PoolInv, with the sequences that the chains of links stand for.
LEMMA Shown ==
  ASSUME PoolInv
  PROVE  /\ ctrl \in Blocks /\ held \in Links
         /\ Stored(ctrl, Pool, Lists)
         /\ held # Nil => Unlisted(held, Pool, Lists)
         /\ [r \in Items |-> Queue(r)] = Views(ctrl, Lists)
         /\ \A r \in Items : Lists[r] = Pending(ctrl, r)
<1>1. \A r \in Items : Lists[r] = Pending(ctrl, r)
  BY DEF Lists
<1>2. \A r \in Items : Queue(r) = View(ctrl, Lists[r])
  BY <1>1 DEF Queue, View
<1>3. [r \in Items |-> Queue(r)] = Views(ctrl, Lists)
  BY <1>2 DEF Views
<1>4. QED
  BY <1>1, <1>3 DEF PoolInv, TypeOK, Blocks

\* Any sequences that the next control block stores will do.
LEMMA ShownNext ==
  ASSUME NEW p, NEW q, ctrl' \in Blocks, held' \in Links,
         Stored(ctrl', p, q), held' # Nil => Unlisted(held', p, q)
  PROVE  /\ PoolInv'
         /\ [r \in Items |-> Queue(r)]' = Views(ctrl', q)
         /\ ToSet(Chain(ctrl, ctrl.pendingPoolIdx))' = ToSet(p)
<1>1. PICK c : c = ctrl'
  OBVIOUS
<1>2. Chain(c, c.pendingPoolIdx) = p /\ \A r \in Items : Pending(c, r) = q[r]
  BY <1>1, StoredRead
<1>3. [r \in Items |-> Pending(c, r)] = q
  <2>1. q = [r \in Items |-> q[r]]
    BY DEF Stored
  <2>2. QED
    BY <1>2, <2>1
<1>4. Pool' = p /\ Lists' = q
  BY <1>1, <1>2, <1>3 DEF Pool, Lists
<1>5. TypeOK'
  BY DEF TypeOK, Blocks
<1>6. PoolInv'
  BY <1>4, <1>5 DEF PoolInv
<1>7. \A r \in Items : Queue(r)' = View(c, q[r])
  BY <1>1, <1>2 DEF Queue, View
<1>8. [r \in Items |-> Queue(r)]' = Views(c, q)
  BY <1>7 DEF Views
<1>9. QED
  BY <1>1, <1>2, <1>6, <1>8

\* The queue operations of ErmQueues are those of ErmQueueOps.
LEMMA SameOperations ==
  /\ \A q, x : Queues!InsertByPriority(q, x) = InsertByPriority(q, x)
  /\ \A q, k : Queues!RemovePendingAt(q, k) = RemovePendingAt(q, k)
  BY DEF InsertByPriority, Queues!InsertByPriority, Passes, Queues!Passes,
         RemovePendingAt, Queues!RemovePendingAt, RemoveAt, Queues!RemoveAt

\* A request that has to wait.
LEMMA EnqueueStep ==
  ASSUME PoolInv, NEW r \in Items, NEW v \in Priorities, Enqueue(r, v)
  PROVE  PoolInv' /\ \E e \in Entries : Queues!Enqueue(r, e, v)
<1>1. PICK p, q : p = Pool /\ q = Lists
  OBVIOUS
<1>2. /\ ctrl \in Blocks /\ Stored(ctrl, p, q)
      /\ [s \in Items |-> Queue(s)] = Views(ctrl, q)
      /\ ToSet(Chain(ctrl, ctrl.pendingPoolIdx)) = ToSet(p)
  BY <1>1, Shown DEF Pool
<1>3. PICK e : e = ctrl.pendingPoolIdx
  OBVIOUS
<1>4. /\ held = Nil /\ held' = Nil /\ e # Nil
      /\ ctrl' = InsertPendingByPriority(WithPriority(GetPendingPoolItem(ctrl), e, v), r, e)
  BY <1>3 DEF Enqueue
<1>5. PICK x : x = [entry |-> e, priority |-> v]
  OBVIOUS
<1>6. PICK t, z :
        /\ ctrl' \in Blocks /\ Stored(ctrl', t, z)
        /\ e \in Entries /\ e \in ToSet(p) /\ ToSet(t) = ToSet(p) \ {e}
        /\ ChangedAt(Views(ctrl, q), Views(ctrl', z), r, InsertByPriority(Views(ctrl, q)[r], x))
  <2>1. PICK c, d : c = ctrl /\ d = ctrl'
    OBVIOUS
  <2>2. \E t, z :
           LET f == c.pendingPoolIdx
               g == InsertPendingByPriority(WithPriority(GetPendingPoolItem(c), f, v), r, f)
               y == [entry |-> f, priority |-> v]
           IN  /\ g \in Blocks /\ Stored(g, t, z)
               /\ f \in Entries /\ f \in ToSet(p) /\ ToSet(t) = ToSet(p) \ {f}
               /\ ChangedAt(Views(c, q), Views(g, z), r, InsertByPriority(Views(c, q)[r], y))
    BY <1>2, <1>3, <1>4, <2>1, EnqueueShows
  <2>3. QED
    BY <1>3, <1>4, <1>5, <2>1, <2>2
<1>7. /\ PoolInv'
      /\ [s \in Items |-> Queue(s)]' = Views(ctrl', z)
      /\ ToSet(Chain(ctrl, ctrl.pendingPoolIdx))' = ToSet(t)
  BY <1>4, <1>6, ShownNext DEF Links
<1>8. Queues!Enqueue(r, e, v)
  <2>1. [s \in Items |-> Queue(s)]' =
          [[s \in Items |-> Queue(s)] EXCEPT
             ![r] = InsertByPriority(@, [entry |-> e, priority |-> v])]
    BY <1>2, <1>5, <1>6, <1>7 DEF ChangedAt
  <2>2. /\ e \in ToSet(Chain(ctrl, ctrl.pendingPoolIdx))
        /\ ToSet(Chain(ctrl, ctrl.pendingPoolIdx))'
             = ToSet(Chain(ctrl, ctrl.pendingPoolIdx)) \ {e}
    BY <1>2, <1>6, <1>7
  <2>3. QED
    BY <1>4, <2>1, <2>2, SameOperations DEF Queues!Enqueue
<1>9. QED
  BY <1>6, <1>7, <1>8

\* A release hands the resource to the first request.
LEMMA GrantHeadStep ==
  ASSUME PoolInv, NEW r \in Items, GrantHead(r)
  PROVE  PoolInv' /\ Queues!GrantHead(r)
<1>1. PICK p, q : p = Pool /\ q = Lists
  OBVIOUS
<1>2. /\ ctrl \in Blocks /\ held \in Links /\ Stored(ctrl, p, q)
      /\ held # Nil => Unlisted(held, p, q)
      /\ [s \in Items |-> Queue(s)] = Views(ctrl, q)
      /\ ToSet(Chain(ctrl, ctrl.pendingPoolIdx)) = ToSet(p)
  BY <1>1, Shown DEF Pool
<1>3. PICK c : c = ctrl
  OBVIOUS
<1>4. held' = held /\ c.pendingNtfyIdx[r] # Nil
  BY <1>3 DEF GrantHead
<1>5. PICK t, z :
        /\ ctrl' \in Blocks /\ Stored(ctrl', t, z)
        /\ Views(ctrl, q)[r] # <<>>
        /\ ToSet(t) = ToSet(p) \cup {Head(Views(ctrl, q)[r]).entry}
        /\ ChangedAt(Views(ctrl, q), Views(ctrl', z), r, Tail(Views(ctrl, q)[r]))
        /\ NoneListed(p, q, t, z)
  <2>1. \E t, z :
           LET e == c.pendingNtfyIdx[r]
               d == PutPendingPoolItem(Popped(c, r), e)
           IN  /\ d \in Blocks /\ Stored(d, t, z)
               /\ Views(c, q)[r] # <<>>
               /\ Head(Views(c, q)[r]).entry = e
               /\ ToSet(t) = ToSet(p) \cup {e}
               /\ ChangedAt(Views(c, q), Views(d, z), r, Tail(Views(c, q)[r]))
               /\ NoneListed(p, q, t, z)
    BY <1>2, <1>3, <1>4, GrantShows
  <2>2. ctrl' = PutPendingPoolItem(Popped(c, r), c.pendingNtfyIdx[r])
    BY <1>3 DEF GrantHead, Popped
  <2>3. QED
    BY <1>3, <2>1, <2>2
<1>6. /\ PoolInv'
      /\ [s \in Items |-> Queue(s)]' = Views(ctrl', z)
      /\ ToSet(Chain(ctrl, ctrl.pendingPoolIdx))' = ToSet(t)
  BY <1>2, <1>4, <1>5, ShownNext DEF NoneListed
<1>7. Queues!GrantHead(r)
  BY <1>2, <1>4, <1>5, <1>6 DEF Queues!GrantHead, ChangedAt
<1>8. QED
  BY <1>6, <1>7

\* A listed entry is at some place of its list.
LEMMA ListedAt ==
  ASSUME PoolInv, NEW r \in Items, NEW e \in ToSet(Pending(ctrl, r)), NEW q, q = Lists
  PROVE  \E k \in 1..Len(q[r]) : e = q[r][k]
<1>1. List(ctrl, ctrl.pendingNtfyIdx[r], q[r]) /\ q[r] = Pending(ctrl, r)
  BY Shown DEF Stored
<1>2. QED
  BY <1>1, ListFacts

\* The k-th entry of the list of r is unlinked in d, which stores p and z; in
\* terms of the priorities in b, the queue of r has lost its k-th request.
Removes(b, p, q, r, k, d, z) ==
  /\ d \in Blocks /\ Stored(d, p, z) /\ Unlisted(q[r][k], p, z)
  /\ q[r][k] \in Entries
  /\ NoneListed(p, q, p, z)
  /\ Views(b, q)[r][k].entry = q[r][k]
  /\ k \in 1..Len(Views(b, q)[r])
  /\ ChangedAt(Views(b, q), Views(d, z), r, RemovePendingAt(Views(b, q)[r], k))

\* There is such a block after essRMRemovePending.
LEMMA RemoveEntry ==
  ASSUME NEW b \in Blocks, NEW c \in Blocks, NEW p, NEW q, Stored(c, p, q),
         NEW r \in Items, NEW k \in 1..Len(q[r]),
         \A x \in Entries : x # q[r][k] => c.priorityUser[x] = b.priorityUser[x]
  PROVE  \E z : Removes(b, p, q, r, k, RemovePending(c, r, q[r][k]), z)
<1>1. \E z :
        LET e == q[r][k]
            d == RemovePending(c, r, e)
        IN  /\ d \in Blocks /\ d.priorityUser = c.priorityUser
            /\ e \in Entries
            /\ Stored(d, p, z) /\ Unlisted(e, p, z)
            /\ NoneListed(p, q, p, z)
            /\ Views(b, q)[r][k] = [entry |-> e, priority |-> b.priorityUser[e]]
            /\ k \in 1..Len(Views(b, q)[r])
            /\ ChangedAt(Views(b, q), Views(d, z), r, RemovePendingAt(Views(b, q)[r], k))
  BY RemoveShows
<1>2. QED
  BY <1>1 DEF Removes

\* A pending request is cancelled.
LEMMA CancelStep ==
  ASSUME PoolInv, NEW r \in Items, NEW e \in ToSet(Pending(ctrl, r)), Cancel(r, e)
  PROVE  PoolInv' /\ \E k \in 1..Len(Queue(r)) : Queues!Cancel(r, k)
<1>1. PICK p, q, c : p = Pool /\ q = Lists /\ c = ctrl
  OBVIOUS
<1>2. /\ ctrl \in Blocks /\ held \in Links /\ Stored(ctrl, p, q)
      /\ held # Nil => Unlisted(held, p, q)
      /\ [s \in Items |-> Queue(s)] = Views(c, q)
      /\ ToSet(Chain(ctrl, ctrl.pendingPoolIdx)) = ToSet(p)
  BY <1>1, Shown DEF Pool
<1>3. PICK k \in 1..Len(q[r]) : e = q[r][k]
  BY <1>1, ListedAt
<1>4. held' = held /\ ctrl' = RemovePending(c, r, q[r][k])
  BY <1>1, <1>3 DEF Cancel
<1>5. PICK z : Removes(c, p, q, r, k, ctrl', z)
  <2>1. \A x \in Entries : x # q[r][k] => c.priorityUser[x] = c.priorityUser[x]
    OBVIOUS
  <2>2. c \in Blocks /\ Stored(c, p, q)
    BY <1>1, <1>2
  <2>3. \E z : Removes(c, p, q, r, k, RemovePending(c, r, q[r][k]), z)
    BY <2>1, <2>2, RemoveEntry
  <2>4. QED
    BY <1>4, <2>3
<1>6. /\ PoolInv'
      /\ [s \in Items |-> Queue(s)]' = Views(ctrl', z)
      /\ ToSet(Chain(ctrl, ctrl.pendingPoolIdx))' = ToSet(p)
  BY <1>2, <1>4, <1>5, ShownNext DEF Removes, NoneListed
<1>7. [s \in Items |-> Queue(s)]' =
        [[s \in Items |-> Queue(s)] EXCEPT ![r] = RemovePendingAt(@, k)]
  BY <1>2, <1>5, <1>6 DEF Removes, ChangedAt
<1>8. ToSet(Chain(ctrl, ctrl.pendingPoolIdx))' = ToSet(Chain(ctrl, ctrl.pendingPoolIdx))
  BY <1>2, <1>6
<1>9. Queues!Cancel(r, k)
  BY <1>4, <1>7, <1>8, SameOperations DEF Queues!Cancel
<1>10. k \in 1..Len(Queue(r))
  <2>1. Queue(r) = Views(c, q)[r]
    BY <1>2
  <2>2. QED
    BY <1>5, <2>1 DEF Removes
<1>11. QED
  BY <1>6, <1>9, <1>10

\* A pending request gets another priority and keeps waiting.
LEMMA ReprioritiseStep ==
  ASSUME PoolInv, NEW r \in Items, NEW e \in ToSet(Pending(ctrl, r)),
         NEW v \in Priorities, Reprioritise(r, e, v)
  PROVE  PoolInv' /\ \E k \in 1..Len(Queue(r)) : Queues!Reprioritise(r, k, v)
<1>1. PICK p, q, c : p = Pool /\ q = Lists /\ c = ctrl
  OBVIOUS
<1>2. /\ ctrl \in Blocks /\ held \in Links /\ Stored(ctrl, p, q)
      /\ held # Nil => Unlisted(held, p, q)
      /\ [s \in Items |-> Queue(s)] = Views(c, q)
      /\ ToSet(Chain(ctrl, ctrl.pendingPoolIdx)) = ToSet(p)
  BY <1>1, Shown DEF Pool
<1>3. PICK k \in 1..Len(q[r]) : e = q[r][k]
  BY <1>1, ListedAt
<1>4. /\ held = Nil /\ held' = held
      /\ ctrl' = InsertPendingByPriority(RemovePending(WithPriority(c, e, v), r, e), r, e)
  BY <1>1 DEF Reprioritise
<1>5. PICK x : x = [Views(c, q)[r][k] EXCEPT !.priority = v]
  OBVIOUS
<1>6. PICK z :
        /\ ctrl' \in Blocks /\ Stored(ctrl', p, z)
        /\ k \in 1..Len(Views(c, q)[r])
        /\ ChangedAt(Views(c, q), Views(ctrl', z), r,
                     InsertByPriority(RemovePendingAt(Views(c, q)[r], k), x))
  <2>1. c \in Blocks /\ Stored(c, p, q)
    BY <1>1, <1>2
  <2>2. \E z :
           LET f == q[r][k]
               d == InsertPendingByPriority(RemovePending(WithPriority(c, f, v), r, f), r, f)
               y == [Views(c, q)[r][k] EXCEPT !.priority = v]
           IN  /\ d \in Blocks /\ Stored(d, p, z)
               /\ k \in 1..Len(Views(c, q)[r])
               /\ ChangedAt(Views(c, q), Views(d, z), r,
                            InsertByPriority(RemovePendingAt(Views(c, q)[r], k), y))
    BY <2>1, ReprioritiseShows
  <2>3. QED
    BY <1>3, <1>4, <1>5, <2>2
<1>7. /\ PoolInv'
      /\ [s \in Items |-> Queue(s)]' = Views(ctrl', z)
      /\ ToSet(Chain(ctrl, ctrl.pendingPoolIdx))' = ToSet(p)
  BY <1>2, <1>4, <1>6, ShownNext
<1>8. [s \in Items |-> Queue(s)]' =
        [[s \in Items |-> Queue(s)] EXCEPT
           ![r] = InsertByPriority(RemovePendingAt(@, k), [@[k] EXCEPT !.priority = v])]
  BY <1>2, <1>5, <1>6, <1>7 DEF ChangedAt
<1>9. ToSet(Chain(ctrl, ctrl.pendingPoolIdx))' = ToSet(Chain(ctrl, ctrl.pendingPoolIdx))
  BY <1>2, <1>7
<1>10. Queues!Reprioritise(r, k, v)
  BY <1>4, <1>8, <1>9, SameOperations DEF Queues!Reprioritise
<1>11. k \in 1..Len(Queue(r))
  <2>1. Queue(r) = Views(c, q)[r]
    BY <1>2
  <2>2. QED
    BY <1>6, <2>1
<1>12. QED
  BY <1>7, <1>10, <1>11

\* A pending request that now beats the owner is taken out of its list.
LEMMA PreemptStep ==
  ASSUME PoolInv, NEW r \in Items, NEW e \in ToSet(Pending(ctrl, r)),
         NEW v \in Priorities, Preempt(r, e, v)
  PROVE  PoolInv' /\ \E k \in 1..Len(Queue(r)) : Queues!Preempt(r, k)
<1>1. PICK p, q, c : p = Pool /\ q = Lists /\ c = ctrl
  OBVIOUS
<1>2. /\ c \in Blocks /\ Stored(c, p, q)
      /\ [s \in Items |-> Queue(s)] = Views(c, q)
      /\ ToSet(Chain(ctrl, ctrl.pendingPoolIdx)) = ToSet(p)
  BY <1>1, Shown DEF Pool
<1>3. PICK k \in 1..Len(q[r]) : e = q[r][k]
  BY <1>1, ListedAt
<1>4. PICK w : w = WithPriority(c, e, v)
  OBVIOUS
<1>5. held = Nil /\ held' = e /\ ctrl' = RemovePending(w, r, q[r][k])
  BY <1>1, <1>3, <1>4 DEF Preempt
<1>6. e \in Entries
  <2>1. List(c, c.pendingNtfyIdx[r], q[r])
    BY <1>2 DEF Stored
  <2>2. QED
    BY <1>3, <2>1, ListFacts
<1>7. /\ w \in Blocks /\ Stored(w, p, q)
      /\ w.priorityUser = [c.priorityUser EXCEPT ![e] = v]
  BY <1>2, <1>4, <1>6, PriorityKeeps
<1>8. \A x \in Entries : x # q[r][k] => w.priorityUser[x] = c.priorityUser[x]
  BY <1>2, <1>3, <1>6, <1>7 DEF Blocks
<1>9. PICK z : Removes(c, p, q, r, k, ctrl', z)
  <2>1. \E z : Removes(c, p, q, r, k, RemovePending(w, r, q[r][k]), z)
    BY <1>2, <1>7, <1>8, RemoveEntry
  <2>2. QED
    BY <1>5, <2>1
<1>10. /\ PoolInv'
       /\ [s \in Items |-> Queue(s)]' = Views(ctrl', z)
       /\ ToSet(Chain(ctrl, ctrl.pendingPoolIdx))' = ToSet(p)
  BY <1>3, <1>5, <1>6, <1>9, ShownNext DEF Removes, Links
<1>11. [s \in Items |-> Queue(s)]' =
         [[s \in Items |-> Queue(s)] EXCEPT ![r] = RemovePendingAt(@, k)]
  BY <1>2, <1>9, <1>10 DEF Removes, ChangedAt
<1>12. ToSet(Chain(ctrl, ctrl.pendingPoolIdx))' = ToSet(Chain(ctrl, ctrl.pendingPoolIdx))
  BY <1>2, <1>10
<1>13. [s \in Items |-> Queue(s)][r][k].entry = e /\ e # Nil
  BY <1>2, <1>3, <1>6, <1>9, PoolAssumption DEF Removes, Entries, Nil
<1>14. Queues!Preempt(r, k)
  BY <1>5, <1>11, <1>12, <1>13, SameOperations DEF Queues!Preempt
<1>15. k \in 1..Len(Queue(r))
  <2>1. Queue(r) = Views(c, q)[r]
    BY <1>2
  <2>2. QED
    BY <1>9, <2>1 DEF Removes
<1>16. QED
  BY <1>10, <1>14, <1>15

\* The preemption went through: the entry is recycled.
LEMMA PreemptSucceededStep ==
  ASSUME PoolInv, PreemptSucceeded
  PROVE  PoolInv' /\ Queues!Preempted(TRUE)
<1>1. PICK p, q, c : p = Pool /\ q = Lists /\ c = ctrl
  OBVIOUS
<1>2. /\ c \in Blocks /\ held \in Links /\ Stored(c, p, q)
      /\ held # Nil => Unlisted(held, p, q)
      /\ [s \in Items |-> Queue(s)] = Views(c, q)
      /\ ToSet(Chain(ctrl, ctrl.pendingPoolIdx)) = ToSet(p)
  BY <1>1, Shown DEF Pool
<1>3. PICK e : e = held
  OBVIOUS
<1>4. /\ e # Nil /\ e \in Entries /\ Unlisted(e, p, q)
      /\ held' = Nil /\ ctrl' = PutPendingPoolItem(c, e)
  BY <1>1, <1>2, <1>3 DEF PreemptSucceeded, Links
<1>5. PICK t : /\ ctrl' \in Blocks /\ ctrl'.priorityUser = c.priorityUser
               /\ Stored(ctrl', t, q) /\ ToSet(t) = ToSet(p) \cup {e}
  BY <1>2, <1>4, PutShows
<1>6. /\ PoolInv'
      /\ [s \in Items |-> Queue(s)]' = Views(ctrl', q)
      /\ ToSet(Chain(ctrl, ctrl.pendingPoolIdx))' = ToSet(t)
  BY <1>4, <1>5, ShownNext DEF Links
<1>7. Views(ctrl', q) = Views(c, q)
  BY <1>5, ViewsSame
<1>8. [s \in Items |-> Queue(s)]' = [s \in Items |-> Queue(s)]
  BY <1>2, <1>6, <1>7
<1>9. ToSet(Chain(ctrl, ctrl.pendingPoolIdx))' = ToSet(Chain(ctrl, ctrl.pendingPoolIdx)) \cup {held}
  BY <1>2, <1>3, <1>5, <1>6
<1>10. Queues!Preempted(TRUE)
  BY <1>3, <1>4, <1>8, <1>9 DEF Queues!Preempted
<1>11. QED
  BY <1>6, <1>10

\* It did not: the entry is forgotten.
LEMMA PreemptFailedStep ==
  ASSUME PoolInv, PreemptFailed
  PROVE  PoolInv' /\ Queues!Preempted(FALSE)
<1>1. held # Nil /\ held' = Nil /\ ctrl' = ctrl
  BY DEF PreemptFailed
<1>2. Pool' = Pool /\ Lists' = Lists /\ TypeOK'
  BY <1>1 DEF Pool, Lists, PoolInv, TypeOK, Links
<1>3. PoolInv'
  BY <1>1, <1>2 DEF PoolInv
<1>4. [s \in Items |-> Queue(s)]' = [s \in Items |-> Queue(s)]
  <2>1. \A s \in Items : Queue(s)' = Queue(s)
    BY <1>1 DEF Queue
  <2>2. QED
    BY <2>1
<1>5. ToSet(Chain(ctrl, ctrl.pendingPoolIdx))' = ToSet(Chain(ctrl, ctrl.pendingPoolIdx))
  BY <1>1
<1>6. Queues!Preempted(FALSE)
  BY <1>1, <1>4, <1>5 DEF Queues!Preempted
<1>7. QED
  BY <1>3, <1>6

\* A request with another usage is made anew; it waits again or does not.
LEMMA ReissueStep ==
  ASSUME PoolInv, NEW r \in Items, NEW e \in ToSet(Pending(ctrl, r)),
         NEW s \in Items \cup {Nil}, Reissue(r, e, s)
  PROVE  PoolInv' /\ \E k \in 1..Len(Queue(r)) : Queues!Reissue(r, k)
<1>1. PICK p, q, c : p = Pool /\ q = Lists /\ c = ctrl
  OBVIOUS
<1>2. /\ c \in Blocks /\ Stored(c, p, q)
      /\ [u \in Items |-> Queue(u)] = Views(c, q)
      /\ ToSet(Chain(ctrl, ctrl.pendingPoolIdx)) = ToSet(p)
  BY <1>1, Shown DEF Pool
<1>3. PICK k \in 1..Len(q[r]) : e = q[r][k]
  BY <1>1, ListedAt
<1>4. PICK v : v = c.priorityUser[e]
  OBVIOUS
<1>5. PICK m : m = PutPendingPoolItem(RemovePending(c, r, e), e)
  OBVIOUS
<1>6. /\ held = Nil /\ held' = Nil
      /\ s \in Items =>
           ctrl' = InsertPendingByPriority(
                     WithPriority(GetPendingPoolItem(m), m.pendingPoolIdx, v), s, m.pendingPoolIdx)
      /\ s \notin Items => ctrl' = m
  BY <1>1, <1>4, <1>5 DEF Reissue
<1>7. Queue(r) = Views(c, q)[r]
  BY <1>2
<1>8. PICK f : f = [Views(c, q) EXCEPT ![r] = RemovePendingAt(Views(c, q)[r], k)]
  OBVIOUS
<1>9. CASE s \in Items
  <2>1. PICK t, z :
          /\ ctrl' \in Blocks /\ Stored(ctrl', t, z)
          /\ ToSet(t) = ToSet(p)
          /\ k \in 1..Len(Views(c, q)[r])
          /\ ChangedAt(f, Views(ctrl', z), s, InsertByPriority(f[s], Views(c, q)[r][k]))
    <3>1. \E t, z :
           LET a == q[r][k]
               u == c.priorityUser[a]
               n == PutPendingPoolItem(RemovePending(c, r, a), a)
               top == n.pendingPoolIdx
               d == InsertPendingByPriority(WithPriority(GetPendingPoolItem(n), top, u), s, top)
               g == [Views(c, q) EXCEPT ![r] = RemovePendingAt(Views(c, q)[r], k)]
           IN  /\ d \in Blocks /\ Stored(d, t, z)
               /\ ToSet(t) = ToSet(p)
               /\ k \in 1..Len(Views(c, q)[r])
               /\ ChangedAt(g, Views(d, z), s, InsertByPriority(g[s], Views(c, q)[r][k]))
      BY <1>2, <1>9, ReissueShows
    <3>2. QED
      BY <1>3, <1>4, <1>5, <1>6, <1>8, <1>9, <3>1
  <2>2. /\ PoolInv'
        /\ [u \in Items |-> Queue(u)]' = Views(ctrl', z)
        /\ ToSet(Chain(ctrl, ctrl.pendingPoolIdx))' = ToSet(t)
    BY <1>6, <2>1, ShownNext DEF Links
  <2>3. [u \in Items |-> Queue(u)]' =
          [f EXCEPT ![s] = InsertByPriority(@, [u \in Items |-> Queue(u)][r][k])]
    BY <1>2, <2>1, <2>2 DEF ChangedAt
  <2>4. f = [[u \in Items |-> Queue(u)] EXCEPT ![r] = RemovePendingAt(@, k)]
    BY <1>2, <1>8
  <2>5. ToSet(Chain(ctrl, ctrl.pendingPoolIdx))' = ToSet(Chain(ctrl, ctrl.pendingPoolIdx))
    BY <1>2, <2>1, <2>2
  <2>6. Queues!Reissue(r, k)
    BY <1>6, <1>9, <2>3, <2>4, <2>5, SameOperations DEF Queues!Reissue
  <2>7. QED
    BY <1>7, <2>1, <2>2, <2>6
<1>10. CASE s \notin Items
  <2>1. PICK t, z :
          /\ ctrl' \in Blocks /\ Stored(ctrl', t, z)
          /\ ToSet(t) = ToSet(p) \cup {Views(c, q)[r][k].entry}
          /\ k \in 1..Len(Views(c, q)[r])
          /\ ChangedAt(Views(c, q), Views(ctrl', z), r, RemovePendingAt(Views(c, q)[r], k))
    <3>1. \E t, z :
           LET a == q[r][k]
               d == PutPendingPoolItem(RemovePending(c, r, a), a)
           IN  /\ d \in Blocks /\ Stored(d, t, z)
               /\ d.pendingPoolIdx = a /\ d.priorityUser = c.priorityUser
               /\ a \in Entries /\ a \notin ToSet(p) /\ ToSet(t) = ToSet(p) \cup {a}
               /\ k \in 1..Len(Views(c, q)[r])
               /\ Views(c, q)[r][k] = [entry |-> a, priority |-> c.priorityUser[a]]
               /\ ChangedAt(Views(c, q), Views(d, z), r, RemovePendingAt(Views(c, q)[r], k))
      BY <1>2, RecycleShows
    <3>2. QED
      BY <1>3, <1>5, <1>6, <1>10, <3>1
  <2>2. /\ PoolInv'
        /\ [u \in Items |-> Queue(u)]' = Views(ctrl', z)
        /\ ToSet(Chain(ctrl, ctrl.pendingPoolIdx))' = ToSet(t)
    BY <1>6, <2>1, ShownNext DEF Links
  <2>3. [u \in Items |-> Queue(u)]' =
          [[u \in Items |-> Queue(u)] EXCEPT ![r] = RemovePendingAt(@, k)]
    BY <1>2, <2>1, <2>2 DEF ChangedAt
  <2>4. ToSet(Chain(ctrl, ctrl.pendingPoolIdx))' =
          ToSet(Chain(ctrl, ctrl.pendingPoolIdx)) \cup {[u \in Items |-> Queue(u)][r][k].entry}
    BY <1>2, <2>1, <2>2
  <2>5. Queues!Reissue(r, k)
    BY <1>6, <2>3, <2>4, SameOperations DEF Queues!Reissue
  <2>6. QED
    BY <1>7, <2>1, <2>2, <2>5
<1>11. QED
  BY <1>9, <1>10

\* At first all the entries are in the pool, in the order of the array, and
\* nothing is pending.
LEMMA InitStep ==
  ASSUME Init
  PROVE  PoolInv /\ Queues!Init
<1>1. PICK c : c = ctrl
  OBVIOUS
<1>2. PICK p : p = [i \in 1..PoolItems |-> i - 1]
  OBVIOUS
<1>3. PICK q : q = [r \in Items |-> <<>>]
  OBVIOUS
<1>4. PoolItems \in Nat /\ PoolItems # 0
  BY PoolAssumption
<1>5. /\ c.next = [e \in Entries |-> IF e + 1 < PoolItems THEN e + 1 ELSE Nil]
      /\ c.prev = [e \in Entries |-> IF e > 0 THEN e - 1 ELSE Nil]
      /\ c.pendingPoolIdx = 0
      /\ c.pendingNtfyIdx = [r \in Items |-> Nil]
      /\ held = Nil
  BY <1>1 DEF Init
<1>6. c \in Blocks /\ held \in Links
  <2>1. \A e \in Entries : /\ (IF e + 1 < PoolItems THEN e + 1 ELSE Nil) \in Links
                           /\ (IF e > 0 THEN e - 1 ELSE Nil) \in Links
    BY <1>4 DEF Links, Entries, Nil
  <2>2. 0 \in Links /\ Nil \in Links
    BY <1>4 DEF Links, Entries
  <2>3. c = [next |-> [e \in Entries |-> IF e + 1 < PoolItems THEN e + 1 ELSE Nil],
             prev |-> [e \in Entries |-> IF e > 0 THEN e - 1 ELSE Nil],
             priorityUser |-> [e \in Entries |-> 0],
             pendingPoolIdx |-> 0,
             pendingNtfyIdx |-> [r \in Items |-> Nil]]
    BY <1>1 DEF Init
  <2>4. /\ c.next \in [Entries -> Links] /\ c.prev \in [Entries -> Links]
        /\ [e \in Entries |-> 0] \in [Entries -> Priorities \cup {0}]
        /\ [r \in Items |-> Nil] \in [Items -> Links]
    BY <1>5, <2>1, <2>2
  <2>5. QED
    BY <1>5, <2>2, <2>3, <2>4 DEF Blocks
<1>7. \A i \in 1..PoolItems : p[i] = i - 1 /\ i - 1 \in Entries
  BY <1>2, <1>4 DEF Entries
<1>8. p \in Seq(Entries) /\ Len(p) = PoolItems
  BY <1>2, <1>4, <1>7
<1>9. List(c, 0, p)
  <2>1. IsInjective(p)
    <3>1. DOMAIN p = 1..PoolItems
      BY <1>2
    <3>2. ASSUME NEW i \in 1..PoolItems, NEW j \in 1..PoolItems, p[i] = p[j] PROVE i = j
      <4>1. i - 1 = j - 1
        BY <1>7, <3>2
      <4>2. QED
        BY <1>4, <4>1
    <3>3. QED
      BY <3>1, <3>2 DEF IsInjective
  <2>2. 0 = IF p = <<>> THEN Nil ELSE p[1]
    <3>1. p # <<>> /\ 1 \in 1..PoolItems
      BY <1>4, <1>8
    <3>2. QED
      BY <1>7, <3>1
  <2>3. ASSUME NEW i \in 1..PoolItems
        PROVE  /\ c.next[p[i]] = IF i = PoolItems THEN Nil ELSE p[i+1]
               /\ c.prev[p[i]] = IF i = 1 THEN Nil ELSE p[i-1]
    <3>1. c.next[i-1] = IF (i - 1) + 1 < PoolItems THEN (i - 1) + 1 ELSE Nil
      BY <1>5, <1>7
    <3>2. c.prev[i-1] = IF i - 1 > 0 THEN (i - 1) - 1 ELSE Nil
      BY <1>5, <1>7
    <3>3. i < PoolItems => i + 1 \in 1..PoolItems /\ p[i+1] = (i + 1) - 1
      BY <1>4, <1>7
    <3>4. i > 1 => i - 1 \in 1..PoolItems /\ p[i-1] = (i - 1) - 1
      BY <1>4, <1>7
    <3>5. c.next[i-1] = IF i = PoolItems THEN Nil ELSE p[i+1]
      BY <1>4, <3>1, <3>3
    <3>6. c.prev[i-1] = IF i = 1 THEN Nil ELSE p[i-1]
      BY <1>4, <3>2, <3>4
    <3>7. QED
      BY <1>7, <3>5, <3>6
  <2>4. QED
    BY <1>8, <2>1, <2>2, <2>3 DEF List
<1>10. Stored(c, p, q)
  <2>1. q \in [Items -> Seq(Entries)] /\ \A r \in Items : q[r] = <<>> /\ c.pendingNtfyIdx[r] = Nil
    BY <1>3, <1>5
  <2>2. \A r \in Items : ToSet(q[r]) = {}
    BY <2>1 DEF ToSet
  <2>3. List(c, Nil, <<>>)
    BY DEF List, IsInjective
  <2>4. QED
    BY <1>5, <1>9, <2>1, <2>2, <2>3 DEF Stored
<1>11. Chain(c, c.pendingPoolIdx) = p /\ \A r \in Items : Pending(c, r) = <<>>
  BY <1>3, <1>10, StoredRead
<1>12. PoolInv
  <2>1. Pool = p
    BY <1>1, <1>11 DEF Pool
  <2>2. Lists = q
    <3>1. [r \in Items |-> Pending(c, r)] = [r \in Items |-> <<>>]
      BY <1>11
    <3>2. QED
      BY <1>1, <1>3, <3>1 DEF Lists
  <2>3. TypeOK
    BY <1>1, <1>6 DEF TypeOK, Blocks
  <2>4. QED
    BY <1>1, <1>5, <1>10, <2>1, <2>2, <2>3 DEF PoolInv
<1>13. ToSet(p) = Entries
  <2>1. ToSet(p) \subseteq Entries
    BY <1>9, ListFacts
  <2>2. ASSUME NEW e \in Entries PROVE e \in ToSet(p)
    <3>1. e + 1 \in 1..PoolItems /\ (e + 1) - 1 = e
      BY <1>4 DEF Entries
    <3>2. p[e+1] = e
      BY <1>7, <3>1
    <3>3. p[e+1] \in ToSet(p)
      BY <1>8, <1>9, <3>1, ListFacts
    <3>4. QED
      BY <3>2, <3>3
  <2>3. QED
    BY <2>1, <2>2
<1>14. Queues!Init
  <2>1. \A r \in Items : Queue(r) = <<>>
    BY <1>1, <1>11 DEF Queue
  <2>2. [r \in Items |-> Queue(r)] = [r \in Items |-> <<>>]
    BY <2>1
  <2>3. ToSet(Chain(ctrl, ctrl.pendingPoolIdx)) = Entries
    BY <1>1, <1>11, <1>13
  <2>4. QED
    BY <1>5, <2>2, <2>3 DEF Queues!Init
<1>15. QED
  BY <1>12, <1>14

\* Each step keeps PoolInv and is one of ErmQueues.
LEMMA NextStep ==
  ASSUME PoolInv, Next
  PROVE  PoolInv' /\ Queues!Next
<1>1. ASSUME NEW r \in Items PROVE [s \in Items |-> Queue(s)][r] = Queue(r)
  OBVIOUS
<1>2. ASSUME NEW r \in Items, NEW v \in Priorities, Enqueue(r, v)
      PROVE  PoolInv' /\ Queues!Next
  BY <1>2, EnqueueStep DEF Queues!Next
<1>3. ASSUME NEW r \in Items, GrantHead(r)
      PROVE  PoolInv' /\ Queues!Next
  BY <1>3, GrantHeadStep DEF Queues!Next
<1>4. ASSUME NEW r \in Items, NEW e \in ToSet(Pending(ctrl, r)), Cancel(r, e)
      PROVE  PoolInv' /\ Queues!Next
  <2>1. PoolInv' /\ \E k \in 1..Len(Queue(r)) : Queues!Cancel(r, k)
    BY <1>4, CancelStep
  <2>2. QED
    BY <1>1, <2>1 DEF Queues!Next
<1>5. ASSUME NEW r \in Items, NEW e \in ToSet(Pending(ctrl, r)), NEW v \in Priorities,
             Reprioritise(r, e, v)
      PROVE  PoolInv' /\ Queues!Next
  <2>1. PoolInv' /\ \E k \in 1..Len(Queue(r)) : Queues!Reprioritise(r, k, v)
    BY <1>5, ReprioritiseStep
  <2>2. QED
    BY <1>1, <2>1 DEF Queues!Next
<1>6. ASSUME NEW r \in Items, NEW e \in ToSet(Pending(ctrl, r)), NEW v \in Priorities,
             Preempt(r, e, v)
      PROVE  PoolInv' /\ Queues!Next
  <2>1. PoolInv' /\ \E k \in 1..Len(Queue(r)) : Queues!Preempt(r, k)
    BY <1>6, PreemptStep
  <2>2. QED
    BY <1>1, <2>1 DEF Queues!Next
<1>7. ASSUME NEW r \in Items, NEW e \in ToSet(Pending(ctrl, r)), NEW s \in Items \cup {Nil},
             Reissue(r, e, s)
      PROVE  PoolInv' /\ Queues!Next
  <2>1. PoolInv' /\ \E k \in 1..Len(Queue(r)) : Queues!Reissue(r, k)
    BY <1>7, ReissueStep
  <2>2. QED
    BY <1>1, <2>1 DEF Queues!Next
<1>8. ASSUME PreemptSucceeded PROVE PoolInv' /\ Queues!Next
  BY <1>8, PreemptSucceededStep DEF Queues!Next
<1>9. ASSUME PreemptFailed PROVE PoolInv' /\ Queues!Next
  BY <1>9, PreemptFailedStep DEF Queues!Next
<1>10. QED
  BY <1>2, <1>3, <1>4, <1>5, <1>6, <1>7, <1>8, <1>9 DEF Next

\* A step that changes nothing changes nothing that is shown.
LEMMA StutterStep ==
  ASSUME PoolInv, UNCHANGED vars
  PROVE  PoolInv' /\ UNCHANGED Queues!vars
<1>1. ctrl' = ctrl /\ held' = held
  BY DEF vars
<1>2. PoolInv'
  <2>1. Pool' = Pool /\ Lists' = Lists /\ TypeOK'
    BY <1>1 DEF Pool, Lists, PoolInv, TypeOK
  <2>2. QED
    BY <1>1, <2>1 DEF PoolInv
<1>3. [r \in Items |-> Queue(r)]' = [r \in Items |-> Queue(r)]
  <2>1. \A r \in Items : Queue(r)' = Queue(r)
    BY <1>1 DEF Queue
  <2>2. QED
    BY <2>1
<1>4. ToSet(Chain(ctrl, ctrl.pendingPoolIdx))' = ToSet(Chain(ctrl, ctrl.pendingPoolIdx))
  BY <1>1
<1>5. QED
  BY <1>1, <1>2, <1>3, <1>4 DEF Queues!vars

\* The invariant that makes the links readable as lists.
LEMMA PoolInvInvariant == Spec => []PoolInv
<1>1. Init => PoolInv
  BY InitStep
<1>2. PoolInv /\ [Next]_vars => PoolInv'
  BY NextStep, StutterStep
<1>3. QED
  BY <1>1, <1>2, PTL DEF Spec

----------------------------------------------------------------------------
(* The theorems.                                                           *)

\* Whatever is granted, cancelled, preempted or made anew, links stay inside
\* the array and priorities are those clients asked with.
THEOREM PoolTypeCorrect == Spec => []TypeOK
<1>1. PoolInv => TypeOK
  BY DEF PoolInv
<1>2. QED
  BY <1>1, PoolInvInvariant, PTL

\* For any number of entries and any resources, the pool and the pending
\* lists never share an entry, none loops, and prev mirrors next: no request
\* ever overwrites the entry of another one.
THEOREM PoolListsDisjoint == Spec => []ListsDisjoint
<1>1. ASSUME PoolInv PROVE ListsDisjoint
  <2>1. PICK p, q, c : p = Pool /\ q = Lists /\ c = ctrl
    OBVIOUS
  <2>2. Stored(c, p, q) /\ (held # Nil => Unlisted(held, p, q))
    BY <1>1, <2>1, Shown
  <2>3. /\ Chain(c, c.pendingPoolIdx) = p
        /\ \A r \in Items : Chain(c, c.pendingNtfyIdx[r]) = q[r]
    BY <2>2, StoredRead DEF Pending
  <2>4. /\ List(c, c.pendingPoolIdx, p)
        /\ \A r \in Items : List(c, c.pendingNtfyIdx[r], q[r])
        /\ \A r \in Items : ToSet(p) \cap ToSet(q[r]) = {}
        /\ \A r, s \in Items : r # s => ToSet(q[r]) \cap ToSet(q[s]) = {}
    BY <2>2 DEF Stored
  <2>5. \A h \in Heads : h = c.pendingPoolIdx \/ \E r \in Items : h = c.pendingNtfyIdx[r]
    BY <2>1 DEF Heads
  <2>6. ASSUME NEW first, NEW s, List(c, first, s) PROVE Linked(first)
    <3>1. Chain(c, first) = s /\ Len(s) <= PoolItems
      BY <2>6, ListRead, ListShort
    <3>2. /\ IsInjective(s)
          /\ \A i \in 1..Len(s) : c.prev[s[i]] = IF i = 1 THEN Nil ELSE s[i-1]
      BY <2>6 DEF List
    <3>3. QED
      BY <2>1, <3>1, <3>2, Zenon DEF Linked
  <2>7. \A h \in Heads : Linked(h)
    BY <2>4, <2>5, <2>6
  <2>8. ASSUME NEW g \in Heads, NEW h \in Heads, g # h
        PROVE  ToSet(Chain(c, g)) \cap ToSet(Chain(c, h)) = {}
    <3>1. CASE g = c.pendingPoolIdx
      <4>1. PICK r \in Items : h = c.pendingNtfyIdx[r]
        BY <2>5, <2>8, <3>1
      <4>2. QED
        BY <2>3, <2>4, <3>1, <4>1
    <3>2. CASE h = c.pendingPoolIdx
      <4>1. PICK r \in Items : g = c.pendingNtfyIdx[r]
        BY <2>5, <2>8, <3>2
      <4>2. QED
        BY <2>3, <2>4, <3>2, <4>1
    <3>3. CASE g # c.pendingPoolIdx /\ h # c.pendingPoolIdx
      <4>1. PICK r \in Items : g = c.pendingNtfyIdx[r]
        BY <2>5, <3>3
      <4>2. PICK s \in Items : h = c.pendingNtfyIdx[s]
        BY <2>5, <3>3
      <4>3. r # s
        BY <2>8, <4>1, <4>2
      <4>4. QED
        BY <2>3, <2>4, <4>1, <4>2, <4>3
    <3>4. QED
      BY <3>1, <3>2, <3>3
  <2>9. ASSUME NEW r \in Items, NEW s \in Items, r # s, c.pendingNtfyIdx[r] # Nil
        PROVE  c.pendingNtfyIdx[r] # c.pendingNtfyIdx[s]
    <3>1. ASSUME c.pendingNtfyIdx[r] = c.pendingNtfyIdx[s] PROVE FALSE
      <4>1. q[r] = q[s]
        BY <2>3, <3>1
      <4>2. Len(q[r]) # 0 /\ Len(q[r]) \in Nat
        BY <2>4, <2>9, ListFacts
      <4>3. 1 \in 1..Len(q[r])
        BY <4>2
      <4>4. q[r][1] \in ToSet(q[r])
        BY <2>4, <4>3, ListFacts
      <4>5. QED
        BY <2>4, <2>9, <4>1, <4>4
    <3>2. QED
      BY <3>1
  <2>10. ASSUME NEW r \in Items, c.pendingNtfyIdx[r] # Nil
         PROVE  c.pendingNtfyIdx[r] # c.pendingPoolIdx
    <3>1. ASSUME c.pendingNtfyIdx[r] = c.pendingPoolIdx PROVE FALSE
      <4>1. q[r] = p
        BY <2>3, <3>1
      <4>2. Len(q[r]) # 0 /\ Len(q[r]) \in Nat
        BY <2>4, <2>10, ListFacts
      <4>3. 1 \in 1..Len(q[r])
        BY <4>2
      <4>4. q[r][1] \in ToSet(q[r])
        BY <2>4, <4>3, ListFacts
      <4>5. QED
        BY <2>4, <4>1, <4>4
    <3>2. QED
      BY <3>1
  <2>11. held # Nil => \A h \in Heads : held \notin ToSet(Chain(c, h))
    BY <2>2, <2>3, <2>5 DEF Unlisted
  <2>12. QED
    BY <2>1, <2>7, <2>8, <2>9, <2>10, <2>11 DEF ListsDisjoint
<1>2. QED
  BY <1>1, PoolInvInvariant, PTL

\* The linked lists behave as the priority queues of ErmQueues for any
\* number of entries, any resources and any integer priorities: insertion is
\* in priority order and first come first served among equals, a grant takes
\* the first, and a removal takes one entry unless it is the first.
THEOREM PoolImplementsQueues == Spec => ImplementsQueues
<1>1. Init => Queues!Init
  BY InitStep
<1>2. PoolInv /\ [Next]_vars => [Queues!Next]_(Queues!vars)
  BY NextStep, StutterStep
<1>3. QED
  BY <1>1, <1>2, PoolInvInvariant, PTL DEF Spec, ImplementsQueues, Queues!Spec

=============================================================================
