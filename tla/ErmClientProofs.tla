-------------------------- MODULE ErmClientProofs --------------------------
(***************************************************************************)
(* What the client library guarantees for any number of calling threads,   *)
(* requests and resources other than that of index 0, which an entry       *)
(* without an answer names: a request stays known by its id, a resource is *)
(* not revoked from a call that has yet to take it, and no grant is        *)
(* forgotten.                                                              *)
(***************************************************************************)
EXTENDS ErmClient, SequenceTheorems, FiniteSetTheorems, WellFoundedInduction, TLAPS

(***************************************************************************)
(* Sequences.                                                              *)
(***************************************************************************)

\* A message is sent.
LEMMA AppendSet ==
  ASSUME NEW S, NEW s \in Seq(S), NEW x \in S
  PROVE  /\ Append(s, x) \in Seq(S)
         /\ ToSet(Append(s, x)) = ToSet(s) \cup {x}
<1>1. /\ Append(s, x) \in Seq(S) /\ Len(Append(s, x)) = Len(s) + 1 /\ Len(s) \in Nat
      /\ \A i \in 1..Len(s) : Append(s, x)[i] = s[i]
      /\ Append(s, x)[Len(s) + 1] = x
  OBVIOUS
<1>2. DOMAIN s = 1..Len(s) /\ DOMAIN Append(s, x) = 1..(Len(s) + 1)
  BY <1>1
<1>3. \A y \in ToSet(Append(s, x)) : y \in ToSet(s) \cup {x}
  BY <1>1, <1>2 DEF ToSet
<1>4. \A y \in ToSet(s) : y \in ToSet(Append(s, x))
  BY <1>1, <1>2 DEF ToSet
<1>5. x \in ToSet(Append(s, x))
  BY <1>1, <1>2 DEF ToSet
<1>6. QED
  BY <1>1, <1>3, <1>4, <1>5

\* A message is received.
LEMMA TailSet ==
  ASSUME NEW S, NEW s \in Seq(S), s # <<>>
  PROVE  /\ Head(s) \in S /\ Tail(s) \in Seq(S)
         /\ ToSet(s) = {Head(s)} \cup ToSet(Tail(s))
<1>1. /\ Len(s) \in Nat /\ Len(s) > 0 /\ Tail(s) \in Seq(S) /\ Len(Tail(s)) = Len(s) - 1
      /\ \A i \in 1..Len(s)-1 : Tail(s)[i] = s[i+1]
      /\ Head(s) = s[1] /\ s[1] \in S
  OBVIOUS
<1>2. DOMAIN s = 1..Len(s) /\ DOMAIN Tail(s) = 1..(Len(s) - 1)
  BY <1>1
<1>3. \A y \in ToSet(s) : y \in {Head(s)} \cup ToSet(Tail(s))
  <2> SUFFICES ASSUME NEW i \in 1..Len(s) PROVE s[i] \in {Head(s)} \cup ToSet(Tail(s))
    BY <1>2 DEF ToSet
  <2>1. CASE i = 1
    BY <1>1, <2>1
  <2>2. CASE i # 1
    <3>1. i - 1 \in 1..(Len(s) - 1) /\ s[i] = Tail(s)[i-1]
      BY <1>1, <2>2
    <3>2. QED
      BY <1>2, <3>1 DEF ToSet
  <2>3. QED
    BY <2>1, <2>2
<1>4. \A y \in ToSet(Tail(s)) : y \in ToSet(s)
  <2> SUFFICES ASSUME NEW i \in 1..(Len(s) - 1) PROVE Tail(s)[i] \in ToSet(s)
    BY <1>2 DEF ToSet
  <2>1. i + 1 \in 1..Len(s) /\ Tail(s)[i] = s[i+1]
    BY <1>1
  <2>2. QED
    BY <1>2, <2>1 DEF ToSet
<1>5. Head(s) \in ToSet(s)
  BY <1>1, <1>2 DEF ToSet
<1>6. QED
  BY <1>1, <1>3, <1>4, <1>5

\* A part of a sequence, with its length in a form easier to compute with.
LEMMA PartOf ==
  ASSUME NEW S, NEW s \in Seq(S), NEW m \in Nat \ {0}, NEW n \in Nat, n <= Len(s), m <= n + 1
  PROVE  /\ SubSeq(s, m, n) \in Seq(S) /\ Len(SubSeq(s, m, n)) = n + 1 - m
         /\ \A i \in 1..(n + 1 - m) : SubSeq(s, m, n)[i] = s[m - 1 + i]
<1>1. \A i \in m..n : s[i] \in S
  OBVIOUS
<1>2. /\ SubSeq(s, m, n) \in Seq(S)
      /\ Len(SubSeq(s, m, n)) = IF m <= n THEN n - m + 1 ELSE 0
      /\ \A i \in 1..(n - m + 1) : SubSeq(s, m, n)[i] = s[m + i - 1]
  BY <1>1, SubSeqProperties
<1>3. (n + 1 - m = n - m + 1) /\ \A i \in Int : m - 1 + i = m + i - 1
  OBVIOUS
<1>4. QED
  BY <1>2, <1>3

\* The places of a sequence without its n-th element.
LEMMA RemoveAtPlaces ==
  ASSUME NEW S, NEW s \in Seq(S), NEW n \in 1..Len(s)
  PROVE  /\ RemoveAt(s, n) \in Seq(S) /\ Len(RemoveAt(s, n)) = Len(s) - 1
         /\ \A i \in 1..(Len(s) - 1) : RemoveAt(s, n)[i] = s[IF i < n THEN i ELSE i + 1]
<1>1. Len(s) \in Nat /\ n \in Nat
  OBVIOUS
<1>2. PICK a : a = SubSeq(s, 1, n-1)
  OBVIOUS
<1>3. PICK b : b = SubSeq(s, n+1, Len(s))
  OBVIOUS
<1>4. /\ a \in Seq(S) /\ Len(a) = n - 1
      /\ \A i \in 1..(n - 1) : a[i] = s[i]
  BY <1>1, <1>2, PartOf
<1>5. /\ b \in Seq(S) /\ Len(b) = Len(s) - n
      /\ \A i \in 1..(Len(s) - n) : b[i] = s[n + i]
  BY <1>1, <1>3, PartOf
<1>6. RemoveAt(s, n) = a \o b
  BY <1>2, <1>3 DEF RemoveAt
<1>7. /\ a \o b \in Seq(S) /\ Len(a \o b) = Len(a) + Len(b)
      /\ \A i \in 1..Len(a) + Len(b) :
           (a \o b)[i] = IF i <= Len(a) THEN a[i] ELSE b[i - Len(a)]
  BY <1>4, <1>5, ConcatProperties
<1>8. ASSUME NEW i \in 1..(Len(s) - 1)
      PROVE  (a \o b)[i] = s[IF i < n THEN i ELSE i + 1]
  <2>1. CASE i < n
    BY <1>1, <1>4, <1>5, <1>7, <2>1
  <2>2. CASE i >= n
    <3>1. (a \o b)[i] = b[i - (n - 1)] /\ i - (n - 1) \in 1..Len(s)-n
      BY <1>1, <1>4, <1>5, <1>7, <2>2
    <3>2. n + (i - (n - 1)) = i + 1
      BY <1>1
    <3>3. QED
      BY <1>1, <1>5, <2>2, <3>1, <3>2
  <2>3. i < n \/ i >= n
    BY <1>1
  <2>4. QED
    BY <2>1, <2>2, <2>3
<1>9. QED
  BY <1>1, <1>4, <1>5, <1>6, <1>7, <1>8

\* A sequence without its n-th element.
LEMMA RemoveAtSet ==
  ASSUME NEW S, NEW s \in Seq(S), NEW n \in 1..Len(s), IsInjective(s)
  PROVE  /\ RemoveAt(s, n) \in Seq(S) /\ IsInjective(RemoveAt(s, n))
         /\ ToSet(RemoveAt(s, n)) = ToSet(s) \ {s[n]}
<1>1. Len(s) \in Nat /\ DOMAIN s = 1..Len(s) /\ n \in Nat
  OBVIOUS
<1>2. PICK t : t = RemoveAt(s, n)
  OBVIOUS
<1>3. PICK from : from = [i \in 1..(Len(s) - 1) |-> IF i < n THEN i ELSE i + 1]
  OBVIOUS
<1>4. /\ t \in Seq(S) /\ DOMAIN t = 1..(Len(s) - 1)
      /\ \A i \in 1..(Len(s) - 1) : t[i] = s[from[i]]
  BY <1>1, <1>2, <1>3, RemoveAtPlaces
<1>5. \A i \in 1..(Len(s) - 1) : from[i] \in 1..Len(s) /\ from[i] # n
  BY <1>1, <1>3
<1>6. \A i, j \in 1..(Len(s) - 1) : from[i] = from[j] => i = j
  BY <1>1, <1>3
<1>7. ASSUME NEW i \in 1..Len(s), i # n PROVE \E j \in 1..(Len(s) - 1) : from[j] = i
  <2>1. CASE i < n
    BY <1>1, <1>3, <2>1
  <2>2. CASE i > n
    <3>1. i - 1 \in 1..(Len(s) - 1) /\ from[i - 1] = i
      BY <1>1, <1>3, <2>2
    <3>2. QED
      BY <3>1
  <2>3. QED
    BY <1>1, <1>7, <2>1, <2>2
<1>8. IsInjective(t)
  <2> SUFFICES ASSUME NEW i \in 1..(Len(s) - 1), NEW j \in 1..(Len(s) - 1), t[i] = t[j]
               PROVE  i = j
    BY <1>4 DEF IsInjective
  <2>1. from[i] \in DOMAIN s /\ from[j] \in DOMAIN s /\ s[from[i]] = s[from[j]]
    BY <1>1, <1>4, <1>5
  <2>2. QED
    BY <1>6, <2>1 DEF IsInjective
<1>9. ASSUME NEW i \in 1..(Len(s) - 1) PROVE t[i] \in ToSet(s) \ {s[n]}
  BY <1>1, <1>4, <1>5 DEF ToSet, IsInjective
<1>10. ASSUME NEW i \in 1..Len(s), s[i] # s[n] PROVE s[i] \in ToSet(t)
  <2>1. PICK j \in 1..(Len(s) - 1) : from[j] = i
    BY <1>7, <1>10
  <2>2. t[j] = s[i]
    BY <1>4, <2>1
  <2>3. QED
    BY <1>4, <2>2 DEF ToSet
<1>11. ToSet(t) = ToSet(s) \ {s[n]}
  BY <1>1, <1>4, <1>9, <1>10 DEF ToSet
<1>12. QED
  BY <1>2, <1>4, <1>8, <1>11

\* A set of numbers has a least one.
LEMMA LeastNumber ==
  ASSUME NEW T \in SUBSET Nat, T # {}
  PROVE  \E n \in T : \A m \in T : n <= m
<1> DEFINE Below == {1..n : n \in T}
           R == StrictSubsetOrdering(Nat)
<1>1. IsWellFoundedOn(R, FiniteSubsetsOf(Nat))
  BY FS_StrictSubsetOrderingWellFounded
<1>2. \A n \in T : IsFiniteSet(1..n) /\ 1..n \in SUBSET Nat
  BY FS_Interval
<1>3. Below \subseteq FiniteSubsetsOf(Nat) /\ Below # {}
  BY <1>2 DEF FiniteSubsetsOf
<1>4. PICK x \in Below : \A y \in Below : ~(<<y, x>> \in R)
  BY <1>1, <1>3, WFMin
<1>5. PICK n \in T : x = 1..n
  OBVIOUS
<1>6. ASSUME NEW m \in T, m < n PROVE FALSE
  <2>1. 1..m \subseteq 1..n /\ n \in 1..n /\ n \notin 1..m
    BY <1>6
  <2>2. 1..m \in Below /\ 1..m \in SUBSET Nat /\ x \in SUBSET Nat
    BY <1>5
  <2>3. QED
    BY <1>4, <1>5, <2>1, <2>2 DEF StrictSubsetOrdering
<1>7. QED
  BY <1>6

\* The first position of s with an element of T.
FirstIn(s, T) ==
  LET I == {i \in 1..Len(s) : s[i] \in T}
  IN  IF I # {} THEN Min(I) ELSE 0

\* The position an element is found at.
LEMMA SelectFinds ==
  ASSUME NEW S, NEW s \in Seq(S), NEW T
  PROVE  \/ FirstIn(s, T) \in 1..Len(s) /\ s[FirstIn(s, T)] \in T
         \/ FirstIn(s, T) = 0 /\ \A x \in ToSet(s) : x \notin T
<1> DEFINE I == {i \in 1..Len(s) : s[i] \in T}
<1>1. DOMAIN s = 1..Len(s) /\ Len(s) \in Nat
  OBVIOUS
<1>2. CASE I = {}
  BY <1>1, <1>2 DEF ToSet, FirstIn
<1>3. CASE I # {}
  <2>1. I \subseteq Nat
    BY <1>1
  <2>2. \E x \in I : \A y \in I : x <= y
    BY <1>3, <2>1, LeastNumber
  <2>3. Min(I) \in I
    BY <2>2 DEF Min
  <2>4. FirstIn(s, T) = Min(I)
    BY <1>3 DEF FirstIn
  <2>5. QED
    BY <2>3, <2>4
<1>4. QED
  BY <1>2, <1>3

(***************************************************************************)
(* The table of requests.                                                  *)
(***************************************************************************)

\* An entry of the table keeps its type when one of its fields changes.
LEMMA EntryUpdates ==
  ASSUME NEW e \in Entries
  PROVE  /\ e # Unmade
         /\ \A n \in Nat : [e EXCEPT !.complete = n] \in Entries
         /\ [e EXCEPT !.needConfirm = FALSE, !.confirm = TRUE] \in Entries
         /\ [e EXCEPT !.confirm = FALSE] \in Entries
         /\ \A id \in Ids \cup {Zero, None}, n \in Nat :
              [e EXCEPT !.assigned = id, !.complete = n] \in Entries
<1>1. e.kind # "none" /\ Unmade.kind = "none"
  BY DEF Entries, Unmade
<1>2. e # Unmade
  BY <1>1
<1>3. QED
  BY <1>2 DEF Entries

\* A request is made if it has an entry.
LEMMA MadeEntry ==
  ASSUME TypeOK, NEW q \in Reqs
  PROVE  q \in Made <=> info[q] \in Entries
<1>1. info[q] \in Entries => info[q] # Unmade
  BY EntryUpdates
<1>2. QED
  BY <1>1 DEF TypeOK, Infos, Made

\* Where a call is, and for which request.
LEMMA CallerFields ==
  ASSUME TypeOK, NEW c \in Callers
  PROVE  /\ caller[c] \in CallerStates
         /\ caller[c] = Idle <=> caller[c].at = "idle"
         /\ caller[c] # Idle => /\ caller[c].req \in Reqs
                                /\ \A at \in {"listed", "waits", "answered", "reads"} :
                                     [caller[c] EXCEPT !.at = at] = [at |-> at, req |-> caller[c].req]
<1>1. caller[c] \in CallerStates
  BY DEF TypeOK
<1>2. CASE caller[c] \in [at : {"idle"}]
  <2>1. caller[c] = [at |-> "idle"]
    BY <1>2
  <2>2. QED
    BY <1>1, <2>1 DEF Idle
<1>3. CASE caller[c] \in [at : {"listed", "waits", "answered", "reads"}, req : Reqs]
  <2>1. caller[c].at # "idle"
    BY <1>3
  <2>2. QED
    BY <1>1, <1>3, <2>1 DEF Idle
<1>4. QED
  BY <1>1, <1>2, <1>3 DEF CallerStates

\* A calling thread goes on to another place.
LEMMA CallerMoves ==
  ASSUME TypeOK, NEW c \in Callers, caller[c] # Idle,
         NEW at \in {"listed", "waits", "answered", "reads"},
         caller' = [caller EXCEPT ![c].at = at]
  PROVE  /\ caller' \in [Callers -> CallerStates]
         /\ \A d \in Callers : caller'[d] = IF d = c THEN [at |-> at, req |-> caller[c].req]
                                                   ELSE caller[d]
<1>1. caller' = [caller EXCEPT ![c] = [caller[c] EXCEPT !.at = at]]
  OBVIOUS
<1>2. caller \in [Callers -> CallerStates] /\ caller[c].req \in Reqs
  BY CallerFields DEF TypeOK
<1>3. [caller[c] EXCEPT !.at = at] = [at |-> at, req |-> caller[c].req]
  BY CallerFields
<1>4. [at |-> at, req |-> caller[c].req] \in CallerStates
  BY <1>2 DEF CallerStates
<1>5. QED
  BY <1>1, <1>2, <1>3, <1>4

\* A calling thread begins or ends a call.
LEMMA CallerSet ==
  ASSUME TypeOK, NEW c \in Callers, NEW state \in CallerStates,
         caller' = [caller EXCEPT ![c] = state]
  PROVE  /\ caller' \in [Callers -> CallerStates]
         /\ \A d \in Callers : caller'[d] = IF d = c THEN state ELSE caller[d]
BY DEF TypeOK

\* The states of calling threads.
LEMMA CallerStatesFields ==
  /\ Idle \in CallerStates /\ Idle.at = "idle"
  /\ \A at \in {"listed", "waits", "answered", "reads"}, q \in Reqs :
       /\ [at |-> at, req |-> q] \in CallerStates
       /\ [at |-> at, req |-> q].at = at /\ [at |-> at, req |-> q].req = q
       /\ [at |-> at, req |-> q] # Idle
<1>1. \A at \in {"listed", "waits", "answered", "reads"}, q \in Reqs :
        [at |-> at, req |-> q].at = at /\ at # "idle"
  OBVIOUS
<1>2. QED
  BY <1>1 DEF Idle, CallerStates

\* An entry of the table changes.
LEMMA InfoSet ==
  ASSUME TypeOK, NEW q \in Reqs, NEW e \in Entries,
         info' = [info EXCEPT ![q] = e]
  PROVE  /\ info' \in [Reqs -> Infos]
         /\ \A p \in Reqs : info'[p] = IF p = q THEN e ELSE info[p]
BY DEF TypeOK, Infos

\* The list without a request.
LEMMA WithoutList ==
  ASSUME requests \in Seq(Reqs), IsInjective(requests), NEW q
  PROVE  /\ Without(q) \in Seq(Reqs) /\ IsInjective(Without(q))
         /\ ToSet(Without(q)) = ToSet(requests) \ {q}
<1>1. DOMAIN requests = 1..Len(requests) /\ Len(requests) \in Nat
  OBVIOUS
<1>2. CASE \E i \in 1..Len(requests) : requests[i] = q
  <2>1. PICK n : n = SelectInSeq(requests, LAMBDA v : v = q)
    OBVIOUS
  <2>2. n = FirstIn(requests, {q})
    BY <2>1 DEF SelectInSeq, FirstIn
  <2>3. q \in ToSet(requests)
    BY <1>1, <1>2 DEF ToSet
  <2>4. n \in 1..Len(requests) /\ requests[n] = q
    BY <2>2, <2>3, SelectFinds
  <2>5. Without(q) = RemoveAt(requests, n)
    BY <1>2, <2>1 DEF Without, RemoveFirst
  <2>6. QED
    BY <2>4, <2>5, RemoveAtSet
<1>3. CASE ~\E i \in 1..Len(requests) : requests[i] = q
  <2>1. Without(q) = requests
    BY <1>3 DEF Without, RemoveFirst
  <2>2. q \notin ToSet(requests)
    BY <1>1, <1>3 DEF ToSet
  <2>3. QED
    BY <2>1, <2>2
<1>4. QED
  BY <1>2, <1>3

\* The entry a resource is found in.
LEMMA FindsEntry ==
  ASSUME requests \in Seq(Reqs), NEW id
  PROVE  LET q == FindRequestByResource(id)
         IN  \/ q \in Reqs /\ Listed(q) /\ info[q].assigned = id
             \/ q = 0 /\ \A r \in Reqs : Listed(r) => info[r].assigned # id
<1>1. PICK n : n = SelectInSeq(requests, LAMBDA q : info[q].assigned = id)
  OBVIOUS
<1>2. PICK T : T = {q \in Reqs : info[q].assigned = id}
  OBVIOUS
<1>3. \A i \in 1..Len(requests) : info[requests[i]].assigned = id <=> requests[i] \in T
  BY <1>2
<1>4. n = FirstIn(requests, T)
  BY <1>1, <1>3 DEF SelectInSeq, FirstIn
<1>5. \/ n \in 1..Len(requests) /\ requests[n] \in T
      \/ n = 0 /\ \A x \in ToSet(requests) : x \notin T
  BY <1>4, SelectFinds
<1>6. FindRequestByResource(id) = IF n = 0 THEN 0 ELSE requests[n]
  BY <1>1 DEF FindRequestByResource
<1>7. QED
  BY <1>2, <1>5, <1>6 DEF Listed, ToSet

(***************************************************************************)
(* Types, and the kind of request that calls, messages and notes name.     *)
(***************************************************************************)

OfKind(table, q, kind) == q \in Reqs /\ table[q] \in Entries /\ table[q].kind = kind
Resource(q) == OfKind(info, q, "resource")
Value(q) == OfKind(info, q, "value")

\* What a message may say.
Fits(m) ==
  /\ m.kind \in {"R", "C", "V"} => Resource(m.req)
  /\ m.kind = "T" => Value(m.req)
  /\ m.kind \in {"L", "V"} => m.id \in Ids

Busy(state) == state.at \in {"listed", "waits", "answered"}

CallersFit ==
  \A c \in Callers : /\ Busy(caller[c]) => OfKind(info, caller[c].req, "resource")
                     /\ caller[c].at = "reads" => OfKind(info, caller[c].req, "value")
MessagesFit == \A m \in ToSet(up) \cup ToSet(down) : Fits(m)
ServerFits == /\ \A id \in Ids : owner[id] # None => Resource(owner[id])
              /\ \A q \in waiting : Resource(q) /\ info[q].async
NamesFit == /\ conn.at = "confirms" => Resource(conn.req)
            /\ \A n \in notes : n.req \in Made
            /\ ToSet(requests) \subseteq Made
AppFits == \A q \in Reqs \ Made : told[q] = None /\ q \notin over \cup givenUp \cup unconfirmed
TableFits == /\ \E n \in 0..MaxRequests : Made = 1..n
             /\ \A q \in Reqs : Value(q) => info[q].assigned = Zero /\ ~info[q].async

KindsInv == CallersFit /\ MessagesFit /\ ServerFits /\ NamesFit /\ AppFits /\ TableFits

\* A new entry.
LEMMA NewEntry ==
  ASSUME NEW kind \in {"resource", "value"}, NEW async \in BOOLEAN
  PROVE  /\ NewInfo(kind, async) \in Entries /\ NewInfo(kind, async) # Unmade
         /\ NewInfo(kind, async).kind = kind /\ NewInfo(kind, async).assigned = Zero
         /\ NewInfo(kind, async).async = async /\ NewInfo(kind, async).complete = 0
         /\ NewInfo(kind, async).confirm = FALSE
         /\ NewInfo(kind, async).needConfirm = (kind = "resource")
<1>1. NewInfo(kind, async) \in Entries
  BY DEF NewInfo, Entries
<1>2. QED
  BY <1>1, EntryUpdates DEF NewInfo

\* The next request is a new one.
LEMMA NextIsNew ==
  ASSUME TypeOK, KindsInv, NextReq \in Reqs
  PROVE  NextReq \notin Made /\ Made \cup {NextReq} = 1..NextReq
<1>1. PICK n \in 0..MaxRequests : Made = 1..n
  BY DEF KindsInv, TableFits
<1>2. n \in Nat /\ Cardinality(Made) = n
  BY <1>1, FS_Interval, ClientAssumption
<1>3. NextReq = n + 1
  BY <1>2 DEF NextReq
<1>4. QED
  BY <1>1, <1>2, <1>3

\* A message is put on the way to the server.
LEMMA SendSet ==
  ASSUME TypeOK, NEW msg \in Messages, Send(msg)
  PROVE  up' \in Seq(Messages) /\ ToSet(up') = IF server THEN ToSet(up) \cup {msg} ELSE ToSet(up)
<1>1. up \in Seq(Messages)
  BY DEF TypeOK
<1>2. CASE server
  <2>1. up' = Append(up, msg)
    BY <1>2 DEF Send
  <2>2. QED
    BY <1>1, <1>2, <2>1, AppendSet
<1>3. CASE ~server
  BY <1>1, <1>3 DEF Send
<1>4. QED
  BY <1>2, <1>3

\* The server takes a message.
LEMMA ServesSet ==
  ASSUME TypeOK, NEW kind, Serves(kind)
  PROVE  /\ server /\ Head(up) \in Messages /\ Head(up).kind = kind
         /\ up' \in Seq(Messages) /\ ToSet(up) = {Head(up)} \cup ToSet(up')
BY TailSet DEF TypeOK, Serves

\* The reading thread takes a message.
LEMMA ReadsSet ==
  ASSUME TypeOK, NEW kind, Reads(kind)
  PROVE  /\ conn.at = "reads" /\ Head(down) \in Messages /\ Head(down).kind = kind
         /\ down' \in Seq(Messages) /\ ToSet(down) = {Head(down)} \cup ToSet(down')
BY TailSet DEF TypeOK, Reads

\* A message of the server.
LEMMA AnswerSet ==
  ASSUME TypeOK, NEW msg \in Messages, down' = Append(down, msg)
  PROVE  down' \in Seq(Messages) /\ ToSet(down') = ToSet(down) \cup {msg}
BY AppendSet DEF TypeOK

\* The messages there are.
LEMMA MessageFields ==
  ASSUME NEW kind \in {"R", "T", "L", "C", "V"}, NEW q \in Reqs, NEW id \in Ids \cup {None}
  PROVE  /\ Message(kind, q, id) \in Messages
         /\ Message(kind, q, id).kind = kind
         /\ Message(kind, q, id).req = q /\ Message(kind, q, id).id = id
BY DEF Message, Messages

\* What is left of the entry when a call takes its answer, and so on.
LEMMA Taken ==
  ASSUME NEW e \in Entries
  PROVE  LET new == [e EXCEPT !.complete = @ - 1]
         IN  e.complete > 0 =>
               /\ new \in Entries /\ new.complete = e.complete - 1
               /\ new.kind = e.kind /\ new.async = e.async /\ new.assigned = e.assigned
               /\ new.confirm = e.confirm /\ new.needConfirm = e.needConfirm
BY DEF Entries

\* An entry whose answer the call returns.
LEMMA Returned ==
  ASSUME NEW e \in Entries
  PROVE  LET new == [e EXCEPT !.needConfirm = FALSE, !.confirm = TRUE]
         IN  /\ new \in Entries /\ new.complete = e.complete
             /\ new.kind = e.kind /\ new.async = e.async /\ new.assigned = e.assigned
             /\ new.confirm = TRUE /\ new.needConfirm = FALSE
BY DEF Entries

\* An entry that an answer names a resource for.
LEMMA Assigned ==
  ASSUME NEW e \in Entries, NEW id \in Ids \cup {None}
  PROVE  LET new == [e EXCEPT !.assigned = id, !.complete = @ + 1]
         IN  /\ new \in Entries /\ new.complete = e.complete + 1
             /\ new.kind = e.kind /\ new.async = e.async /\ new.assigned = id
             /\ new.confirm = e.confirm /\ new.needConfirm = e.needConfirm
<1>1. PICK new : new = [e EXCEPT !.assigned = id, !.complete = e.complete + 1]
  OBVIOUS
<1>2. e.complete + 1 \in Nat
  BY DEF Entries
<1>3. new \in Entries
  BY <1>1, <1>2, EntryUpdates
<1>4. /\ new.complete = e.complete + 1 /\ new.kind = e.kind /\ new.async = e.async
      /\ new.assigned = id /\ new.confirm = e.confirm /\ new.needConfirm = e.needConfirm
  BY <1>1 DEF Entries
<1>5. [e EXCEPT !.assigned = id, !.complete = @ + 1] = new
  BY <1>1
<1>6. QED
  BY <1>3, <1>4, <1>5

\* An entry whose semaphore is posted once more.
LEMMA Posted ==
  ASSUME NEW e \in Entries
  PROVE  LET new == [e EXCEPT !.complete = @ + 1]
         IN  /\ new \in Entries /\ new.complete = e.complete + 1
             /\ new.kind = e.kind /\ new.async = e.async /\ new.assigned = e.assigned
             /\ new.confirm = e.confirm /\ new.needConfirm = e.needConfirm
BY DEF Entries

\* An entry whose confirmation the reading thread takes.
LEMMA ConfirmTaken ==
  ASSUME NEW e \in Entries
  PROVE  LET new == [e EXCEPT !.confirm = FALSE]
         IN  /\ new \in Entries /\ new.complete = e.complete
             /\ new.kind = e.kind /\ new.async = e.async /\ new.assigned = e.assigned
             /\ new.confirm = FALSE /\ new.needConfirm = e.needConfirm
BY DEF Entries


(***************************************************************************)
(* What each action does, place by place.                                  *)
(***************************************************************************)

\* The entry of q changes, other than in what was asked for.
Becomes(q, assigned, complete, confirm, needConfirm) ==
  /\ info' \in [Reqs -> Infos] /\ info'[q] \in Entries
  /\ \A p \in Reqs : p # q => info'[p] = info[p]
  /\ info'[q].kind = info[q].kind /\ info'[q].async = info[q].async
  /\ info'[q].assigned = assigned /\ info'[q].complete = complete
  /\ info'[q].confirm = confirm /\ info'[q].needConfirm = needConfirm

\* A request is made.
Makes(q, kind, async) ==
  /\ q \in Reqs /\ q \notin Made /\ Made' = Made \cup {q} /\ Made' = 1..q
  /\ info' \in [Reqs -> Infos] /\ info'[q] = NewInfo(kind, async)
  /\ \A p \in Reqs : p # q => info'[p] = info[p]
  /\ requests' \in Seq(Reqs) /\ IsInjective(requests)'
  /\ ToSet(requests') = ToSet(requests) \cup {q}

\* The call of c is at another place.
Goes(c, state) ==
  /\ caller' \in [Callers -> CallerStates]
  /\ \A d \in Callers : caller'[d] = IF d = c THEN state ELSE caller[d]

\* The message m is put on the way to the server, if it runs.
Sends(m) ==
  /\ m \in Messages /\ Send(m) /\ up' \in Seq(Messages)
  /\ ToSet(up') = IF server THEN ToSet(up) \cup {m} ELSE ToSet(up)

\* The server takes the message m, of a kind.
Takes(m, kind) ==
  /\ Serves(kind) /\ server /\ m \in Messages /\ m.kind = kind /\ up # <<>> /\ m = Head(up)
  /\ up' \in Seq(Messages) /\ ToSet(up) = {m} \cup ToSet(up')

\* The server sends the message m.
Answers(m) ==
  /\ m \in Messages /\ down' = Append(down, m)
  /\ down' \in Seq(Messages) /\ ToSet(down') = ToSet(down) \cup {m}

\* The reading thread takes the message m, of a kind.
Hears(m, kind) ==
  /\ Reads(kind) /\ conn.at = "reads" /\ m \in Messages /\ m.kind = kind /\ down # <<>> /\ m = Head(down)
  /\ down' \in Seq(Messages) /\ ToSet(down) = {m} \cup ToSet(down')

\* The request q is taken off the list.
Unlists(q) ==
  /\ requests' \in Seq(Reqs) /\ IsInjective(requests)'
  /\ ToSet(requests') = ToSet(requests) \ {q}

\* A call ends.
LEMMA GoesIdle ==
  ASSUME TypeOK, NEW c \in Callers, caller' = [caller EXCEPT ![c] = Idle]
  PROVE  Goes(c, Idle)
<1>1. Idle \in CallerStates
  BY CallerStatesFields
<1>2. QED
  BY <1>1, CallerSet DEF Goes

\* A request that is listed as made.
LEMMA MakesRequest ==
  ASSUME TypeOK, KindsInv, NEW kind \in {"resource", "value"}, NEW async \in BOOLEAN,
         NextReq \in Reqs, info' = [info EXCEPT ![NextReq] = NewInfo(kind, async)],
         requests' = Append(requests, NextReq)
  PROVE  Makes(NextReq, kind, async)
<1> DEFINE q == NextReq
<1>1. q \notin Made /\ Made \cup {q} = 1..q
  BY NextIsNew
<1>2. NewInfo(kind, async) \in Entries /\ NewInfo(kind, async) # Unmade
  BY NewEntry
<1>3. /\ info' \in [Reqs -> Infos]
      /\ \A p \in Reqs : info'[p] = IF p = q THEN NewInfo(kind, async) ELSE info[p]
  BY <1>2, InfoSet
<1>4. Made' = Made \cup {q}
  BY <1>2, <1>3 DEF Made
<1>5. requests \in Seq(Reqs) /\ IsInjective(requests) /\ q \notin ToSet(requests)
  BY <1>1 DEF TypeOK, KindsInv, NamesFit
<1>6. requests' \in Seq(Reqs) /\ ToSet(requests') = ToSet(requests) \cup {q}
  BY <1>5, AppendSet
<1>7. IsInjective(requests)'
  <2>1. /\ Len(requests) \in Nat /\ DOMAIN requests = 1..Len(requests)
        /\ DOMAIN requests' = 1..(Len(requests) + 1)
        /\ \A i \in 1..Len(requests) : requests'[i] = requests[i]
        /\ requests'[Len(requests) + 1] = q
    BY <1>5
  <2>2. \A i \in 1..Len(requests) : requests[i] # q
    BY <1>5, <2>1 DEF ToSet
  <2> HIDE DEF q
  <2>3. QED
    BY <1>5, <2>1, <2>2 DEF IsInjective
<1>8. QED
  BY <1>1, <1>3, <1>4, <1>6, <1>7 DEF Makes

\* EssRMgrRequestResource lists a request.
LEMMA RequestDoes ==
  ASSUME TypeOK, KindsInv, NEW c \in Callers, NEW async \in BOOLEAN, Request(c, async)
  PROVE  /\ lib = "up" /\ caller[c] = Idle /\ Makes(NextReq, "resource", async)
         /\ Goes(c, [at |-> "listed", req |-> NextReq])
         /\ UNCHANGED <<conn, notes, lib, up, down, serverVars, appVars, unconfirmed>>
<1>1. Makes(NextReq, "resource", async)
  BY MakesRequest DEF Request
<1>2. Goes(c, [at |-> "listed", req |-> NextReq])
  <2>1. [at |-> "listed", req |-> NextReq] \in CallerStates
    BY CallerStatesFields DEF Request
  <2>2. caller' = [caller EXCEPT ![c] = [at |-> "listed", req |-> NextReq]]
    BY DEF Request
  <2>3. QED
    BY <2>1, <2>2, CallerSet DEF Goes
<1>3. QED
  BY <1>1, <1>2 DEF Request

\* The call that reads a value lists its entry and sends it.
LEMMA GetValueDoes ==
  ASSUME TypeOK, KindsInv, NEW c \in Callers, GetValue(c)
  PROVE  /\ lib = "up" /\ caller[c] = Idle /\ server /\ Makes(NextReq, "value", FALSE)
         /\ Goes(c, [at |-> "reads", req |-> NextReq])
         /\ Sends(Message("T", NextReq, None))
         /\ UNCHANGED <<conn, notes, lib, down, serverVars, appVars, unconfirmed>>
<1>1. Makes(NextReq, "value", FALSE)
  BY MakesRequest DEF GetValue
<1>2. Goes(c, [at |-> "reads", req |-> NextReq])
  <2>1. [at |-> "reads", req |-> NextReq] \in CallerStates
    BY CallerStatesFields DEF GetValue
  <2>2. caller' = [caller EXCEPT ![c] = [at |-> "reads", req |-> NextReq]]
    BY DEF GetValue
  <2>3. QED
    BY <2>1, <2>2, CallerSet DEF Goes
<1>3. Sends(Message("T", NextReq, None))
  BY SendSet, MessageFields DEF GetValue, Sends
<1>4. QED
  BY <1>1, <1>2, <1>3 DEF GetValue

\* The request is sent; a send that fails takes it off the list.
LEMMA SendRequestDoes ==
  ASSUME TypeOK, KindsInv, NEW c \in Callers, SendRequest(c)
  PROVE  LET q == caller[c].req
         IN  /\ caller[c].at = "listed" /\ caller[c] # Idle /\ Resource(q)
             /\ Sends(Message("R", q, None))
             /\ \/ /\ server /\ Goes(c, [at |-> "waits", req |-> q])
                   /\ UNCHANGED <<requests, givenUp>>
                \/ /\ ~server /\ Goes(c, Idle) /\ Unlists(q) /\ givenUp' = givenUp \cup {q}
             /\ UNCHANGED <<info, conn, notes, lib, down, serverVars, told, over, unconfirmed>>
<1> DEFINE q == caller[c].req
<1>1. caller[c].at = "listed" /\ caller[c] # Idle /\ q \in Reqs
  BY CallerFields DEF SendRequest
<1>2. Resource(q)
  BY <1>1 DEF KindsInv, CallersFit, Busy, Resource
<1>3. Sends(Message("R", q, None))
  BY <1>1, SendSet, MessageFields DEF SendRequest, Sends
<1>4. CASE server
  <2>1. Goes(c, [at |-> "waits", req |-> q])
    BY <1>1, <1>4, CallerMoves DEF SendRequest, Goes
  <2>2. QED
    BY <1>1, <1>2, <1>3, <1>4, <2>1 DEF SendRequest
<1>5. CASE ~server
  <2>1. Goes(c, Idle)
    BY <1>5, CallerSet, CallerStatesFields DEF SendRequest, Goes
  <2>2. Unlists(q)
    BY <1>5, WithoutList DEF SendRequest, Unlists, TypeOK
  <2>3. QED
    BY <1>1, <1>2, <1>3, <1>5, <2>1, <2>2 DEF SendRequest
<1>6. QED
  BY <1>4, <1>5

\* The wait of a call ends with the answer.
LEMMA TakeAnswerDoes ==
  ASSUME TypeOK, KindsInv, NEW c \in Callers, TakeAnswer(c)
  PROVE  LET q == caller[c].req
         IN  /\ caller[c].at = "waits" /\ caller[c] # Idle /\ Resource(q) /\ info[q].complete > 0
             /\ Becomes(q, info[q].assigned, info[q].complete - 1, info[q].confirm, info[q].needConfirm)
             /\ Goes(c, [at |-> "answered", req |-> q])
             /\ UNCHANGED <<requests, conn, notes, lib, up, down, serverVars, appVars, unconfirmed>>
<1> DEFINE q == caller[c].req
<1>1. caller[c].at = "waits" /\ caller[c] # Idle /\ q \in Reqs
  BY CallerFields DEF TakeAnswer
<1>2. Resource(q)
  BY <1>1 DEF KindsInv, CallersFit, Busy, Resource
<1>3. Goes(c, [at |-> "answered", req |-> q])
  BY <1>1, CallerMoves DEF TakeAnswer, Goes
<1>4. Becomes(q, info[q].assigned, info[q].complete - 1, info[q].confirm, info[q].needConfirm)
  <2> DEFINE e == [info[q] EXCEPT !.complete = @ - 1]
  <2>1. info' = [info EXCEPT ![q] = e] /\ info[q].complete > 0
    BY DEF TakeAnswer
  <2>2. /\ e \in Entries /\ e.complete = info[q].complete - 1
        /\ e.kind = info[q].kind /\ e.async = info[q].async /\ e.assigned = info[q].assigned
        /\ e.confirm = info[q].confirm /\ e.needConfirm = info[q].needConfirm
    BY <1>2, <2>1, Taken DEF Resource, OfKind
  <2> HIDE DEF e
  <2>3. QED
    BY <1>1, <2>1, <2>2, InfoSet DEF Becomes
<1>5. QED
  BY <1>1, <1>2, <1>3, <1>4 DEF TakeAnswer

\* The call returns what the entry names, and confirms it.
LEMMA ReturnAnswerDoes ==
  ASSUME TypeOK, KindsInv, NEW c \in Callers, ReturnAnswer(c)
  PROVE  LET q == caller[c].req
         IN  /\ caller[c].at = "answered" /\ caller[c] # Idle /\ Resource(q)
             /\ Becomes(q, info[q].assigned, info[q].complete, TRUE, FALSE)
             /\ Goes(c, Idle)
             /\ told' = IF Listed(q) /\ info[q].assigned \in Ids
                        THEN [told EXCEPT ![q] = info[q].assigned] ELSE told
             /\ UNCHANGED <<requests, conn, notes, lib, up, down, serverVars, over, givenUp,
                            unconfirmed>>
<1> DEFINE q == caller[c].req
<1>1. caller[c].at = "answered" /\ caller[c] # Idle /\ q \in Reqs
  BY CallerFields DEF ReturnAnswer
<1>2. Resource(q)
  BY <1>1 DEF KindsInv, CallersFit, Busy, Resource
<1>3. Goes(c, Idle)
  <2>1. caller' = [caller EXCEPT ![c] = Idle]
    BY DEF ReturnAnswer
  <2>2. QED
    BY <2>1, GoesIdle
<1>4. Becomes(q, info[q].assigned, info[q].complete, TRUE, FALSE)
  <2> DEFINE e == [info[q] EXCEPT !.needConfirm = FALSE, !.confirm = TRUE]
  <2>1. info' = [info EXCEPT ![q] = e]
    BY DEF ReturnAnswer
  <2>2. /\ e \in Entries /\ e.complete = info[q].complete
        /\ e.kind = info[q].kind /\ e.async = info[q].async /\ e.assigned = info[q].assigned
        /\ e.confirm = TRUE /\ e.needConfirm = FALSE
    BY <1>2, Returned DEF Resource, OfKind
  <2> HIDE DEF e
  <2>3. QED
    BY <1>1, <2>1, <2>2, InfoSet DEF Becomes
<1>5. QED
  BY <1>1, <1>2, <1>3, <1>4 DEF ReturnAnswer

\* The wait of a call ends with the timeout.
LEMMA GiveUpDoes ==
  ASSUME TypeOK, KindsInv, NEW c \in Callers, GiveUp(c)
  PROVE  LET q == caller[c].req
         IN  /\ caller[c].at = "waits" /\ caller[c] # Idle /\ Resource(q)
             /\ Goes(c, Idle) /\ givenUp' = givenUp \cup {q}
             /\ UNCHANGED <<tableVars, conn, notes, lib, up, down, serverVars, told, over, unconfirmed>>
<1> DEFINE q == caller[c].req
<1>1. caller[c].at = "waits" /\ caller[c] # Idle /\ q \in Reqs
  BY CallerFields DEF GiveUp
<1>2. Resource(q)
  BY <1>1 DEF KindsInv, CallersFit, Busy, Resource
<1>3. Goes(c, Idle)
  <2>1. caller' = [caller EXCEPT ![c] = Idle]
    BY DEF GiveUp
  <2>2. QED
    BY <2>1, GoesIdle
<1>4. QED
  BY <1>1, <1>2, <1>3 DEF GiveUp

\* A value was read.
LEMMA ReturnValueDoes ==
  ASSUME TypeOK, KindsInv, NEW c \in Callers, ReturnValue(c)
  PROVE  LET q == caller[c].req
         IN  /\ caller[c].at = "reads" /\ caller[c] # Idle /\ Value(q) /\ info[q].complete > 0
             /\ Becomes(q, info[q].assigned, info[q].complete - 1, info[q].confirm, info[q].needConfirm)
             /\ Goes(c, Idle)
             /\ UNCHANGED <<requests, conn, notes, lib, up, down, serverVars, appVars, unconfirmed>>
<1> DEFINE q == caller[c].req
<1>1. caller[c].at = "reads" /\ caller[c] # Idle /\ q \in Reqs
  BY CallerFields DEF ReturnValue
<1>2. Value(q)
  BY <1>1 DEF KindsInv, CallersFit, Value
<1>3. Goes(c, Idle)
  <2>1. caller' = [caller EXCEPT ![c] = Idle]
    BY DEF ReturnValue
  <2>2. QED
    BY <2>1, GoesIdle
<1>4. Becomes(q, info[q].assigned, info[q].complete - 1, info[q].confirm, info[q].needConfirm)
  <2> DEFINE e == [info[q] EXCEPT !.complete = @ - 1]
  <2>1. info' = [info EXCEPT ![q] = e] /\ info[q].complete > 0
    BY DEF ReturnValue
  <2>2. /\ e \in Entries /\ e.complete = info[q].complete - 1
        /\ e.kind = info[q].kind /\ e.async = info[q].async /\ e.assigned = info[q].assigned
        /\ e.confirm = info[q].confirm /\ e.needConfirm = info[q].needConfirm
    BY <1>2, <2>1, Taken DEF Value, OfKind
  <2> HIDE DEF e
  <2>3. QED
    BY <1>1, <2>1, <2>2, InfoSet DEF Becomes
<1>5. QED
  BY <1>1, <1>2, <1>3, <1>4 DEF ReturnValue

\* The first entry for the resource goes, if there is one, and its release is sent.
LEMMA ReleaseDoes ==
  ASSUME TypeOK, KindsInv, NEW id \in Ids, ReleaseResource(id)
  PROVE  /\ lib = "up" /\ \E r \in Reqs \ over : told[r] = id
         /\ over' = over \cup {r \in Reqs : told[r] = id}
         /\ \/ /\ \A r \in Reqs : Listed(r) => info[r].assigned # id
               /\ UNCHANGED <<requests, up>>
            \/ \E q \in Reqs : /\ Listed(q) /\ info[q].assigned = id
                               /\ Unlists(q) /\ Sends(Message("L", q, id))
         /\ UNCHANGED <<info, caller, conn, notes, lib, down, serverVars, told, givenUp, unconfirmed>>
<1>1. PICK q : q = FindRequestByResource(id)
  OBVIOUS
<1>2. \/ q \in Reqs /\ Listed(q) /\ info[q].assigned = id
      \/ q = 0 /\ \A r \in Reqs : Listed(r) => info[r].assigned # id
  BY <1>1, FindsEntry DEF TypeOK
<1>3. CASE q \in Reqs /\ Listed(q) /\ info[q].assigned = id
  <2>1. q # 0
    BY <1>3 DEF Reqs
  <2>2. requests' = Without(q) /\ Send(Message("L", q, id))
    BY <1>1, <2>1 DEF ReleaseResource
  <2>3. Unlists(q)
    BY <2>2, WithoutList DEF Unlists, TypeOK
  <2>4. Sends(Message("L", q, id))
    BY <1>3, <2>2, SendSet, MessageFields DEF Sends
  <2>5. QED
    BY <1>3, <2>3, <2>4 DEF ReleaseResource
<1>4. CASE q = 0 /\ \A r \in Reqs : Listed(r) => info[r].assigned # id
  BY <1>1, <1>4 DEF ReleaseResource
<1>5. QED
  BY <1>2, <1>3, <1>4

\* A cancelled request stays on the list.
LEMMA CancelDoes ==
  ASSUME TypeOK, KindsInv, NEW q \in Reqs, RequestCancel(q)
  PROVE  /\ lib = "up" /\ Listed(q) /\ Resource(q) /\ info[q].async /\ ~info[q].needConfirm
         /\ told[q] = None /\ q \notin over
         /\ Sends(Message("C", q, None))
         /\ over' = over \cup {q} /\ givenUp' = givenUp \cup {q}
         /\ UNCHANGED <<tableVars, caller, conn, notes, lib, down, serverVars, told, unconfirmed>>
<1>1. q \in Made /\ info[q] \in Entries
  BY MadeEntry DEF RequestCancel, KindsInv, NamesFit, Listed
<1>2. Resource(q)
  BY <1>1 DEF RequestCancel, KindsInv, TableFits, Resource, Value, Entries, OfKind
<1>3. Sends(Message("C", q, None))
  BY SendSet, MessageFields DEF RequestCancel, Sends
<1>4. QED
  BY <1>2, <1>3 DEF RequestCancel

\* An answer is put in the entry of its request, if that is listed.
LEMMA ReadAnswerDoes ==
  ASSUME TypeOK, KindsInv, ReadAnswer
  PROVE  \E m \in Messages :
           /\ Hears(m, "R") /\ Resource(m.req)
           /\ \/ /\ Listed(m.req)
                 /\ Becomes(m.req, m.id, info[m.req].complete + 1, info[m.req].confirm,
                            info[m.req].needConfirm)
                 /\ notes' = notes \cup
                      IF m.id # None /\ info[m.req].async
                      THEN {[event |-> "granted", req |-> m.req, id |-> m.id]} ELSE {}
                 /\ conn' = IF info[m.req].needConfirm THEN [at |-> "confirms", req |-> m.req]
                                                      ELSE conn
              \/ ~Listed(m.req) /\ UNCHANGED <<info, notes, conn>>
           /\ UNCHANGED <<requests, caller, lib, up, serverVars, appVars, unconfirmed>>
<1>1. PICK m : m = Head(down)
  OBVIOUS
<1>2. Hears(m, "R")
  BY <1>1, ReadsSet DEF ReadAnswer, Hears, Reads
<1>3. m \in Messages /\ Resource(m.req)
  BY <1>2 DEF KindsInv, MessagesFit, Fits, Hears
<1>4. m.id \in Ids \cup {None} /\ m.req \in Reqs
  BY <1>3 DEF Messages
<1>5. CASE Listed(m.req)
  <2> DEFINE e == [info[m.req] EXCEPT !.assigned = m.id, !.complete = @ + 1]
  <2>1. info' = [info EXCEPT ![m.req] = e]
    BY <1>1, <1>5 DEF ReadAnswer
  <2>2. /\ e \in Entries /\ e.complete = info[m.req].complete + 1
        /\ e.kind = info[m.req].kind /\ e.async = info[m.req].async /\ e.assigned = m.id
        /\ e.confirm = info[m.req].confirm /\ e.needConfirm = info[m.req].needConfirm
    BY <1>3, <1>4, Assigned DEF Resource, OfKind
  <2>3. Becomes(m.req, m.id, info[m.req].complete + 1, info[m.req].confirm, info[m.req].needConfirm)
    <3> HIDE DEF e
    <3>1. QED
      BY <1>4, <2>1, <2>2, InfoSet DEF Becomes
  <2>4. info'[m.req].assigned = m.id
    BY <2>3 DEF Becomes
  <2>5. notes' = notes \cup IF m.id # None /\ info[m.req].async
                           THEN {[event |-> "granted", req |-> m.req, id |-> m.id]} ELSE {}
    BY <1>1, <1>5, <2>4 DEF ReadAnswer, GrantNotes, Note
  <2>6. conn' = IF info[m.req].needConfirm THEN [at |-> "confirms", req |-> m.req] ELSE conn
    BY <1>1, <1>5 DEF ReadAnswer, AwaitConfirm
  <2>7. QED
    BY <1>2, <1>3, <1>5, <2>3, <2>5, <2>6 DEF ReadAnswer
<1>6. CASE ~Listed(m.req)
  BY <1>1, <1>2, <1>3, <1>6 DEF ReadAnswer
<1>7. QED
  BY <1>5, <1>6

\* The reading thread goes on when the call has taken the answer.
LEMMA ConfirmedDoes ==
  ASSUME TypeOK, KindsInv, Confirmed
  PROVE  LET q == conn.req
         IN  /\ conn.at = "confirms" /\ Resource(q) /\ info[q].confirm
             /\ Becomes(q, info[q].assigned, info[q].complete, FALSE, info[q].needConfirm)
             /\ conn' = [at |-> "reads"]
             /\ UNCHANGED <<requests, caller, notes, lib, up, down, serverVars, appVars, unconfirmed>>
<1> DEFINE q == conn.req
<1>1. conn.at = "confirms" /\ Resource(q) /\ q \in Reqs
  BY DEF KindsInv, NamesFit, Confirmed, Resource, OfKind
<1>2. Becomes(q, info[q].assigned, info[q].complete, FALSE, info[q].needConfirm)
  <2> DEFINE e == [info[q] EXCEPT !.confirm = FALSE]
  <2>1. info' = [info EXCEPT ![q] = e]
    BY DEF Confirmed
  <2>2. /\ e \in Entries /\ e.complete = info[q].complete
        /\ e.kind = info[q].kind /\ e.async = info[q].async /\ e.assigned = info[q].assigned
        /\ e.confirm = FALSE /\ e.needConfirm = info[q].needConfirm
    BY <1>1, ConfirmTaken DEF Resource, OfKind
  <2> HIDE DEF e
  <2>3. QED
    BY <1>1, <2>1, <2>2, InfoSet DEF Becomes
<1>3. QED
  BY <1>1, <1>2 DEF Confirmed

\* A revocation is noted for an entry that names the resource.
LEMMA ReadRevokeDoes ==
  ASSUME TypeOK, KindsInv, ReadRevoke
  PROVE  \E m \in Messages :
           /\ Hears(m, "V") /\ m.id \in Ids
           /\ \/ notes' = notes
              \/ \E q \in Reqs : /\ Listed(q) /\ info[q].assigned = m.id
                                 /\ notes' = notes \cup {[event |-> "revoked", req |-> q, id |-> m.id]}
           /\ UNCHANGED <<info, requests, caller, conn, lib, up, serverVars, appVars, unconfirmed>>
<1>1. PICK m : m = Head(down)
  OBVIOUS
<1>2. Hears(m, "V")
  BY <1>1, ReadsSet DEF ReadRevoke, Hears, Reads
<1>3. m \in Messages /\ m.id \in Ids
  BY <1>2 DEF KindsInv, MessagesFit, Fits, Hears
<1>4. PICK q : q = FindRequestByResource(m.id)
  OBVIOUS
<1>5. (q \in Reqs /\ Listed(q) /\ info[q].assigned = m.id) \/ q = 0
  BY <1>4, FindsEntry DEF TypeOK
<1>6. notes' = IF q = 0 THEN notes ELSE notes \cup {[event |-> "revoked", req |-> q, id |-> info[q].assigned]}
  BY <1>1, <1>4 DEF ReadRevoke, Note
<1>7. QED
  BY <1>2, <1>3, <1>5, <1>6 DEF ReadRevoke

\* The entry of a value goes with its answer.
LEMMA ReadValueDoes ==
  ASSUME TypeOK, KindsInv, ReadValue
  PROVE  \E m \in Messages :
           /\ Hears(m, "T") /\ Value(m.req)
           /\ \/ /\ Unlists(m.req)
                 /\ Becomes(m.req, info[m.req].assigned, info[m.req].complete + 1,
                            info[m.req].confirm, info[m.req].needConfirm)
              \/ UNCHANGED tableVars
           /\ UNCHANGED <<caller, conn, notes, lib, up, serverVars, appVars, unconfirmed>>
<1>1. PICK m : m = Head(down)
  OBVIOUS
<1>2. Hears(m, "T")
  BY <1>1, ReadsSet DEF ReadValue, Hears, Reads
<1>3. m \in Messages /\ Value(m.req)
  BY <1>2 DEF KindsInv, MessagesFit, Fits, Hears
<1>4. m.req \in Reqs
  BY <1>3 DEF Messages
<1>5. CASE Listed(m.req)
  <2> DEFINE e == [info[m.req] EXCEPT !.complete = @ + 1]
  <2>1. info' = [info EXCEPT ![m.req] = e] /\ requests' = Without(m.req)
    BY <1>1, <1>5 DEF ReadValue
  <2>2. /\ e \in Entries /\ e.complete = info[m.req].complete + 1
        /\ e.kind = info[m.req].kind /\ e.async = info[m.req].async
        /\ e.assigned = info[m.req].assigned
        /\ e.confirm = info[m.req].confirm /\ e.needConfirm = info[m.req].needConfirm
    BY <1>3, Posted DEF Value, OfKind
  <2>3. Becomes(m.req, info[m.req].assigned, info[m.req].complete + 1, info[m.req].confirm,
                info[m.req].needConfirm)
    <3> HIDE DEF e
    <3>1. QED
      BY <1>4, <2>1, <2>2, InfoSet DEF Becomes
  <2>4. Unlists(m.req)
    BY <2>1, WithoutList DEF Unlists, TypeOK
  <2>5. QED
    BY <1>2, <1>3, <2>3, <2>4 DEF ReadValue
<1>6. CASE ~Listed(m.req)
  BY <1>1, <1>2, <1>3, <1>6 DEF ReadValue
<1>7. QED
  BY <1>5, <1>6

\* Destruction empties the list and lets the readers of values go.
LEMMA JoinedDoes ==
  ASSUME TypeOK, KindsInv, Joined
  PROVE  /\ lib = "joining" /\ lib' = "notifying"
         /\ info' \in [Reqs -> Infos] /\ Made' = Made
         /\ \A q \in Reqs : Resource(q) => info'[q] = info[q]
         /\ \A q \in Reqs : Value(q) => /\ info'[q] \in Entries /\ info'[q].kind = "value"
                                        /\ info'[q].assigned = Zero /\ ~info'[q].async
         /\ requests' \in Seq(Reqs) /\ IsInjective(requests)' /\ ToSet(requests') = {}
         /\ UNCHANGED <<caller, conn, notes, up, down, serverVars, appVars, unconfirmed>>
<1>1. requests' \in Seq(Reqs) /\ IsInjective(requests)' /\ ToSet(requests') = {}
  BY DEF Joined, ToSet, IsInjective
<1>2. ASSUME NEW q \in Reqs, ~(Listed(q) /\ info[q].kind = "value")
      PROVE  info'[q] = info[q] /\ info[q] \in Infos
  BY <1>2 DEF Joined, LetGo, TypeOK
<1>3. ASSUME NEW q \in Reqs, Listed(q) /\ info[q].kind = "value"
      PROVE  /\ info[q] \in Entries /\ info'[q] \in Entries
             /\ info'[q].kind = "value" /\ info'[q].assigned = info[q].assigned
             /\ info'[q].async = info[q].async
  <2>1. info[q] \in Entries
    BY <1>3, MadeEntry DEF KindsInv, NamesFit, Listed
  <2>2. info'[q] = [info[q] EXCEPT !.complete = @ + 1]
    BY <1>3 DEF Joined, LetGo
  <2>3. QED
    BY <1>3, <2>1, <2>2, Posted
<1>4. DOMAIN info' = Reqs /\ info' = [q \in Reqs |-> info'[q]]
  BY DEF Joined, LetGo
<1>5. \A q \in Reqs : info'[q] \in Infos
  BY <1>2, <1>3 DEF Infos
<1>6. info' \in [Reqs -> Infos]
  BY <1>4, <1>5
<1>7. Made' = Made
  BY <1>2, <1>3, EntryUpdates DEF Made
<1>8. \A q \in Reqs : Resource(q) => info'[q] = info[q]
  BY <1>2 DEF Resource, OfKind
<1>9. ASSUME NEW q \in Reqs, Value(q)
      PROVE  /\ info'[q] \in Entries /\ info'[q].kind = "value"
             /\ info'[q].assigned = Zero /\ ~info'[q].async
  <2>1. info[q].assigned = Zero /\ ~info[q].async /\ info[q] \in Entries /\ info[q].kind = "value"
    BY <1>9 DEF KindsInv, TableFits, Value, OfKind
  <2>2. QED
    BY <1>2, <1>3, <2>1
<1>10. QED
  BY <1>1, <1>6, <1>7, <1>8, <1>9 DEF Joined

\* The request q, or nobody, is the owner of id.
Owns(id, q) ==
  /\ owner' \in [Ids -> Reqs \cup {None}]
  /\ \A r \in Ids : owner'[r] = IF r = id THEN q ELSE owner[r]

\* The server answers a request with a free resource, or with none.
LEMMA ServeRequestDoes ==
  ASSUME TypeOK, KindsInv, NEW id \in Ids \cup {None}, ServeRequest(id)
  PROVE  \E m \in Messages :
           /\ Takes(m, "R") /\ Resource(m.req)
           /\ Answers(Message("R", m.req, id))
           /\ \/ id = None /\ owner' = owner
              \/ id \in Ids /\ owner[id] = None /\ Owns(id, m.req)
           /\ \/ waiting' = waiting
              \/ id = None /\ info[m.req].async /\ waiting' = waiting \cup {m.req}
           /\ UNCHANGED <<tableVars, caller, conn, notes, lib, server, asked, appVars, unconfirmed>>
<1>1. PICK m : m = Head(up)
  OBVIOUS
<1>2. Takes(m, "R")
  BY <1>1, ServesSet DEF ServeRequest, Takes, Serves
<1>3. m \in Messages /\ Resource(m.req) /\ m.req \in Reqs
  BY <1>2 DEF KindsInv, MessagesFit, Fits, Takes, Resource, OfKind
<1>4. Answers(Message("R", m.req, id))
  BY <1>1, <1>3, AnswerSet, MessageFields DEF ServeRequest, Answers
<1>5. \/ id = None /\ owner' = owner
      \/ id \in Ids /\ owner[id] = None /\ Owns(id, m.req)
  <2>1. CASE id = None
    BY <2>1 DEF ServeRequest
  <2>2. CASE id # None
    BY <1>1, <1>3, <2>2 DEF ServeRequest, Owns, TypeOK
  <2>3. QED
    BY <2>1, <2>2
<1>6. QED
  BY <1>1, <1>2, <1>3, <1>4, <1>5 DEF ServeRequest

\* The server grants a pending request a free resource.
LEMMA GrantPendingDoes ==
  ASSUME TypeOK, KindsInv, NEW q \in Reqs, NEW id \in Ids, GrantPending(q, id)
  PROVE  /\ server /\ q \in waiting /\ Resource(q) /\ owner[id] = None /\ Owns(id, q)
         /\ waiting' = waiting \ {q}
         /\ Answers(Message("R", q, id))
         /\ UNCHANGED <<tableVars, caller, conn, notes, lib, up, server, asked, appVars, unconfirmed>>
<1>1. Answers(Message("R", q, id))
  BY AnswerSet, MessageFields DEF GrantPending, Answers
<1>2. Owns(id, q)
  BY DEF GrantPending, Owns, TypeOK
<1>3. QED
  BY <1>1, <1>2 DEF GrantPending, KindsInv, ServerFits

\* The server asks an owner for its resource.
LEMMA AskBackDoes ==
  ASSUME TypeOK, KindsInv, NEW id \in Ids, AskBack(id)
  PROVE  /\ server /\ owner[id] # None /\ Resource(owner[id])
         /\ asked' = asked \cup {id}
         /\ Answers(Message("V", owner[id], id))
         /\ UNCHANGED <<tableVars, caller, conn, notes, lib, up, server, owner, waiting, appVars,
                        unconfirmed>>
<1>1. Resource(owner[id]) /\ owner[id] \in Reqs
  BY DEF AskBack, KindsInv, ServerFits, Resource, OfKind
<1>2. Answers(Message("V", owner[id], id))
  BY <1>1, AnswerSet, MessageFields DEF AskBack, Answers
<1>3. QED
  BY <1>1, <1>2 DEF AskBack

\* The server takes a resource back.
LEMMA ServeReleaseDoes ==
  ASSUME TypeOK, KindsInv, ServeRelease
  PROVE  \E m \in Messages :
           /\ Takes(m, "L") /\ m.id \in Ids /\ Owns(m.id, None)
           /\ asked' = asked \ {m.id}
           /\ UNCHANGED <<tableVars, caller, conn, notes, lib, down, server, waiting, appVars,
                          unconfirmed>>
<1>1. PICK m : m = Head(up)
  OBVIOUS
<1>2. Takes(m, "L")
  BY <1>1, ServesSet DEF ServeRelease, Takes, Serves
<1>3. m \in Messages /\ m.id \in Ids
  BY <1>2 DEF KindsInv, MessagesFit, Fits, Takes
<1>4. Owns(m.id, None)
  BY <1>1, <1>3 DEF ServeRelease, Owns, TypeOK
<1>5. QED
  BY <1>1, <1>2, <1>3, <1>4 DEF ServeRelease

\* The server forgets a cancelled request, and takes back what it had.
LEMMA ServeCancelDoes ==
  ASSUME TypeOK, KindsInv, ServeCancel
  PROVE  \E m \in Messages :
           /\ Takes(m, "C") /\ Resource(m.req)
           /\ owner' \in [Ids -> Reqs \cup {None}]
           /\ \A r \in Ids : owner'[r] = IF owner[r] = m.req THEN None ELSE owner[r]
           /\ asked' \subseteq asked
           /\ waiting' = waiting \ {m.req}
           /\ UNCHANGED <<tableVars, caller, conn, notes, lib, down, server, appVars, unconfirmed>>
<1>1. PICK m : m = Head(up)
  OBVIOUS
<1>2. Takes(m, "C")
  BY <1>1, ServesSet DEF ServeCancel, Takes, Serves
<1>3. m \in Messages /\ Resource(m.req)
  BY <1>2 DEF KindsInv, MessagesFit, Fits, Takes
<1>4. /\ owner' \in [Ids -> Reqs \cup {None}]
      /\ \A r \in Ids : owner'[r] = IF owner[r] = m.req THEN None ELSE owner[r]
  BY <1>1 DEF ServeCancel, TypeOK
<1>5. asked' \subseteq asked /\ waiting' = waiting \ {m.req}
  BY <1>1 DEF ServeCancel
<1>6. QED
  BY <1>2, <1>3, <1>4, <1>5 DEF ServeCancel

\* The server answers with a value.
LEMMA ServeGetValueDoes ==
  ASSUME TypeOK, KindsInv, ServeGetValue
  PROVE  \E m \in Messages :
           /\ Takes(m, "T") /\ Value(m.req)
           /\ Answers(Message("T", m.req, None))
           /\ UNCHANGED <<tableVars, caller, conn, notes, lib, server, owner, waiting, asked, appVars,
                          unconfirmed>>
<1>1. PICK m : m = Head(up)
  OBVIOUS
<1>2. Takes(m, "T")
  BY <1>1, ServesSet DEF ServeGetValue, Takes, Serves
<1>3. m \in Messages /\ Value(m.req) /\ m.req \in Reqs
  BY <1>2 DEF KindsInv, MessagesFit, Fits, Takes, Value, OfKind
<1>4. Answers(Message("T", m.req, None))
  BY <1>1, <1>3, AnswerSet, MessageFields DEF ServeGetValue, Answers
<1>5. QED
  BY <1>2, <1>3, <1>4 DEF ServeGetValue

\* The server goes, and what was on its way to it.
LEMMA ServerDiesDoes ==
  ASSUME TypeOK, KindsInv, ServerDies
  PROVE  /\ server /\ server' = FALSE
         /\ up' = <<>> /\ up' \in Seq(Messages) /\ ToSet(up') = {}
         /\ UNCHANGED <<tableVars, caller, conn, notes, lib, down, owner, waiting, asked, appVars,
                        unconfirmed>>
BY DEF ServerDies, ToSet

(***************************************************************************)
(* Types.                                                                  *)
(***************************************************************************)

\* Every step keeps the types.
LEMMA TypeStep ==
  ASSUME TypeOK, KindsInv, [Next]_vars
  PROVE  TypeOK'
<1> USE DEF tableVars, serverVars, appVars
<1>1. ASSUME NEW c \in Callers, Calls(c) PROVE TypeOK'
  <2>1. CASE SendRequest(c)
    <3> DEFINE q == caller[c].req
    <3>1. /\ Resource(q) /\ Sends(Message("R", q, None))
          /\ \/ /\ server /\ Goes(c, [at |-> "waits", req |-> q])
                /\ UNCHANGED <<requests, givenUp>>
             \/ /\ ~server /\ Goes(c, Idle) /\ Unlists(q) /\ givenUp' = givenUp \cup {q}
          /\ UNCHANGED <<info, conn, notes, lib, down, serverVars, told, over, unconfirmed>>
      BY <2>1, SendRequestDoes
    <3>2. q \in Reqs /\ caller' \in [Callers -> CallerStates] /\ up' \in Seq(Messages)
      BY <3>1 DEF Resource, Goes, Sends, OfKind
    <3>3. requests' \in Seq(Reqs) /\ IsInjective(requests)'
      BY <3>1 DEF TypeOK, Unlists
    <3>4. givenUp' \subseteq Reqs
      BY <3>1, <3>2 DEF TypeOK
    <3> HIDE DEF q
    <3>5. QED
      BY <3>1, <3>2, <3>3, <3>4 DEF TypeOK
  <2>2. CASE TakeAnswer(c)
    <3>1. /\ info' \in [Reqs -> Infos] /\ caller' \in [Callers -> CallerStates]
          /\ UNCHANGED <<requests, conn, notes, lib, up, down, serverVars, appVars, unconfirmed>>
      BY <2>2, TakeAnswerDoes DEF Goes, Becomes
    <3>2. QED
      BY <3>1 DEF TypeOK
  <2>3. CASE ReturnAnswer(c)
    <3> DEFINE q == caller[c].req
    <3>1. q \in Reqs /\ info' \in [Reqs -> Infos] /\ caller' \in [Callers -> CallerStates]
      BY <2>3, ReturnAnswerDoes DEF Goes, Becomes, Resource, OfKind
    <3>2. told' \in [Reqs -> Ids \cup {None}]
      BY <2>3, <3>1, ReturnAnswerDoes DEF TypeOK
    <3>3. QED
      BY <2>3, <3>1, <3>2, ReturnAnswerDoes DEF TypeOK
  <2>4. CASE GiveUp(c)
    BY <2>4, GiveUpDoes DEF TypeOK, Goes, Resource, OfKind
  <2>5. CASE ReturnValue(c)
    BY <2>5, ReturnValueDoes DEF TypeOK, Goes, Becomes
  <2>6. QED
    BY <1>1, <2>1, <2>2, <2>3, <2>4, <2>5 DEF Calls
<1>2. ASSUME NEW c \in Callers, GetValue(c) PROVE TypeOK'
  BY <1>2, GetValueDoes DEF TypeOK, Goes, Makes, Sends
<1>3. ASSUME NEW c \in Callers, NEW async \in BOOLEAN, Request(c, async) PROVE TypeOK'
  BY <1>3, RequestDoes DEF TypeOK, Goes, Makes
<1>4. ASSUME NEW id \in Ids, ReleaseResource(id) PROVE TypeOK'
  BY <1>4, ReleaseDoes DEF TypeOK, Sends, Unlists
<1>5. ASSUME NEW id \in Ids, AskBack(id) PROVE TypeOK'
  BY <1>5, AskBackDoes DEF TypeOK, Answers
<1>6. ASSUME NEW q \in Reqs, RequestCancel(q) PROVE TypeOK'
  BY <1>6, CancelDoes DEF TypeOK, Sends
<1>7. ASSUME NEW q \in Reqs, NEW id \in Ids, GrantPending(q, id) PROVE TypeOK'
  BY <1>7, GrantPendingDoes DEF TypeOK, Answers, Owns
<1>8. ASSUME ReadAnswer PROVE TypeOK'
  <2>1. PICK m \in Messages :
           /\ Hears(m, "R") /\ Resource(m.req)
           /\ \/ /\ Listed(m.req)
                 /\ Becomes(m.req, m.id, info[m.req].complete + 1, info[m.req].confirm,
                            info[m.req].needConfirm)
                 /\ notes' = notes \cup
                      IF m.id # None /\ info[m.req].async
                      THEN {[event |-> "granted", req |-> m.req, id |-> m.id]} ELSE {}
                 /\ conn' = IF info[m.req].needConfirm THEN [at |-> "confirms", req |-> m.req]
                                                      ELSE conn
              \/ ~Listed(m.req) /\ UNCHANGED <<info, notes, conn>>
           /\ UNCHANGED <<requests, caller, lib, up, serverVars, appVars, unconfirmed>>
    BY <1>8, ReadAnswerDoes
  <2>2. m.req \in Reqs /\ m.id \in Ids \cup {None} /\ down' \in Seq(Messages)
    BY <2>1 DEF Messages, Hears
  <2>3. info' \in [Reqs -> Infos]
    BY <2>1 DEF TypeOK, Becomes
  <2>4. notes' \subseteq [event : {"granted", "revoked"}, req : Reqs, id : Ids \cup {Zero, None}]
    BY <2>1, <2>2 DEF TypeOK
  <2>5. conn' \in [at : {"reads", "gone"}] \cup [at : {"confirms"}, req : Reqs]
    BY <2>1, <2>2 DEF TypeOK
  <2>6. QED
    BY <2>1, <2>2, <2>3, <2>4, <2>5 DEF TypeOK
<1>9. ASSUME ReadRevoke PROVE TypeOK'
  BY <1>9, ReadRevokeDoes DEF TypeOK, Hears
<1>10. ASSUME ReadValue PROVE TypeOK'
  <2>1. /\ down' \in Seq(Messages) /\ info' \in [Reqs -> Infos]
        /\ requests' \in Seq(Reqs) /\ IsInjective(requests)'
    BY <1>10, ReadValueDoes DEF TypeOK, Hears, Unlists, Becomes
  <2>2. UNCHANGED <<caller, conn, notes, lib, up, serverVars, appVars, unconfirmed>>
    BY <1>10 DEF ReadValue
  <2>3. /\ conn' = conn /\ caller' = caller /\ notes' = notes /\ lib' = lib /\ up' = up
        /\ server' = server /\ owner' = owner /\ waiting' = waiting /\ asked' = asked
        /\ told' = told /\ over' = over /\ givenUp' = givenUp /\ unconfirmed' = unconfirmed
    BY <2>2
  <2>4. QED
    BY <2>1, <2>3 DEF TypeOK
<1>11. ASSUME Confirmed PROVE TypeOK'
  <2>1. info' \in [Reqs -> Infos] /\ conn' = [at |-> "reads"]
    BY <1>11, ConfirmedDoes DEF Becomes
  <2>2. /\ requests' = requests /\ caller' = caller /\ notes' = notes /\ lib' = lib /\ up' = up
        /\ down' = down /\ server' = server /\ owner' = owner /\ waiting' = waiting /\ asked' = asked
        /\ told' = told /\ over' = over /\ givenUp' = givenUp /\ unconfirmed' = unconfirmed
    BY <1>11 DEF Confirmed
  <2>3. QED
    BY <2>1, <2>2 DEF TypeOK, IsInjective
<1>12. ASSUME ConfirmTimeout PROVE TypeOK'
  BY <1>12 DEF ConfirmTimeout, TypeOK, KindsInv, NamesFit, Resource, OfKind
<1>13. ASSUME ConnectionEnds PROVE TypeOK'
  BY <1>13 DEF ConnectionEnds, TypeOK
<1>14. ASSUME NEW n \in notes, Notify(n) PROVE TypeOK'
  BY <1>14 DEF Notify, TypeOK
<1>15. ASSUME Destroy \/ Destroyed PROVE TypeOK'
  BY <1>15 DEF Destroy, Destroyed, TypeOK
<1>16. ASSUME Joined PROVE TypeOK'
  BY <1>16, JoinedDoes DEF TypeOK
<1>17. ASSUME NEW id \in Ids \cup {None}, ServeRequest(id) PROVE TypeOK'
  BY <1>17, ServeRequestDoes DEF TypeOK, Takes, Answers, Owns, Resource, OfKind
<1>18. ASSUME ServeRelease PROVE TypeOK'
  BY <1>18, ServeReleaseDoes DEF TypeOK, Takes, Owns
<1>19. ASSUME ServeCancel PROVE TypeOK'
  BY <1>19, ServeCancelDoes DEF TypeOK, Takes
<1>20. ASSUME ServeGetValue PROVE TypeOK'
  BY <1>20, ServeGetValueDoes DEF TypeOK, Takes, Answers
<1>21. ASSUME ServerDies PROVE TypeOK'
  BY <1>21, ServerDiesDoes DEF TypeOK
<1>22. ASSUME UNCHANGED vars PROVE TypeOK'
  BY <1>22 DEF vars, TypeOK, IsInjective
<1>23. QED
  BY <1>1, <1>2, <1>3, <1>4, <1>5, <1>6, <1>7, <1>8, <1>9, <1>10, <1>11, <1>12, <1>13, <1>14,
     <1>15, <1>16, <1>17, <1>18, <1>19, <1>20, <1>21, <1>22 DEF Next, Connection, Serve

(***************************************************************************)
(* Kinds.                                                                  *)
(***************************************************************************)

\* A step that changes no entry, or only fields of one, keeps all kinds.
KindsKept == /\ Made' = Made
             /\ \A q, kind : OfKind(info', q, kind) <=> OfKind(info, q, kind)
             /\ \A q \in Made : info'[q].async = info[q].async

\* A step keeps the kinds there are.
KindsGrow == /\ Made \subseteq Made'
             /\ \A q, kind : OfKind(info, q, kind) => OfKind(info', q, kind)
             /\ \A q \in Made : info'[q].async = info[q].async

\* What is of a kind is a request that was made.
LEMMA KindIsMade ==
  ASSUME TypeOK, NEW q, NEW k, OfKind(info, q, k)
  PROVE  q \in Made
BY MadeEntry DEF OfKind

\* The table stays.
LEMMA SameKinds ==
  ASSUME info' = info
  PROVE  KindsKept
BY DEF KindsKept, Made

\* What keeps all kinds keeps those there are.
LEMMA KeptGrow == KindsKept => KindsGrow
BY DEF KindsKept, KindsGrow

\* An entry that changes keeps its kind.
LEMMA BecomesKinds ==
  ASSUME TypeOK, NEW q, NEW k, OfKind(info, q, k), NEW a, NEW n, NEW f, NEW g, Becomes(q, a, n, f, g)
  PROVE  KindsKept
<1>1. q \in Reqs /\ info[q] \in Entries
  BY DEF OfKind
<1>2. /\ info'[q] \in Entries /\ info'[q].kind = info[q].kind /\ info'[q].async = info[q].async
      /\ \A p \in Reqs : p # q => info'[p] = info[p]
  BY DEF Becomes
<1>3. Made' = Made /\ Made \subseteq Reqs
  BY <1>1, <1>2, EntryUpdates DEF Made
<1>4. QED
  BY <1>1, <1>2, <1>3 DEF KindsKept, OfKind

\* A new request has its kind, and the others theirs.
LEMMA MakesKinds ==
  ASSUME TypeOK, NEW q, NEW kind \in {"resource", "value"}, NEW async \in BOOLEAN,
         Makes(q, kind, async)
  PROVE  /\ KindsGrow
         /\ \A p, k : OfKind(info', p, k) => OfKind(info, p, k) \/ p = q
         /\ OfKind(info', q, kind) /\ \A k : OfKind(info', q, k) => k = kind
         /\ \A k : ~OfKind(info, q, k)
<1>1. /\ q \in Reqs /\ q \notin Made /\ info'[q] = NewInfo(kind, async) /\ Made' = Made \cup {q}
      /\ \A p \in Reqs : p # q => info'[p] = info[p]
  <2>1. q \in Reqs /\ q \notin Made /\ Made' = Made \cup {q}
    BY Zenon DEF Makes
  <2>2. info'[q] = NewInfo(kind, async)
    BY Zenon DEF Makes
  <2>3. \A p \in Reqs : p # q => info'[p] = info[p]
    BY Zenon DEF Makes
  <2>4. QED
    BY <2>1, <2>2, <2>3
<1>2. info'[q] \in Entries /\ info'[q].kind = kind
  <2>1. NewInfo(kind, async) \in Entries /\ NewInfo(kind, async).kind = kind
    BY NewEntry
  <2>2. QED
    BY <1>1, <2>1
<1>3. info[q] \notin Entries
  <2>1. q \in Reqs /\ q \notin Made
    BY <1>1
  <2>2. QED
    BY <2>1, MadeEntry
<1>4. Made \subseteq Reqs
  BY DEF Made
<1>5. KindsGrow
  <2>1. Made \subseteq Made'
    BY <1>1
  <2>2. \A p \in Made : p \in Reqs /\ info'[p] = info[p]
    BY <1>1, <1>4
  <2>3. \A p, k : OfKind(info, p, k) => OfKind(info', p, k)
    BY <1>1, <1>3 DEF OfKind
  <2>4. QED
    BY <2>1, <2>2, <2>3 DEF KindsGrow
<1>6. QED
  BY <1>1, <1>2, <1>3, <1>5 DEF OfKind

\* The parts of KindsInv, each from what may change it.
LEMMA CallersFitStep ==
  ASSUME TypeOK, CallersFit, KindsGrow,
         \/ caller' = caller
         \/ \E c \in Callers : Goes(c, Idle)
         \/ \E c \in Callers, q \in Reqs, at \in {"listed", "waits", "answered"} :
              Goes(c, [at |-> at, req |-> q]) /\ OfKind(info', q, "resource")
         \/ \E c \in Callers, q \in Reqs :
              Goes(c, [at |-> "reads", req |-> q]) /\ OfKind(info', q, "value")
  PROVE  CallersFit'
<1> DEFINE Fit(d) == /\ Busy(caller'[d]) => OfKind(info', caller'[d].req, "resource")
                     /\ caller'[d].at = "reads" => OfKind(info', caller'[d].req, "value")
<1>1. ASSUME NEW d \in Callers, caller'[d] = caller[d] PROVE Fit(d)
  <2>1. /\ Busy(caller[d]) => OfKind(info, caller[d].req, "resource")
        /\ caller[d].at = "reads" => OfKind(info, caller[d].req, "value")
    BY DEF CallersFit
  <2>2. QED
    BY <1>1, <2>1 DEF KindsGrow, Busy
<1>2. ASSUME NEW d \in Callers, caller'[d] = Idle PROVE Fit(d)
  BY <1>2, CallerStatesFields DEF Busy
<1>3. ASSUME NEW d \in Callers, NEW q \in Reqs, NEW at \in {"listed", "waits", "answered"},
             caller'[d] = [at |-> at, req |-> q], OfKind(info', q, "resource")
      PROVE  Fit(d)
  BY <1>3
<1>4. ASSUME NEW d \in Callers, NEW q \in Reqs, caller'[d] = [at |-> "reads", req |-> q],
             OfKind(info', q, "value")
      PROVE  Fit(d)
  BY <1>4 DEF Busy
<1>5. ASSUME NEW d \in Callers PROVE Fit(d)
  <2> HIDE DEF Fit
  <2>1. CASE caller' = caller
    BY <1>1, <2>1
  <2>2. CASE \E c \in Callers : Goes(c, Idle)
    BY <1>1, <1>2, <2>2 DEF Goes
  <2>3. CASE \E c \in Callers, q \in Reqs, at \in {"listed", "waits", "answered"} :
               Goes(c, [at |-> at, req |-> q]) /\ OfKind(info', q, "resource")
    BY <1>1, <1>3, <2>3 DEF Goes
  <2>4. CASE \E c \in Callers, q \in Reqs :
               Goes(c, [at |-> "reads", req |-> q]) /\ OfKind(info', q, "value")
    BY <1>1, <1>4, <2>4 DEF Goes
  <2>5. QED
    BY <2>1, <2>2, <2>3, <2>4
<1>6. QED
  BY <1>5 DEF CallersFit

\* Messages name what they may when kinds stay and new ones do.
LEMMA MessagesFitStep ==
  ASSUME MessagesFit, KindsGrow,
         \A m \in ToSet(up') \cup ToSet(down') :
           \/ m \in ToSet(up) \cup ToSet(down)
           \/ /\ m.kind \in {"R", "C", "V"} => OfKind(info', m.req, "resource")
              /\ m.kind = "T" => OfKind(info', m.req, "value")
              /\ m.kind \in {"L", "V"} => m.id \in Ids
  PROVE  MessagesFit'
BY DEF MessagesFit, KindsGrow, Fits, Resource, Value

\* What the server knows of are requests for resources.
LEMMA ServerFitsStep ==
  ASSUME TypeOK, ServerFits, KindsGrow,
         \A id \in Ids : owner'[id] \in {owner[id], None} \/ OfKind(info', owner'[id], "resource"),
         \A q \in waiting' : q \in waiting \/ (OfKind(info', q, "resource") /\ info'[q].async)
  PROVE  ServerFits'
BY KindIsMade DEF ServerFits, KindsGrow, Resource

\* What the reading thread, the notes and the list name was made.
LEMMA NamesFitStep ==
  ASSUME NamesFit, KindsGrow,
         conn' = conn \/ conn'.at # "confirms" \/ OfKind(info', conn'.req, "resource"),
         \A n \in notes' : n \in notes \/ n.req \in Made,
         ToSet(requests') \subseteq ToSet(requests) \cup Made'
  PROVE  NamesFit'
BY DEF NamesFit, KindsGrow, Resource

\* Nothing is known of a request that was not made.
LEMMA AppFitsStep ==
  ASSUME AppFits, KindsGrow,
         \A q \in Reqs \ Made' : told'[q] = told[q],
         over' \subseteq over \cup Made', givenUp' \subseteq givenUp \cup Made',
         unconfirmed' \subseteq unconfirmed \cup Made'
  PROVE  AppFits'
BY DEF AppFits, KindsGrow

\* A table that keeps its kinds stays in order.
LEMMA TableFitsStep ==
  ASSUME TypeOK, TableFits, KindsKept,
         \A q \in Reqs : Value(q) => info'[q].assigned = info[q].assigned
  PROVE  TableFits'
BY KindIsMade DEF TableFits, KindsKept, Value

\* A new request does not disturb the table.
LEMMA MakesTable ==
  ASSUME TypeOK, TableFits, NEW q, NEW kind \in {"resource", "value"}, NEW async \in BOOLEAN,
         Makes(q, kind, async), kind = "value" => ~async
  PROVE  TableFits'
<1>1. q \in 0..MaxRequests /\ Made' = 1..q
  BY ClientAssumption DEF Makes, Reqs
<1>2. ASSUME NEW p \in Reqs, OfKind(info', p, "value")
      PROVE  info'[p].assigned = Zero /\ ~info'[p].async
  <2>1. CASE p = q
    <3>1. kind = "value"
      BY <1>2, <2>1, MakesKinds
    <3>2. QED
      BY <2>1, <3>1, NewEntry DEF Makes
  <2>2. CASE p # q
    <3>1. info'[p] = info[p] /\ Value(p)
      BY <1>2, <2>2 DEF Makes, Value, OfKind
    <3>2. QED
      BY <3>1 DEF TableFits
  <2>3. QED
    BY <2>1, <2>2
<1>3. QED
  BY <1>1, <1>2 DEF TableFits, Value

\* Nor does destruction change kinds.
LEMMA JoinedKinds ==
  ASSUME TypeOK, KindsInv, Joined
  PROVE  KindsKept
<1>1. /\ info' \in [Reqs -> Infos] /\ Made' = Made
      /\ \A q \in Reqs : Resource(q) => info'[q] = info[q]
      /\ \A q \in Reqs : Value(q) => /\ info'[q] \in Entries /\ info'[q].kind = "value"
                                     /\ info'[q].assigned = Zero /\ ~info'[q].async
  BY JoinedDoes
<1>2. ASSUME NEW q \in Reqs, info[q] \in Entries
      PROVE  /\ info'[q] \in Entries /\ info'[q].kind = info[q].kind
             /\ info'[q].async = info[q].async
  <2>1. CASE Resource(q)
    BY <1>1, <1>2, <2>1
  <2>2. CASE Value(q)
    <3>1. ~info[q].async /\ info[q].async \in BOOLEAN /\ info'[q].async \in BOOLEAN
          /\ info[q].kind = "value"
      BY <1>1, <1>2, <2>2 DEF KindsInv, TableFits, Entries, Value, OfKind
    <3>2. QED
      BY <1>1, <1>2, <2>2, <3>1
  <2>3. info[q].kind \in {"resource", "value"}
    BY <1>2 DEF Entries
  <2>4. QED
    BY <1>2, <2>1, <2>2, <2>3 DEF Resource, Value, OfKind
<1>3. ASSUME NEW q \in Reqs, info[q] \notin Entries PROVE info'[q] \notin Entries
  BY <1>1, <1>3, MadeEntry, EntryUpdates DEF Made
<1>4. ASSUME NEW q \in Made PROVE q \in Reqs /\ info[q] \in Entries
  BY MadeEntry DEF Made
<1>5. QED
  BY <1>1, <1>2, <1>3, <1>4 DEF KindsKept, OfKind

\* Every step keeps the kinds.
LEMMA KindsStep ==
  ASSUME TypeOK, KindsInv, [Next]_vars
  PROVE  KindsInv'
<1> USE DEF tableVars, serverVars, appVars
<1>0. CallersFit /\ MessagesFit /\ ServerFits /\ NamesFit /\ AppFits /\ TableFits
  BY DEF KindsInv
<1>1. ASSUME NEW c \in Callers, SendRequest(c) PROVE KindsInv'
  <2>1. LET q == caller[c].req
       IN  /\ Resource(q) /\ Sends(Message("R", q, None))
           /\ \/ Goes(c, [at |-> "waits", req |-> q]) /\ UNCHANGED <<requests, givenUp>>
              \/ Goes(c, Idle) /\ Unlists(q) /\ givenUp' = givenUp \cup {q}
           /\ UNCHANGED <<info, conn, notes, lib, down, serverVars, told, over, unconfirmed>>
    BY <1>1, SendRequestDoes
  <2>2. KindsKept /\ KindsGrow
    BY <2>1, SameKinds, KeptGrow
  <2>3. CallersFit'
    BY <1>0, <2>1, <2>2, CallersFitStep DEF Resource, Value, OfKind
  <2>4. MessagesFit'
    <3>1. PICK q : q = caller[c].req
      OBVIOUS
    <3>2. Resource(q) /\ Sends(Message("R", q, None)) /\ down' = down
      BY <2>1, <3>1
    <3>3. /\ Message("R", q, None).kind = "R" /\ Message("R", q, None).req = q
          /\ ToSet(up') \subseteq ToSet(up) \cup {Message("R", q, None)}
      BY <3>2 DEF Sends, Message
    <3>4. OfKind(info', q, "resource")
      BY <2>2, <3>2 DEF KindsGrow, Resource
    <3>5. QED
      BY <1>0, <2>2, <3>2, <3>3, <3>4, MessagesFitStep
  <2>5. ServerFits'
    BY <1>0, <2>1, <2>2, ServerFitsStep
  <2>6. NamesFit'
    BY <1>0, <2>1, <2>2, NamesFitStep DEF Unlists
  <2>7. AppFits'
    BY <1>0, <2>1, <2>2, KindIsMade, AppFitsStep DEF Resource, KindsKept
  <2>8. TableFits'
    BY <1>0, <2>1, <2>2, TableFitsStep
  <2>9. QED
    BY <2>3, <2>4, <2>5, <2>6, <2>7, <2>8 DEF KindsInv
<1>2. ASSUME NEW c \in Callers, TakeAnswer(c) PROVE KindsInv'
  <2>1. LET q == caller[c].req
       IN  /\ Resource(q) /\ Goes(c, [at |-> "answered", req |-> q])
           /\ Becomes(q, info[q].assigned, info[q].complete - 1, info[q].confirm, info[q].needConfirm)
           /\ UNCHANGED <<requests, conn, notes, lib, up, down, serverVars, appVars, unconfirmed>>
    BY <1>2, TakeAnswerDoes
  <2>2. KindsKept /\ KindsGrow
    BY <2>1, BecomesKinds, KeptGrow DEF Resource, Value
  <2>3. CallersFit'
    BY <1>0, <2>1, <2>2, CallersFitStep DEF Resource, Value, OfKind, KindsKept
  <2>4. MessagesFit'
    BY <1>0, <2>1, <2>2, MessagesFitStep
  <2>5. ServerFits'
    BY <1>0, <2>1, <2>2, ServerFitsStep
  <2>6. NamesFit'
    BY <1>0, <2>1, <2>2, NamesFitStep
  <2>7. AppFits'
    BY <1>0, <2>1, <2>2, AppFitsStep
  <2>8. TableFits'
    BY <1>0, <2>1, <2>2, TableFitsStep DEF Becomes
  <2>9. QED
    BY <2>3, <2>4, <2>5, <2>6, <2>7, <2>8 DEF KindsInv
<1>3. ASSUME NEW c \in Callers, ReturnAnswer(c) PROVE KindsInv'
  <2>1. LET q == caller[c].req
       IN  /\ Resource(q) /\ Goes(c, Idle)
           /\ Becomes(q, info[q].assigned, info[q].complete, TRUE, FALSE)
           /\ told' = IF Listed(q) /\ info[q].assigned \in Ids
                      THEN [told EXCEPT ![q] = info[q].assigned] ELSE told
           /\ UNCHANGED <<requests, conn, notes, lib, up, down, serverVars, over, givenUp, unconfirmed>>
    BY <1>3, ReturnAnswerDoes
  <2>2. KindsKept /\ KindsGrow
    BY <2>1, BecomesKinds, KeptGrow DEF Resource, Value
  <2>3. CallersFit'
    BY <1>0, <2>1, <2>2, CallersFitStep DEF Resource, Value, OfKind
  <2>4. MessagesFit'
    BY <1>0, <2>1, <2>2, MessagesFitStep
  <2>5. ServerFits'
    BY <1>0, <2>1, <2>2, ServerFitsStep
  <2>6. NamesFit'
    BY <1>0, <2>1, <2>2, NamesFitStep
  <2>7. AppFits'
    BY <1>0, <2>1, <2>2, KindIsMade, AppFitsStep DEF Resource, KindsKept, TypeOK
  <2>8. TableFits'
    BY <1>0, <2>1, <2>2, TableFitsStep DEF Becomes
  <2>9. QED
    BY <2>3, <2>4, <2>5, <2>6, <2>7, <2>8 DEF KindsInv
<1>4. ASSUME NEW c \in Callers, GiveUp(c) PROVE KindsInv'
  <2>1. LET q == caller[c].req
       IN  /\ Resource(q) /\ Goes(c, Idle) /\ givenUp' = givenUp \cup {q}
           /\ UNCHANGED <<tableVars, conn, notes, lib, up, down, serverVars, told, over, unconfirmed>>
    BY <1>4, GiveUpDoes
  <2>2. KindsKept /\ KindsGrow
    BY <2>1, SameKinds, KeptGrow
  <2>3. CallersFit'
    BY <1>0, <2>1, <2>2, CallersFitStep DEF Resource, Value, OfKind
  <2>4. MessagesFit'
    BY <1>0, <2>1, <2>2, MessagesFitStep
  <2>5. ServerFits'
    BY <1>0, <2>1, <2>2, ServerFitsStep
  <2>6. NamesFit'
    BY <1>0, <2>1, <2>2, NamesFitStep
  <2>7. AppFits'
    BY <1>0, <2>1, <2>2, KindIsMade, AppFitsStep DEF Resource, KindsKept
  <2>8. TableFits'
    BY <1>0, <2>1, <2>2, TableFitsStep
  <2>9. QED
    BY <2>3, <2>4, <2>5, <2>6, <2>7, <2>8 DEF KindsInv
<1>5. ASSUME NEW c \in Callers, ReturnValue(c) PROVE KindsInv'
  <2>1. LET q == caller[c].req
       IN  /\ Value(q) /\ Goes(c, Idle)
           /\ Becomes(q, info[q].assigned, info[q].complete - 1, info[q].confirm, info[q].needConfirm)
           /\ UNCHANGED <<requests, conn, notes, lib, up, down, serverVars, appVars, unconfirmed>>
    BY <1>5, ReturnValueDoes
  <2>2. KindsKept /\ KindsGrow
    BY <2>1, BecomesKinds, KeptGrow DEF Resource, Value
  <2>3. CallersFit'
    BY <1>0, <2>1, <2>2, CallersFitStep DEF Resource, Value, OfKind
  <2>4. MessagesFit'
    BY <1>0, <2>1, <2>2, MessagesFitStep
  <2>5. ServerFits'
    BY <1>0, <2>1, <2>2, ServerFitsStep
  <2>6. NamesFit'
    BY <1>0, <2>1, <2>2, NamesFitStep
  <2>7. AppFits'
    BY <1>0, <2>1, <2>2, AppFitsStep
  <2>8. TableFits'
    BY <1>0, <2>1, <2>2, TableFitsStep DEF Becomes
  <2>9. QED
    BY <2>3, <2>4, <2>5, <2>6, <2>7, <2>8 DEF KindsInv
<1>6. ASSUME NEW c \in Callers, GetValue(c) PROVE KindsInv'
  <2>1. /\ Makes(NextReq, "value", FALSE) /\ Goes(c, [at |-> "reads", req |-> NextReq])
        /\ Sends(Message("T", NextReq, None))
        /\ UNCHANGED <<conn, notes, lib, down, serverVars, appVars, unconfirmed>>
    BY <1>6, GetValueDoes
  <2>2. /\ KindsGrow /\ OfKind(info', NextReq, "value")
        /\ \A p, k : OfKind(info', p, k) => OfKind(info, p, k) \/ p = NextReq
    BY <2>1, MakesKinds
  <2>3. CallersFit'
    BY <1>0, <2>1, <2>2, CallersFitStep DEF Resource, Value, OfKind
  <2>4. MessagesFit'
    BY <1>0, <2>1, <2>2, MessageFields, MessagesFitStep DEF Sends, Takes, Answers, Hears, Makes
  <2>5. ServerFits'
    BY <1>0, <2>1, <2>2, ServerFitsStep
  <2>6. NamesFit'
    BY <1>0, <2>1, <2>2, NamesFitStep DEF Makes
  <2>7. AppFits'
    BY <1>0, <2>1, <2>2, AppFitsStep DEF Makes
  <2>8. TableFits'
    BY <1>0, <2>1, <2>2, MakesTable
  <2>9. QED
    BY <2>3, <2>4, <2>5, <2>6, <2>7, <2>8 DEF KindsInv
<1>7. ASSUME NEW c \in Callers, NEW async \in BOOLEAN, Request(c, async) PROVE KindsInv'
  <2>1. /\ Makes(NextReq, "resource", async) /\ Goes(c, [at |-> "listed", req |-> NextReq])
        /\ UNCHANGED <<conn, notes, lib, up, down, serverVars, appVars, unconfirmed>>
    BY <1>7, RequestDoes
  <2>2. /\ KindsGrow /\ OfKind(info', NextReq, "resource")
        /\ \A p, k : OfKind(info', p, k) => OfKind(info, p, k) \/ p = NextReq
    BY <2>1, MakesKinds
  <2>3. CallersFit'
    BY <1>0, <2>1, <2>2, CallersFitStep DEF Resource, Value, OfKind
  <2>4. MessagesFit'
    BY <1>0, <2>1, <2>2, MessagesFitStep
  <2>5. ServerFits'
    BY <1>0, <2>1, <2>2, ServerFitsStep
  <2>6. NamesFit'
    BY <1>0, <2>1, <2>2, NamesFitStep DEF Makes
  <2>7. AppFits'
    BY <1>0, <2>1, <2>2, AppFitsStep DEF Makes
  <2>8. TableFits'
    BY <1>0, <2>1, <2>2, MakesTable
  <2>9. QED
    BY <2>3, <2>4, <2>5, <2>6, <2>7, <2>8 DEF KindsInv
<1>8. ASSUME NEW id \in Ids, ReleaseResource(id) PROVE KindsInv'
  <2>1. /\ over' = over \cup {r \in Reqs : told[r] = id}
        /\ \/ UNCHANGED <<requests, up>>
           \/ \E q \in Reqs : Listed(q) /\ Unlists(q) /\ Sends(Message("L", q, id))
        /\ UNCHANGED <<info, caller, conn, notes, lib, down, serverVars, told, givenUp, unconfirmed>>
    BY <1>8, ReleaseDoes
  <2>2. KindsKept /\ KindsGrow
    BY <2>1, SameKinds, KeptGrow
  <2>3. CallersFit'
    BY <1>0, <2>1, <2>2, CallersFitStep
  <2>4. MessagesFit'
    BY <1>0, <2>1, <2>2, MessageFields, MessagesFitStep DEF Sends, Takes, Answers, Hears
  <2>5. ServerFits'
    BY <1>0, <2>1, <2>2, ServerFitsStep
  <2>6. NamesFit'
    BY <1>0, <2>1, <2>2, NamesFitStep DEF Unlists
  <2>7. AppFits'
    <3>1. {r \in Reqs : told[r] = id} \subseteq Made
      BY <1>0, ClientAssumption DEF AppFits
    <3>2. QED
      BY <1>0, <2>1, <2>2, <3>1, AppFitsStep DEF KindsKept
  <2>8. TableFits'
    BY <1>0, <2>1, <2>2, TableFitsStep
  <2>9. QED
    BY <2>3, <2>4, <2>5, <2>6, <2>7, <2>8 DEF KindsInv
<1>9. ASSUME NEW id \in Ids, AskBack(id) PROVE KindsInv'
  <2>1. /\ Resource(owner[id]) /\ Answers(Message("V", owner[id], id))
        /\ UNCHANGED <<tableVars, caller, conn, notes, lib, up, server, owner, waiting, appVars, unconfirmed>>
    BY <1>9, AskBackDoes
  <2>2. KindsKept /\ KindsGrow
    BY <2>1, SameKinds, KeptGrow
  <2>3. CallersFit'
    BY <1>0, <2>1, <2>2, CallersFitStep
  <2>4. MessagesFit'
    BY <1>0, <2>1, <2>2, MessageFields, MessagesFitStep DEF Sends, Takes, Answers, Hears, Resource, OfKind
  <2>5. ServerFits'
    BY <1>0, <2>1, <2>2, ServerFitsStep
  <2>6. NamesFit'
    BY <1>0, <2>1, <2>2, NamesFitStep
  <2>7. AppFits'
    BY <1>0, <2>1, <2>2, AppFitsStep
  <2>8. TableFits'
    BY <1>0, <2>1, <2>2, TableFitsStep
  <2>9. QED
    BY <2>3, <2>4, <2>5, <2>6, <2>7, <2>8 DEF KindsInv
<1>10. ASSUME NEW q \in Reqs, RequestCancel(q) PROVE KindsInv'
  <2>1. /\ Resource(q) /\ Sends(Message("C", q, None))
        /\ over' = over \cup {q} /\ givenUp' = givenUp \cup {q}
        /\ UNCHANGED <<tableVars, caller, conn, notes, lib, down, serverVars, told, unconfirmed>>
    BY <1>10, CancelDoes
  <2>2. KindsKept /\ KindsGrow
    BY <2>1, SameKinds, KeptGrow
  <2>3. CallersFit'
    BY <1>0, <2>1, <2>2, CallersFitStep
  <2>4. MessagesFit'
    BY <1>0, <2>1, <2>2, MessageFields, MessagesFitStep DEF Sends, Takes, Answers, Hears, Resource, KindsKept
  <2>5. ServerFits'
    BY <1>0, <2>1, <2>2, ServerFitsStep
  <2>6. NamesFit'
    BY <1>0, <2>1, <2>2, NamesFitStep
  <2>7. AppFits'
    BY <1>0, <2>1, <2>2, KindIsMade, AppFitsStep DEF Resource, KindsKept
  <2>8. TableFits'
    BY <1>0, <2>1, <2>2, TableFitsStep
  <2>9. QED
    BY <2>3, <2>4, <2>5, <2>6, <2>7, <2>8 DEF KindsInv
<1>11. ASSUME NEW q \in Reqs, NEW id \in Ids, GrantPending(q, id) PROVE KindsInv'
  <2>1. /\ Resource(q) /\ Owns(id, q) /\ waiting' = waiting \ {q} /\ Answers(Message("R", q, id))
        /\ UNCHANGED <<tableVars, caller, conn, notes, lib, up, server, asked, appVars, unconfirmed>>
    BY <1>11, GrantPendingDoes
  <2>2. KindsKept /\ KindsGrow
    BY <2>1, SameKinds, KeptGrow
  <2>3. CallersFit'
    BY <1>0, <2>1, <2>2, CallersFitStep
  <2>4. MessagesFit'
    BY <1>0, <2>1, <2>2, MessageFields, MessagesFitStep DEF Sends, Takes, Answers, Hears, Resource, KindsKept
  <2>5. ServerFits'
    BY <1>0, <2>1, <2>2, ServerFitsStep DEF Owns, Resource, KindsKept
  <2>6. NamesFit'
    BY <1>0, <2>1, <2>2, NamesFitStep
  <2>7. AppFits'
    BY <1>0, <2>1, <2>2, AppFitsStep
  <2>8. TableFits'
    BY <1>0, <2>1, <2>2, TableFitsStep
  <2>9. QED
    BY <2>3, <2>4, <2>5, <2>6, <2>7, <2>8 DEF KindsInv
<1>12. ASSUME ReadAnswer PROVE KindsInv'
  <2>1. PICK m \in Messages :
           /\ Hears(m, "R") /\ Resource(m.req)
           /\ \/ /\ Becomes(m.req, m.id, info[m.req].complete + 1, info[m.req].confirm,
                            info[m.req].needConfirm)
                 /\ notes' = notes \cup
                      IF m.id # None /\ info[m.req].async
                      THEN {[event |-> "granted", req |-> m.req, id |-> m.id]} ELSE {}
                 /\ conn' = IF info[m.req].needConfirm THEN [at |-> "confirms", req |-> m.req]
                                                      ELSE conn
              \/ UNCHANGED <<info, notes, conn>>
           /\ UNCHANGED <<requests, caller, lib, up, serverVars, appVars, unconfirmed>>
    BY <1>12, ReadAnswerDoes
  <2>2. KindsKept /\ KindsGrow
    BY <2>1, BecomesKinds, SameKinds, KeptGrow DEF Resource
  <2>3. CallersFit'
    BY <1>0, <2>1, <2>2, CallersFitStep
  <2>4. MessagesFit'
    BY <1>0, <2>1, <2>2, MessageFields, MessagesFitStep DEF Sends, Takes, Answers, Hears
  <2>5. ServerFits'
    BY <1>0, <2>1, <2>2, ServerFitsStep
  <2>6. NamesFit'
    BY <1>0, <2>1, <2>2, KindIsMade, NamesFitStep DEF Resource, KindsKept
  <2>7. AppFits'
    BY <1>0, <2>1, <2>2, AppFitsStep
  <2>8. TableFits'
    <3>1. ASSUME NEW q \in Reqs, Value(q) PROVE info'[q].assigned = info[q].assigned
      BY <2>1, <3>1 DEF Becomes, Resource, Value, OfKind
    <3>2. QED
      BY <1>0, <2>2, <3>1, TableFitsStep
  <2>9. QED
    BY <2>3, <2>4, <2>5, <2>6, <2>7, <2>8 DEF KindsInv
<1>13. ASSUME ReadRevoke PROVE KindsInv'
  <2>1. PICK m \in Messages :
           /\ Hears(m, "V")
           /\ \/ notes' = notes
              \/ \E q \in Reqs : Listed(q) /\ notes' = notes \cup {[event |-> "revoked", req |-> q, id |-> m.id]}
           /\ UNCHANGED <<info, requests, caller, conn, lib, up, serverVars, appVars, unconfirmed>>
    BY <1>13, ReadRevokeDoes
  <2>2. KindsKept /\ KindsGrow
    BY <2>1, SameKinds, KeptGrow
  <2>3. CallersFit'
    BY <1>0, <2>1, <2>2, CallersFitStep
  <2>4. MessagesFit'
    BY <1>0, <2>1, <2>2, MessageFields, MessagesFitStep DEF Sends, Takes, Answers, Hears
  <2>5. ServerFits'
    BY <1>0, <2>1, <2>2, ServerFitsStep
  <2>6. NamesFit'
    BY <1>0, <2>1, <2>2, NamesFitStep DEF NamesFit, Listed
  <2>7. AppFits'
    BY <1>0, <2>1, <2>2, AppFitsStep
  <2>8. TableFits'
    BY <1>0, <2>1, <2>2, TableFitsStep
  <2>9. QED
    BY <2>3, <2>4, <2>5, <2>6, <2>7, <2>8 DEF KindsInv
<1>14. ASSUME ReadValue PROVE KindsInv'
  <2>1. PICK m \in Messages :
           /\ Hears(m, "T") /\ Value(m.req)
           /\ \/ /\ Unlists(m.req)
                 /\ Becomes(m.req, info[m.req].assigned, info[m.req].complete + 1,
                            info[m.req].confirm, info[m.req].needConfirm)
              \/ UNCHANGED tableVars
           /\ UNCHANGED <<caller, conn, notes, lib, up, serverVars, appVars, unconfirmed>>
    BY <1>14, ReadValueDoes
  <2>2. KindsKept /\ KindsGrow
    BY <2>1, BecomesKinds, SameKinds, KeptGrow DEF Value
  <2>3. CallersFit'
    BY <1>0, <2>1, <2>2, CallersFitStep
  <2>4. MessagesFit'
    BY <1>0, <2>1, <2>2, MessageFields, MessagesFitStep DEF Sends, Takes, Answers, Hears
  <2>5. ServerFits'
    BY <1>0, <2>1, <2>2, ServerFitsStep
  <2>6. NamesFit'
    BY <1>0, <2>1, <2>2, NamesFitStep DEF Unlists
  <2>7. AppFits'
    BY <1>0, <2>1, <2>2, AppFitsStep
  <2>8. TableFits'
    BY <1>0, <2>1, <2>2, TableFitsStep DEF Becomes
  <2>9. QED
    BY <2>3, <2>4, <2>5, <2>6, <2>7, <2>8 DEF KindsInv
<1>15. ASSUME Confirmed PROVE KindsInv'
  <2>1. /\ Resource(conn.req) /\ conn' = [at |-> "reads"]
        /\ Becomes(conn.req, info[conn.req].assigned, info[conn.req].complete, FALSE, info[conn.req].needConfirm)
        /\ UNCHANGED <<requests, caller, notes, lib, up, down, serverVars, appVars, unconfirmed>>
    BY <1>15, ConfirmedDoes
  <2>2. KindsKept /\ KindsGrow
    BY <2>1, BecomesKinds, KeptGrow DEF Resource, Value
  <2>3. CallersFit'
    BY <1>0, <2>1, <2>2, CallersFitStep
  <2>4. MessagesFit'
    BY <1>0, <2>1, <2>2, MessagesFitStep
  <2>5. ServerFits'
    BY <1>0, <2>1, <2>2, ServerFitsStep
  <2>6. NamesFit'
    BY <1>0, <2>1, <2>2, NamesFitStep
  <2>7. AppFits'
    BY <1>0, <2>1, <2>2, AppFitsStep
  <2>8. TableFits'
    BY <1>0, <2>1, <2>2, TableFitsStep DEF Becomes
  <2>9. QED
    BY <2>3, <2>4, <2>5, <2>6, <2>7, <2>8 DEF KindsInv
<1>16. ASSUME ConfirmTimeout PROVE KindsInv'
  <2>1. /\ Resource(conn.req) /\ conn' = [at |-> "reads"] /\ unconfirmed' = unconfirmed \cup {conn.req}
        /\ UNCHANGED <<tableVars, caller, notes, lib, up, down, serverVars, appVars>>
    BY <1>0, <1>16 DEF ConfirmTimeout, NamesFit, Resource
  <2>2. KindsKept /\ KindsGrow
    BY <2>1, SameKinds, KeptGrow
  <2>3. CallersFit'
    BY <1>0, <2>1, <2>2, CallersFitStep
  <2>4. MessagesFit'
    BY <1>0, <2>1, <2>2, MessagesFitStep
  <2>5. ServerFits'
    BY <1>0, <2>1, <2>2, ServerFitsStep
  <2>6. NamesFit'
    BY <1>0, <2>1, <2>2, NamesFitStep
  <2>7. AppFits'
    BY <1>0, <2>1, <2>2, KindIsMade, AppFitsStep DEF Resource, KindsKept
  <2>8. TableFits'
    BY <1>0, <2>1, <2>2, TableFitsStep
  <2>9. QED
    BY <2>3, <2>4, <2>5, <2>6, <2>7, <2>8 DEF KindsInv
<1>17. ASSUME ConnectionEnds PROVE KindsInv'
  <2>1. conn' = [at |-> "gone"] /\ UNCHANGED <<tableVars, caller, notes, lib, up, down, serverVars, appVars, unconfirmed>>
    BY <1>17 DEF ConnectionEnds
  <2>2. KindsKept /\ KindsGrow
    BY <2>1, SameKinds, KeptGrow
  <2>3. CallersFit'
    BY <1>0, <2>1, <2>2, CallersFitStep
  <2>4. MessagesFit'
    BY <1>0, <2>1, <2>2, MessagesFitStep
  <2>5. ServerFits'
    BY <1>0, <2>1, <2>2, ServerFitsStep
  <2>6. NamesFit'
    BY <1>0, <2>1, <2>2, NamesFitStep
  <2>7. AppFits'
    BY <1>0, <2>1, <2>2, AppFitsStep
  <2>8. TableFits'
    BY <1>0, <2>1, <2>2, TableFitsStep
  <2>9. QED
    BY <2>3, <2>4, <2>5, <2>6, <2>7, <2>8 DEF KindsInv
<1>18. ASSUME NEW n \in notes, Notify(n) PROVE KindsInv'
  <2>1. /\ notes' = notes \ {n} /\ told' = IF n.id \in Ids THEN [told EXCEPT ![n.req] = n.id] ELSE told
        /\ UNCHANGED <<tableVars, caller, conn, lib, up, down, serverVars, over, givenUp, unconfirmed>>
    BY <1>18 DEF Notify
  <2>2. KindsKept /\ KindsGrow
    BY <2>1, SameKinds, KeptGrow
  <2>3. CallersFit'
    BY <1>0, <2>1, <2>2, CallersFitStep
  <2>4. MessagesFit'
    BY <1>0, <2>1, <2>2, MessagesFitStep
  <2>5. ServerFits'
    BY <1>0, <2>1, <2>2, ServerFitsStep
  <2>6. NamesFit'
    BY <1>0, <2>1, <2>2, NamesFitStep
  <2>7. AppFits'
    <3>1. n.req \in Made
      BY <1>0 DEF NamesFit
    <3>2. QED
      BY <1>0, <2>1, <2>2, <3>1, AppFitsStep DEF KindsKept, TypeOK
  <2>8. TableFits'
    BY <1>0, <2>1, <2>2, TableFitsStep
  <2>9. QED
    BY <2>3, <2>4, <2>5, <2>6, <2>7, <2>8 DEF KindsInv
<1>19. ASSUME Destroy \/ Destroyed PROVE KindsInv'
  <2>1. UNCHANGED <<tableVars, caller, conn, notes, up, down, serverVars, appVars, unconfirmed>>
    BY <1>19 DEF Destroy, Destroyed
  <2>2. KindsKept /\ KindsGrow
    BY <2>1, SameKinds, KeptGrow
  <2>3. CallersFit'
    BY <1>0, <2>1, <2>2, CallersFitStep
  <2>4. MessagesFit'
    BY <1>0, <2>1, <2>2, MessagesFitStep
  <2>5. ServerFits'
    BY <1>0, <2>1, <2>2, ServerFitsStep
  <2>6. NamesFit'
    BY <1>0, <2>1, <2>2, NamesFitStep
  <2>7. AppFits'
    BY <1>0, <2>1, <2>2, AppFitsStep
  <2>8. TableFits'
    BY <1>0, <2>1, <2>2, TableFitsStep
  <2>9. QED
    BY <2>3, <2>4, <2>5, <2>6, <2>7, <2>8 DEF KindsInv
<1>20. ASSUME Joined PROVE KindsInv'
  <2>1. /\ Made' = Made
        /\ \A q \in Reqs : Resource(q) => info'[q] = info[q]
        /\ \A q \in Reqs : Value(q) => /\ info'[q] \in Entries /\ info'[q].kind = "value"
                                       /\ info'[q].assigned = Zero /\ ~info'[q].async
        /\ ToSet(requests') = {}
        /\ UNCHANGED <<caller, conn, notes, up, down, serverVars, appVars, unconfirmed>>
    BY <1>20, JoinedDoes
  <2>2. KindsKept /\ KindsGrow
    BY <1>20, JoinedKinds, KeptGrow
  <2>3. CallersFit'
    BY <1>0, <2>1, <2>2, CallersFitStep
  <2>4. MessagesFit'
    BY <1>0, <2>1, <2>2, MessagesFitStep
  <2>5. ServerFits'
    BY <1>0, <2>1, <2>2, ServerFitsStep
  <2>6. NamesFit'
    BY <1>0, <2>1, <2>2, NamesFitStep
  <2>7. AppFits'
    BY <1>0, <2>1, <2>2, AppFitsStep
  <2>8. TableFits'
    BY <1>0, <2>1, <2>2, TableFitsStep DEF TableFits
  <2>9. QED
    BY <2>3, <2>4, <2>5, <2>6, <2>7, <2>8 DEF KindsInv
<1>21. ASSUME NEW id \in Ids \cup {None}, ServeRequest(id) PROVE KindsInv'
  <2>1. PICK m \in Messages :
           /\ Takes(m, "R") /\ Resource(m.req) /\ Answers(Message("R", m.req, id))
           /\ \/ id = None /\ owner' = owner
              \/ id \in Ids /\ Owns(id, m.req)
           /\ \/ waiting' = waiting
              \/ info[m.req].async /\ waiting' = waiting \cup {m.req}
           /\ UNCHANGED <<tableVars, caller, conn, notes, lib, server, asked, appVars, unconfirmed>>
    BY <1>21, ServeRequestDoes
  <2>2. KindsKept /\ KindsGrow
    BY <2>1, SameKinds, KeptGrow
  <2>3. CallersFit'
    BY <1>0, <2>1, <2>2, CallersFitStep
  <2>4. MessagesFit'
    BY <1>0, <2>1, <2>2, MessageFields, MessagesFitStep DEF Sends, Takes, Answers, Hears, Resource, KindsKept, OfKind
  <2>5. ServerFits'
    BY <1>0, <2>1, <2>2, ServerFitsStep DEF Owns, Resource, KindsKept
  <2>6. NamesFit'
    BY <1>0, <2>1, <2>2, NamesFitStep
  <2>7. AppFits'
    BY <1>0, <2>1, <2>2, AppFitsStep
  <2>8. TableFits'
    BY <1>0, <2>1, <2>2, TableFitsStep
  <2>9. QED
    BY <2>3, <2>4, <2>5, <2>6, <2>7, <2>8 DEF KindsInv
<1>22. ASSUME ServeRelease PROVE KindsInv'
  <2>1. PICK m \in Messages :
           /\ Takes(m, "L") /\ Owns(m.id, None)
           /\ UNCHANGED <<tableVars, caller, conn, notes, lib, down, server, waiting, appVars, unconfirmed>>
    BY <1>22, ServeReleaseDoes
  <2>2. KindsKept /\ KindsGrow
    BY <2>1, SameKinds, KeptGrow
  <2>3. CallersFit'
    BY <1>0, <2>1, <2>2, CallersFitStep
  <2>4. MessagesFit'
    BY <1>0, <2>1, <2>2, MessageFields, MessagesFitStep DEF Sends, Takes, Answers, Hears
  <2>5. ServerFits'
    BY <1>0, <2>1, <2>2, ServerFitsStep DEF Owns
  <2>6. NamesFit'
    BY <1>0, <2>1, <2>2, NamesFitStep
  <2>7. AppFits'
    BY <1>0, <2>1, <2>2, AppFitsStep
  <2>8. TableFits'
    BY <1>0, <2>1, <2>2, TableFitsStep
  <2>9. QED
    BY <2>3, <2>4, <2>5, <2>6, <2>7, <2>8 DEF KindsInv
<1>23. ASSUME ServeCancel PROVE KindsInv'
  <2>1. PICK m \in Messages :
           /\ Takes(m, "C")
           /\ \A r \in Ids : owner'[r] = IF owner[r] = m.req THEN None ELSE owner[r]
           /\ waiting' = waiting \ {m.req}
           /\ UNCHANGED <<tableVars, caller, conn, notes, lib, down, server, appVars, unconfirmed>>
    BY <1>23, ServeCancelDoes
  <2>2. KindsKept /\ KindsGrow
    BY <2>1, SameKinds, KeptGrow
  <2>3. CallersFit'
    BY <1>0, <2>1, <2>2, CallersFitStep
  <2>4. MessagesFit'
    BY <1>0, <2>1, <2>2, MessageFields, MessagesFitStep DEF Sends, Takes, Answers, Hears
  <2>5. ServerFits'
    BY <1>0, <2>1, <2>2, ServerFitsStep
  <2>6. NamesFit'
    BY <1>0, <2>1, <2>2, NamesFitStep
  <2>7. AppFits'
    BY <1>0, <2>1, <2>2, AppFitsStep
  <2>8. TableFits'
    BY <1>0, <2>1, <2>2, TableFitsStep
  <2>9. QED
    BY <2>3, <2>4, <2>5, <2>6, <2>7, <2>8 DEF KindsInv
<1>24. ASSUME ServeGetValue PROVE KindsInv'
  <2>1. PICK m \in Messages :
           /\ Takes(m, "T") /\ Value(m.req) /\ Answers(Message("T", m.req, None))
           /\ UNCHANGED <<tableVars, caller, conn, notes, lib, server, owner, waiting, asked, appVars, unconfirmed>>
    BY <1>24, ServeGetValueDoes
  <2>2. KindsKept /\ KindsGrow
    BY <2>1, SameKinds, KeptGrow
  <2>3. CallersFit'
    BY <1>0, <2>1, <2>2, CallersFitStep
  <2>4. MessagesFit'
    BY <1>0, <2>1, <2>2, MessageFields, MessagesFitStep DEF Sends, Takes, Answers, Hears, Value, KindsKept, OfKind
  <2>5. ServerFits'
    BY <1>0, <2>1, <2>2, ServerFitsStep
  <2>6. NamesFit'
    BY <1>0, <2>1, <2>2, NamesFitStep
  <2>7. AppFits'
    BY <1>0, <2>1, <2>2, AppFitsStep
  <2>8. TableFits'
    BY <1>0, <2>1, <2>2, TableFitsStep
  <2>9. QED
    BY <2>3, <2>4, <2>5, <2>6, <2>7, <2>8 DEF KindsInv
<1>25. ASSUME ServerDies PROVE KindsInv'
  <2>1. ToSet(up') = {}
        /\ UNCHANGED <<tableVars, caller, conn, notes, lib, down, owner, waiting, asked, appVars, unconfirmed>>
    BY <1>25, ServerDiesDoes
  <2>2. KindsKept /\ KindsGrow
    BY <2>1, SameKinds, KeptGrow
  <2>3. CallersFit'
    BY <1>0, <2>1, <2>2, CallersFitStep
  <2>4. MessagesFit'
    BY <1>0, <2>1, <2>2, MessagesFitStep
  <2>5. ServerFits'
    BY <1>0, <2>1, <2>2, ServerFitsStep
  <2>6. NamesFit'
    BY <1>0, <2>1, <2>2, NamesFitStep
  <2>7. AppFits'
    BY <1>0, <2>1, <2>2, AppFitsStep
  <2>8. TableFits'
    BY <1>0, <2>1, <2>2, TableFitsStep
  <2>9. QED
    BY <2>3, <2>4, <2>5, <2>6, <2>7, <2>8 DEF KindsInv
<1>26. ASSUME UNCHANGED vars PROVE KindsInv'
  <2>1. UNCHANGED <<tableVars, caller, conn, notes, up, down, serverVars, appVars, unconfirmed>>
    BY <1>26 DEF vars
  <2>2. KindsKept /\ KindsGrow
    BY <2>1, SameKinds, KeptGrow
  <2>3. CallersFit'
    BY <1>0, <2>1, <2>2, CallersFitStep
  <2>4. MessagesFit'
    BY <1>0, <2>1, <2>2, MessagesFitStep
  <2>5. ServerFits'
    BY <1>0, <2>1, <2>2, ServerFitsStep
  <2>6. NamesFit'
    BY <1>0, <2>1, <2>2, NamesFitStep
  <2>7. AppFits'
    BY <1>0, <2>1, <2>2, AppFitsStep
  <2>8. TableFits'
    BY <1>0, <2>1, <2>2, TableFitsStep
  <2>9. QED
    BY <2>3, <2>4, <2>5, <2>6, <2>7, <2>8 DEF KindsInv
<1>27. QED
  BY <1>1, <1>2, <1>3, <1>4, <1>5, <1>6, <1>7, <1>8, <1>9, <1>10, <1>11, <1>12, <1>13, <1>14, <1>15, <1>16, <1>17, <1>18, <1>19, <1>20, <1>21, <1>22, <1>23, <1>24, <1>25, <1>26
     DEF Next, Calls, Connection, Serve

(***************************************************************************)
(* Where a request is: in a call, on the socket, noted to the application. *)
(***************************************************************************)

Asks(msgs, q) == \E m \in ToSet(msgs) : m.kind = "R" /\ m.req = q
Grants(msgs, q, id) == \E m \in ToSet(msgs) : m.kind = "R" /\ m.req = q /\ m.id = id
Cancels(msgs, q) == \E m \in ToSet(msgs) : m.kind = "C" /\ m.req = q
Releases(msgs, id) == \E m \in ToSet(msgs) : m.kind = "L" /\ m.id = id

In(callers, at, q) == \E c \in Callers : callers[c].at = at /\ callers[c].req = q
InCall(callers, q) == In(callers, "listed", q) \/ In(callers, "waits", q) \/ In(callers, "answered", q)

Noted(notified, q, id) == \E n \in notified : n.req = q /\ n.id = id

\* Each call is for a request of its own.
OwnCall == \A c, d \in Callers :
             caller[c] # Idle /\ caller[d] # Idle /\ caller[c].req = caller[d].req => c = d

\* A call goes on: its request is at another place, the others where they were.
LEMMA CallMoves ==
  ASSUME TypeOK, OwnCall, NEW c \in Callers, caller[c] # Idle,
         NEW at \in {"listed", "waits", "answered", "reads"},
         Goes(c, [at |-> at, req |-> caller[c].req])
  PROVE  /\ OwnCall'
         /\ \A p, a : p # caller[c].req => (In(caller', a, p) <=> In(caller, a, p))
         /\ \A a \in {"listed", "waits", "answered"} :
              /\ In(caller, a, caller[c].req) <=> a = caller[c].at
              /\ In(caller', a, caller[c].req) <=> a = at
<1> DEFINE q == caller[c].req
<1>1. q \in Reqs
  BY CallerFields
<1>2. /\ caller'[c].at = at /\ caller'[c].req = q /\ caller'[c] # Idle
      /\ \A d \in Callers : d # c => caller'[d] = caller[d]
  BY <1>1, CallerStatesFields DEF Goes
<1> HIDE DEF q
<1>3. ASSUME NEW d \in Callers, d # c, NEW a \in {"listed", "waits", "answered"}, caller[d].at = a
      PROVE  caller[d].req # q
  BY <1>3, CallerFields DEF OwnCall, q
<1>4. OwnCall'
  BY <1>2 DEF OwnCall, q
<1>5. ASSUME NEW p, NEW a, p # q PROVE In(caller', a, p) <=> In(caller, a, p)
  BY <1>2, <1>5 DEF In, q
<1>6. ASSUME NEW a \in {"listed", "waits", "answered"}
      PROVE  /\ In(caller, a, q) <=> a = caller[c].at
             /\ In(caller', a, q) <=> a = at
  BY <1>2, <1>3, <1>6 DEF In, q
<1>7. QED
  BY <1>4, <1>5, <1>6 DEF q

\* A call ends: its request is in no call.
LEMMA CallEnds ==
  ASSUME TypeOK, OwnCall, NEW c \in Callers, caller[c] # Idle, Goes(c, Idle)
  PROVE  /\ OwnCall'
         /\ \A p, a : p # caller[c].req /\ a # "idle" => (In(caller', a, p) <=> In(caller, a, p))
         /\ \A a \in {"listed", "waits", "answered"} :
              /\ In(caller, a, caller[c].req) <=> a = caller[c].at
              /\ ~In(caller', a, caller[c].req)
<1> DEFINE q == caller[c].req
<1>1. /\ caller'[c] = Idle /\ caller'[c].at = "idle"
      /\ \A d \in Callers : d # c => caller'[d] = caller[d]
  BY CallerStatesFields DEF Goes
<1> HIDE DEF q
<1>2. ASSUME NEW d \in Callers, d # c, NEW a \in {"listed", "waits", "answered"}, caller[d].at = a
      PROVE  caller[d].req # q
  BY <1>2, CallerFields DEF OwnCall, q
<1>3. OwnCall'
  BY <1>1 DEF OwnCall
<1>4. ASSUME NEW p, NEW a, p # q, a # "idle" PROVE In(caller', a, p) <=> In(caller, a, p)
  BY <1>1, <1>4 DEF In, q
<1>5. ASSUME NEW a \in {"listed", "waits", "answered"}
      PROVE  /\ In(caller, a, q) <=> a = caller[c].at
             /\ ~In(caller', a, q)
  BY <1>1, <1>2, <1>5 DEF In, q
<1>6. QED
  BY <1>3, <1>4, <1>5 DEF q

\* A call begins, for a new request.
LEMMA CallBegins ==
  ASSUME TypeOK, KindsInv, OwnCall, NEW c \in Callers, caller[c] = Idle, NEW q \in Reqs, q \notin Made,
         NEW at \in {"listed", "reads"}, Goes(c, [at |-> at, req |-> q])
  PROVE  /\ OwnCall'
         /\ \A p, a : p # q /\ a # "idle" => (In(caller', a, p) <=> In(caller, a, p))
         /\ \A a \in {"listed", "waits", "answered"} : In(caller', a, q) <=> a = at
<1>1. /\ caller'[c].at = at /\ caller'[c].req = q /\ caller'[c] # Idle /\ caller[c].at = "idle"
      /\ \A d \in Callers : d # c => caller'[d] = caller[d]
  BY CallerStatesFields, CallerFields DEF Goes
<1>2. ASSUME NEW d \in Callers, d # c, caller[d] # Idle PROVE caller[d].req # q
  <2>1. caller[d].at \in {"listed", "waits", "answered", "reads"}
    BY <1>2, CallerFields DEF CallerStates
  <2>2. \E k : OfKind(info, caller[d].req, k)
    BY <2>1 DEF KindsInv, CallersFit, Busy
  <2>3. QED
    BY <2>2, KindIsMade
<1>3. OwnCall'
  BY <1>1, <1>2 DEF OwnCall
<1>4. ASSUME NEW p, NEW a, p # q, a # "idle" PROVE In(caller', a, p) <=> In(caller, a, p)
  BY <1>1, <1>4 DEF In
<1>5. ASSUME NEW a \in {"listed", "waits", "answered"} PROVE In(caller', a, q) <=> a = at
  BY <1>1, <1>2, <1>5, CallerFields DEF In
<1>6. QED
  BY <1>3, <1>4, <1>5

(***************************************************************************)
(* The order of messages on the socket.                                    *)
(***************************************************************************)

\* Of two messages the second should not have been sent: another answer after one
\* that granted, or for a request in once, or the release of what was released.
Clash(m, n, once) ==
  /\ m.kind = n.kind
  /\ \/ m.kind = "R" /\ m.req = n.req /\ (m.id # None \/ m.req \in once)
     \/ m.kind = "L" /\ m.id = n.id

Apart(msgs, once) == \A i, j \in DOMAIN msgs : i < j => ~Clash(msgs[i], msgs[j], once)

\* A message that clashes with none before it may follow them.
LEMMA AppendApart ==
  ASSUME NEW S, NEW s \in Seq(S), NEW x \in S, NEW once, Apart(s, once),
         \A m \in ToSet(s) : ~Clash(m, x, once)
  PROVE  Apart(Append(s, x), once)
<1>1. /\ Len(s) \in Nat /\ DOMAIN s = 1..Len(s) /\ DOMAIN Append(s, x) = 1..(Len(s) + 1)
      /\ \A i \in 1..Len(s) : Append(s, x)[i] = s[i]
      /\ Append(s, x)[Len(s) + 1] = x
  OBVIOUS
<1>2. ASSUME NEW i \in 1..(Len(s) + 1), NEW j \in 1..(Len(s) + 1), i < j
      PROVE  ~Clash(Append(s, x)[i], Append(s, x)[j], once)
  <2>1. i \in 1..Len(s) /\ Append(s, x)[i] = s[i] /\ s[i] \in ToSet(s)
    BY <1>1, <1>2 DEF ToSet
  <2>2. CASE j \in 1..Len(s)
    BY <1>1, <1>2, <2>1, <2>2 DEF Apart
  <2>3. CASE j = Len(s) + 1
    BY <1>1, <2>1, <2>3
  <2>4. QED
    BY <1>1, <2>2, <2>3
<1>3. QED
  BY <1>1, <1>2 DEF Apart

\* The first message clashes with none after it.
LEMMA TailApart ==
  ASSUME NEW S, NEW s \in Seq(S), s # <<>>, NEW once, Apart(s, once)
  PROVE  /\ Apart(Tail(s), once)
         /\ \A m \in ToSet(Tail(s)) : ~Clash(Head(s), m, once)
<1>1. /\ Len(s) \in Nat /\ Len(s) > 0 /\ DOMAIN s = 1..Len(s) /\ DOMAIN Tail(s) = 1..(Len(s) - 1)
      /\ \A i \in 1..(Len(s) - 1) : Tail(s)[i] = s[i + 1]
      /\ Head(s) = s[1]
  OBVIOUS
<1>2. ASSUME NEW i \in 1..(Len(s) - 1), NEW j \in 1..(Len(s) - 1), i < j
      PROVE  ~Clash(Tail(s)[i], Tail(s)[j], once)
  <2>1. i + 1 \in DOMAIN s /\ j + 1 \in DOMAIN s /\ i + 1 < j + 1
    BY <1>1, <1>2
  <2>2. QED
    BY <1>1, <2>1 DEF Apart
<1>3. ASSUME NEW j \in 1..(Len(s) - 1) PROVE ~Clash(Head(s), Tail(s)[j], once)
  <2>1. 1 \in DOMAIN s /\ j + 1 \in DOMAIN s /\ 1 < j + 1
    BY <1>1
  <2>2. QED
    BY <1>1, <2>1 DEF Apart
<1>4. QED
  BY <1>1, <1>2, <1>3 DEF Apart, ToSet

\* Fewer messages that may be there once only are in order still.
LEMMA SameApart ==
  ASSUME NEW msgs, NEW S, NEW T, Apart(msgs, S),
         \A m \in ToSet(msgs) : m.kind = "R" /\ m.req \in T => m.req \in S
  PROVE  Apart(msgs, T)
<1>1. \A i \in DOMAIN msgs : msgs[i] \in ToSet(msgs)
  BY DEF ToSet
<1>2. QED
  BY <1>1 DEF Apart, Clash

\* The requests that get one answer.
Single == {q \in Made : ~info[q].async}

OrderInv == Apart(up, Reqs) /\ Apart(down, Single)

\* What is on its way to the server after a message was sent.
LEMMA SendsView ==
  ASSUME TypeOK, OrderInv, NEW m, Sends(m), m.kind = "R" => ~Asks(up, m.req),
         m.kind = "L" => ~Releases(up, m.id)
  PROVE  /\ Apart(up', Reqs)
         /\ \A q : Asks(up', q) <=> Asks(up, q) \/ (server /\ m.kind = "R" /\ m.req = q)
         /\ \A q : Cancels(up', q) <=> Cancels(up, q) \/ (server /\ m.kind = "C" /\ m.req = q)
         /\ \A id : Releases(up', id) <=> Releases(up, id) \/ (server /\ m.kind = "L" /\ m.id = id)
<1>1. m \in Messages /\ ToSet(up') = IF server THEN ToSet(up) \cup {m} ELSE ToSet(up)
  BY DEF Sends
<1>2. Apart(up', Reqs)
  <2>1. \A n \in ToSet(up) : ~Clash(n, m, Reqs)
    BY DEF Clash, Asks, Releases
  <2>2. up \in Seq(Messages) /\ Apart(up, Reqs)
    BY DEF TypeOK, OrderInv
  <2>3. up' = IF server THEN Append(up, m) ELSE up
    BY DEF Sends, Send
  <2>4. QED
    BY <1>1, <2>1, <2>2, <2>3, AppendApart
<1>3. QED
  BY <1>1, <1>2 DEF Asks, Cancels, Releases

\* What was on its way to the server before it took a message.
LEMMA TakesView ==
  ASSUME TypeOK, OrderInv, NEW m, NEW kind, Takes(m, kind)
  PROVE  /\ Apart(up', Reqs) /\ m \in Messages /\ m.kind = kind
         /\ \A q : Asks(up, q) <=> Asks(up', q) \/ (kind = "R" /\ m.req = q)
         /\ \A q : Cancels(up, q) <=> Cancels(up', q) \/ (kind = "C" /\ m.req = q)
         /\ \A id : Releases(up, id) <=> Releases(up', id) \/ (kind = "L" /\ m.id = id)
         /\ kind = "R" => ~Asks(up', m.req)
         /\ kind = "L" => ~Releases(up', m.id)
<1>1. m \in Messages /\ m.kind = kind /\ ToSet(up) = {m} \cup ToSet(up')
  BY DEF Takes
<1>2. Apart(up', Reqs) /\ \A n \in ToSet(up') : ~Clash(m, n, Reqs)
  <2>1. up \in Seq(Messages) /\ up # <<>> /\ m = Head(up) /\ up' = Tail(up) /\ Apart(up, Reqs)
    BY DEF TypeOK, OrderInv, Takes, Serves
  <2>2. QED
    BY <2>1, TailApart
<1>3. m.req \in Reqs
  BY <1>1 DEF Messages
<1>4. kind = "R" => ~Asks(up', m.req)
  BY <1>1, <1>2, <1>3 DEF Clash, Asks
<1>5. kind = "L" => ~Releases(up', m.id)
  BY <1>1, <1>2 DEF Clash, Releases
<1>6. QED
  BY <1>1, <1>2, <1>4, <1>5 DEF Asks, Cancels, Releases

\* What is on its way to the client after the server sent a message.
LEMMA AnswersView ==
  ASSUME TypeOK, OrderInv, NEW m, Answers(m), m.kind # "L",
         m.kind = "R" => \A n \in ToSet(down) : ~Clash(n, m, Single)
  PROVE  /\ Apart(down', Single)
         /\ \A q : Asks(down', q) <=> Asks(down, q) \/ (m.kind = "R" /\ m.req = q)
         /\ \A q, id : Grants(down', q, id) <=> Grants(down, q, id) \/ (m.kind = "R" /\ m.req = q /\ m.id = id)
<1>1. m \in Messages /\ ToSet(down') = ToSet(down) \cup {m} /\ down' = Append(down, m)
  BY DEF Answers
<1>2. Apart(down', Single)
  <2>1. \A n \in ToSet(down) : ~Clash(n, m, Single)
    BY DEF Clash
  <2>2. QED
    BY <1>1, <2>1, AppendApart DEF TypeOK, OrderInv
<1>3. QED
  BY <1>1, <1>2 DEF Asks, Grants

\* What was on its way to the client before it took a message.
LEMMA HearsView ==
  ASSUME TypeOK, OrderInv, NEW m, NEW kind, Hears(m, kind)
  PROVE  /\ Apart(down', Single) /\ m \in Messages /\ m.kind = kind /\ conn.at = "reads"
         /\ \A q : Asks(down, q) <=> Asks(down', q) \/ (kind = "R" /\ m.req = q)
         /\ \A q, id : Grants(down, q, id) <=> Grants(down', q, id) \/ (kind = "R" /\ m.req = q /\ m.id = id)
         /\ kind = "R" /\ (m.id # None \/ m.req \in Single) => ~Asks(down', m.req)
<1>1. m \in Messages /\ m.kind = kind /\ conn.at = "reads" /\ ToSet(down) = {m} \cup ToSet(down')
  BY DEF Hears
<1>2. Apart(down', Single) /\ \A n \in ToSet(down') : ~Clash(m, n, Single)
  <2>1. down \in Seq(Messages) /\ down # <<>> /\ m = Head(down) /\ down' = Tail(down) /\ Apart(down, Single)
    BY DEF TypeOK, OrderInv, Hears, Reads
  <2>2. QED
    BY <2>1, TailApart
<1>3. kind = "R" /\ (m.id # None \/ m.req \in Single) => ~Asks(down', m.req)
  BY <1>1, <1>2 DEF Clash, Asks
<1>4. QED
  BY <1>1, <1>2, <1>3 DEF Asks, Grants

(***************************************************************************)
(* The invariant of a request.                                             *)
(***************************************************************************)

\* No resource is, or is on its way to be, the request's.
Ungranted(q) ==
  info[q].assigned \notin Ids /\ \A id \in Ids : ~Grants(down, q, id) /\ owner[id] # q

\* A request is asked once, before it is answered, and granted when it is not yet.
AskedFirst(q) ==
  /\ In(caller, "listed", q) => ~Asks(up, q) /\ info[q].complete = 0
  /\ In(caller, "listed", q) \/ Asks(up, q) => ~Asks(down, q) /\ q \notin waiting
  /\ In(caller, "listed", q) \/ Asks(up, q) \/ q \in waiting => Ungranted(q)

\* The grant is the last answer; the entry, the notes, the application and the
\* server agree on what was granted.
Agreed(q) ==
  /\ info[q].assigned \in Ids => ~Asks(down, q)
  /\ told[q] # None => told[q] = info[q].assigned
  /\ \A id \in Ids : Noted(notes, q, id) => id = info[q].assigned
  /\ q \notin over => \A id \in Ids : Grants(down, q, id) \/ info[q].assigned = id => owner[id] = q

\* What the application gave up is known.
Ended(q) ==
  /\ q \in over \ givenUp => info[q].assigned \in Ids
  /\ Cancels(up, q) => q \in over

\* While the call that made it lasts, the reading thread waits for its answer to be
\* taken, unless it waited too long.
Awaited(q) ==
  /\ InCall(caller, q) => info[q].needConfirm /\ ~info[q].confirm
  /\ InCall(caller, q) /\ info[q].assigned \in Ids =>
       q \in unconfirmed \/ (conn.at = "confirms" /\ conn.req = q)

\* A request that cannot be pending is answered once.
AnsweredOnce(q) ==
  ~info[q].async /\ (Asks(up, q) \/ Asks(down, q)) =>
    /\ info[q].complete = 0
    /\ ~In(caller, "answered", q)
    /\ InCall(caller, q) \/ q \in givenUp

RequestInv(q) == AskedFirst(q) /\ Agreed(q) /\ Ended(q) /\ Awaited(q) /\ AnsweredOnce(q)

\* A step that changes nothing of a request, or takes messages and notes of it away.
LEMMA RequestKept ==
  ASSUME NEW p, RequestInv(p), info'[p] = info[p], told'[p] = told[p],
         \A a \in {"listed", "waits", "answered"} : In(caller', a, p) <=> In(caller, a, p),
         Asks(up', p) => Asks(up, p), Cancels(up', p) => Cancels(up, p),
         Asks(down', p) => Asks(down, p),
         \A id \in Ids : Grants(down', p, id) => Grants(down, p, id),
         \A id \in Ids : Noted(notes', p, id) => Noted(notes, p, id) \/ id = info[p].assigned,
         p \in waiting' => p \in waiting,
         p \in over' <=> p \in over, p \in givenUp' <=> p \in givenUp,
         InCall(caller, p) /\ (p \in unconfirmed \/ (conn.at = "confirms" /\ conn.req = p))
           => p \in unconfirmed' \/ (conn'.at = "confirms" /\ conn'.req = p),
         \A id \in Ids : owner'[id] = p => owner[id] = p,
         p \notin over => \A id \in Ids : owner[id] = p => owner'[id] = p
  PROVE  RequestInv(p)'
<1>1. AskedFirst(p)'
  BY DEF RequestInv, AskedFirst, Ungranted
<1>2. Agreed(p)'
  BY DEF RequestInv, Agreed
<1>3. Ended(p)'
  BY DEF RequestInv, Ended
<1>4. Awaited(p)'
  BY DEF RequestInv, Awaited, InCall
<1>5. AnsweredOnce(p)'
  BY DEF RequestInv, AnsweredOnce, InCall
<1>6. QED
  BY <1>1, <1>2, <1>3, <1>4, <1>5 DEF RequestInv

(***************************************************************************)
(* The invariant.                                                          *)
(***************************************************************************)

\* A resource whose release is on its way is still owned by the request released.
ReleaseInv(id) ==
  Releases(up, id) => owner[id] # None /\ owner[id] \in over /\ ~Cancels(up, owner[id])

\* The application knows what q got, or will be told, by a note or by its call.
Told(q, id) ==
  \/ told[q] = id
  \/ info[q].async /\ Noted(notes, q, id)
  \/ ~info[q].async /\ InCall(caller, q)

\* The owner of a resource will be told of it or was, or its release is on its way.
KeptInv(id) ==
  server /\ lib = "up" /\ owner[id] # None /\ owner[id] \notin givenUp =>
    \/ Grants(down, owner[id], id)
    \/ /\ info[owner[id]].assigned = id
       /\ IF owner[id] \in over THEN Releases(up, id) ELSE Told(owner[id], id)

\* A revocation is not noted while the call that got the resource lasts.
RevokeInv ==
  \A n \in notes : n.event = "revoked" /\ InCall(caller, n.req) => n.req \in unconfirmed

Typed == TypeOK /\ KindsInv
RequestsInv == \A q \in Made : RequestInv(q)
OwnersInv == \A id \in Ids : ReleaseInv(id) /\ KeptInv(id)

ClientInv == Typed /\ OwnCall /\ OrderInv /\ RequestsInv /\ OwnersInv /\ IdValid /\ RevokeInv

(***************************************************************************)
(* Calls keep the invariant of requests.                                   *)
(***************************************************************************)

\* A request of a call, a message or a note was made.
LEMMA MadeReqs ==
  ASSUME TypeOK
  PROVE  Made \subseteq Reqs /\ \A q : Resource(q) \/ Value(q) => q \in Made
<1>1. \A q : Resource(q) => q \in Made
  BY KindIsMade DEF Resource
<1>2. \A q : Value(q) => q \in Made
  BY KindIsMade DEF Value
<1>3. QED
  BY <1>1, <1>2 DEF Made

\* The requests that get one answer are the same when the entries keep their kinds.
LEMMA SingleKept ==
  ASSUME KindsKept
  PROVE  Single' = Single
BY DEF KindsKept, Single

\* Messages on their way to the client are in order when requests are made.
LEMMA SingleGrows ==
  ASSUME TypeOK, KindsInv, KindsGrow, OrderInv, down' = down
  PROVE  Apart(down', Single')
<1>1. ASSUME NEW m \in ToSet(down), m.kind = "R", m.req \in Single' PROVE m.req \in Single
  <2>1. Resource(m.req)
    BY <1>1 DEF KindsInv, MessagesFit, Fits
  <2>2. m.req \in Made
    BY <2>1, MadeReqs
  <2>3. QED
    BY <1>1, <2>2 DEF KindsGrow, Single
<1>2. QED
  BY <1>1, SameApart DEF OrderInv

\* The reading of a value is no request for a resource.
LEMMA ValueAsksNot ==
  ASSUME KindsInv, NEW q, Value(q)
  PROVE  ~Asks(up, q) /\ ~Asks(down, q)
BY DEF Asks, KindsInv, MessagesFit, Fits, Resource, Value, OfKind

\* Nor is it made by a call that requests one.
LEMMA ValueNoCall ==
  ASSUME KindsInv, NEW q, Value(q), NEW at \in {"listed", "waits", "answered"}
  PROVE  ~In(caller, at, q)
BY DEF In, KindsInv, CallersFit, Busy, Value, OfKind

\* A request on the way to the server has no answer yet.
LEMMA SendRequestKeeps ==
  ASSUME TypeOK, KindsInv, OwnCall, OrderInv, RequestsInv, NEW c \in Callers, SendRequest(c)
  PROVE  OwnCall' /\ OrderInv' /\ RequestsInv'
<1> USE DEF serverVars
<1>1. PICK q : q = caller[c].req
  OBVIOUS
<1>2. /\ caller[c].at = "listed" /\ caller[c] # Idle /\ Resource(q)
      /\ Sends(Message("R", q, None))
      /\ \/ server /\ Goes(c, [at |-> "waits", req |-> q]) /\ UNCHANGED <<requests, givenUp>>
         \/ ~server /\ Goes(c, Idle) /\ Unlists(q) /\ givenUp' = givenUp \cup {q}
      /\ UNCHANGED <<info, conn, notes, lib, down, serverVars, told, over, unconfirmed>>
  BY <1>1, SendRequestDoes
<1>3. q \in Made /\ RequestInv(q) /\ Made' = Made /\ Single' = Single
  BY <1>2, MadeReqs DEF RequestsInv, Single, Made
<1>4. /\ In(caller, "listed", q) /\ ~In(caller, "waits", q) /\ ~In(caller, "answered", q)
      /\ OwnCall'
      /\ \A p, a : p # q /\ a # "idle" => (In(caller', a, p) <=> In(caller, a, p))
      /\ ~In(caller', "listed", q) /\ ~In(caller', "answered", q)
      /\ server => In(caller', "waits", q)
      /\ ~server => ~In(caller', "waits", q)
  BY <1>1, <1>2, CallMoves, CallEnds
<1>5. ~Asks(up, q)
  BY <1>3, <1>4 DEF RequestInv, AskedFirst
<1>6. Message("R", q, None).kind = "R" /\ Message("R", q, None).req = q
  BY DEF Message
<1>7. /\ Apart(up', Reqs)
      /\ \A p : Asks(up', p) <=> Asks(up, p) \/ (server /\ p = q)
      /\ \A p : Cancels(up', p) <=> Cancels(up, p)
  BY <1>2, <1>5, <1>6, SendsView
<1>8. OrderInv'
  BY <1>2, <1>3, <1>7 DEF OrderInv
<1>9. ASSUME NEW p \in Made, p # q PROVE RequestInv(p)'
  <2>1. RequestInv(p)
    BY DEF RequestsInv
  <2>2. QED
    BY <1>2, <1>4, <1>7, <1>9, <2>1, RequestKept
<1>10. RequestInv(q)'
  <2>1. AskedFirst(q)'
    BY <1>2, <1>3, <1>4, <1>7 DEF RequestInv, AskedFirst, Ungranted
  <2>2. Agreed(q)'
    BY <1>2, <1>3 DEF RequestInv, Agreed
  <2>3. Ended(q)'
    BY <1>2, <1>3, <1>7 DEF RequestInv, Ended
  <2>4. Awaited(q)'
    BY <1>2, <1>3, <1>4 DEF RequestInv, Awaited, InCall
  <2>5. AnsweredOnce(q)'
    BY <1>2, <1>3, <1>4, <1>7 DEF RequestInv, AskedFirst, AnsweredOnce, InCall
  <2>6. QED
    BY <2>1, <2>2, <2>3, <2>4, <2>5 DEF RequestInv
<1>11. RequestsInv'
  BY <1>3, <1>9, <1>10 DEF RequestsInv
<1>12. QED
  BY <1>4, <1>8, <1>11

\* The answer of a call is there.
LEMMA TakeAnswerKeeps ==
  ASSUME TypeOK, KindsInv, OwnCall, OrderInv, RequestsInv, NEW c \in Callers, TakeAnswer(c)
  PROVE  OwnCall' /\ OrderInv' /\ RequestsInv'
<1> USE DEF serverVars, appVars
<1>1. PICK q : q = caller[c].req
  OBVIOUS
<1>2. /\ caller[c].at = "waits" /\ caller[c] # Idle /\ Resource(q) /\ info[q].complete > 0
      /\ Becomes(q, info[q].assigned, info[q].complete - 1, info[q].confirm, info[q].needConfirm)
      /\ Goes(c, [at |-> "answered", req |-> q])
      /\ UNCHANGED <<requests, conn, notes, lib, up, down, serverVars, appVars, unconfirmed>>
  BY <1>1, TakeAnswerDoes
<1>3. q \in Made /\ RequestInv(q) /\ Made' = Made /\ Single' = Single /\ Made \subseteq Reqs
  <2>1. KindsKept
    BY <1>2, BecomesKinds DEF Resource
  <2>2. QED
    BY <1>2, <2>1, MadeReqs, SingleKept DEF RequestsInv, KindsKept
<1>4. /\ In(caller, "waits", q) /\ ~In(caller, "listed", q) /\ ~In(caller, "answered", q)
      /\ OwnCall'
      /\ \A p, a : p # q /\ a # "idle" => (In(caller', a, p) <=> In(caller, a, p))
      /\ ~In(caller', "listed", q) /\ ~In(caller', "waits", q) /\ In(caller', "answered", q)
  BY <1>1, <1>2, CallMoves
<1>5. OrderInv'
  BY <1>2, <1>3 DEF OrderInv
<1>6. ASSUME NEW p \in Made, p # q PROVE RequestInv(p)'
  <2>1. RequestInv(p) /\ info'[p] = info[p]
    BY <1>2, <1>3, <1>6 DEF RequestsInv, Becomes
  <2>2. QED
    BY <1>2, <1>4, <1>6, <2>1, RequestKept
<1>7. RequestInv(q)'
  <2>1. AskedFirst(q)'
    BY <1>2, <1>3, <1>4 DEF RequestInv, AskedFirst, Ungranted, Becomes
  <2>2. Agreed(q)'
    BY <1>2, <1>3 DEF RequestInv, Agreed, Becomes
  <2>3. Ended(q)'
    BY <1>2, <1>3 DEF RequestInv, Ended, Becomes
  <2>4. Awaited(q)'
    BY <1>2, <1>3, <1>4 DEF RequestInv, Awaited, InCall, Becomes
  <2>5. AnsweredOnce(q)'
    BY <1>2, <1>3, <1>4 DEF RequestInv, AnsweredOnce, Becomes
  <2>6. QED
    BY <2>1, <2>2, <2>3, <2>4, <2>5 DEF RequestInv
<1>8. RequestsInv'
  BY <1>3, <1>6, <1>7 DEF RequestsInv
<1>9. QED
  BY <1>4, <1>5, <1>8

\* What is returned is what the entry names.
LEMMA ReturnAnswerKeeps ==
  ASSUME TypeOK, KindsInv, OwnCall, OrderInv, RequestsInv, NEW c \in Callers, ReturnAnswer(c)
  PROVE  OwnCall' /\ OrderInv' /\ RequestsInv'
<1> USE DEF serverVars
<1>1. PICK q : q = caller[c].req
  OBVIOUS
<1>2. /\ caller[c].at = "answered" /\ caller[c] # Idle /\ Resource(q)
      /\ Becomes(q, info[q].assigned, info[q].complete, TRUE, FALSE)
      /\ Goes(c, Idle)
      /\ told' = IF Listed(q) /\ info[q].assigned \in Ids
                 THEN [told EXCEPT ![q] = info[q].assigned] ELSE told
      /\ UNCHANGED <<requests, conn, notes, lib, up, down, serverVars, over, givenUp, unconfirmed>>
  BY <1>1, ReturnAnswerDoes
<1>3. q \in Made /\ RequestInv(q) /\ Made' = Made /\ Single' = Single /\ Made \subseteq Reqs
  <2>1. KindsKept
    BY <1>2, BecomesKinds DEF Resource
  <2>2. QED
    BY <1>2, <2>1, MadeReqs, SingleKept DEF RequestsInv, KindsKept
<1>4. /\ In(caller, "answered", q) /\ OwnCall'
      /\ \A p, a : p # q /\ a # "idle" => (In(caller', a, p) <=> In(caller, a, p))
      /\ ~In(caller', "listed", q) /\ ~In(caller', "waits", q) /\ ~In(caller', "answered", q)
  BY <1>1, <1>2, CallEnds
<1>5. OrderInv'
  BY <1>2, <1>3 DEF OrderInv
<1>6. \A p \in Reqs : told'[p] = told[p] \/ (p = q /\ told'[p] = info[q].assigned)
  BY <1>2 DEF TypeOK
<1>7. ASSUME NEW p \in Made, p # q PROVE RequestInv(p)'
  <2>1. RequestInv(p) /\ info'[p] = info[p] /\ told'[p] = told[p]
    BY <1>2, <1>3, <1>6, <1>7 DEF RequestsInv, Becomes
  <2>2. QED
    BY <1>2, <1>4, <1>7, <2>1, RequestKept
<1>8. RequestInv(q)'
  <2>1. AskedFirst(q)'
    BY <1>2, <1>3, <1>4 DEF RequestInv, AskedFirst, Ungranted, Becomes
  <2>2. Agreed(q)'
    BY <1>2, <1>3, <1>6 DEF RequestInv, Agreed, Becomes
  <2>3. Ended(q)'
    BY <1>2, <1>3 DEF RequestInv, Ended, Becomes
  <2>4. Awaited(q)'
    BY <1>4 DEF Awaited, InCall
  <2>5. AnsweredOnce(q)'
    BY <1>2, <1>3, <1>4 DEF RequestInv, AnsweredOnce, Becomes
  <2>6. QED
    BY <2>1, <2>2, <2>3, <2>4, <2>5 DEF RequestInv
<1>9. RequestsInv'
  BY <1>3, <1>7, <1>8 DEF RequestsInv
<1>10. QED
  BY <1>4, <1>5, <1>9

\* A request that is given up may be answered later.
LEMMA GiveUpKeeps ==
  ASSUME TypeOK, KindsInv, OwnCall, OrderInv, RequestsInv, NEW c \in Callers, GiveUp(c)
  PROVE  OwnCall' /\ OrderInv' /\ RequestsInv'
<1> USE DEF serverVars, tableVars
<1>1. PICK q : q = caller[c].req
  OBVIOUS
<1>2. /\ caller[c].at = "waits" /\ caller[c] # Idle /\ Resource(q) /\ info[q].complete = 0
      /\ Goes(c, Idle) /\ givenUp' = givenUp \cup {q}
      /\ UNCHANGED <<tableVars, conn, notes, lib, up, down, serverVars, told, over, unconfirmed>>
  BY <1>1, GiveUpDoes DEF GiveUp
<1>3. q \in Made /\ RequestInv(q) /\ Made' = Made /\ Single' = Single
  BY <1>2, MadeReqs DEF RequestsInv, Single, Made
<1>4. /\ In(caller, "waits", q) /\ ~In(caller, "answered", q) /\ OwnCall'
      /\ \A p, a : p # q /\ a # "idle" => (In(caller', a, p) <=> In(caller, a, p))
      /\ ~In(caller', "listed", q) /\ ~In(caller', "waits", q) /\ ~In(caller', "answered", q)
  BY <1>1, <1>2, CallEnds
<1>5. OrderInv'
  BY <1>2, <1>3 DEF OrderInv
<1>6. ASSUME NEW p \in Made, p # q PROVE RequestInv(p)'
  <2>1. RequestInv(p)
    BY DEF RequestsInv
  <2>2. QED
    BY <1>2, <1>4, <1>6, <2>1, RequestKept
<1>7. RequestInv(q)'
  <2>1. AskedFirst(q)'
    BY <1>2, <1>3, <1>4 DEF RequestInv, AskedFirst, Ungranted
  <2>2. Agreed(q)'
    BY <1>2, <1>3 DEF RequestInv, Agreed
  <2>3. Ended(q)'
    BY <1>2, <1>3 DEF RequestInv, Ended
  <2>4. Awaited(q)'
    BY <1>4 DEF Awaited, InCall
  <2>5. AnsweredOnce(q)'
    BY <1>2, <1>4 DEF AnsweredOnce
  <2>6. QED
    BY <2>1, <2>2, <2>3, <2>4, <2>5 DEF RequestInv
<1>8. RequestsInv'
  BY <1>3, <1>6, <1>7 DEF RequestsInv
<1>9. QED
  BY <1>4, <1>5, <1>8

\* The calls that read values touch no request.
LEMMA ReturnValueKeeps ==
  ASSUME TypeOK, KindsInv, OwnCall, OrderInv, RequestsInv, NEW c \in Callers, ReturnValue(c)
  PROVE  OwnCall' /\ OrderInv' /\ RequestsInv'
<1> USE DEF serverVars, appVars
<1>1. PICK q : q = caller[c].req
  OBVIOUS
<1>2. /\ caller[c].at = "reads" /\ caller[c] # Idle /\ Value(q)
      /\ Becomes(q, info[q].assigned, info[q].complete - 1, info[q].confirm, info[q].needConfirm)
      /\ Goes(c, Idle)
      /\ UNCHANGED <<requests, conn, notes, lib, up, down, serverVars, appVars, unconfirmed>>
  BY <1>1, ReturnValueDoes
<1>3. q \in Made /\ RequestInv(q) /\ Made' = Made /\ Single' = Single /\ Made \subseteq Reqs
  <2>1. KindsKept
    BY <1>2, BecomesKinds DEF Value
  <2>2. QED
    BY <1>2, <2>1, MadeReqs, SingleKept DEF RequestsInv, KindsKept
<1>4. /\ OwnCall'
      /\ \A p, a : p # q /\ a # "idle" => (In(caller', a, p) <=> In(caller, a, p))
      /\ ~In(caller', "listed", q) /\ ~In(caller', "waits", q) /\ ~In(caller', "answered", q)
  BY <1>1, <1>2, CallEnds
<1>5. OrderInv'
  BY <1>2, <1>3 DEF OrderInv
<1>6. ASSUME NEW p \in Made, p # q PROVE RequestInv(p)'
  <2>1. RequestInv(p) /\ info'[p] = info[p]
    BY <1>2, <1>3, <1>6 DEF RequestsInv, Becomes
  <2>2. QED
    BY <1>2, <1>4, <1>6, <2>1, RequestKept
<1>7. ~Asks(up, q) /\ ~Asks(down, q)
  BY <1>2, ValueAsksNot
<1>8. RequestInv(q)'
  <2>1. AskedFirst(q)'
    BY <1>2, <1>3, <1>4 DEF RequestInv, AskedFirst, Ungranted, Becomes
  <2>2. Agreed(q)'
    BY <1>2, <1>3 DEF RequestInv, Agreed, Becomes
  <2>3. Ended(q)'
    BY <1>2, <1>3 DEF RequestInv, Ended, Becomes
  <2>4. Awaited(q)'
    BY <1>4 DEF Awaited, InCall
  <2>5. AnsweredOnce(q)'
    BY <1>2, <1>7 DEF AnsweredOnce
  <2>6. QED
    BY <2>1, <2>2, <2>3, <2>4, <2>5 DEF RequestInv
<1>9. RequestsInv'
  BY <1>3, <1>6, <1>8 DEF RequestsInv
<1>10. QED
  BY <1>4, <1>5, <1>9

\* A new request is in no message, note or list, and belongs to nobody yet.
LEMMA UnmadeIsNowhere ==
  ASSUME TypeOK, KindsInv, NEW q \in Reqs, q \notin Made
  PROVE  /\ ~Asks(up, q) /\ ~Asks(down, q) /\ ~Cancels(up, q) /\ q \notin waiting
         /\ \A id : ~Grants(down, q, id) /\ ~Noted(notes, q, id)
         /\ \A id \in Ids : owner[id] # q
         /\ told[q] = None /\ q \notin over /\ q \notin givenUp
<1>1. ~Resource(q)
  BY MadeReqs
<1>2. \A m \in ToSet(up) \cup ToSet(down) : m.kind \in {"R", "C"} => m.req # q
  BY <1>1 DEF KindsInv, MessagesFit, Fits
<1>3. ~Asks(up, q) /\ ~Asks(down, q) /\ ~Cancels(up, q) /\ \A id : ~Grants(down, q, id)
  BY <1>2 DEF Asks, Cancels, Grants
<1>4. \A id \in Ids : owner[id] # q
  <2>1. q # None
    BY ClientAssumption DEF Reqs
  <2>2. QED
    BY <1>1, <2>1 DEF KindsInv, ServerFits
<1>5. q \notin waiting
  BY <1>1 DEF KindsInv, ServerFits
<1>6. \A id : ~Noted(notes, q, id)
  BY DEF KindsInv, NamesFit, Noted
<1>7. told[q] = None /\ q \notin over /\ q \notin givenUp
  BY DEF KindsInv, AppFits
<1>8. QED
  BY <1>3, <1>4, <1>5, <1>6, <1>7

\* A request made has its invariant, and the others keep theirs.
LEMMA MakesKeeps ==
  ASSUME TypeOK, KindsInv, OrderInv, RequestsInv, Zero \notin Ids,
         NEW q, NEW kind \in {"resource", "value"}, NEW async \in BOOLEAN, Makes(q, kind, async),
         IF kind = "resource" THEN In(caller', "listed", q) ELSE ~In(caller', "listed", q) /\ ~async,
         ~In(caller', "waits", q), ~In(caller', "answered", q),
         \A p, a : p # q /\ a # "idle" => (In(caller', a, p) <=> In(caller, a, p)),
         Apart(up', Reqs), \A p : Asks(up', p) => Asks(up, p), \A p : Cancels(up', p) => Cancels(up, p),
         UNCHANGED <<conn, notes, down, server, owner, waiting, told, over, givenUp, unconfirmed>>
  PROVE  OrderInv' /\ RequestsInv'
<1>1. /\ q \in Reqs /\ q \notin Made /\ Made' = Made \cup {q} /\ Made \subseteq Reqs
      /\ info'[q] = NewInfo(kind, async)
      /\ \A p \in Reqs : p # q => info'[p] = info[p]
  BY MadeReqs DEF Makes
<1>2. OrderInv'
  <2>1. KindsGrow
    BY MakesKinds
  <2>2. QED
    BY <2>1, SingleGrows DEF OrderInv
<1>3. ASSUME NEW p \in Made PROVE RequestInv(p)'
  <2>1. RequestInv(p) /\ p # q /\ info'[p] = info[p]
    BY <1>1 DEF RequestsInv
  <2>2. QED
    BY <2>1, RequestKept
<1>4. RequestInv(q)'
  <2>1. /\ info'[q].assigned = Zero /\ info'[q].complete = 0 /\ ~info'[q].confirm
        /\ kind = "resource" => info'[q].needConfirm
    <3>1. PICK e : e = NewInfo(kind, async)
      OBVIOUS
    <3>2. e.assigned = Zero /\ e.complete = 0 /\ ~e.confirm /\ (kind = "resource" => e.needConfirm)
      BY <3>1 DEF NewInfo
    <3>3. info'[q] = e
      BY <1>1, <3>1
    <3>4. QED
      BY <3>2, <3>3
  <2>2. /\ ~Asks(up', q) /\ ~Asks(down', q) /\ ~Cancels(up', q) /\ q \notin waiting'
        /\ \A id : ~Grants(down', q, id) /\ ~Noted(notes', q, id)
        /\ \A id \in Ids : owner'[id] # q
        /\ told'[q] = None /\ q \notin over' /\ q \notin givenUp'
    BY <1>1, UnmadeIsNowhere
  <2>3. AskedFirst(q)'
    BY <2>1, <2>2 DEF AskedFirst, Ungranted
  <2>4. Agreed(q)'
    BY <2>1, <2>2 DEF Agreed
  <2>5. Ended(q)'
    BY <2>2 DEF Ended
  <2>6. Awaited(q)'
    BY <2>1 DEF Awaited, InCall
  <2>7. AnsweredOnce(q)'
    BY <2>2 DEF AnsweredOnce
  <2>8. QED
    BY <2>3, <2>4, <2>5, <2>6, <2>7 DEF RequestInv
<1>5. RequestsInv'
  BY <1>1, <1>3, <1>4 DEF RequestsInv
<1>6. QED
  BY <1>2, <1>5

\* A new request is nowhere else.
LEMMA RequestKeeps ==
  ASSUME TypeOK, KindsInv, OwnCall, OrderInv, RequestsInv, Zero \notin Ids,
         NEW c \in Callers, NEW async \in BOOLEAN, Request(c, async)
  PROVE  OwnCall' /\ OrderInv' /\ RequestsInv'
<1> USE DEF serverVars, appVars
<1>1. PICK q : q = NextReq
  OBVIOUS
<1>2. /\ caller[c] = Idle /\ Makes(q, "resource", async) /\ Goes(c, [at |-> "listed", req |-> q])
      /\ UNCHANGED <<conn, notes, lib, up, down, serverVars, appVars, unconfirmed>>
  BY <1>1, RequestDoes
<1>3. q \in Reqs /\ q \notin Made
  BY <1>2 DEF Makes
<1>4. /\ OwnCall'
      /\ \A p, a : p # q /\ a # "idle" => (In(caller', a, p) <=> In(caller, a, p))
      /\ In(caller', "listed", q) /\ ~In(caller', "waits", q) /\ ~In(caller', "answered", q)
  BY <1>2, <1>3, CallBegins
<1>5. Apart(up', Reqs)
  BY <1>2 DEF OrderInv
<1>6. QED
  BY <1>2, <1>4, <1>5, MakesKeeps

\* Nor is an entry for a value.
LEMMA GetValueKeeps ==
  ASSUME TypeOK, KindsInv, OwnCall, OrderInv, RequestsInv, Zero \notin Ids,
         NEW c \in Callers, GetValue(c)
  PROVE  OwnCall' /\ OrderInv' /\ RequestsInv'
<1> USE DEF serverVars, appVars
<1>1. PICK q : q = NextReq
  OBVIOUS
<1>2. /\ caller[c] = Idle /\ Makes(q, "value", FALSE) /\ Goes(c, [at |-> "reads", req |-> q])
      /\ Sends(Message("T", q, None))
      /\ UNCHANGED <<conn, notes, lib, down, serverVars, appVars, unconfirmed>>
  BY <1>1, GetValueDoes
<1>3. q \in Reqs /\ q \notin Made
  BY <1>2 DEF Makes
<1>4. /\ OwnCall'
      /\ \A p, a : p # q /\ a # "idle" => (In(caller', a, p) <=> In(caller, a, p))
      /\ ~In(caller', "listed", q) /\ ~In(caller', "waits", q) /\ ~In(caller', "answered", q)
  BY <1>2, <1>3, CallBegins
<1>5. Message("T", q, None).kind = "T"
  BY DEF Message
<1>6. /\ Apart(up', Reqs) /\ \A p : Asks(up', p) => Asks(up, p)
      /\ \A p : Cancels(up', p) => Cancels(up, p)
  BY <1>2, <1>5, SendsView
<1>7. QED
  BY <1>2, <1>4, <1>6, MakesKeeps

(***************************************************************************)
(* Calls that only send.                                                   *)
(***************************************************************************)

\* The request whose resource the application was told of and has not released owns it.
LEMMA ToldOwns ==
  ASSUME TypeOK, KindsInv, RequestsInv, NEW r \in Reqs, NEW id \in Ids, told[r] = id
  PROVE  /\ r \in Made /\ info[r].assigned = id
         /\ r \notin over => owner[id] = r
<1>1. told[r] # None
  BY ClientAssumption
<1>2. r \in Made
  BY <1>1 DEF KindsInv, AppFits
<1>3. Agreed(r)
  BY <1>2 DEF RequestsInv, RequestInv
<1>4. QED
  BY <1>1, <1>2, <1>3 DEF Agreed

\* A request that is released has its resource, and no other request claims it.
LEMMA ReleaseKeeps ==
  ASSUME TypeOK, KindsInv, OwnCall, OrderInv, RequestsInv, OwnersInv,
         NEW id \in Ids, ReleaseResource(id)
  PROVE  OwnCall' /\ OrderInv' /\ RequestsInv'
<1> USE DEF serverVars
<1>1. /\ \E r \in Reqs \ over : told[r] = id
      /\ over' = over \cup {r \in Reqs : told[r] = id}
      /\ \/ UNCHANGED <<requests, up>>
         \/ \E q \in Reqs : Sends(Message("L", q, id))
      /\ UNCHANGED <<info, caller, conn, notes, lib, down, serverVars, told, givenUp, unconfirmed>>
  BY ReleaseDoes
<1>2. PICK r \in Reqs \ over : told[r] = id
  BY <1>1
<1>3. ~Releases(up, id)
  BY <1>2, ToldOwns DEF OwnersInv, ReleaseInv
<1>4. /\ Apart(up', Reqs) /\ \A p : Asks(up', p) => Asks(up, p)
      /\ \A p : Cancels(up', p) => Cancels(up, p)
  <2>1. CASE up' = up
    BY <2>1 DEF OrderInv
  <2>2. CASE \E q \in Reqs : Sends(Message("L", q, id))
    <3>1. PICK q \in Reqs : Sends(Message("L", q, id))
      BY <2>2
    <3>2. Message("L", q, id).kind = "L" /\ Message("L", q, id).id = id
      BY DEF Message
    <3>3. QED
      BY <1>3, <3>1, <3>2, SendsView
  <2>3. QED
    BY <1>1, <2>1, <2>2
<1>5. Made' = Made /\ Single' = Single /\ OrderInv' /\ Made \subseteq Reqs
  BY <1>1, <1>4, MadeReqs DEF OrderInv, Single, Made
<1>6. OwnCall'
  BY <1>1 DEF OwnCall
<1>7. ASSUME NEW p \in Made PROVE RequestInv(p)'
  <2>1. RequestInv(p)
    BY DEF RequestsInv
  <2>2. CASE p \in over' <=> p \in over
    BY <1>1, <1>4, <2>1, <2>2, RequestKept
  <2>3. CASE p \in over' /\ info[p].assigned \in Ids
    <3>1. AskedFirst(p)'
      BY <1>1, <1>4, <2>1 DEF RequestInv, AskedFirst, Ungranted
    <3>2. Agreed(p)'
      BY <1>1, <2>1, <2>3 DEF RequestInv, Agreed
    <3>3. Ended(p)'
      BY <1>1, <1>4, <2>1, <2>3 DEF RequestInv, Ended
    <3>4. Awaited(p)'
      BY <1>1, <2>1 DEF RequestInv, Awaited
    <3>5. AnsweredOnce(p)'
      BY <1>1, <1>4, <2>1 DEF RequestInv, AnsweredOnce
    <3>6. QED
      BY <3>1, <3>2, <3>3, <3>4, <3>5 DEF RequestInv
  <2>4. p \in over' => p \in over \/ info[p].assigned \in Ids
    BY <1>1, <1>5, ToldOwns
  <2>5. over \subseteq over'
    BY <1>1
  <2>6. QED
    BY <2>2, <2>3, <2>4, <2>5
<1>8. QED
  BY <1>5, <1>6, <1>7 DEF RequestsInv

\* A cancelled request is over and given up.
LEMMA CancelKeeps ==
  ASSUME TypeOK, KindsInv, OwnCall, OrderInv, RequestsInv, NEW q \in Reqs, RequestCancel(q)
  PROVE  OwnCall' /\ OrderInv' /\ RequestsInv'
<1> USE DEF serverVars, tableVars
<1>1. /\ Resource(q) /\ info[q].async /\ told[q] = None /\ q \notin over
      /\ Sends(Message("C", q, None))
      /\ over' = over \cup {q} /\ givenUp' = givenUp \cup {q}
      /\ UNCHANGED <<tableVars, caller, conn, notes, lib, down, serverVars, told, unconfirmed>>
  BY CancelDoes
<1>2. Message("C", q, None).kind = "C" /\ Message("C", q, None).req = q
  BY DEF Message
<1>3. /\ Apart(up', Reqs) /\ \A p : Asks(up', p) <=> Asks(up, p)
      /\ \A p : Cancels(up', p) => Cancels(up, p) \/ p = q
  BY <1>1, <1>2, SendsView
<1>4. Made' = Made /\ Single' = Single /\ OrderInv' /\ OwnCall' /\ q \in Made
  BY <1>1, <1>3, MadeReqs DEF OrderInv, Single, Made, OwnCall
<1>5. ASSUME NEW p \in Made, p # q PROVE RequestInv(p)'
  <2>1. RequestInv(p)
    BY DEF RequestsInv
  <2>2. QED
    BY <1>1, <1>3, <1>5, <2>1, RequestKept
<1>6. RequestInv(q)'
  <2>1. RequestInv(q)
    BY <1>4 DEF RequestsInv
  <2>2. AskedFirst(q)'
    BY <1>1, <1>3, <2>1 DEF RequestInv, AskedFirst, Ungranted
  <2>3. Agreed(q)'
    BY <1>1, <2>1 DEF RequestInv, Agreed
  <2>4. Ended(q)'
    BY <1>1 DEF Ended
  <2>5. Awaited(q)'
    BY <1>1, <2>1 DEF RequestInv, Awaited
  <2>6. AnsweredOnce(q)'
    BY <1>1 DEF AnsweredOnce
  <2>7. QED
    BY <2>2, <2>3, <2>4, <2>5, <2>6 DEF RequestInv
<1>7. QED
  BY <1>4, <1>5, <1>6 DEF RequestsInv

(***************************************************************************)
(* The reading and the notifying threads.                                  *)
(***************************************************************************)

\* An answer moves a grant from the socket to its entry, and to a note.
LEMMA ReadAnswerKeeps ==
  ASSUME TypeOK, KindsInv, OwnCall, OrderInv, RequestsInv, ReadAnswer
  PROVE  OwnCall' /\ OrderInv' /\ RequestsInv'
<1> USE DEF serverVars, appVars
<1>1. PICK m \in Messages :
        /\ Hears(m, "R") /\ Resource(m.req)
        /\ \/ /\ Becomes(m.req, m.id, info[m.req].complete + 1, info[m.req].confirm,
                         info[m.req].needConfirm)
              /\ notes' = notes \cup
                   IF m.id # None /\ info[m.req].async
                   THEN {[event |-> "granted", req |-> m.req, id |-> m.id]} ELSE {}
              /\ conn' = IF info[m.req].needConfirm THEN [at |-> "confirms", req |-> m.req]
                                                   ELSE conn
           \/ UNCHANGED <<info, notes, conn>>
        /\ UNCHANGED <<requests, caller, lib, up, serverVars, appVars, unconfirmed>>
  BY ReadAnswerDoes
<1>2. PICK q : q = m.req
  OBVIOUS
<1>3. /\ Apart(down', Single) /\ conn.at = "reads" /\ m.id \in Ids \cup {None}
      /\ \A p : Asks(down, p) <=> Asks(down', p) \/ p = q
      /\ \A p, id : Grants(down, p, id) <=> Grants(down', p, id) \/ (p = q /\ id = m.id)
      /\ m.id # None \/ q \in Single => ~Asks(down', q)
  BY <1>1, <1>2, HearsView DEF Messages
<1>4. q \in Made /\ RequestInv(q) /\ Made' = Made /\ Single' = Single /\ Made \subseteq Reqs
  <2>1. KindsKept
    BY <1>1, BecomesKinds, SameKinds DEF Resource
  <2>2. QED
    BY <1>1, <1>2, <2>1, MadeReqs, SingleKept DEF RequestsInv, KindsKept
<1>5. OwnCall' /\ OrderInv'
  BY <1>1, <1>3, <1>4 DEF OwnCall, OrderInv
<1>6. \A id : Noted(notes', q, id) => Noted(notes, q, id) \/ (id = m.id /\ info'[q].assigned = m.id)
  BY <1>1, <1>2 DEF Noted, Becomes
<1>7. \A p, id : p # q /\ Noted(notes', p, id) => Noted(notes, p, id)
  BY <1>1, <1>2 DEF Noted
<1>8. ASSUME NEW p \in Made, p # q PROVE RequestInv(p)'
  <2>1. RequestInv(p) /\ info'[p] = info[p]
    BY <1>1, <1>2, <1>4, <1>8 DEF RequestsInv, Becomes
  <2>2. QED
    BY <1>1, <1>3, <1>7, <1>8, <2>1, RequestKept
<1>9. CASE UNCHANGED <<info, notes, conn>>
  <2>1. RequestInv(q)'
    BY <1>1, <1>3, <1>4, <1>9, RequestKept
  <2>2. QED
    BY <1>4, <1>5, <1>8, <2>1 DEF RequestsInv
<1>10. CASE /\ Becomes(q, m.id, info[q].complete + 1, info[q].confirm, info[q].needConfirm)
            /\ conn' = IF info[q].needConfirm THEN [at |-> "confirms", req |-> q] ELSE conn
  <2>1. /\ Asks(down, q) /\ Grants(down, q, m.id) /\ info[q].assigned \notin Ids /\ told[q] = None
        /\ ~In(caller, "listed", q) /\ ~Asks(up, q)
    <3>1. Asks(down, q) /\ Grants(down, q, m.id)
      BY <1>3
    <3>2. info[q].assigned \notin Ids /\ told[q] \in Ids \cup {None}
      BY <1>4, <3>1 DEF RequestInv, Agreed, TypeOK
    <3>3. QED
      BY <1>4, <3>1, <3>2 DEF RequestInv, AskedFirst, Agreed
  <2>2. info'[q].assigned = m.id /\ (m.id \in Ids => ~Asks(down', q)) /\ None \notin Ids
    BY <1>3, <1>10, ClientAssumption DEF Becomes
  <2>3. AskedFirst(q)'
    BY <1>1, <1>3, <1>4, <2>1, <2>2 DEF RequestInv, AskedFirst, Ungranted
  <2>4. Agreed(q)'
    <3>1. \A id \in Ids : ~Noted(notes, q, id)
      BY <1>4, <2>1 DEF RequestInv, Agreed
    <3>2. \A id \in Ids : Noted(notes', q, id) => id = info'[q].assigned
      BY <1>6, <2>2, <3>1
    <3>3. told' = told /\ over' = over /\ owner' = owner
      BY <1>1
    <3>4. q \notin over => \A id \in Ids : Grants(down', q, id) \/ info'[q].assigned = id => owner'[id] = q
      BY <1>3, <1>4, <2>1, <2>2, <3>3 DEF RequestInv, Agreed
    <3>5. QED
      BY <2>1, <2>2, <3>2, <3>3, <3>4 DEF Agreed
  <2>5. Ended(q)'
    BY <1>1, <1>4, <2>1 DEF RequestInv, Ended
  <2>6. Awaited(q)'
    BY <1>1, <1>4, <1>10 DEF RequestInv, Awaited, Becomes
  <2>7. AnsweredOnce(q)'
    <3>1. ~info[q].async => ~Asks(down', q) /\ ~Asks(up', q)
      BY <1>1, <1>3, <1>4, <2>1 DEF Single
    <3>2. QED
      BY <1>10, <3>1 DEF AnsweredOnce, Becomes
  <2>8. QED
    BY <1>4, <1>5, <1>8, <2>3, <2>4, <2>5, <2>6, <2>7 DEF RequestsInv, RequestInv
<1>11. QED
  BY <1>1, <1>2, <1>9, <1>10

\* A revocation notes what the entry names.
LEMMA ReadRevokeKeeps ==
  ASSUME TypeOK, KindsInv, OwnCall, OrderInv, RequestsInv, ReadRevoke
  PROVE  OwnCall' /\ OrderInv' /\ RequestsInv'
<1> USE DEF serverVars, appVars
<1>1. PICK m \in Messages :
        /\ Hears(m, "V") /\ m.id \in Ids
        /\ \/ notes' = notes
           \/ \E q \in Reqs : /\ Listed(q) /\ info[q].assigned = m.id
                              /\ notes' = notes \cup {[event |-> "revoked", req |-> q, id |-> m.id]}
        /\ UNCHANGED <<info, requests, caller, conn, lib, up, serverVars, appVars, unconfirmed>>
  BY ReadRevokeDoes
<1>2. /\ Apart(down', Single) /\ \A p : Asks(down', p) => Asks(down, p)
      /\ \A p, id : Grants(down', p, id) => Grants(down, p, id)
  BY <1>1, HearsView
<1>3. Made' = Made /\ OwnCall' /\ OrderInv'
  BY <1>1, <1>2 DEF OwnCall, OrderInv, Single, Made
<1>4. \A p, id : Noted(notes', p, id) => Noted(notes, p, id) \/ id = info[p].assigned
  BY <1>1 DEF Noted
<1>5. ASSUME NEW p \in Made PROVE RequestInv(p)'
  <2>1. RequestInv(p)
    BY DEF RequestsInv
  <2>2. QED
    BY <1>1, <1>2, <1>4, <2>1, RequestKept
<1>6. QED
  BY <1>3, <1>5 DEF RequestsInv

\* The entry of a value is no request.
LEMMA ReadValueKeeps ==
  ASSUME TypeOK, KindsInv, OwnCall, OrderInv, RequestsInv, ReadValue
  PROVE  OwnCall' /\ OrderInv' /\ RequestsInv'
<1> USE DEF serverVars, appVars, tableVars
<1>1. PICK m \in Messages :
        /\ Hears(m, "T") /\ Value(m.req)
        /\ \/ Becomes(m.req, info[m.req].assigned, info[m.req].complete + 1,
                      info[m.req].confirm, info[m.req].needConfirm)
           \/ UNCHANGED tableVars
        /\ UNCHANGED <<caller, conn, notes, lib, up, serverVars, appVars, unconfirmed>>
  BY ReadValueDoes
<1>2. PICK q : q = m.req
  OBVIOUS
<1>3. /\ Apart(down', Single) /\ \A p : Asks(down', p) => Asks(down, p)
      /\ \A p, id : Grants(down', p, id) => Grants(down, p, id)
  BY <1>1, HearsView
<1>4. q \in Made /\ RequestInv(q) /\ Made' = Made /\ Single' = Single /\ Made \subseteq Reqs
  <2>1. KindsKept
    BY <1>1, BecomesKinds, SameKinds DEF Value
  <2>2. QED
    BY <1>1, <1>2, <2>1, MadeReqs, SingleKept DEF RequestsInv, KindsKept
<1>5. OwnCall' /\ OrderInv'
  BY <1>1, <1>3, <1>4 DEF OwnCall, OrderInv
<1>6. ASSUME NEW p \in Made, info'[p] = info[p] PROVE RequestInv(p)'
  <2>1. RequestInv(p)
    BY DEF RequestsInv
  <2>2. QED
    BY <1>1, <1>3, <1>6, <2>1, RequestKept
<1>7. CASE Becomes(q, info[q].assigned, info[q].complete + 1, info[q].confirm, info[q].needConfirm)
  <2>1. ~Asks(up', q) /\ ~Asks(down', q)
    BY <1>1, <1>2, <1>3, ValueAsksNot
  <2>2. ~In(caller, "listed", q)
    BY <1>1, <1>2, ValueNoCall
  <2>3. AskedFirst(q)'
    BY <1>1, <1>3, <1>4, <1>7, <2>1, <2>2 DEF RequestInv, AskedFirst, Ungranted, Becomes
  <2>4. Agreed(q)'
    BY <1>1, <1>3, <1>4, <1>7 DEF RequestInv, Agreed, Becomes
  <2>5. Ended(q)'
    BY <1>1, <1>4, <1>7 DEF RequestInv, Ended, Becomes
  <2>6. Awaited(q)'
    BY <1>1, <1>4, <1>7 DEF RequestInv, Awaited, Becomes
  <2>7. AnsweredOnce(q)'
    BY <2>1 DEF AnsweredOnce
  <2>8. RequestInv(q)'
    BY <2>3, <2>4, <2>5, <2>6, <2>7 DEF RequestInv
  <2>9. \A p \in Made : p # q => info'[p] = info[p]
    BY <1>4, <1>7 DEF Becomes
  <2>10. QED
    BY <1>4, <1>5, <1>6, <2>8, <2>9 DEF RequestsInv
<1>8. CASE UNCHANGED tableVars
  BY <1>4, <1>5, <1>6, <1>8 DEF RequestsInv
<1>9. QED
  BY <1>1, <1>2, <1>7, <1>8

\* The reading thread goes on only after the call has returned.
LEMMA ConfirmedKeeps ==
  ASSUME TypeOK, KindsInv, OwnCall, OrderInv, RequestsInv, Confirmed
  PROVE  OwnCall' /\ OrderInv' /\ RequestsInv'
<1> USE DEF serverVars, appVars
<1>1. PICK q : q = conn.req
  OBVIOUS
<1>2. /\ conn.at = "confirms" /\ Resource(q) /\ info[q].confirm /\ conn' = [at |-> "reads"]
      /\ Becomes(q, info[q].assigned, info[q].complete, FALSE, info[q].needConfirm)
      /\ UNCHANGED <<requests, caller, notes, lib, up, down, serverVars, appVars, unconfirmed>>
  BY <1>1, ConfirmedDoes
<1>3. q \in Made /\ RequestInv(q) /\ Made' = Made /\ Single' = Single /\ Made \subseteq Reqs
  <2>1. KindsKept
    BY <1>2, BecomesKinds DEF Resource
  <2>2. QED
    BY <1>2, <2>1, MadeReqs, SingleKept DEF RequestsInv, KindsKept
<1>4. OwnCall' /\ OrderInv'
  BY <1>2, <1>3 DEF OwnCall, OrderInv
<1>5. ASSUME NEW p \in Made, p # q PROVE RequestInv(p)'
  <2>1. RequestInv(p) /\ info'[p] = info[p]
    BY <1>2, <1>3, <1>5 DEF RequestsInv, Becomes
  <2>2. QED
    BY <1>1, <1>2, <1>5, <2>1, RequestKept
<1>6. RequestInv(q)'
  <2>1. ~InCall(caller, q)
    BY <1>2, <1>3 DEF RequestInv, Awaited
  <2>2. AskedFirst(q)'
    BY <1>2, <1>3 DEF RequestInv, AskedFirst, Ungranted, Becomes
  <2>3. Agreed(q)'
    BY <1>2, <1>3 DEF RequestInv, Agreed, Becomes
  <2>4. Ended(q)'
    BY <1>2, <1>3 DEF RequestInv, Ended, Becomes
  <2>5. Awaited(q)'
    BY <1>2, <2>1 DEF Awaited
  <2>6. AnsweredOnce(q)'
    BY <1>2, <1>3 DEF RequestInv, AnsweredOnce, Becomes
  <2>7. QED
    BY <2>2, <2>3, <2>4, <2>5, <2>6 DEF RequestInv
<1>7. QED
  BY <1>3, <1>4, <1>5, <1>6 DEF RequestsInv

\* Or it is known not to have seen the answer taken.
LEMMA ConfirmTimeoutKeeps ==
  ASSUME TypeOK, KindsInv, OwnCall, OrderInv, RequestsInv, ConfirmTimeout
  PROVE  OwnCall' /\ OrderInv' /\ RequestsInv'
<1> USE DEF serverVars, appVars, tableVars
<1>1. /\ unconfirmed' = unconfirmed \cup {conn.req}
      /\ UNCHANGED <<tableVars, caller, notes, lib, up, down, serverVars, appVars>>
  BY DEF ConfirmTimeout
<1>2. Made' = Made /\ OwnCall' /\ OrderInv'
  BY <1>1 DEF OwnCall, OrderInv, Single, Made
<1>3. ASSUME NEW p \in Made PROVE RequestInv(p)'
  <2>1. RequestInv(p)
    BY DEF RequestsInv
  <2>2. QED
    BY <1>1, <2>1, RequestKept
<1>4. QED
  BY <1>2, <1>3 DEF RequestsInv

\* The application is told what the entry names.
LEMMA NotifyKeeps ==
  ASSUME TypeOK, KindsInv, OwnCall, OrderInv, RequestsInv, NEW n \in notes, Notify(n)
  PROVE  OwnCall' /\ OrderInv' /\ RequestsInv'
<1> USE DEF serverVars, tableVars
<1>1. /\ notes' = notes \ {n} /\ told' = IF n.id \in Ids THEN [told EXCEPT ![n.req] = n.id] ELSE told
      /\ UNCHANGED <<tableVars, caller, conn, lib, up, down, serverVars, over, givenUp, unconfirmed>>
  BY DEF Notify
<1>2. Made' = Made /\ OwnCall' /\ OrderInv' /\ Made \subseteq Reqs /\ n.req \in Made
  BY <1>1, MadeReqs DEF OwnCall, OrderInv, Single, Made, KindsInv, NamesFit
<1>3. \A p, id : Noted(notes', p, id) => Noted(notes, p, id)
  BY <1>1 DEF Noted
<1>4. \A p \in Reqs : told'[p] = told[p] \/ (p = n.req /\ n.id \in Ids /\ told'[p] = n.id)
  BY <1>1, <1>2 DEF TypeOK
<1>5. ASSUME NEW p \in Made, told'[p] = told[p] PROVE RequestInv(p)'
  <2>1. RequestInv(p)
    BY DEF RequestsInv
  <2>2. QED
    BY <1>1, <1>3, <1>5, <2>1, RequestKept
<1>6. ASSUME NEW p \in Made, p = n.req, n.id \in Ids, told'[p] = n.id PROVE RequestInv(p)'
  <2>1. RequestInv(p) /\ Noted(notes, p, n.id)
    BY <1>6 DEF RequestsInv, Noted
  <2>2. n.id = info[p].assigned
    BY <1>6, <2>1 DEF RequestInv, Agreed
  <2>3. AskedFirst(p)'
    BY <1>1, <2>1 DEF RequestInv, AskedFirst, Ungranted
  <2>4. Agreed(p)'
    BY <1>1, <1>3, <1>6, <2>1, <2>2 DEF RequestInv, Agreed
  <2>5. Ended(p)'
    BY <1>1, <2>1 DEF RequestInv, Ended
  <2>6. Awaited(p)'
    BY <1>1, <2>1 DEF RequestInv, Awaited
  <2>7. AnsweredOnce(p)'
    BY <1>1, <2>1 DEF RequestInv, AnsweredOnce
  <2>8. QED
    BY <2>3, <2>4, <2>5, <2>6, <2>7 DEF RequestInv
<1>7. QED
  BY <1>2, <1>4, <1>5, <1>6 DEF RequestsInv

\* Requests keep their entries when the library goes.
LEMMA JoinedKeeps ==
  ASSUME TypeOK, KindsInv, OwnCall, OrderInv, RequestsInv, Joined
  PROVE  OwnCall' /\ OrderInv' /\ RequestsInv'
<1> USE DEF serverVars, appVars
<1>1. /\ \A q \in Reqs : Resource(q) => info'[q] = info[q]
      /\ \A q \in Reqs : Value(q) => info'[q].assigned = Zero
      /\ UNCHANGED <<caller, conn, notes, up, down, serverVars, appVars, unconfirmed>>
  BY JoinedDoes
<1>2. Made' = Made /\ Single' = Single /\ Made \subseteq Reqs
  <2>1. KindsKept
    BY JoinedKinds
  <2>2. QED
    BY <2>1, MadeReqs, SingleKept DEF KindsKept
<1>3. OwnCall' /\ OrderInv'
  BY <1>1, <1>2 DEF OwnCall, OrderInv
<1>4. ASSUME NEW p \in Made, Resource(p) PROVE RequestInv(p)'
  <2>1. RequestInv(p) /\ info'[p] = info[p]
    BY <1>1, <1>2, <1>4 DEF RequestsInv
  <2>2. QED
    BY <1>1, <2>1, RequestKept
<1>5. ASSUME NEW p \in Made, Value(p) PROVE RequestInv(p)'
  <2>1. RequestInv(p) /\ info'[p].assigned = info[p].assigned
    BY <1>1, <1>2, <1>5 DEF RequestsInv, KindsInv, TableFits
  <2>2. ~Asks(up, p) /\ ~Asks(down, p)
    BY <1>5, ValueAsksNot
  <2>3. ~InCall(caller, p) /\ ~In(caller, "listed", p)
    BY <1>5, ValueNoCall DEF InCall
  <2>4. AskedFirst(p)'
    BY <1>1, <2>1, <2>2, <2>3 DEF RequestInv, AskedFirst, Ungranted
  <2>5. Agreed(p)'
    BY <1>1, <2>1 DEF RequestInv, Agreed
  <2>6. Ended(p)'
    BY <1>1, <2>1 DEF RequestInv, Ended
  <2>7. Awaited(p)'
    BY <1>1, <2>3 DEF Awaited
  <2>8. AnsweredOnce(p)'
    BY <1>1, <2>2 DEF AnsweredOnce
  <2>9. QED
    BY <2>4, <2>5, <2>6, <2>7, <2>8 DEF RequestInv
<1>6. \A p \in Made : Resource(p) \/ Value(p)
  BY <1>2, MadeEntry DEF Resource, Value, OfKind, Entries
<1>7. QED
  BY <1>2, <1>3, <1>4, <1>5, <1>6 DEF RequestsInv

(***************************************************************************)
(* The server.                                                             *)
(***************************************************************************)

\* A grant is the owner's only one.
LEMMA ServeRequestKeeps ==
  ASSUME TypeOK, KindsInv, OwnCall, OrderInv, RequestsInv,
         NEW id \in Ids \cup {None}, ServeRequest(id)
  PROVE  OwnCall' /\ OrderInv' /\ RequestsInv'
<1> USE DEF appVars, tableVars
<1>1. PICK m \in Messages :
        /\ Takes(m, "R") /\ Resource(m.req)
        /\ Answers(Message("R", m.req, id))
        /\ \/ id = None /\ owner' = owner
           \/ id \in Ids /\ owner[id] = None /\ Owns(id, m.req)
        /\ \/ waiting' = waiting
           \/ id = None /\ info[m.req].async /\ waiting' = waiting \cup {m.req}
        /\ UNCHANGED <<tableVars, caller, conn, notes, lib, server, asked, appVars, unconfirmed>>
  BY ServeRequestDoes
<1>2. PICK q : q = m.req
  OBVIOUS
<1>3. /\ Apart(up', Reqs)
      /\ \A p : Asks(up, p) <=> Asks(up', p) \/ p = q
      /\ \A p : Cancels(up, p) <=> Cancels(up', p)
      /\ ~Asks(up', q)
  BY <1>1, <1>2, TakesView
<1>4. q \in Made /\ q \in Reqs /\ RequestInv(q) /\ Made' = Made /\ Single' = Single
  BY <1>1, <1>2, MadeReqs DEF RequestsInv, Single, Made
<1>5. /\ Asks(up, q) /\ ~Asks(down, q) /\ q \notin waiting /\ Ungranted(q)
      /\ ~In(caller, "listed", q)
  BY <1>3, <1>4 DEF RequestInv, AskedFirst
<1>6. /\ Message("R", q, id).kind = "R" /\ Message("R", q, id).req = q /\ Message("R", q, id).id = id
  BY DEF Message
<1>7. \A n \in ToSet(down) : ~Clash(n, Message("R", q, id), Single)
  BY <1>5, <1>6 DEF Clash, Asks
<1>8. /\ Apart(down', Single)
      /\ \A p : Asks(down', p) <=> Asks(down, p) \/ p = q
      /\ \A p, r : Grants(down', p, r) <=> Grants(down, p, r) \/ (p = q /\ r = id)
  BY <1>1, <1>2, <1>6, <1>7, AnswersView
<1>9. OwnCall' /\ OrderInv'
  BY <1>1, <1>3, <1>4, <1>8 DEF OwnCall, OrderInv
<1>10. None \notin Reqs /\ None \notin Ids
  BY ClientAssumption DEF Reqs
<1>11. \A r \in Ids : owner'[r] = owner[r] \/ (r = id /\ owner[r] = None /\ owner'[r] = q)
  BY <1>1, <1>2 DEF Owns
<1>12. ASSUME NEW p \in Made, p # q PROVE RequestInv(p)'
  <2>1. RequestInv(p) /\ p # None
    BY <1>10, MadeReqs DEF RequestsInv
  <2>2. p \in waiting' => p \in waiting
    BY <1>1, <1>2, <1>12
  <2>3. QED
    BY <1>1, <1>3, <1>8, <1>11, <1>12, <2>1, <2>2, RequestKept
<1>13. RequestInv(q)'
  <2>1. /\ info' = info /\ caller' = caller /\ told' = told /\ notes' = notes /\ over' = over
        /\ givenUp' = givenUp /\ conn' = conn /\ unconfirmed' = unconfirmed
    BY <1>1
  <2>2. AskedFirst(q)'
    <3>1. q \in waiting' => id = None /\ owner' = owner
      BY <1>1, <1>2, <1>5, <1>10
    <3>2. q \in waiting' => Ungranted(q)'
      BY <1>5, <1>8, <1>10, <2>1, <3>1 DEF Ungranted
    <3>3. ~In(caller', "listed", q) /\ ~Asks(up', q)
      BY <1>3, <1>5, <2>1
    <3>4. QED
      BY <3>2, <3>3 DEF AskedFirst
  <2>3. Agreed(q)'
    <3>1. \A r \in Ids : Grants(down', q, r) \/ info[q].assigned = r => owner'[r] = q
      BY <1>1, <1>2, <1>5, <1>8, <1>10 DEF Ungranted, Owns
    <3>2. QED
      BY <1>4, <1>5, <2>1, <3>1 DEF RequestInv, Agreed, Ungranted
  <2>4. Ended(q)'
    BY <1>3, <1>4, <2>1 DEF RequestInv, Ended
  <2>5. Awaited(q)'
    BY <1>4, <2>1 DEF RequestInv, Awaited
  <2>6. AnsweredOnce(q)'
    BY <1>4, <1>5, <2>1 DEF RequestInv, AnsweredOnce
  <2>7. QED
    BY <2>2, <2>3, <2>4, <2>5, <2>6 DEF RequestInv
<1>14. QED
  BY <1>4, <1>9, <1>12, <1>13 DEF RequestsInv

\* A pending request has no resource until it is granted one.
LEMMA GrantPendingKeeps ==
  ASSUME TypeOK, KindsInv, OwnCall, OrderInv, RequestsInv,
         NEW q \in Reqs, NEW id \in Ids, GrantPending(q, id)
  PROVE  OwnCall' /\ OrderInv' /\ RequestsInv'
<1> USE DEF appVars, tableVars
<1>1. /\ q \in waiting /\ Resource(q) /\ owner[id] = None /\ Owns(id, q)
      /\ waiting' = waiting \ {q}
      /\ Answers(Message("R", q, id))
      /\ UNCHANGED <<tableVars, caller, conn, notes, lib, up, server, asked, appVars, unconfirmed>>
  BY GrantPendingDoes
<1>2. q \in Made /\ RequestInv(q) /\ Made' = Made /\ Single' = Single /\ info[q].async
  BY <1>1, MadeReqs DEF RequestsInv, Single, Made, KindsInv, ServerFits
<1>3. Ungranted(q) /\ ~In(caller, "listed", q) /\ ~Asks(up, q)
  BY <1>1, <1>2 DEF RequestInv, AskedFirst
<1>4. Message("R", q, id).kind = "R" /\ Message("R", q, id).req = q /\ Message("R", q, id).id = id
  BY DEF Message
<1>5. \A n \in ToSet(down) : ~Clash(n, Message("R", q, id), Single)
  <2> SUFFICES ASSUME NEW n \in ToSet(down), n.kind = "R", n.req = q, n.id # None \/ q \in Single
               PROVE  FALSE
    BY <1>4 DEF Clash
  <2>1. n \in Messages
    BY AppendSet DEF TypeOK, ToSet
  <2>2. n.id \in Ids
    BY <1>2, <2>1 DEF Single, Messages
  <2>3. Grants(down, q, n.id)
    BY DEF Grants
  <2>4. QED
    BY <1>3, <2>2, <2>3 DEF Ungranted
<1>6. /\ Apart(down', Single)
      /\ \A p : Asks(down', p) <=> Asks(down, p) \/ p = q
      /\ \A p, r : Grants(down', p, r) <=> Grants(down, p, r) \/ (p = q /\ r = id)
  BY <1>1, <1>4, <1>5, AnswersView
<1>7. OwnCall' /\ OrderInv'
  BY <1>1, <1>2, <1>6 DEF OwnCall, OrderInv
<1>8. None \notin Reqs
  BY ClientAssumption DEF Reqs
<1>9. \A r \in Ids : owner'[r] = IF r = id THEN q ELSE owner[r]
  BY <1>1 DEF Owns
<1>10. ASSUME NEW p \in Made, p # q PROVE RequestInv(p)'
  <2>1. RequestInv(p) /\ p # None
    BY <1>8, MadeReqs DEF RequestsInv
  <2>2. QED
    BY <1>1, <1>6, <1>9, <1>10, <2>1, RequestKept
<1>11. RequestInv(q)'
  <2>1. /\ info' = info /\ caller' = caller /\ told' = told /\ notes' = notes /\ over' = over
        /\ givenUp' = givenUp /\ conn' = conn /\ unconfirmed' = unconfirmed /\ up' = up
    BY <1>1
  <2>2. AskedFirst(q)'
    BY <1>1, <1>3, <2>1 DEF AskedFirst
  <2>3. Agreed(q)'
    BY <1>2, <1>3, <1>6, <1>9, <2>1 DEF RequestInv, Agreed, Ungranted
  <2>4. Ended(q)'
    BY <1>2, <2>1 DEF RequestInv, Ended
  <2>5. Awaited(q)'
    BY <1>2, <2>1 DEF RequestInv, Awaited
  <2>6. AnsweredOnce(q)'
    BY <1>2, <2>1 DEF AnsweredOnce
  <2>7. QED
    BY <2>2, <2>3, <2>4, <2>5, <2>6 DEF RequestInv
<1>12. QED
  BY <1>2, <1>7, <1>10, <1>11 DEF RequestsInv

\* Messages about other matters change nothing for the requests.
LEMMA OtherAnswersKeep ==
  ASSUME TypeOK, KindsInv, OwnCall, OrderInv, RequestsInv, NEW m, Answers(m), m.kind \in {"T", "V"},
         up' = up \/ \E n : Takes(n, "T"),
         UNCHANGED <<tableVars, caller, conn, notes, owner, waiting, appVars, unconfirmed>>
  PROVE  OwnCall' /\ OrderInv' /\ RequestsInv'
<1> USE DEF appVars, tableVars
<1>1. /\ Apart(down', Single) /\ \A p : Asks(down', p) <=> Asks(down, p)
      /\ \A p, r : Grants(down', p, r) <=> Grants(down, p, r)
  BY AnswersView
<1>2. Apart(up', Reqs) /\ \A p : (Asks(up', p) <=> Asks(up, p)) /\ (Cancels(up', p) <=> Cancels(up, p))
  <2>1. CASE up' = up
    BY <2>1 DEF OrderInv
  <2>2. CASE \E n : Takes(n, "T")
    BY <2>2, TakesView
  <2>3. QED
    BY <2>1, <2>2
<1>3. Made' = Made /\ OwnCall' /\ OrderInv'
  BY <1>1, <1>2 DEF OwnCall, OrderInv, Single, Made
<1>4. ASSUME NEW p \in Made PROVE RequestInv(p)'
  <2>1. RequestInv(p)
    BY DEF RequestsInv
  <2>2. QED
    BY <1>1, <1>2, <2>1, RequestKept
<1>5. QED
  BY <1>3, <1>4 DEF RequestsInv

\* Only a request that is over loses its resource by a release.
LEMMA ServeReleaseKeeps ==
  ASSUME TypeOK, KindsInv, OwnCall, OrderInv, RequestsInv, OwnersInv, ServeRelease
  PROVE  OwnCall' /\ OrderInv' /\ RequestsInv'
<1> USE DEF appVars, tableVars
<1>1. PICK m \in Messages :
        /\ Takes(m, "L") /\ m.id \in Ids /\ Owns(m.id, None)
        /\ UNCHANGED <<tableVars, caller, conn, notes, lib, down, server, waiting, appVars, unconfirmed>>
  BY ServeReleaseDoes
<1>2. /\ Apart(up', Reqs) /\ \A p : (Asks(up', p) <=> Asks(up, p)) /\ (Cancels(up', p) <=> Cancels(up, p))
      /\ Releases(up, m.id)
  BY <1>1, TakesView
<1>3. Made' = Made /\ OwnCall' /\ OrderInv'
  BY <1>1, <1>2 DEF OwnCall, OrderInv, Single, Made
<1>4. owner[m.id] \in over
  BY <1>1, <1>2 DEF OwnersInv, ReleaseInv
<1>5. ASSUME NEW p \in Made PROVE RequestInv(p)'
  <2>1. RequestInv(p) /\ p # None
    BY MadeReqs, ClientAssumption DEF RequestsInv, Reqs
  <2>2. \A r \in Ids : owner'[r] = IF r = m.id THEN None ELSE owner[r]
    BY <1>1 DEF Owns
  <2>3. QED
    BY <1>1, <1>2, <1>4, <2>1, <2>2, RequestKept
<1>6. QED
  BY <1>3, <1>5 DEF RequestsInv

\* Or by a cancellation.
LEMMA ServeCancelKeeps ==
  ASSUME TypeOK, KindsInv, OwnCall, OrderInv, RequestsInv, ServeCancel
  PROVE  OwnCall' /\ OrderInv' /\ RequestsInv'
<1> USE DEF appVars, tableVars
<1>1. PICK m \in Messages :
        /\ Takes(m, "C") /\ Resource(m.req)
        /\ \A r \in Ids : owner'[r] = IF owner[r] = m.req THEN None ELSE owner[r]
        /\ waiting' = waiting \ {m.req}
        /\ UNCHANGED <<tableVars, caller, conn, notes, lib, down, server, appVars, unconfirmed>>
  BY ServeCancelDoes
<1>2. PICK q : q = m.req
  OBVIOUS
<1>3. /\ Apart(up', Reqs) /\ \A p : (Asks(up', p) <=> Asks(up, p)) /\ (Cancels(up', p) => Cancels(up, p))
      /\ Cancels(up, q)
  BY <1>1, <1>2, TakesView
<1>4. Made' = Made /\ OwnCall' /\ OrderInv' /\ q \in Made
  BY <1>1, <1>2, <1>3, MadeReqs DEF OwnCall, OrderInv, Single, Made
<1>5. q \in over
  BY <1>3, <1>4 DEF RequestsInv, RequestInv, Ended
<1>6. ASSUME NEW p \in Made PROVE RequestInv(p)'
  <2>1. RequestInv(p) /\ p # None
    BY MadeReqs, ClientAssumption DEF RequestsInv, Reqs
  <2>2. QED
    BY <1>1, <1>2, <1>3, <1>5, <2>1, RequestKept
<1>7. QED
  BY <1>4, <1>6 DEF RequestsInv

\* Whatever else happens changes nothing of a request, or takes messages away.
LEMMA OthersKeep ==
  ASSUME TypeOK, KindsInv, OwnCall, OrderInv, RequestsInv,
         ConnectionEnds \/ Destroy \/ Destroyed \/ ServerDies \/ UNCHANGED vars
  PROVE  OwnCall' /\ OrderInv' /\ RequestsInv'
<1> USE DEF appVars, tableVars, serverVars
<1>1. /\ UNCHANGED <<tableVars, caller, notes, down, owner, waiting, appVars, unconfirmed>>
      /\ up' = up \/ up' = <<>>
      /\ conn' = conn \/ conn.at = "reads"
  BY DEF ConnectionEnds, Destroy, Destroyed, ServerDies, vars
<1>2. Apart(up', Reqs) /\ \A p : (Asks(up', p) => Asks(up, p)) /\ (Cancels(up', p) => Cancels(up, p))
  <2>1. CASE up' = up
    BY <2>1 DEF OrderInv
  <2>2. CASE up' = <<>>
    BY <2>2 DEF Apart, Asks, Cancels, ToSet
  <2>3. QED
    BY <1>1, <2>1, <2>2
<1>3. Made' = Made /\ OwnCall' /\ OrderInv'
  BY <1>1, <1>2 DEF OwnCall, OrderInv, Single, Made
<1>4. ASSUME NEW p \in Made PROVE RequestInv(p)'
  <2>1. RequestInv(p)
    BY DEF RequestsInv
  <2>2. QED
    BY <1>1, <1>2, <2>1, RequestKept
<1>5. QED
  BY <1>3, <1>4 DEF RequestsInv

\* Every step keeps the invariant of requests.
LEMMA RequestsStep ==
  ASSUME TypeOK, KindsInv, OwnCall, OrderInv, RequestsInv, OwnersInv, Zero \notin Ids, [Next]_vars
  PROVE  OwnCall' /\ OrderInv' /\ RequestsInv'
<1>1. CASE \E c \in Callers : Calls(c)
  BY <1>1, SendRequestKeeps, TakeAnswerKeeps, ReturnAnswerKeeps, GiveUpKeeps, ReturnValueKeeps
     DEF Calls
<1>2. CASE \E c \in Callers : GetValue(c) \/ \E async \in BOOLEAN : Request(c, async)
  BY <1>2, GetValueKeeps, RequestKeeps
<1>3. CASE \E id \in Ids : ReleaseResource(id)
  BY <1>3, ReleaseKeeps
<1>4. CASE \E q \in Reqs : RequestCancel(q) \/ \E id \in Ids : GrantPending(q, id)
  BY <1>4, CancelKeeps, GrantPendingKeeps
<1>5. CASE Connection
  BY <1>5, ReadAnswerKeeps, ReadRevokeKeeps, ReadValueKeeps, ConfirmedKeeps, ConfirmTimeoutKeeps,
     OthersKeep DEF Connection
<1>6. CASE \E n \in notes : Notify(n)
  BY <1>6, NotifyKeeps
<1>7. CASE Joined
  BY <1>7, JoinedKeeps
<1>8. CASE \E id \in Ids \cup {None} : ServeRequest(id)
  BY <1>8, ServeRequestKeeps
<1>9. CASE ServeRelease \/ ServeCancel
  BY <1>9, ServeReleaseKeeps, ServeCancelKeeps
<1>10. CASE ServeGetValue
  <2>1. PICK m \in Messages :
          /\ Takes(m, "T") /\ Answers(Message("T", m.req, None))
          /\ UNCHANGED <<tableVars, caller, conn, notes, owner, waiting, appVars, unconfirmed>>
    BY <1>10, ServeGetValueDoes DEF tableVars, appVars
  <2>2. Message("T", m.req, None).kind = "T"
    BY DEF Message
  <2>3. QED
    BY <2>1, <2>2, OtherAnswersKeep
<1>11. CASE \E id \in Ids : AskBack(id)
  <2>1. PICK id \in Ids :
          /\ Answers(Message("V", owner[id], id)) /\ up' = up
          /\ UNCHANGED <<tableVars, caller, conn, notes, owner, waiting, appVars, unconfirmed>>
    BY <1>11, AskBackDoes DEF tableVars, appVars
  <2>2. Message("V", owner[id], id).kind = "V"
    BY DEF Message
  <2>3. QED
    BY <2>1, <2>2, OtherAnswersKeep
<1>12. CASE Destroy \/ Destroyed \/ ServerDies \/ UNCHANGED vars
  BY <1>12, OthersKeep
<1>13. QED
  BY <1>1, <1>2, <1>3, <1>4, <1>5, <1>6, <1>7, <1>8, <1>9, <1>10, <1>11, <1>12 DEF Next, Serve

(***************************************************************************)
(* Owners.                                                                 *)
(***************************************************************************)

\* The owner of a resource, if it has one.
LEMMA OwnerIs ==
  ASSUME ClientInv, NEW id \in Ids, NEW q, q = owner[id]
  PROVE  /\ ReleaseInv(id) /\ KeptInv(id)
         /\ q # None => q \in Reqs /\ q \in Made /\ Resource(q) /\ info[q].kind = "resource" /\ RequestInv(q)
<1>1. ReleaseInv(id) /\ KeptInv(id)
  BY DEF ClientInv, OwnersInv
<1>2. ASSUME q # None PROVE Resource(q)
  BY <1>2 DEF ClientInv, Typed, KindsInv, ServerFits
<1>3. ASSUME q # None PROVE q \in Reqs /\ q \in Made /\ info[q].kind = "resource"
  BY <1>2, <1>3, MadeReqs DEF ClientInv, Typed, Resource, OfKind
<1>4. ASSUME q # None PROVE RequestInv(q)
  BY <1>3, <1>4 DEF ClientInv, RequestsInv
<1>5. QED
  BY <1>1, <1>2, <1>3, <1>4

\* A step that leaves the owner of a resource and what it was told.
LEMMA OwnerKept ==
  ASSUME NEW id \in Ids, ReleaseInv(id), KeptInv(id), NEW q, q = owner[id], owner'[id] = q,
         over \subseteq over', givenUp \subseteq givenUp',
         server' => server, lib' = "up" => lib = "up",
         Releases(up', id) => Releases(up, id),
         q \in over /\ Cancels(up', q) => Cancels(up, q),
         server' /\ lib' = "up" /\ q # None /\ q \notin givenUp' =>
           /\ Releases(up, id) => Releases(up', id)
           /\ Grants(down, q, id) => Grants(down', q, id)
           /\ info[q].assigned = id =>
                /\ info'[q].assigned = id /\ (q \in over' <=> q \in over)
                /\ q \notin over /\ Told(q, id) => Told(q, id)'
  PROVE  ReleaseInv(id)' /\ KeptInv(id)'
<1>1. ReleaseInv(id)'
  BY DEF ReleaseInv
<1>2. KeptInv(id)'
  <2> SUFFICES ASSUME server', lib' = "up", q # None, q \notin givenUp'
               PROVE  \/ Grants(down', q, id)
                      \/ /\ info'[q].assigned = id
                         /\ IF q \in over' THEN Releases(up', id) ELSE Told(q, id)'
    <3>1. Told(owner[id], id)' = Told(q, id)'
      BY DEF Told
    <3>2. QED
      BY <3>1 DEF KeptInv
  <2>1. \/ Grants(down, q, id)
        \/ /\ info[q].assigned = id
           /\ IF q \in over THEN Releases(up, id) ELSE Told(q, id)
    BY DEF KeptInv
  <2>2. QED
    BY <2>1
<1>3. QED
  BY <1>1, <1>2

\* What a request was told stays told.
LEMMA ToldKept ==
  ASSUME NEW q, NEW id, Told(q, id), told'[q] = told[q], info'[q].async = info[q].async,
         Noted(notes, q, id) => Noted(notes', q, id), InCall(caller, q) => InCall(caller', q)
  PROVE  Told(q, id)'
BY DEF Told

\* What an owner is to be told is on its way when another call sends,
LEMMA SendRequestOwners ==
  ASSUME ClientInv, NEW id \in Ids, NEW c \in Callers, SendRequest(c)
  PROVE  ReleaseInv(id)' /\ KeptInv(id)'
<1> USE DEF serverVars
<1>0. TypeOK /\ KindsInv /\ OwnCall /\ OrderInv /\ RequestsInv
  BY DEF ClientInv, Typed
<1>1. PICK q : q = owner[id]
  OBVIOUS
<1>2. PICK p : p = caller[c].req
  OBVIOUS
<1>3. /\ caller[c].at = "listed" /\ caller[c] # Idle /\ Resource(p)
      /\ Sends(Message("R", p, None))
      /\ \/ server /\ Goes(c, [at |-> "waits", req |-> p]) /\ UNCHANGED <<requests, givenUp>>
         \/ ~server /\ Goes(c, Idle) /\ Unlists(p) /\ givenUp' = givenUp \cup {p}
      /\ UNCHANGED <<info, conn, notes, lib, down, serverVars, told, over, unconfirmed>>
  BY <1>0, <1>2, SendRequestDoes
<1>4. /\ In(caller, "listed", p)
      /\ server => /\ In(caller', "waits", p)
                   /\ \A r, a : r # p => (In(caller', a, r) <=> In(caller, a, r))
  <2>1. In(caller, "listed", p)
    BY <1>2, <1>3 DEF In
  <2>2. ASSUME server
        PROVE  /\ In(caller', "waits", p)
               /\ \A r, a : r # p => (In(caller', a, r) <=> In(caller, a, r))
    <3>1. Goes(c, [at |-> "waits", req |-> caller[c].req])
      BY <1>2, <1>3, <2>2
    <3>2. QED
      BY <1>0, <1>2, <1>3, <3>1, CallMoves
  <2>3. QED
    BY <2>1, <2>2
<1>5. ~Asks(up, p)
  BY <1>0, <1>3, <1>4, MadeReqs DEF RequestsInv, RequestInv, AskedFirst
<1>6. Message("R", p, None).kind = "R" /\ Message("R", p, None).req = p
  BY DEF Message
<1>7. /\ \A r : Cancels(up', r) <=> Cancels(up, r)
      /\ \A r : Releases(up', r) <=> Releases(up, r)
  BY <1>0, <1>3, <1>5, <1>6, SendsView
<1>8. server /\ Told(q, id) => Told(q, id)'
  <2>1. server => (InCall(caller, q) => InCall(caller', q))
    BY <1>4 DEF InCall
  <2>2. QED
    BY <1>3, <2>1, ToldKept
<1>9. QED
  BY <1>1, <1>3, <1>7, <1>8, OwnerIs, OwnerKept

\* when the call that was told returns,
LEMMA ReturnAnswerOwners ==
  ASSUME ClientInv, NEW id \in Ids, NEW c \in Callers, ReturnAnswer(c)
  PROVE  ReleaseInv(id)' /\ KeptInv(id)'
<1> USE DEF serverVars
<1>0. TypeOK /\ KindsInv /\ OwnCall /\ IdValid
  BY DEF ClientInv, Typed
<1>1. PICK q : q = owner[id]
  OBVIOUS
<1>2. PICK p : p = caller[c].req
  OBVIOUS
<1>3. /\ caller[c].at = "answered" /\ caller[c] # Idle /\ Resource(p)
      /\ Becomes(p, info[p].assigned, info[p].complete, TRUE, FALSE)
      /\ Goes(c, Idle)
      /\ told' = IF Listed(p) /\ info[p].assigned \in Ids
                 THEN [told EXCEPT ![p] = info[p].assigned] ELSE told
      /\ UNCHANGED <<requests, conn, notes, lib, up, down, serverVars, over, givenUp, unconfirmed>>
  BY <1>0, <1>2, ReturnAnswerDoes
<1>4. \A r, a : r # p /\ a # "idle" => (In(caller', a, r) <=> In(caller, a, r))
  BY <1>0, <1>2, <1>3, CallEnds
<1>5. ReleaseInv(id) /\ KeptInv(id) /\ (q # None => q \in Reqs /\ q \in Made /\ info[q].kind = "resource")
  BY <1>1, OwnerIs
<1>6. \A r \in Reqs : /\ info'[r].assigned = info[r].assigned
                      /\ r # p => info'[r] = info[r] /\ told'[r] = told[r]
  BY <1>0, <1>3 DEF Becomes, TypeOK
<1>7. ASSUME lib = "up", q # None, q \notin givenUp, info[q].assigned = id, q \notin over, Told(q, id)
      PROVE  Told(q, id)'
  <2>1. CASE q = p
    <3>1. Listed(p)
      BY <1>0, <1>5, <1>7, <2>1 DEF IdValid
    <3>2. told'[q] = id
      BY <1>0, <1>3, <1>5, <1>7, <2>1, <3>1 DEF TypeOK
    <3>3. QED
      BY <3>2 DEF Told
  <2>2. CASE q # p
    <3>1. InCall(caller, q) => InCall(caller', q)
      BY <1>4, <2>2 DEF InCall
    <3>2. QED
      BY <1>3, <1>5, <1>6, <1>7, <2>2, <3>1, ToldKept
  <2>3. QED
    BY <2>1, <2>2
<1>8. QED
  BY <1>1, <1>3, <1>5, <1>6, <1>7, OwnerKept

\* when a call gives up its own request only,
LEMMA GiveUpOwners ==
  ASSUME ClientInv, NEW id \in Ids, NEW c \in Callers, GiveUp(c)
  PROVE  ReleaseInv(id)' /\ KeptInv(id)'
<1> USE DEF serverVars, tableVars
<1>0. TypeOK /\ KindsInv /\ OwnCall
  BY DEF ClientInv, Typed
<1>1. PICK q : q = owner[id]
  OBVIOUS
<1>2. PICK p : p = caller[c].req
  OBVIOUS
<1>3. /\ caller[c] # Idle /\ Goes(c, Idle) /\ givenUp' = givenUp \cup {p}
      /\ UNCHANGED <<tableVars, conn, notes, lib, up, down, serverVars, told, over, unconfirmed>>
  BY <1>0, <1>2, GiveUpDoes
<1>4. \A r, a : r # p /\ a # "idle" => (In(caller', a, r) <=> In(caller, a, r))
  BY <1>0, <1>2, <1>3, CallEnds
<1>5. q \notin givenUp' /\ Told(q, id) => Told(q, id)'
  <2>1. q # p => (InCall(caller, q) => InCall(caller', q))
    BY <1>4 DEF InCall
  <2>2. q \notin givenUp' => q # p
    BY <1>3
  <2>3. QED
    BY <1>3, <2>1, <2>2, ToldKept
<1>6. QED
  BY <1>1, <1>3, <1>5, OwnerIs, OwnerKept

\* when the resource is released, whose release is then on its way,
LEMMA ReleaseOwners ==
  ASSUME ClientInv, NEW id \in Ids, NEW r \in Ids, ReleaseResource(r)
  PROVE  ReleaseInv(id)' /\ KeptInv(id)'
<1> USE DEF serverVars
<1>0. TypeOK /\ KindsInv /\ OrderInv /\ RequestsInv /\ IdValid
  BY DEF ClientInv, Typed
<1>1. PICK q : q = owner[id]
  OBVIOUS
<1>2. /\ lib = "up" /\ \E p \in Reqs \ over : told[p] = r
      /\ over' = over \cup {p \in Reqs : told[p] = r}
      /\ \/ /\ \A p \in Reqs : Listed(p) => info[p].assigned # r
            /\ UNCHANGED <<requests, up>>
         \/ \E p \in Reqs : Sends(Message("L", p, r))
      /\ UNCHANGED <<info, caller, conn, notes, lib, down, serverVars, told, givenUp, unconfirmed>>
  BY <1>0, ReleaseDoes
<1>3. PICK p \in Reqs \ over : told[p] = r
  BY <1>2
<1>4. p \in Made /\ info[p].assigned = r /\ owner[r] = p
  BY <1>0, <1>3, ToldOwns
<1>5. ~Releases(up, r)
  BY <1>3, <1>4 DEF ClientInv, OwnersInv, ReleaseInv
<1>6. \/ up' = up /\ \A s \in Reqs : Listed(s) => info[s].assigned # r
      \/ /\ \A s : Cancels(up', s) <=> Cancels(up, s)
         /\ \A s : Releases(up', s) <=> Releases(up, s) \/ (server /\ s = r)
  <2>1. CASE \E s \in Reqs : Sends(Message("L", s, r))
    <3>1. PICK s \in Reqs : Sends(Message("L", s, r))
      BY <2>1
    <3>2. Message("L", s, r).kind = "L" /\ Message("L", s, r).id = r
      BY DEF Message
    <3>3. QED
      BY <1>0, <1>5, <3>1, <3>2, SendsView
  <2>2. QED
    BY <1>2, <2>1
<1>7. /\ ReleaseInv(id) /\ KeptInv(id)
      /\ q # None => q \in Reqs /\ info[q].kind = "resource" /\ RequestInv(q)
  BY <1>1, OwnerIs
<1>8. CASE id = r
  <2>1. q = p /\ owner'[id] = p /\ p # None /\ p \in over'
    BY <1>1, <1>2, <1>3, <1>4, <1>8, ClientAssumption DEF Reqs
  <2>2. ~Cancels(up', p)
    BY <1>3, <1>6, <1>7, <2>1 DEF RequestInv, Ended
  <2>3. ReleaseInv(id)'
    BY <2>1, <2>2 DEF ReleaseInv
  <2>4. CASE \A s \in Reqs : Listed(s) => info[s].assigned # r
    <3>1. ~Listed(p)
      BY <1>3, <1>4, <2>4
    <3>2. p \in givenUp'
      BY <1>0, <1>2, <1>3, <1>4, <1>7, <2>1, <3>1 DEF IdValid
    <3>3. QED
      BY <2>1, <2>3, <3>2 DEF KeptInv
  <2>5. CASE \A s : Releases(up', s) <=> Releases(up, s) \/ (server /\ s = r)
    BY <1>2, <1>4, <1>8, <2>1, <2>3, <2>5 DEF KeptInv
  <2>6. QED
    BY <1>6, <2>4, <2>5
<1>9. CASE id # r
  <2>1. (Releases(up', id) <=> Releases(up, id)) /\ (Cancels(up', q) <=> Cancels(up, q))
    BY <1>6, <1>9
  <2>2. q \in Reqs /\ info[q].assigned = id => (q \in over' <=> q \in over)
    BY <1>0, <1>2, <1>9, ToldOwns
  <2>3. Told(q, id) => Told(q, id)'
    BY <1>2, ToldKept
  <2>4. QED
    BY <1>1, <1>2, <1>7, <2>1, <2>2, <2>3, OwnerKept
<1>10. QED
  BY <1>8, <1>9

\* when a request is cancelled, which then has no claim,
LEMMA CancelOwners ==
  ASSUME ClientInv, NEW id \in Ids, NEW p \in Reqs, RequestCancel(p)
  PROVE  ReleaseInv(id)' /\ KeptInv(id)'
<1> USE DEF serverVars, tableVars
<1>0. TypeOK /\ KindsInv /\ OrderInv
  BY DEF ClientInv, Typed
<1>1. PICK q : q = owner[id]
  OBVIOUS
<1>2. /\ p \notin over /\ Sends(Message("C", p, None))
      /\ over' = over \cup {p} /\ givenUp' = givenUp \cup {p}
      /\ UNCHANGED <<tableVars, caller, conn, notes, lib, down, serverVars, told, unconfirmed>>
  BY <1>0, CancelDoes
<1>3. Message("C", p, None).kind = "C" /\ Message("C", p, None).req = p
  BY DEF Message
<1>4. /\ \A s : Cancels(up', s) => Cancels(up, s) \/ s = p
      /\ \A s : Releases(up', s) <=> Releases(up, s)
  BY <1>0, <1>2, <1>3, SendsView
<1>5. Told(q, id) => Told(q, id)'
  BY <1>2, ToldKept
<1>6. QED
  BY <1>1, <1>2, <1>4, <1>5, OwnerIs, OwnerKept

\* when the grant becomes an entry and a note or the answer of a call,
LEMMA ReadAnswerOwners ==
  ASSUME ClientInv, NEW id \in Ids, ReadAnswer
  PROVE  ReleaseInv(id)' /\ KeptInv(id)'
<1> USE DEF serverVars, appVars
<1>0. TypeOK /\ KindsInv /\ OrderInv /\ IdValid
  BY DEF ClientInv, Typed
<1>1. PICK q : q = owner[id]
  OBVIOUS
<1>2. PICK m \in Messages :
        /\ Hears(m, "R") /\ Resource(m.req)
        /\ \/ /\ Listed(m.req)
              /\ Becomes(m.req, m.id, info[m.req].complete + 1, info[m.req].confirm,
                         info[m.req].needConfirm)
              /\ notes' = notes \cup
                   IF m.id # None /\ info[m.req].async
                   THEN {[event |-> "granted", req |-> m.req, id |-> m.id]} ELSE {}
           \/ ~Listed(m.req) /\ UNCHANGED <<info, notes, conn>>
        /\ UNCHANGED <<requests, caller, lib, up, serverVars, appVars, unconfirmed>>
  BY <1>0, ReadAnswerDoes
<1>3. /\ \A p : Asks(down, p) <=> Asks(down', p) \/ p = m.req
      /\ \A p, r : Grants(down, p, r) <=> Grants(down', p, r) \/ (p = m.req /\ r = m.id)
  BY <1>0, <1>2, HearsView
<1>4. /\ ReleaseInv(id) /\ KeptInv(id) /\ None \notin Ids
      /\ q # None => q \in Reqs /\ q \in Made /\ info[q].kind = "resource" /\ RequestInv(q)
  BY <1>1, OwnerIs, ClientAssumption
<1>5. CASE lib = "up" /\ q # None /\ q \notin givenUp /\ q = m.req /\ id = m.id
  <2>1. Asks(down, q) /\ info[q].assigned \notin Ids /\ q \notin over
    BY <1>3, <1>4, <1>5 DEF RequestInv, Agreed, Ended
  <2>2. Listed(q)
    BY <1>0, <1>4, <1>5, <2>1 DEF IdValid
  <2>3. info'[q].assigned = id /\ info'[q].async = info[q].async
    BY <1>2, <1>5, <2>2 DEF Becomes
  <2>4. Told(q, id)'
    <3>1. CASE info[q].async
      <4>1. Noted(notes', q, id)
        <5>1. [event |-> "granted", req |-> q, id |-> id] \in notes'
          BY <1>2, <1>4, <1>5, <2>2, <3>1
        <5>2. QED
          BY <5>1 DEF Noted
      <4>2. QED
        BY <2>3, <3>1, <4>1 DEF Told
    <3>2. CASE ~info[q].async
      <4>1. InCall(caller, q)
        BY <1>4, <1>5, <2>1, <3>2 DEF RequestInv, AnsweredOnce
      <4>2. caller' = caller
        BY <1>2
      <4>3. QED
        BY <2>3, <3>2, <4>1, <4>2 DEF Told
    <3>3. QED
      BY <3>1, <3>2
  <2>5. owner' = owner /\ over' = over /\ up' = up
    BY <1>2
  <2>6. ReleaseInv(id)'
    BY <1>4, <2>5 DEF ReleaseInv, Releases, Cancels
  <2>7. Told(q, id)' = Told(owner[id], id)'
    <3>1. owner'[id] = q
      BY <1>1, <2>5
    <3>2. QED
      BY <3>1 DEF Told
  <2>8. KeptInv(id)'
    BY <1>1, <2>1, <2>3, <2>4, <2>5, <2>7 DEF KeptInv
  <2>9. QED
    BY <2>6, <2>8
<1>6. CASE ~(lib = "up" /\ q # None /\ q \notin givenUp /\ q = m.req /\ id = m.id)
  <2>1. lib = "up" /\ q # None /\ q \notin givenUp => (Grants(down, q, id) => Grants(down', q, id))
    BY <1>3, <1>6
  <2>2. ASSUME q # None, info[q].assigned = id PROVE info'[q] = info[q]
    <3>1. ~Asks(down, q)
      BY <1>4, <2>2 DEF RequestInv, Agreed
    <3>2. q # m.req
      BY <1>3, <3>1
    <3>3. QED
      BY <1>2, <1>4, <2>2, <3>2 DEF Becomes
  <2>3. \A r, s : Noted(notes, r, s) => Noted(notes', r, s)
    BY <1>2 DEF Noted
  <2>4. q # None /\ info[q].assigned = id /\ Told(q, id) => Told(q, id)'
    BY <1>2, <2>2, <2>3, ToldKept
  <2>5. QED
    BY <1>1, <1>2, <1>4, <2>1, <2>2, <2>4, OwnerKept
<1>7. QED
  BY <1>5, <1>6

\* when the application is called back with it,
LEMMA NotifyOwners ==
  ASSUME ClientInv, NEW id \in Ids, NEW n \in notes, Notify(n)
  PROVE  ReleaseInv(id)' /\ KeptInv(id)'
<1> USE DEF serverVars, tableVars
<1>0. TypeOK /\ KindsInv
  BY DEF ClientInv, Typed
<1>1. PICK q : q = owner[id]
  OBVIOUS
<1>2. /\ notes' = notes \ {n} /\ told' = IF n.id \in Ids THEN [told EXCEPT ![n.req] = n.id] ELSE told
      /\ UNCHANGED <<tableVars, caller, conn, lib, up, down, serverVars, over, givenUp, unconfirmed>>
  BY DEF Notify
<1>3. /\ ReleaseInv(id) /\ KeptInv(id)
      /\ q # None => q \in Reqs /\ RequestInv(q)
  BY <1>1, OwnerIs
<1>4. \A p \in Reqs : told'[p] = IF n.id \in Ids /\ p = n.req THEN n.id ELSE told[p]
  BY <1>0, <1>2 DEF TypeOK
<1>5. ASSUME q # None, info[q].assigned = id, Told(q, id) PROVE Told(q, id)'
  <2>1. n.id \in Ids /\ q = n.req => n.id = id
    <3>1. Noted(notes, n.req, n.id)
      BY DEF Noted
    <3>2. QED
      BY <1>3, <1>5, <3>1 DEF RequestInv, Agreed
  <2>2. CASE n.req = q /\ n.id = id
    BY <1>3, <1>4, <1>5, <2>2 DEF Told
  <2>3. CASE ~(n.req = q /\ n.id = id)
    <3>1. told'[q] = told[q]
      BY <1>3, <1>4, <1>5, <2>1, <2>3
    <3>2. Noted(notes, q, id) => Noted(notes', q, id)
      BY <1>2, <2>3 DEF Noted
    <3>3. QED
      BY <1>2, <1>5, <3>1, <3>2, ToldKept
  <2>4. QED
    BY <2>2, <2>3
<1>6. QED
  BY <1>1, <1>2, <1>3, <1>5, OwnerKept

\* when the server grants a resource, which sends the grant,
LEMMA ServeRequestOwners ==
  ASSUME ClientInv, NEW id \in Ids, NEW r \in Ids \cup {None}, ServeRequest(r)
  PROVE  ReleaseInv(id)' /\ KeptInv(id)'
<1> USE DEF appVars, tableVars
<1>0. TypeOK /\ KindsInv /\ OrderInv /\ RequestsInv
  BY DEF ClientInv, Typed
<1>1. PICK m \in Messages :
        /\ Takes(m, "R") /\ Resource(m.req)
        /\ Answers(Message("R", m.req, r))
        /\ \/ r = None /\ owner' = owner
           \/ r \in Ids /\ owner[r] = None /\ Owns(r, m.req)
        /\ UNCHANGED <<tableVars, caller, conn, notes, lib, server, asked, appVars, unconfirmed>>
  BY <1>0, ServeRequestDoes
<1>2. /\ \A p : Cancels(up, p) <=> Cancels(up', p)
      /\ \A s : Releases(up, s) <=> Releases(up', s)
      /\ Asks(up, m.req)
  BY <1>0, <1>1, TakesView
<1>3. ToSet(down') = ToSet(down) \cup {Message("R", m.req, r)}
  BY <1>1 DEF Answers
<1>4. /\ \A p, s : Grants(down, p, s) => Grants(down', p, s)
      /\ Grants(down', m.req, r)
  <2>1. \A p, s : Grants(down, p, s) => Grants(down', p, s)
    BY <1>3 DEF Grants
  <2>2. /\ Message("R", m.req, r).kind = "R" /\ Message("R", m.req, r).req = m.req
        /\ Message("R", m.req, r).id = r
    BY DEF Message
  <2>3. Grants(down', m.req, r)
    BY <1>3, <2>2 DEF Grants
  <2>4. QED
    BY <2>1, <2>3
<1>5. ReleaseInv(id) /\ KeptInv(id)
  BY OwnerIs
<1>6. CASE r = id /\ owner[id] = None /\ Owns(id, m.req)
  <2>1. ~Releases(up', id) /\ owner'[id] = m.req
    BY <1>2, <1>5, <1>6 DEF ReleaseInv, Owns
  <2>2. QED
    BY <1>4, <1>6, <2>1 DEF ReleaseInv, KeptInv
<1>7. CASE owner'[id] = owner[id]
  <2>1. PICK q : q = owner[id]
    OBVIOUS
  <2>2. Told(q, id) => Told(q, id)'
    BY <1>1, ToldKept
  <2>3. QED
    BY <1>1, <1>2, <1>4, <1>5, <1>7, <2>1, <2>2, OwnerKept
<1>8. QED
  BY <1>1, <1>6, <1>7 DEF Owns

\* when it grants one later,
LEMMA GrantPendingOwners ==
  ASSUME ClientInv, NEW id \in Ids, NEW p \in Reqs, NEW r \in Ids, GrantPending(p, r)
  PROVE  ReleaseInv(id)' /\ KeptInv(id)'
<1> USE DEF appVars, tableVars
<1>0. TypeOK /\ KindsInv
  BY DEF ClientInv, Typed
<1>1. /\ owner[r] = None /\ Owns(r, p) /\ Answers(Message("R", p, r))
      /\ UNCHANGED <<tableVars, caller, conn, notes, lib, up, server, asked, appVars, unconfirmed>>
  BY <1>0, GrantPendingDoes
<1>2. ToSet(down') = ToSet(down) \cup {Message("R", p, r)}
  BY <1>1 DEF Answers
<1>3. /\ \A q, s : Grants(down, q, s) => Grants(down', q, s)
      /\ Grants(down', p, r)
  <2>1. \A q, s : Grants(down, q, s) => Grants(down', q, s)
    BY <1>2 DEF Grants
  <2>2. Message("R", p, r).kind = "R" /\ Message("R", p, r).req = p /\ Message("R", p, r).id = r
    BY DEF Message
  <2>3. Grants(down', p, r)
    BY <1>2, <2>2 DEF Grants
  <2>4. QED
    BY <2>1, <2>3
<1>4. ReleaseInv(id) /\ KeptInv(id)
  BY OwnerIs
<1>5. CASE r = id
  <2>1. ~Releases(up', id) /\ owner'[id] = p
    BY <1>1, <1>4, <1>5 DEF ReleaseInv, Owns
  <2>2. QED
    BY <1>3, <1>5, <2>1 DEF ReleaseInv, KeptInv
<1>6. CASE r # id
  <2>1. PICK q : q = owner[id]
    OBVIOUS
  <2>2. Told(q, id) => Told(q, id)'
    BY <1>1, ToldKept
  <2>3. QED
    BY <1>1, <1>3, <1>4, <1>6, <2>1, <2>2, OwnerKept DEF Owns
<1>7. QED
  BY <1>5, <1>6

\* when it takes one back,
LEMMA ServeReleaseOwners ==
  ASSUME ClientInv, NEW id \in Ids, ServeRelease
  PROVE  ReleaseInv(id)' /\ KeptInv(id)'
<1> USE DEF appVars, tableVars
<1>0. TypeOK /\ KindsInv /\ OrderInv
  BY DEF ClientInv, Typed
<1>1. PICK m \in Messages :
        /\ Takes(m, "L") /\ m.id \in Ids /\ Owns(m.id, None)
        /\ UNCHANGED <<tableVars, caller, conn, notes, lib, down, server, waiting, appVars, unconfirmed>>
  BY <1>0, ServeReleaseDoes
<1>2. /\ \A p : Cancels(up, p) <=> Cancels(up', p)
      /\ \A s : Releases(up, s) <=> Releases(up', s) \/ s = m.id
      /\ ~Releases(up', m.id)
  BY <1>0, <1>1, TakesView
<1>3. CASE id = m.id
  BY <1>1, <1>2, <1>3 DEF Owns, ReleaseInv, KeptInv
<1>4. CASE id # m.id
  <2>1. PICK q : q = owner[id]
    OBVIOUS
  <2>2. Told(q, id) => Told(q, id)'
    BY <1>1, ToldKept
  <2>3. QED
    BY <1>1, <1>2, <1>4, <2>1, <2>2, OwnerIs, OwnerKept DEF Owns
<1>5. QED
  BY <1>3, <1>4

\* when it takes one back from a cancelled request,
LEMMA ServeCancelOwners ==
  ASSUME ClientInv, NEW id \in Ids, ServeCancel
  PROVE  ReleaseInv(id)' /\ KeptInv(id)'
<1> USE DEF appVars, tableVars
<1>0. TypeOK /\ KindsInv /\ OrderInv
  BY DEF ClientInv, Typed
<1>1. PICK m \in Messages :
        /\ Takes(m, "C")
        /\ \A r \in Ids : owner'[r] = IF owner[r] = m.req THEN None ELSE owner[r]
        /\ UNCHANGED <<tableVars, caller, conn, notes, lib, down, server, appVars, unconfirmed>>
  BY <1>0, ServeCancelDoes
<1>2. /\ \A p : Cancels(up, p) <=> Cancels(up', p) \/ p = m.req
      /\ \A s : Releases(up, s) <=> Releases(up', s)
  BY <1>0, <1>1, TakesView
<1>3. ReleaseInv(id) /\ KeptInv(id)
  BY OwnerIs
<1>4. CASE owner[id] = m.req
  BY <1>1, <1>2, <1>3, <1>4 DEF ReleaseInv, KeptInv
<1>5. CASE owner[id] # m.req
  <2>1. PICK q : q = owner[id]
    OBVIOUS
  <2>2. Told(q, id) => Told(q, id)'
    BY <1>1, ToldKept
  <2>3. QED
    BY <1>1, <1>2, <1>3, <1>5, <2>1, <2>2, OwnerKept
<1>6. QED
  BY <1>4, <1>5

\* A step that changes no owner, and takes nothing back from the application.
LEMMA QuietOwners ==
  ASSUME ClientInv, NEW id \in Ids, owner' = owner, UNCHANGED appVars,
         server' => server, lib' = "up" => lib = "up",
         \A s : Releases(up', s) => Releases(up, s),
         \A p : Cancels(up', p) => Cancels(up, p),
         server' => \A s : Releases(up, s) => Releases(up', s),
         \A p, s : Grants(down, p, s) => Grants(down', p, s),
         \A p, s : Noted(notes, p, s) => Noted(notes', p, s),
         \A p \in Made : Resource(p) =>
            /\ info'[p].assigned = info[p].assigned /\ info'[p].async = info[p].async
            /\ InCall(caller, p) => InCall(caller', p)
  PROVE  ReleaseInv(id)' /\ KeptInv(id)'
<1>1. PICK q : q = owner[id]
  OBVIOUS
<1>2. /\ ReleaseInv(id) /\ KeptInv(id)
      /\ q # None => q \in Made /\ Resource(q)
  BY <1>1, OwnerIs
<1>3. q # None /\ Told(q, id) => Told(q, id)'
  BY <1>2, ToldKept DEF appVars
<1>4. owner'[id] = q
  BY <1>1
<1>5. q # None => info'[q].assigned = info[q].assigned
  BY <1>2
<1>6. QED
  BY <1>1, <1>2, <1>3, <1>4, <1>5, OwnerKept DEF appVars

\* when a call has its answer,
LEMMA TakeAnswerOwners ==
  ASSUME ClientInv, NEW id \in Ids, NEW c \in Callers, TakeAnswer(c)
  PROVE  ReleaseInv(id)' /\ KeptInv(id)'
<1> USE DEF serverVars
<1>0. TypeOK /\ KindsInv /\ OwnCall
  BY DEF ClientInv, Typed
<1>1. PICK p : p = caller[c].req
  OBVIOUS
<1>2. /\ caller[c] # Idle
      /\ Becomes(p, info[p].assigned, info[p].complete - 1, info[p].confirm, info[p].needConfirm)
      /\ Goes(c, [at |-> "answered", req |-> caller[c].req])
      /\ UNCHANGED <<requests, conn, notes, lib, up, down, serverVars, appVars, unconfirmed>>
  BY <1>0, <1>1, TakeAnswerDoes
<1>3. /\ \A r, a : r # p => (In(caller', a, r) <=> In(caller, a, r))
      /\ In(caller', "answered", p)
  BY <1>0, <1>1, <1>2, CallMoves
<1>4. ASSUME NEW r \in Made
      PROVE  /\ info'[r].assigned = info[r].assigned /\ info'[r].async = info[r].async
             /\ InCall(caller, r) => InCall(caller', r)
  <2>1. r \in Reqs
    BY DEF Made
  <2>2. InCall(caller, r) => InCall(caller', r)
    BY <1>3 DEF InCall
  <2>3. QED
    BY <1>2, <2>1, <2>2 DEF Becomes
<1>5. QED
  BY <1>2, <1>4, QuietOwners

\* when a value was read,
LEMMA ReturnValueOwners ==
  ASSUME ClientInv, NEW id \in Ids, NEW c \in Callers, ReturnValue(c)
  PROVE  ReleaseInv(id)' /\ KeptInv(id)'
<1> USE DEF serverVars
<1>0. TypeOK /\ KindsInv /\ OwnCall
  BY DEF ClientInv, Typed
<1>1. PICK p : p = caller[c].req
  OBVIOUS
<1>2. /\ caller[c] # Idle /\ Value(p)
      /\ Becomes(p, info[p].assigned, info[p].complete - 1, info[p].confirm, info[p].needConfirm)
      /\ Goes(c, Idle)
      /\ UNCHANGED <<requests, conn, notes, lib, up, down, serverVars, appVars, unconfirmed>>
  BY <1>0, <1>1, ReturnValueDoes
<1>3. \A r, a : r # p /\ a # "idle" => (In(caller', a, r) <=> In(caller, a, r))
  BY <1>0, <1>1, <1>2, CallEnds
<1>4. ASSUME NEW r \in Made
      PROVE  /\ info'[r].assigned = info[r].assigned /\ info'[r].async = info[r].async
             /\ InCall(caller, r) => InCall(caller', r)
  <2>1. r \in Reqs
    BY DEF Made
  <2>2. r = p => ~InCall(caller, r)
    BY <1>0, <1>2, ValueNoCall DEF InCall
  <2>3. InCall(caller, r) => InCall(caller', r)
    BY <1>3, <2>2 DEF InCall
  <2>4. QED
    BY <1>2, <2>1, <2>3 DEF Becomes
<1>5. QED
  BY <1>2, <1>4, QuietOwners

\* A new call, whatever it sends.
LEMMA MakesOwners ==
  ASSUME ClientInv, NEW id \in Ids, NEW c \in Callers, caller[c] = Idle,
         NEW kind, NEW async, NEW at \in {"listed", "reads"}, NEW q,
         Makes(q, kind, async), Goes(c, [at |-> at, req |-> q]),
         \A p : Cancels(up', p) <=> Cancels(up, p), \A s : Releases(up', s) <=> Releases(up, s),
         UNCHANGED <<conn, notes, lib, down, serverVars, appVars, unconfirmed>>
  PROVE  ReleaseInv(id)' /\ KeptInv(id)'
<1> USE DEF serverVars
<1>1. TypeOK /\ KindsInv /\ OwnCall /\ q \in Reqs /\ q \notin Made
  BY DEF ClientInv, Typed, Makes
<1>2. \A r, a : r # q /\ a # "idle" => (In(caller', a, r) <=> In(caller, a, r))
  BY <1>1, CallBegins
<1>3. ASSUME NEW r \in Made
      PROVE  /\ info'[r].assigned = info[r].assigned /\ info'[r].async = info[r].async
             /\ InCall(caller, r) => InCall(caller', r)
  <2>1. r \in Reqs /\ r # q
    BY <1>1 DEF Made
  <2>2. InCall(caller, r) => InCall(caller', r)
    BY <1>2, <2>1 DEF InCall
  <2>3. QED
    BY <2>1, <2>2 DEF Makes
<1>4. QED
  BY <1>3, QuietOwners

\* when a request is made,
LEMMA RequestOwners ==
  ASSUME ClientInv, NEW id \in Ids, NEW c \in Callers, NEW async \in BOOLEAN, Request(c, async)
  PROVE  ReleaseInv(id)' /\ KeptInv(id)'
<1>1. TypeOK /\ KindsInv
  BY DEF ClientInv, Typed
<1>2. /\ caller[c] = Idle /\ Makes(NextReq, "resource", async)
      /\ Goes(c, [at |-> "listed", req |-> NextReq]) /\ up' = up
      /\ UNCHANGED <<conn, notes, lib, down, serverVars, appVars, unconfirmed>>
  BY <1>1, RequestDoes
<1>3. /\ \A p : Cancels(up', p) <=> Cancels(up, p)
      /\ \A s : Releases(up', s) <=> Releases(up, s)
  BY <1>2
<1>4. QED
  BY <1>2, <1>3, MakesOwners

\* when a value is asked for,
LEMMA GetValueOwners ==
  ASSUME ClientInv, NEW id \in Ids, NEW c \in Callers, GetValue(c)
  PROVE  ReleaseInv(id)' /\ KeptInv(id)'
<1>1. TypeOK /\ KindsInv /\ OrderInv
  BY DEF ClientInv, Typed
<1>2. /\ caller[c] = Idle /\ Makes(NextReq, "value", FALSE)
      /\ Goes(c, [at |-> "reads", req |-> NextReq]) /\ Sends(Message("T", NextReq, None))
      /\ UNCHANGED <<conn, notes, lib, down, serverVars, appVars, unconfirmed>>
  BY <1>1, GetValueDoes
<1>3. Message("T", NextReq, None).kind = "T"
  BY DEF Message
<1>4. /\ \A p : Cancels(up', p) <=> Cancels(up, p)
      /\ \A s : Releases(up', s) <=> Releases(up, s)
  BY <1>1, <1>2, <1>3, SendsView
<1>5. QED
  BY <1>2, <1>4, MakesOwners

\* when a revocation is read,
LEMMA ReadRevokeOwners ==
  ASSUME ClientInv, NEW id \in Ids, ReadRevoke
  PROVE  ReleaseInv(id)' /\ KeptInv(id)'
<1> USE DEF serverVars
<1>1. TypeOK /\ KindsInv /\ OrderInv
  BY DEF ClientInv, Typed
<1>2. PICK m \in Messages :
        /\ Hears(m, "V") /\ notes \subseteq notes'
        /\ UNCHANGED <<info, requests, caller, conn, lib, up, serverVars, appVars, unconfirmed>>
  BY <1>1, ReadRevokeDoes
<1>3. \A p, s : Grants(down, p, s) => Grants(down', p, s)
  BY <1>1, <1>2, HearsView
<1>4. \A p, s : Noted(notes, p, s) => Noted(notes', p, s)
  BY <1>2 DEF Noted
<1>5. QED
  BY <1>2, <1>3, <1>4, QuietOwners

\* when a value is read from the socket,
LEMMA ReadValueOwners ==
  ASSUME ClientInv, NEW id \in Ids, ReadValue
  PROVE  ReleaseInv(id)' /\ KeptInv(id)'
<1> USE DEF serverVars, tableVars
<1>1. TypeOK /\ KindsInv /\ OrderInv
  BY DEF ClientInv, Typed
<1>2. PICK m \in Messages :
        /\ Hears(m, "T")
        /\ \/ Becomes(m.req, info[m.req].assigned, info[m.req].complete + 1,
                      info[m.req].confirm, info[m.req].needConfirm)
           \/ UNCHANGED tableVars
        /\ UNCHANGED <<caller, conn, notes, lib, up, serverVars, appVars, unconfirmed>>
  BY <1>1, ReadValueDoes
<1>3. \A p, s : Grants(down, p, s) => Grants(down', p, s)
  BY <1>1, <1>2, HearsView
<1>4. \A p \in Made : info'[p].assigned = info[p].assigned /\ info'[p].async = info[p].async
  BY <1>2 DEF Becomes, Made
<1>5. QED
  BY <1>2, <1>3, <1>4, QuietOwners

\* when the reading thread goes on,
LEMMA ConfirmedOwners ==
  ASSUME ClientInv, NEW id \in Ids, Confirmed
  PROVE  ReleaseInv(id)' /\ KeptInv(id)'
<1> USE DEF serverVars
<1>1. TypeOK /\ KindsInv
  BY DEF ClientInv, Typed
<1>2. PICK q : q = conn.req
  OBVIOUS
<1>3. /\ Becomes(q, info[q].assigned, info[q].complete, FALSE, info[q].needConfirm)
      /\ UNCHANGED <<requests, caller, notes, lib, up, down, serverVars, appVars, unconfirmed>>
  BY <1>1, <1>2, ConfirmedDoes
<1>4. \A p \in Made : info'[p].assigned = info[p].assigned /\ info'[p].async = info[p].async
  BY <1>3 DEF Becomes, Made
<1>5. QED
  BY <1>3, <1>4, QuietOwners

\* when the library goes,
LEMMA JoinedOwners ==
  ASSUME ClientInv, NEW id \in Ids, Joined
  PROVE  ReleaseInv(id)' /\ KeptInv(id)'
<1> USE DEF serverVars
<1>1. TypeOK /\ KindsInv
  BY DEF ClientInv, Typed
<1>2. /\ lib' = "notifying"
      /\ \A q \in Reqs : Resource(q) => info'[q] = info[q]
      /\ UNCHANGED <<caller, conn, notes, up, down, serverVars, appVars, unconfirmed>>
  BY <1>1, JoinedDoes
<1>3. QED
  BY <1>2, QuietOwners DEF Made

\* An answer that grants nothing.
LEMMA OtherAnswersOwners ==
  ASSUME ClientInv, NEW id \in Ids, NEW m, Answers(m),
         \A p : Cancels(up', p) <=> Cancels(up, p), \A s : Releases(up', s) <=> Releases(up, s),
         UNCHANGED <<tableVars, caller, notes, lib, server, owner, appVars>>
  PROVE  ReleaseInv(id)' /\ KeptInv(id)'
<1>1. \A p, s : Grants(down, p, s) => Grants(down', p, s)
  BY DEF Answers, Grants
<1>2. QED
  BY <1>1, QuietOwners DEF tableVars

\* when the server asks for a resource back,
LEMMA AskBackOwners ==
  ASSUME ClientInv, NEW id \in Ids, NEW r \in Ids, AskBack(r)
  PROVE  ReleaseInv(id)' /\ KeptInv(id)'
<1>1. TypeOK /\ KindsInv
  BY DEF ClientInv, Typed
<1>2. /\ Answers(Message("V", owner[r], r)) /\ up' = up
      /\ UNCHANGED <<tableVars, caller, notes, lib, server, owner, appVars>>
  BY <1>1, AskBackDoes
<1>3. QED
  BY <1>2, OtherAnswersOwners

\* when it answers with a value,
LEMMA ServeGetValueOwners ==
  ASSUME ClientInv, NEW id \in Ids, ServeGetValue
  PROVE  ReleaseInv(id)' /\ KeptInv(id)'
<1>1. TypeOK /\ KindsInv /\ OrderInv
  BY DEF ClientInv, Typed
<1>2. PICK m \in Messages :
        /\ Takes(m, "T") /\ Answers(Message("T", m.req, None))
        /\ UNCHANGED <<tableVars, caller, notes, lib, server, owner, appVars>>
  BY <1>1, ServeGetValueDoes
<1>3. /\ \A p : Cancels(up', p) <=> Cancels(up, p)
      /\ \A s : Releases(up', s) <=> Releases(up, s)
  BY <1>1, <1>2, TakesView
<1>4. QED
  BY <1>2, <1>3, OtherAnswersOwners

\* and whatever else happens.
LEMMA OthersOwners ==
  ASSUME ClientInv, NEW id \in Ids,
         ConfirmTimeout \/ ConnectionEnds \/ Destroy \/ Destroyed \/ ServerDies \/ UNCHANGED vars
  PROVE  ReleaseInv(id)' /\ KeptInv(id)'
<1>1. /\ UNCHANGED <<info, caller, notes, down, owner>> /\ UNCHANGED appVars
      /\ \/ up' = up /\ server' = server
         \/ up' = <<>> /\ ~server'
      /\ lib' = lib \/ lib' # "up"
  BY DEF ConfirmTimeout, ConnectionEnds, Destroy, Destroyed, ServerDies, vars, tableVars, serverVars
<1>2. /\ \A s : Releases(up', s) => Releases(up, s)
      /\ \A p : Cancels(up', p) => Cancels(up, p)
      /\ server' => server /\ \A s : Releases(up, s) => Releases(up', s)
  <2>1. CASE up' = up /\ server' = server
    BY <2>1
  <2>2. CASE up' = <<>> /\ ~server'
    BY <2>2 DEF Releases, Cancels, ToSet
  <2>3. QED
    BY <1>1, <2>1, <2>2
<1>3. QED
  BY <1>1, <1>2, QuietOwners

\* Every step keeps the invariant of owners.
LEMMA OwnersStep ==
  ASSUME ClientInv, [Next]_vars
  PROVE  OwnersInv'
<1> SUFFICES ASSUME NEW id \in Ids PROVE ReleaseInv(id)' /\ KeptInv(id)'
  BY DEF OwnersInv
<1>1. CASE \E c \in Callers : Calls(c)
  BY <1>1, SendRequestOwners, TakeAnswerOwners, ReturnAnswerOwners, GiveUpOwners, ReturnValueOwners
     DEF Calls
<1>2. CASE \E c \in Callers : GetValue(c) \/ \E async \in BOOLEAN : Request(c, async)
  BY <1>2, GetValueOwners, RequestOwners
<1>3. CASE \E r \in Ids : ReleaseResource(r) \/ AskBack(r)
  BY <1>3, ReleaseOwners, AskBackOwners
<1>4. CASE \E q \in Reqs : RequestCancel(q) \/ \E r \in Ids : GrantPending(q, r)
  BY <1>4, CancelOwners, GrantPendingOwners
<1>5. CASE Connection
  BY <1>5, ReadAnswerOwners, ReadRevokeOwners, ReadValueOwners, ConfirmedOwners, OthersOwners
     DEF Connection
<1>6. CASE \E n \in notes : Notify(n)
  BY <1>6, NotifyOwners
<1>7. CASE Joined
  BY <1>7, JoinedOwners
<1>8. CASE Serve
  BY <1>8, ServeRequestOwners, ServeReleaseOwners, ServeCancelOwners, ServeGetValueOwners DEF Serve
<1>9. CASE Destroy \/ Destroyed \/ ServerDies \/ UNCHANGED vars
  BY <1>9, OthersOwners
<1>10. QED
  BY <1>1, <1>2, <1>3, <1>4, <1>5, <1>6, <1>7, <1>8, <1>9 DEF Next

(***************************************************************************)
(* Requests known by their ids, and revocations.                           *)
(***************************************************************************)

\* A step that takes no request off the list that should be there.
LEMMA IdKept ==
  ASSUME TypeOK', IdValid, KindsKept, lib' = "up" => lib = "up",
         over \subseteq over', givenUp \subseteq givenUp',
         \A q \in Made : lib = "up" /\ Resource(q) /\ Listed(q) /\ q \notin over' \cup givenUp'
                           => q \in ToSet(requests')
  PROVE  IdValid'
<1> SUFFICES ASSUME lib' = "up", NEW q \in Made', info'[q].kind = "resource",
                    q \notin over' \cup givenUp'
             PROVE  q \in ToSet(requests')
  BY DEF IdValid, Listed
<1>1. q \in Made /\ q \in Reqs /\ info'[q] # Unmade
  BY DEF KindsKept, Made
<1>2. info'[q] \in Entries
  BY <1>1 DEF TypeOK, Infos
<1>3. Resource(q) /\ info[q].kind = "resource"
  BY <1>1, <1>2 DEF KindsKept, OfKind, Resource
<1>4. Listed(q)
  BY <1>1, <1>3 DEF IdValid
<1>5. QED
  BY <1>1, <1>3, <1>4

\* A step that notes no revocation, and makes no call for what was noted.
LEMMA RevokeKept ==
  ASSUME RevokeInv, unconfirmed \subseteq unconfirmed',
         \A n \in notes' : n \in notes \/ n.event # "revoked",
         \A n \in notes : InCall(caller', n.req) => InCall(caller, n.req)
  PROVE  RevokeInv'
<1> SUFFICES ASSUME NEW n \in notes', n.event = "revoked", InCall(caller', n.req)
             PROVE  n.req \in unconfirmed'
  BY DEF RevokeInv
<1>1. QED
  BY DEF RevokeInv

\* The table and the calls stay, or a call goes on or ends.
LEMMA CallsShrink ==
  ASSUME TypeOK, OwnCall, NEW c \in Callers, caller[c] # Idle,
         \/ Goes(c, Idle)
         \/ /\ caller[c].at \in {"listed", "waits"}
            /\ \E at \in {"waits", "answered"} : Goes(c, [at |-> at, req |-> caller[c].req])
  PROVE  \A r : InCall(caller', r) => InCall(caller, r)
<1>1. PICK p : p = caller[c].req
  OBVIOUS
<1>2. CASE Goes(c, Idle)
  <2>1. /\ \A r, a : r # p /\ a # "idle" => (In(caller', a, r) <=> In(caller, a, r))
        /\ \A a \in {"listed", "waits", "answered"} : ~In(caller', a, p)
    BY <1>1, <1>2, CallEnds
  <2>2. QED
    BY <2>1 DEF InCall
<1>3. CASE /\ caller[c].at \in {"listed", "waits"}
           /\ \E at \in {"waits", "answered"} : Goes(c, [at |-> at, req |-> caller[c].req])
  <2>1. \A r, a : r # p => (In(caller', a, r) <=> In(caller, a, r))
    BY <1>1, <1>3, CallMoves
  <2>2. InCall(caller, p)
    BY <1>1, <1>3 DEF In, InCall
  <2>3. QED
    BY <2>1, <2>2 DEF InCall
<1>4. QED
  BY <1>2, <1>3

\* A request that could not be sent is taken off the list: its call failed.
LEMMA SendRequestIds ==
  ASSUME ClientInv, TypeOK', NEW c \in Callers, SendRequest(c)
  PROVE  IdValid' /\ RevokeInv'
<1> USE DEF serverVars
<1>1. TypeOK /\ KindsInv /\ OwnCall /\ IdValid /\ RevokeInv
  BY DEF ClientInv, Typed
<1>2. PICK p : p = caller[c].req
  OBVIOUS
<1>3. /\ caller[c].at = "listed" /\ caller[c] # Idle
      /\ \/ Goes(c, [at |-> "waits", req |-> caller[c].req]) /\ UNCHANGED <<requests, givenUp>>
         \/ Goes(c, Idle) /\ Unlists(p) /\ givenUp' = givenUp \cup {p}
      /\ UNCHANGED <<info, conn, notes, lib, down, serverVars, told, over, unconfirmed>>
  BY <1>1, <1>2, SendRequestDoes
<1>4. RevokeInv'
  <2>1. \A r : InCall(caller', r) => InCall(caller, r)
    BY <1>1, <1>3, CallsShrink
  <2>2. QED
    BY <1>1, <1>3, <2>1, RevokeKept
<1>5. KindsKept
  BY <1>3, SameKinds
<1>6. \A r : Listed(r) /\ r \notin givenUp' => r \in ToSet(requests')
  BY <1>3 DEF Unlists, Listed
<1>7. IdValid'
  BY <1>1, <1>3, <1>5, <1>6, IdKept
<1>8. QED
  BY <1>4, <1>7

\* A call's entry changes, and it goes on or ends.
LEMMA CallIds ==
  ASSUME ClientInv, TypeOK', NEW c \in Callers, caller[c] # Idle, KindsKept,
         \/ Goes(c, Idle)
         \/ caller[c].at = "waits" /\ Goes(c, [at |-> "answered", req |-> caller[c].req]),
         givenUp \subseteq givenUp', UNCHANGED <<requests, notes, lib, over, unconfirmed>>
  PROVE  IdValid' /\ RevokeInv'
<1>1. TypeOK /\ OwnCall /\ IdValid /\ RevokeInv
  BY DEF ClientInv, Typed
<1>2. \A r : InCall(caller', r) => InCall(caller, r)
  BY <1>1, CallsShrink
<1>3. \A r : Listed(r) => r \in ToSet(requests')
  BY DEF Listed
<1>4. QED
  BY <1>1, <1>2, <1>3, IdKept, RevokeKept

\* Calls that go on or end take nothing off the list.
LEMMA CallsIds ==
  ASSUME ClientInv, TypeOK', NEW c \in Callers,
         TakeAnswer(c) \/ ReturnAnswer(c) \/ GiveUp(c) \/ ReturnValue(c)
  PROVE  IdValid' /\ RevokeInv'
<1> USE DEF serverVars, appVars, tableVars
<1>1. TypeOK /\ KindsInv
  BY DEF ClientInv, Typed
<1>2. PICK p : p = caller[c].req
  OBVIOUS
<1>3. CASE TakeAnswer(c)
  <2>1. /\ caller[c].at = "waits" /\ caller[c] # Idle /\ Resource(p)
        /\ Becomes(p, info[p].assigned, info[p].complete - 1, info[p].confirm, info[p].needConfirm)
        /\ Goes(c, [at |-> "answered", req |-> caller[c].req])
        /\ UNCHANGED <<requests, notes, lib, appVars, unconfirmed>>
    BY <1>1, <1>2, <1>3, TakeAnswerDoes
  <2>2. KindsKept
    BY <1>1, <2>1, BecomesKinds DEF Resource
  <2>3. QED
    BY <2>1, <2>2, CallIds
<1>4. CASE ReturnAnswer(c)
  <2>1. /\ caller[c] # Idle /\ Resource(p)
        /\ Becomes(p, info[p].assigned, info[p].complete, TRUE, FALSE)
        /\ Goes(c, Idle) /\ UNCHANGED <<requests, notes, lib, over, givenUp, unconfirmed>>
    BY <1>1, <1>2, <1>4, ReturnAnswerDoes
  <2>2. KindsKept
    BY <1>1, <2>1, BecomesKinds DEF Resource
  <2>3. QED
    BY <2>1, <2>2, CallIds
<1>5. CASE GiveUp(c)
  <2>1. /\ caller[c] # Idle /\ Goes(c, Idle) /\ givenUp' = givenUp \cup {p}
        /\ UNCHANGED <<tableVars, notes, lib, over, unconfirmed>>
    BY <1>1, <1>2, <1>5, GiveUpDoes
  <2>2. KindsKept
    BY <2>1, SameKinds
  <2>3. QED
    BY <2>1, <2>2, CallIds
<1>6. CASE ReturnValue(c)
  <2>1. /\ caller[c] # Idle /\ Value(p)
        /\ Becomes(p, info[p].assigned, info[p].complete - 1, info[p].confirm, info[p].needConfirm)
        /\ Goes(c, Idle) /\ UNCHANGED <<requests, notes, lib, appVars, unconfirmed>>
    BY <1>1, <1>2, <1>6, ReturnValueDoes
  <2>2. KindsKept
    BY <1>1, <2>1, BecomesKinds DEF Value
  <2>3. QED
    BY <2>1, <2>2, CallIds
<1>7. QED
  BY <1>3, <1>4, <1>5, <1>6

\* A new request is on the list, and nothing was noted of it.
LEMMA MakesIds ==
  ASSUME ClientInv, NEW c \in Callers, caller[c] = Idle,
         NEW kind \in {"resource", "value"}, NEW async \in BOOLEAN, NEW at \in {"listed", "reads"},
         NEW q, Makes(q, kind, async), Goes(c, [at |-> at, req |-> q]),
         UNCHANGED <<notes, lib, over, givenUp, unconfirmed>>
  PROVE  IdValid' /\ RevokeInv'
<1>1. /\ TypeOK /\ KindsInv /\ OwnCall /\ IdValid /\ RevokeInv
      /\ q \in Reqs /\ q \notin Made /\ Made' = Made \cup {q}
      /\ \A p \in Reqs : p # q => info'[p] = info[p]
      /\ ToSet(requests') = ToSet(requests) \cup {q}
  BY DEF ClientInv, Typed, Makes
<1>2. \A r, a : r # q /\ a # "idle" => (In(caller', a, r) <=> In(caller, a, r))
  BY <1>1, CallBegins
<1>3. \A n \in notes : n.req # q
  BY <1>1 DEF KindsInv, NamesFit
<1>4. \A n \in notes : InCall(caller', n.req) => InCall(caller, n.req)
  BY <1>2, <1>3 DEF InCall
<1>5. RevokeInv'
  BY <1>1, <1>4, RevokeKept
<1>6. ASSUME lib' = "up", NEW p \in Made', info'[p].kind = "resource", p \notin over' \cup givenUp'
      PROVE  p \in ToSet(requests')
  <2>1. CASE p = q
    BY <1>1, <2>1
  <2>2. CASE p # q
    <3>1. p \in Made /\ p \in Reqs /\ info'[p] = info[p]
      BY <1>1, <2>2 DEF Made
    <3>2. Listed(p)
      BY <1>1, <1>6, <3>1 DEF IdValid
    <3>3. QED
      BY <1>1, <3>2 DEF Listed
  <2>3. QED
    BY <2>1, <2>2
<1>7. IdValid'
  BY <1>6 DEF IdValid, Listed
<1>8. QED
  BY <1>5, <1>7

\* A call begins with a new entry.
LEMMA BeginsIds ==
  ASSUME ClientInv, NEW c \in Callers, GetValue(c) \/ \E async \in BOOLEAN : Request(c, async)
  PROVE  IdValid' /\ RevokeInv'
<1> USE DEF appVars
<1>1. TypeOK /\ KindsInv
  BY DEF ClientInv, Typed
<1>2. CASE GetValue(c)
  <2>1. /\ caller[c] = Idle /\ Makes(NextReq, "value", FALSE)
        /\ Goes(c, [at |-> "reads", req |-> NextReq])
        /\ UNCHANGED <<notes, lib, appVars, unconfirmed>>
    BY <1>1, <1>2, GetValueDoes
  <2>2. QED
    BY <2>1, MakesIds
<1>3. ASSUME NEW async \in BOOLEAN, Request(c, async) PROVE IdValid' /\ RevokeInv'
  <2>1. /\ caller[c] = Idle /\ Makes(NextReq, "resource", async)
        /\ Goes(c, [at |-> "listed", req |-> NextReq])
        /\ UNCHANGED <<notes, lib, appVars, unconfirmed>>
    BY <1>1, <1>3, RequestDoes
  <2>2. QED
    BY <2>1, MakesIds
<1>4. QED
  BY <1>2, <1>3

\* The entry that a release takes off the list is that of the request that has the
\* resource, or of one released or cancelled before.
LEMMA ReleaseIds ==
  ASSUME ClientInv, TypeOK', NEW r \in Ids, ReleaseResource(r)
  PROVE  IdValid' /\ RevokeInv'
<1> USE DEF serverVars
<1>0. TypeOK /\ KindsInv /\ RequestsInv /\ IdValid /\ RevokeInv
  BY DEF ClientInv, Typed
<1>1. /\ \E p \in Reqs \ over : told[p] = r
      /\ over' = over \cup {p \in Reqs : told[p] = r}
      /\ \/ requests' = requests
         \/ \E q \in Reqs : Listed(q) /\ info[q].assigned = r /\ Unlists(q)
      /\ UNCHANGED <<info, caller, conn, notes, lib, down, serverVars, told, givenUp, unconfirmed>>
  BY <1>0, ReleaseDoes
<1>2. PICK p \in Reqs \ over : told[p] = r
  BY <1>1
<1>3. owner[r] = p
  BY <1>0, <1>2, ToldOwns
<1>4. ASSUME NEW q \in Made, info[q].assigned = r PROVE q \in over'
  <2>1. q \notin over => owner[r] = q
    BY <1>0, <1>4 DEF RequestsInv, RequestInv, Agreed
  <2>2. QED
    BY <1>1, <1>2, <1>3, <2>1
<1>5. \A q \in Made : Listed(q) /\ q \notin over' => q \in ToSet(requests')
  BY <1>1, <1>4 DEF Unlists, Listed
<1>6. KindsKept
  BY <1>1, SameKinds
<1>7. IdValid'
  BY <1>0, <1>1, <1>5, <1>6, IdKept
<1>8. RevokeInv'
  BY <1>0, <1>1, RevokeKept
<1>9. QED
  BY <1>7, <1>8

\* An answer notes a grant only.
LEMMA ReadAnswerIds ==
  ASSUME ClientInv, TypeOK', ReadAnswer
  PROVE  IdValid' /\ RevokeInv'
<1> USE DEF serverVars, appVars
<1>0. TypeOK /\ KindsInv /\ IdValid /\ RevokeInv
  BY DEF ClientInv, Typed
<1>1. PICK m \in Messages :
        /\ Resource(m.req)
        /\ \/ /\ Becomes(m.req, m.id, info[m.req].complete + 1, info[m.req].confirm,
                         info[m.req].needConfirm)
              /\ notes' = notes \cup
                   IF m.id # None /\ info[m.req].async
                   THEN {[event |-> "granted", req |-> m.req, id |-> m.id]} ELSE {}
           \/ UNCHANGED <<info, notes, conn>>
        /\ UNCHANGED <<requests, caller, lib, up, serverVars, appVars, unconfirmed>>
  BY <1>0, ReadAnswerDoes
<1>2. KindsKept
  BY <1>0, <1>1, BecomesKinds, SameKinds DEF Resource
<1>3. \A n \in notes' : n \in notes \/ n.event # "revoked"
  BY <1>1
<1>4. \A q \in Made : Listed(q) => q \in ToSet(requests')
  BY <1>1 DEF Listed
<1>5. IdValid'
  BY <1>0, <1>1, <1>2, <1>4, IdKept
<1>6. RevokeInv'
  BY <1>0, <1>1, <1>3, RevokeKept
<1>7. QED
  BY <1>5, <1>6

\* The reading thread reads on, so no call has yet to take the answer that named the
\* resource, or it waited too long for that.
LEMMA ReadRevokeIds ==
  ASSUME ClientInv, TypeOK', Zero \notin Ids, ReadRevoke
  PROVE  IdValid' /\ RevokeInv'
<1> USE DEF serverVars, appVars
<1>0. TypeOK /\ KindsInv /\ RequestsInv /\ IdValid /\ RevokeInv
  BY DEF ClientInv, Typed
<1>1. PICK m \in Messages :
        /\ Hears(m, "V") /\ m.id \in Ids
        /\ \/ notes' = notes
           \/ \E q \in Reqs : /\ Listed(q) /\ info[q].assigned = m.id
                              /\ notes' = notes \cup {[event |-> "revoked", req |-> q, id |-> m.id]}
        /\ UNCHANGED <<info, requests, caller, conn, lib, up, serverVars, appVars, unconfirmed>>
  BY <1>0, ReadRevokeDoes
<1>2. conn.at = "reads"
  BY <1>1 DEF Hears
<1>3. ASSUME NEW q \in Reqs, Listed(q), info[q].assigned = m.id, InCall(caller, q)
      PROVE  q \in unconfirmed
  <2>1. q \in Made
    BY <1>0, <1>3 DEF KindsInv, NamesFit, Listed
  <2>2. QED
    BY <1>0, <1>1, <1>2, <1>3, <2>1 DEF RequestsInv, RequestInv, Awaited
<1>4. ASSUME NEW n \in notes', n.event = "revoked", InCall(caller', n.req)
      PROVE  n.req \in unconfirmed'
  <2>1. CASE n \in notes
    BY <1>0, <1>1, <1>4, <2>1 DEF RevokeInv
  <2>2. CASE n \notin notes
    <3>1. PICK q \in Reqs : /\ Listed(q) /\ info[q].assigned = m.id
                            /\ n = [event |-> "revoked", req |-> q, id |-> m.id]
      BY <1>1, <2>2
    <3>2. n.req = q /\ InCall(caller, q)
      BY <1>1, <1>4, <3>1
    <3>3. QED
      BY <1>1, <1>3, <3>1, <3>2
  <2>3. QED
    BY <2>1, <2>2
<1>5. RevokeInv'
  BY <1>4 DEF RevokeInv
<1>6. KindsKept
  BY <1>1, SameKinds
<1>7. \A q \in Made : Listed(q) => q \in ToSet(requests')
  BY <1>1 DEF Listed
<1>8. IdValid'
  BY <1>0, <1>1, <1>6, <1>7, IdKept
<1>9. QED
  BY <1>5, <1>8

\* Only a value's entry goes with its answer.
LEMMA ReadValueIds ==
  ASSUME ClientInv, TypeOK', ReadValue
  PROVE  IdValid' /\ RevokeInv'
<1> USE DEF serverVars, appVars, tableVars
<1>0. TypeOK /\ KindsInv /\ IdValid /\ RevokeInv
  BY DEF ClientInv, Typed
<1>1. PICK m \in Messages :
        /\ Value(m.req)
        /\ \/ /\ Unlists(m.req)
              /\ Becomes(m.req, info[m.req].assigned, info[m.req].complete + 1,
                         info[m.req].confirm, info[m.req].needConfirm)
           \/ UNCHANGED tableVars
        /\ UNCHANGED <<caller, conn, notes, lib, up, serverVars, appVars, unconfirmed>>
  BY <1>0, ReadValueDoes
<1>2. KindsKept
  BY <1>0, <1>1, BecomesKinds, SameKinds DEF Value
<1>3. \A q : Resource(q) => q # m.req
  BY <1>1 DEF Resource, Value, OfKind
<1>4. \A q \in Made : Resource(q) /\ Listed(q) => q \in ToSet(requests')
  BY <1>1, <1>3 DEF Unlists, Listed
<1>5. IdValid'
  BY <1>0, <1>1, <1>2, <1>4, IdKept
<1>6. RevokeInv'
  BY <1>0, <1>1, RevokeKept
<1>7. QED
  BY <1>5, <1>6

\* Whatever else happens takes nothing off the list, or the library goes.
LEMMA QuietIds ==
  ASSUME ClientInv, TypeOK', KindsKept, UNCHANGED caller, notes' \subseteq notes,
         lib' = "up" => lib = "up" /\ requests' = requests,
         over \subseteq over', givenUp \subseteq givenUp', unconfirmed \subseteq unconfirmed'
  PROVE  IdValid' /\ RevokeInv'
<1>1. IdValid /\ RevokeInv
  BY DEF ClientInv
<1>2. CASE lib' = "up"
  <2>1. \A q \in Made : Listed(q) => q \in ToSet(requests')
    BY <1>2 DEF Listed
  <2>2. QED
    BY <1>1, <1>2, <2>1, IdKept, RevokeKept
<1>3. CASE lib' # "up"
  BY <1>1, <1>3, RevokeKept DEF IdValid
<1>4. QED
  BY <1>2, <1>3

\* The list is emptied only when the library goes.
LEMMA JoinedIds ==
  ASSUME ClientInv, TypeOK', Joined \/ Confirmed
  PROVE  IdValid' /\ RevokeInv'
<1> USE DEF appVars
<1>0. TypeOK /\ KindsInv /\ RevokeInv
  BY DEF ClientInv, Typed
<1>1. CASE Joined
  <2>1. lib' = "notifying" /\ UNCHANGED <<caller, notes, appVars, unconfirmed>>
    BY <1>0, <1>1, JoinedDoes
  <2>2. QED
    BY <1>0, <2>1, RevokeKept DEF IdValid
<1>2. CASE Confirmed
  <2>1. PICK q : q = conn.req
    OBVIOUS
  <2>2. /\ Resource(q)
        /\ Becomes(q, info[q].assigned, info[q].complete, FALSE, info[q].needConfirm)
        /\ UNCHANGED <<requests, caller, notes, lib, appVars, unconfirmed>>
    BY <1>0, <1>2, <2>1, ConfirmedDoes
  <2>3. KindsKept
    BY <1>0, <2>2, BecomesKinds DEF Resource
  <2>4. QED
    BY <2>2, <2>3, QuietIds
<1>3. QED
  BY <1>1, <1>2

\* Messages and callbacks take nothing off the list.
LEMMA OthersIds ==
  ASSUME ClientInv, TypeOK',
         \/ \E q \in Reqs : RequestCancel(q) \/ \E id \in Ids : GrantPending(q, id)
         \/ \E id \in Ids : AskBack(id)
         \/ ConfirmTimeout \/ ConnectionEnds \/ Destroy \/ Destroyed \/ Serve \/ ServerDies
         \/ \E n \in notes : Notify(n)
         \/ UNCHANGED vars
  PROVE  IdValid' /\ RevokeInv'
<1> USE DEF appVars, tableVars
<1>1. /\ UNCHANGED <<info, requests, caller>> /\ notes' \subseteq notes
      /\ lib' = "up" => lib = "up"
      /\ over \subseteq over' /\ givenUp \subseteq givenUp' /\ unconfirmed \subseteq unconfirmed'
  BY DEF RequestCancel, GrantPending, AskBack, ConfirmTimeout, ConnectionEnds, Destroy, Destroyed,
         Serve, ServeRequest, ServeRelease, ServeCancel, ServeGetValue, ServerDies, Notify, vars
<1>2. KindsKept
  BY <1>1, SameKinds
<1>3. QED
  BY <1>1, <1>2, QuietIds

\* Every step keeps requests known, and revocations from calls that last.
LEMMA IdsStep ==
  ASSUME ClientInv, TypeOK', Zero \notin Ids, [Next]_vars
  PROVE  IdValid' /\ RevokeInv'
<1>1. CASE \E c \in Callers : Calls(c) \/ GetValue(c) \/ \E async \in BOOLEAN : Request(c, async)
  BY <1>1, SendRequestIds, CallsIds, BeginsIds DEF Calls
<1>2. CASE \E id \in Ids : ReleaseResource(id)
  BY <1>2, ReleaseIds
<1>3. CASE ReadAnswer \/ ReadRevoke \/ ReadValue \/ Confirmed \/ Joined
  BY <1>3, ReadAnswerIds, ReadRevokeIds, ReadValueIds, JoinedIds
<1>4. CASE \/ \E q \in Reqs : RequestCancel(q) \/ \E id \in Ids : GrantPending(q, id)
           \/ \E id \in Ids : AskBack(id)
           \/ ConfirmTimeout \/ ConnectionEnds \/ Destroy \/ Destroyed \/ Serve \/ ServerDies
           \/ \E n \in notes : Notify(n)
           \/ UNCHANGED vars
  BY <1>4, OthersIds
<1>5. QED
  BY <1>1, <1>2, <1>3, <1>4 DEF Next, Connection

(***************************************************************************)
(* The theorems.                                                           *)
(***************************************************************************)

\* Nothing was asked at first.
LEMMA InitHolds ==
  ASSUME Init
  PROVE  ClientInv
<1> USE DEF Init
<1>1. /\ Idle \in CallerStates /\ Idle.at = "idle" /\ None \notin Reqs /\ None \notin Ids
      /\ Unmade \in Infos
  BY ClientAssumption DEF Idle, CallerStates, Infos, Reqs
<1>2. ToSet(requests) = {} /\ ToSet(up) = {} /\ ToSet(down) = {} /\ Made = {}
  BY DEF ToSet, Made
<1>3. TypeOK
  <2>1. requests \in Seq(Reqs) /\ IsInjective(requests)
    BY DEF IsInjective
  <2>2. QED
    BY <1>1, <2>1 DEF TypeOK
<1>4. KindsInv
  <2>1. CallersFit /\ MessagesFit /\ ServerFits
    BY <1>1, <1>2 DEF CallersFit, Busy, MessagesFit, ServerFits
  <2>2. NamesFit /\ AppFits
    BY <1>2 DEF NamesFit, AppFits
  <2>3. TableFits
    <3>1. \A q \in Reqs : info[q] \notin Entries
      BY <1>2, <1>3, MadeEntry
    <3>2. Made = 1..0 /\ 0 \in 0..MaxRequests
      BY <1>2, ClientAssumption
    <3>3. QED
      BY <3>1, <3>2 DEF TableFits, Value, OfKind
  <2>4. QED
    BY <2>1, <2>2, <2>3 DEF KindsInv
<1>5. OwnCall /\ OrderInv
  BY <1>2 DEF OwnCall, OrderInv, Apart
<1>6. RequestsInv /\ IdValid /\ RevokeInv
  BY <1>2 DEF RequestsInv, IdValid, RevokeInv
<1>7. OwnersInv
  BY <1>2 DEF OwnersInv, ReleaseInv, KeptInv, Releases
<1>8. QED
  BY <1>3, <1>4, <1>5, <1>6, <1>7 DEF ClientInv, Typed

\* The table, the calls and what is on the socket keep their types, whatever resources
\* there are.
THEOREM TypeCorrect == Spec => []TypeOK
<1>1. Init => TypeOK /\ KindsInv
  BY InitHolds DEF ClientInv, Typed
<1>2. TypeOK /\ KindsInv /\ [Next]_vars => (TypeOK /\ KindsInv)'
  BY TypeStep, KindsStep
<1>3. QED
  BY <1>1, <1>2, PTL DEF Spec

\* The invariant holds of resources that a new entry does not name: calloc leaves 0 in
\* assignedId, so for resource 0 the release of one request may take another's entry.
THEOREM Invariant == Zero \notin Ids => (Spec => []ClientInv)
<1> SUFFICES ASSUME Zero \notin Ids PROVE Spec => []ClientInv
  OBVIOUS
<1>1. Init => ClientInv
  BY InitHolds
<1>2. ClientInv /\ [Next]_vars => ClientInv'
  <2> SUFFICES ASSUME ClientInv, [Next]_vars PROVE ClientInv'
    OBVIOUS
  <2>1. Typed' /\ TypeOK'
    BY TypeStep, KindsStep DEF ClientInv, Typed
  <2>2. OwnCall' /\ OrderInv' /\ RequestsInv'
    BY RequestsStep DEF ClientInv, Typed
  <2>3. OwnersInv'
    BY OwnersStep
  <2>4. IdValid' /\ RevokeInv'
    BY <2>1, IdsStep
  <2>5. QED
    BY <2>1, <2>2, <2>3, <2>4 DEF ClientInv
<1>3. QED
  BY <1>1, <1>2, PTL DEF Spec

\* A request is known by the id that EssRMgrRequestResource returned until the
\* application releases its resource or cancels it.
THEOREM RequestStaysKnown == Zero \notin Ids => (Spec => []IdValid)
<1>1. ClientInv => IdValid
  BY DEF ClientInv
<1>2. QED
  BY <1>1, Invariant, PTL

\* The callback of a revocation is not started while the call that got the resource has
\* yet to take its answer, unless the reading thread waited too long for that.
THEOREM AnswerBeforeRevocation == Zero \notin Ids => (Spec => []RevokedAfterAnswer)
<1>1. ASSUME ClientInv PROVE RevokedAfterAnswer
  <2> SUFFICES ASSUME NEW n \in notes, n.event = "revoked", NEW c \in Callers,
                      caller[c].at \in {"listed", "waits", "answered"}, caller[c].req = n.req
               PROVE  n.req \in unconfirmed
    BY DEF RevokedAfterAnswer
  <2>1. InCall(caller, n.req)
    BY DEF InCall, In
  <2>2. QED
    BY <1>1, <2>1 DEF ClientInv, RevokeInv
<1>2. QED
  BY <1>1, Invariant, PTL

\* What the server believes this client owns, the application was told of or will be,
\* or its release is on its way.
THEOREM GrantIsNotForgotten == Zero \notin Ids => (Spec => []NotForgotten)
<1>1. ASSUME ClientInv PROVE NotForgotten
  <2> SUFFICES ASSUME server, lib = "up", NEW id \in Ids, NEW q, q = owner[id], q # None, q \notin givenUp
               PROVE  \/ told[q] = id /\ q \notin over
                      \/ OnItsWay(q, id)
                      \/ \E k \in DOMAIN up : up[k].kind = "L" /\ up[k].id = id
    BY DEF NotForgotten
  <2>1. /\ TypeOK /\ KeptInv(id)
        /\ up \in Seq(Messages) /\ down \in Seq(Messages)
    BY <1>1 DEF ClientInv, Typed, OwnersInv, TypeOK
  <2>2. CASE Grants(down, q, id)
    <3>1. PICK k \in DOMAIN down : down[k].kind = "R" /\ down[k].req = q /\ down[k].id = id
      BY <2>1, <2>2 DEF Grants, ToSet
    <3>2. down[k] \in Messages
      BY <2>1
    <3>3. down[k] = Message("R", q, id)
      BY <3>1, <3>2 DEF Messages, Message
    <3>4. QED
      BY <3>3 DEF OnItsWay
  <2>3. CASE q \in over /\ Releases(up, id)
    BY <2>1, <2>3 DEF Releases, ToSet
  <2>4. CASE q \notin over /\ Told(q, id)
    <3>1. InCall(caller, q) => \E c \in Callers : caller[c] # Idle /\ caller[c].req = q
      <4>1. \A c \in Callers : caller[c].at \in {"listed", "waits", "answered"} => caller[c] # Idle
        BY DEF Idle
      <4>2. QED
        BY <4>1 DEF InCall, In
    <3>2. QED
      BY <2>4, <3>1 DEF Told, Noted, OnItsWay
  <2>5. QED
    BY <2>1, <2>2, <2>3, <2>4 DEF KeptInv
<1>2. QED
  BY <1>1, Invariant, PTL

=============================================================================
