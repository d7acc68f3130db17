-------------------------- MODULE ErmServerProofs --------------------------
(***************************************************************************)
(* What the server guarantees whatever the number of connections and       *)
(* resources, the configuration and the order of messages: its state is    *)
(* well typed, no two clients hold a resource at once, a free resource is  *)
(* idle, the pending lists are ordered, no request waits for a resource it *)
(* could have, and a request is in one place.                              *)
(***************************************************************************)
EXTENDS ErmServer, ErmLemmas

(***************************************************************************)
(* Types.                                                                  *)
(***************************************************************************)

\* A resource of a type is a resource.
LEMMA ItemsAreItems ==
  ASSUME NEW t \in Types, NEW r \in ToSet(ItemsOf[t])
  PROVE  r \in Items
BY ServerAssumption DEF ToSet

\* The resources the cleanup goes through are resources.
LEMMA AllItemsAreItems ==
  ASSUME NEW n \in 1..Len(AllItems)
  PROVE  AllItems[n] \in Items
BY ServerAssumption DEF ToSet

\* The length of the table is a number.
LEMMA AllItemsLength == Len(AllItems) \in Nat
<1>1. \A t \in Types : ItemsOf[t] \in Seq(Items)
  BY ServerAssumption
<1>2. /\ "videoDecoder" \in Types /\ "audioDecoder" \in Types
      /\ "frontEnd" \in Types /\ "svpAllocator" \in Types
  BY DEF Types, TypeOrder, ToSet
<1>3. AllItems \in Seq(Items)
  BY <1>1, <1>2 DEF AllItems
<1>4. QED
  BY <1>3

\* Two sequences one after the other hold what each of them holds.
LEMMA ToSetConcat ==
  ASSUME NEW S, NEW a \in Seq(S), NEW b \in Seq(S)
  PROVE  a \o b \in Seq(S) /\ ToSet(a \o b) = ToSet(a) \cup ToSet(b)
<1>1. /\ a \o b \in Seq(S)
      /\ Len(a) \in Nat /\ Len(b) \in Nat
      /\ Len(a \o b) = Len(a) + Len(b)
      /\ \A i \in 1..Len(a) + Len(b) :
           (a \o b)[i] = IF i <= Len(a) THEN a[i] ELSE b[i - Len(a)]
  OBVIOUS
<1>2. ASSUME NEW x \in ToSet(a \o b) PROVE x \in ToSet(a) \cup ToSet(b)
  BY <1>1 DEF ToSet
<1>3. ASSUME NEW x \in ToSet(a) PROVE x \in ToSet(a \o b)
  <2>1. PICK i \in 1..Len(a) : x = a[i]
    BY DEF ToSet
  <2>2. i \in 1..Len(a \o b) /\ (a \o b)[i] = x
    BY <1>1, <2>1
  <2>3. QED
    BY <2>2 DEF ToSet
<1>4. ASSUME NEW x \in ToSet(b) PROVE x \in ToSet(a \o b)
  <2>1. PICK i \in 1..Len(b) : x = b[i]
    BY DEF ToSet
  <2>2. Len(a) + i \in 1..Len(a \o b) /\ (a \o b)[Len(a) + i] = x
    BY <1>1, <2>1
  <2>3. QED
    BY <2>2 DEF ToSet
<1>5. QED
  BY <1>1, <1>2, <1>3, <1>4

\* Every resource has a type, in whose part of the table it is.
LEMMA TypeOfItem ==
  ASSUME NEW r \in Items
  PROVE  TypeOf(r) \in Types /\ r \in ToSet(ItemsOf[TypeOf(r)])
<1>1. /\ "videoDecoder" \in Types /\ "audioDecoder" \in Types
      /\ "frontEnd" \in Types /\ "svpAllocator" \in Types
  BY DEF Types, TypeOrder, ToSet
<1> DEFINE a == ItemsOf["videoDecoder"]
           b == ItemsOf["audioDecoder"]
           f == ItemsOf["frontEnd"]
           g == ItemsOf["svpAllocator"]
<1>2. a \in Seq(Items) /\ b \in Seq(Items) /\ f \in Seq(Items) /\ g \in Seq(Items)
  BY <1>1, ServerAssumption
<1>3. ToSet(a) \cup ToSet(b) \cup ToSet(f) \cup ToSet(g) = Items
  <2> DEFINE ab  == a \o b
             abf == ab \o f
  <2>1. AllItems = abf \o g
    BY DEF AllItems
  <2> HIDE DEF a, b, f, g
  <2>2. ab \in Seq(Items) /\ ToSet(ab) = ToSet(a) \cup ToSet(b)
    BY <1>2, ToSetConcat
  <2> HIDE DEF ab
  <2>3. abf \in Seq(Items) /\ ToSet(abf) = ToSet(ab) \cup ToSet(f)
    BY <1>2, <2>2, ToSetConcat
  <2> HIDE DEF abf
  <2>4. ToSet(abf \o g) = ToSet(abf) \cup ToSet(g)
    BY <1>2, <2>3, ToSetConcat
  <2>5. QED
    BY <2>1, <2>2, <2>3, <2>4, ServerAssumption
<1>4. \E t \in Types : r \in ToSet(ItemsOf[t])
  BY <1>1, <1>3
<1>5. QED
  BY <1>4 DEF TypeOf

\* What a request consists of, and that its type is one.
LEMMA RequestParts ==
  ASSUME NEW q \in Requests
  PROVE  /\ q.conn \in Conns
         /\ q.type \in RequestTypes
         /\ q.type \in Types
         /\ q.priority \in Priorities
<1>1. /\ q.conn \in Conns
      /\ q.type \in RequestTypes
      /\ q.priority \in Priorities
  BY DEF Requests
<1>2. QED
  BY <1>1 DEF RequestTypes

\* What a thread that is in the middle of something knows.
LEMMA ThreadParts ==
  ASSUME NEW x \in Threads
  PROVE  /\ x.step = "revoke" => x.op \in Ops /\ x.req \in Requests /\ x.item \in Items
         /\ x.step = "write" => x.item \in Items /\ x.state \in ResStates
         /\ x.step = "check" => x.at \in 1..Len(AllItems) + 1
         /\ x.step = "clear" => x.at \in 1..Len(AllItems)
<1>1. CASE x = Idle \/ x = Exited
  BY <1>1 DEF Idle, Exited
<1>2. CASE x \in [step : {"revoke"}, op : Ops, req : Requests, item : Items]
  BY <1>2
<1>3. CASE x \in [step : {"write"}, item : Items, state : ResStates]
  BY <1>3
<1>4. CASE x \in [step : {"check"}, at : 1..Len(AllItems) + 1]
  BY <1>4
<1>5. CASE x \in [step : {"clear"}, at : 1..Len(AllItems)]
  BY <1>5
<1>6. QED
  BY <1>1, <1>2, <1>3, <1>4, <1>5 DEF Threads

\* A waiting request is a request, also after its priority or usage changed.
LEMMA WaitingIsRequest ==
  ASSUME TypeOK, NEW r \in Items, NEW k \in 1..Len(pending[r])
  PROVE  /\ pending[r][k] \in Requests
         /\ \A p \in Priorities : [pending[r][k] EXCEPT !.priority = p] \in Requests
         /\ \A u \in Usages : [pending[r][k] EXCEPT !.usage = u] \in Requests
<1>1. pending[r] \in Seq(Requests)
  BY DEF TypeOK
<1>2. pending[r][k] \in Requests
  BY <1>1
<1>3. QED
  BY <1>2 DEF Requests, ServerUsages

\* Changing one field of an owner's record leaves an owner, and the others alone.
LEMMA OwnerFields ==
  ASSUME NEW C, NEW I, NEW P, NEW U, NEW S,
         NEW o \in [connOwner : C, requestIdOwner : I, priorityOwner : P,
                    usageOwner : U, state : S]
  PROVE  /\ \A p \in P : LET v == [o EXCEPT !.priorityOwner = p] IN
              /\ v \in [connOwner : C, requestIdOwner : I, priorityOwner : P,
                        usageOwner : U, state : S]
              /\ v.connOwner = o.connOwner
         /\ \A u \in U : LET v == [o EXCEPT !.usageOwner = u] IN
              /\ v \in [connOwner : C, requestIdOwner : I, priorityOwner : P,
                        usageOwner : U, state : S]
              /\ v.connOwner = o.connOwner
         /\ \A t \in S : LET v == [o EXCEPT !.state = t] IN
              /\ v \in [connOwner : C, requestIdOwner : I, priorityOwner : P,
                        usageOwner : U, state : S]
              /\ v.connOwner = o.connOwner
  OBVIOUS

\* Updates of one field of an owner keep its other fields.
LEMMA OwnerUpdates ==
  ASSUME NEW o \in Owner
  PROVE  /\ \A p \in Priorities : /\ [o EXCEPT !.priorityOwner = p] \in Owner
                                  /\ [o EXCEPT !.priorityOwner = p].connOwner = o.connOwner
         /\ \A u \in Usages : /\ [o EXCEPT !.usageOwner = u.bits] \in Owner
                              /\ [o EXCEPT !.usageOwner = u.bits].connOwner = o.connOwner
         /\ \A t \in ResStates : /\ [o EXCEPT !.state = t] \in Owner
                                 /\ [o EXCEPT !.state = t].connOwner = o.connOwner
<1> DEFINE C == Conns \cup {Nobody}
           I == RequestIds \cup {0}
           P == Priorities \cup {0}
           U == {u.bits : u \in ServerUsages} \cup {{}}
<1>1. Owner = [connOwner : C, requestIdOwner : I, priorityOwner : P,
               usageOwner : U, state : ResStates]
  BY DEF Owner
<1>2. \A u \in Usages : u.bits \in U
  BY DEF ServerUsages
<1>3. Priorities \subseteq P
  OBVIOUS
<1> HIDE DEF C, I, P, U
<1>4. QED
  BY <1>1, <1>2, <1>3, OwnerFields

\* essRMAssignResource yields a resource with a well-typed owner.
LEMMA AssignedType ==
  ASSUME TypeOK, NEW r \in Items, NEW q \in Requests
  PROVE  /\ Assigned(r, q) \in Owner
         /\ Assigned(r, q).connOwner = q.conn
         /\ [Assigned(r, q) EXCEPT !.state = idle] \in Owner
         /\ [Assigned(r, q) EXCEPT !.state = idle].connOwner = q.conn
<1>1. res[r].state \in ResStates
  BY DEF TypeOK, Owner
<1>2. QED
  BY <1>1, ServerAssumption DEF Assigned, Owner, Requests

\* The state of a free resource.
LEMMA UnownedType == Unowned \in Owner /\ Unowned.connOwner = Nobody
BY ServerAssumption DEF Unowned, Owner

\* The state an assignment of a resource touches stays well typed.
LEMMA TakeOverType ==
  ASSUME TypeOK, NEW r \in Items, NEW q \in Requests, NEW tell \in BOOLEAN,
         TakeOver(r, q, tell)
  PROVE  /\ res' \in [Items -> Owner]
         /\ told' \in [Items -> SUBSET Conns]
         /\ revoked' \subseteq Items
         /\ scarred' \subseteq Items
<1>1. q.conn \in Conns
  BY DEF Requests
<1>2. QED
  BY <1>1, AssignedType DEF TypeOK, TakeOver

\* So does what a preemption touches.
LEMMA PreemptType ==
  ASSUME TypeOK, NEW c \in Conns, NEW op \in Ops, NEW q \in Requests, NEW r \in Items,
         NEW free \in [Types -> Nat],
         Preempt(c, op, q, r, free)
  PROVE  /\ res' \in [Items -> Owner]
         /\ told' \in [Items -> SUBSET Conns]
         /\ revoked' \subseteq Items
         /\ scarred' \subseteq Items
         /\ thr' \in [Conns -> Threads]
         /\ pool' \in [Types -> Nat]
<1>1. PICK sent : IF sent
                  THEN /\ thr' = [thr EXCEPT ![c] = Revoke(op, q, r)]
                       /\ revoked' = revoked \cup {r}
                       /\ pool' = free
                       /\ UNCHANGED <<res, told, scarred>>
                  ELSE /\ TakeOver(r, q, op # "usage")
                       /\ pool' = Recycled(op, q, free)
                       /\ UNCHANGED thr
  BY DEF Preempt
<1>2. CASE sent
  <2>1. Revoke(op, q, r) \in Threads
    BY DEF Revoke, Threads
  <2>2. QED
    BY <1>1, <1>2, <2>1 DEF TypeOK
<1>3. CASE ~sent
  <2>1. Recycled(op, q, free) \in [Types -> Nat]
    BY RequestParts DEF Recycled
  <2>2. QED
    BY <1>1, <1>3, <2>1, TakeOverType DEF TypeOK
<1>4. QED
  BY <1>2, <1>3

\* A request leaves everything it touches well typed, starting from any
\* well-typed pending lists and pool.
LEMMA RequestType ==
  ASSUME TypeOK, NEW c \in Conns, NEW op \in Ops, NEW q \in Requests,
         NEW list \in [Items -> Seq(Requests)], NEW free \in [Types -> Nat],
         RequestResource(c, op, q, list, free)
  PROVE  /\ res' \in [Items -> Owner]
         /\ told' \in [Items -> SUBSET Conns]
         /\ revoked' \subseteq Items
         /\ scarred' \subseteq Items
         /\ thr' \in [Conns -> Threads]
         /\ pool' \in [Types -> Nat]
         /\ pending' \in [Items -> Seq(Requests)]
<1> DEFINE found == Decide(q)
<1>1. CASE \E r \in Items :
           /\ r = found.suitable
           /\ IF res[r].connOwner = Nobody
              THEN /\ TakeOver(r, q, op # "usage")
                   /\ pool' = free
                   /\ UNCHANGED thr
              ELSE Preempt(c, op, q, r, free)
           /\ pending' = list
  <2> HIDE DEF found
  <2>1. PICK r \in Items :
           /\ IF res[r].connOwner = Nobody
              THEN /\ TakeOver(r, q, op # "usage")
                   /\ pool' = free
                   /\ UNCHANGED thr
              ELSE Preempt(c, op, q, r, free)
           /\ pending' = list
    BY <1>1
  <2>2. CASE res[r].connOwner = Nobody
    BY <2>1, <2>2, TakeOverType DEF TypeOK
  <2>3. CASE res[r].connOwner # Nobody
    BY <2>1, <2>3, PreemptType
  <2>4. QED
    BY <2>2, <2>3
<1>2. CASE \E r \in Items :
           /\ found.suitable = Nobody
           /\ ~(found.pending = Nobody \/ ~q.asyncEnable \/ free[q.type] = 0)
           /\ r = found.pending
           /\ pending' = [list EXCEPT ![r] = InsertByPriority(@, q)]
           /\ pool' = [free EXCEPT ![q.type] = @ - 1]
           /\ UNCHANGED <<res, thr, told, revoked, scarred>>
  <2> HIDE DEF found
  <2>1. PICK r \in Items :
           /\ free[q.type] # 0
           /\ pending' = [list EXCEPT ![r] = InsertByPriority(@, q)]
           /\ pool' = [free EXCEPT ![q.type] = @ - 1]
           /\ UNCHANGED <<res, thr, told, revoked, scarred>>
    BY <1>2
  <2>2. InsertByPriority(list[r], q) \in Seq(Requests)
    BY InsertType
  <2>3. pending' \in [Items -> Seq(Requests)]
    BY <2>1, <2>2
  <2>4. pool' \in [Types -> Nat]
    BY <2>1, RequestParts
  <2>5. QED
    BY <2>1, <2>3, <2>4 DEF TypeOK
<1>3. CASE /\ pending' = list
           /\ pool' = free
           /\ UNCHANGED <<res, thr, told, revoked, scarred>>
  BY <1>3 DEF TypeOK
<1>4. QED
  <2> HIDE DEF found
  <2>1. found = Decide(q)
    BY DEF found
  <2>2. QED
    BY <1>1, <1>2, <1>3, <2>1 DEF RequestResource

\* A release leaves everything it touches well typed.
LEMMA ReleaseType ==
  ASSUME TypeOK, NEW c \in Conns, NEW r \in Items, ReleaseResource(c, r)
  PROVE  /\ res' \in [Items -> Owner]
         /\ told' \in [Items -> SUBSET Conns]
         /\ revoked' \subseteq Items
         /\ pool' \in [Types -> Nat]
         /\ pending' \in [Items -> Seq(Requests)]
<1>1. CASE pending[r] = <<>>
  <2>1. /\ res' = [res EXCEPT ![r] = Unowned]
        /\ told' = [told EXCEPT ![r] = @ \ {c}]
        /\ revoked' = revoked \ {r}
        /\ UNCHANGED <<pending, pool>>
    BY <1>1 DEF ReleaseResource
  <2>2. QED
    BY <2>1, UnownedType DEF TypeOK
<1>2. CASE pending[r] # <<>>
  <2> DEFINE q == Head(pending[r])
  <2>1. pending[r] \in Seq(Requests)
    BY DEF TypeOK
  <2>2. q \in Requests /\ Tail(pending[r]) \in Seq(Requests)
    BY <1>2, <2>1
  <2>3. q.conn \in Conns
    BY <2>2 DEF Requests
  <2> HIDE DEF q
  <2>4. [Assigned(r, q) EXCEPT !.state = idle] \in Owner
    BY <2>2, AssignedType
  <2>5. /\ res' = [res EXCEPT ![r] = [Assigned(r, q) EXCEPT !.state = idle]]
        /\ pending' = [pending EXCEPT ![r] = Tail(@)]
        /\ pool' = [pool EXCEPT ![TypeOf(r)] = @ + 1]
        /\ told' = [told EXCEPT ![r] = (@ \ {c}) \cup {q.conn}]
        /\ revoked' = revoked \ {r}
    BY <1>2 DEF ReleaseResource, q
  <2>6. pool' \in [Types -> Nat]
    BY <2>5, TypeOfItem DEF TypeOK
  <2>7. pending' \in [Items -> Seq(Requests)]
    BY <2>2, <2>5 DEF TypeOK
  <2>8. QED
    BY <2>3, <2>4, <2>5, <2>6, <2>7 DEF TypeOK
<1>3. QED
  BY <1>1, <1>2

\* A priority change of a pending request leaves everything well typed.
LEMMA SetPendingPriorityType ==
  ASSUME TypeOK, NEW c \in Conns, NEW r \in Items, NEW k \in 1..Len(pending[r]),
         NEW p \in Priorities, SetPendingPriority(c, r, k, p)
  PROVE  /\ res' \in [Items -> Owner]
         /\ told' \in [Items -> SUBSET Conns]
         /\ revoked' \subseteq Items
         /\ scarred' \subseteq Items
         /\ thr' \in [Conns -> Threads]
         /\ pool' \in [Types -> Nat]
         /\ pending' \in [Items -> Seq(Requests)]
<1> DEFINE q == [pending[r][k] EXCEPT !.priority = p]
           rest == RemovePendingAt(pending[r], k)
<1>1. q \in Requests
  BY WaitingIsRequest
<1>2. rest \in Seq(Requests)
  BY RemoveType DEF TypeOK
<1>3. InsertByPriority(rest, q) \in Seq(Requests)
  <2> HIDE DEF q, rest
  <2>1. QED
    BY <1>1, <1>2, InsertType
<1>4. \/ /\ pending' = [pending EXCEPT ![r] = InsertByPriority(rest, q)]
         /\ UNCHANGED <<res, pool, thr, told, revoked, scarred>>
      \/ /\ pending' = [pending EXCEPT ![r] = rest]
         /\ revoked' = revoked \cup {r} \/ revoked' = revoked
         /\ UNCHANGED <<res, pool, thr, told, scarred>>
      \/ /\ pending' = [pending EXCEPT ![r] = rest]
         /\ Preempt(c, "priority", q, r, pool)
  BY DEF SetPendingPriority
<1> HIDE DEF q, rest
<1>5. "priority" \in Ops /\ pool \in [Types -> Nat]
  BY DEF Ops, TypeOK
<1>6. pending' \in [Items -> Seq(Requests)]
  BY <1>2, <1>3, <1>4 DEF TypeOK
<1>7. CASE Preempt(c, "priority", q, r, pool)
  BY <1>1, <1>5, <1>6, <1>7, PreemptType
<1>8. QED
  BY <1>4, <1>6, <1>7 DEF TypeOK

\* No step leaves the types.
LEMMA TypeStep == TypeOK /\ [Next]_vars => TypeOK'
<1> SUFFICES ASSUME TypeOK, [Next]_vars PROVE TypeOK'
  OBVIOUS
<1>1. CASE UNCHANGED vars
  BY <1>1 DEF vars, TypeOK
<1>2. ASSUME NEW c \in Conns, PeerClose(c) PROVE TypeOK'
  BY <1>2 DEF PeerClose, TypeOK
<1>3. ASSUME NEW c \in Conns, EndOfFile(c) PROVE TypeOK'
  <2>1. Check(1) \in Threads
    BY AllItemsLength DEF Check, Threads
  <2>2. QED
    BY <1>3, <2>1 DEF EndOfFile, TypeOK
<1>4. ASSUME NEW c \in Conns, NEW q \in Requests, HandleRequest(c, q) PROVE TypeOK'
  <2>1. made' \in [Conns -> 0..MaxRequests]
    BY <1>4, ServerAssumption DEF HandleRequest, TypeOK, Requests, RequestIds
  <2>2. CASE AppOf[c] \in blackList
    BY <1>4, <2>1, <2>2 DEF HandleRequest, TypeOK
  <2>3. CASE AppOf[c] \notin blackList
    <3>1. RequestResource(c, "request", q, pending, pool)
      BY <1>4, <2>3 DEF HandleRequest
    <3>2. /\ "request" \in Ops
          /\ pending \in [Items -> Seq(Requests)]
          /\ pool \in [Types -> Nat]
      BY DEF Ops, TypeOK
    <3>3. /\ res' \in [Items -> Owner]
          /\ told' \in [Items -> SUBSET Conns]
          /\ revoked' \subseteq Items
          /\ scarred' \subseteq Items
          /\ thr' \in [Conns -> Threads]
          /\ pool' \in [Types -> Nat]
          /\ pending' \in [Items -> Seq(Requests)]
      BY <3>1, <3>2, RequestType
    <3>4. made' \in [Conns -> 0..MaxRequests] /\ UNCHANGED <<blackList, peer>>
      BY <1>4, <2>1 DEF HandleRequest, TypeOK
    <3>5. QED
      BY <3>3, <3>4 DEF TypeOK
  <2>4. QED
    BY <2>2, <2>3
<1>5. ASSUME NEW c \in Conns, NEW r \in Items, HandleRelease(c, r) PROVE TypeOK'
  <2>1. CASE res[r].connOwner = c
    <3>1. ReleaseResource(c, r) /\ UNCHANGED <<blackList, peer, thr, made, scarred>>
      BY <1>5, <2>1 DEF HandleRelease
    <3>2. QED
      BY <3>1, ReleaseType DEF TypeOK
  <2>2. CASE res[r].connOwner # c
    <3>1. /\ told' = [told EXCEPT ![r] = @ \ {c}]
          /\ UNCHANGED <<res, pending, pool, revoked, blackList, peer, thr, made, scarred>>
      BY <1>5, <2>2 DEF HandleRelease
    <3>2. QED
      BY <3>1 DEF TypeOK
  <2>3. QED
    BY <2>1, <2>2
<1>6. ASSUME NEW c \in Conns, NEW t \in RequestTypes, NEW id \in 1..made[c],
             HandleCancel(c, t, id)
      PROVE  TypeOK'
  <2>1. ASSUME NEW r \in Items, ReleaseResource(c, r) PROVE TypeOK'
    BY <1>6, <2>1, ReleaseType DEF HandleCancel, TypeOK
  <2>2. ASSUME NEW r \in Items, NEW k \in 1..Len(pending[r]),
               pending' = [pending EXCEPT ![r] = RemovePendingAt(@, k)],
               UNCHANGED <<res, pool, told, revoked>>
        PROVE  TypeOK'
    <3>1. RemovePendingAt(pending[r], k) \in Seq(Requests)
      BY RemoveType DEF TypeOK
    <3>2. QED
      BY <1>6, <2>2, <3>1 DEF HandleCancel, TypeOK
  <2>3. QED
    BY <1>6, <2>1, <2>2 DEF HandleCancel
<1>7. ASSUME NEW c \in Conns, NEW t \in RequestTypes, NEW id \in 1..made[c],
             NEW p \in Priorities, HandleSetPriority(c, t, id, p)
      PROVE  TypeOK'
  <2>1. ASSUME NEW r \in Items, SetOwnerPriority(r, p) PROVE TypeOK'
    <3>1. /\ res' = [res EXCEPT ![r] = [res[r] EXCEPT !.priorityOwner = p]]
          /\ revoked' = revoked \cup {r} \/ revoked' = revoked
          /\ UNCHANGED <<pending, pool, thr, told, scarred>>
      BY <2>1 DEF SetOwnerPriority
    <3>2. [res[r] EXCEPT !.priorityOwner = p] \in Owner
      BY OwnerUpdates DEF TypeOK
    <3>3. QED
      BY <1>7, <3>1, <3>2 DEF HandleSetPriority, TypeOK
  <2>2. ASSUME NEW r \in Items, NEW k \in 1..Len(pending[r]),
               SetPendingPriority(c, r, k, p)
        PROVE  TypeOK'
    BY <1>7, <2>2, SetPendingPriorityType DEF HandleSetPriority, TypeOK
  <2>3. QED
    BY <1>7, <2>1, <2>2 DEF HandleSetPriority
<1>8. ASSUME NEW c \in Conns, NEW t \in RequestTypes, NEW id \in 1..made[c],
             NEW u \in Usages, HandleSetUsage(c, t, id, u)
      PROVE  TypeOK'
  <2>1. ASSUME NEW r \in Items, SetOwnerUsage(r, u) PROVE TypeOK'
    <3>1. /\ res' = [res EXCEPT ![r] = [res[r] EXCEPT !.usageOwner = u.bits]]
          /\ revoked' = revoked \cup {r} \/ revoked' = revoked
          /\ UNCHANGED <<pending, pool, thr, told, scarred>>
      BY <2>1 DEF SetOwnerUsage
    <3>2. [res[r] EXCEPT !.usageOwner = u.bits] \in Owner
      BY OwnerUpdates DEF TypeOK
    <3>3. QED
      BY <1>8, <3>1, <3>2 DEF HandleSetUsage, TypeOK
  <2>2. ASSUME NEW r \in Items, NEW k \in 1..Len(pending[r]),
               RequestResource(c, "usage", [pending[r][k] EXCEPT !.usage = u],
                               [pending EXCEPT ![r] = RemovePendingAt(@, k)],
                               [pool EXCEPT ![t] = @ + 1])
        PROVE  TypeOK'
    <3>1. [pending[r][k] EXCEPT !.usage = u] \in Requests
      BY WaitingIsRequest
    <3>2. [pending EXCEPT ![r] = RemovePendingAt(@, k)] \in [Items -> Seq(Requests)]
      <4>1. RemovePendingAt(pending[r], k) \in Seq(Requests)
        BY RemoveType DEF TypeOK
      <4>2. QED
        BY <4>1 DEF TypeOK
    <3>3. [pool EXCEPT ![t] = @ + 1] \in [Types -> Nat]
      BY DEF TypeOK, RequestTypes
    <3>4. "usage" \in Ops
      BY DEF Ops
    <3>5. /\ res' \in [Items -> Owner]
          /\ told' \in [Items -> SUBSET Conns]
          /\ revoked' \subseteq Items
          /\ scarred' \subseteq Items
          /\ thr' \in [Conns -> Threads]
          /\ pool' \in [Types -> Nat]
          /\ pending' \in [Items -> Seq(Requests)]
      BY <2>2, <3>1, <3>2, <3>3, <3>4, RequestType
    <3>6. QED
      BY <1>8, <3>5 DEF HandleSetUsage, TypeOK
  <2>3. QED
    BY <1>8, <2>1, <2>2 DEF HandleSetUsage
<1>9. ASSUME NEW c \in Conns, NEW r \in Items, NEW s \in ResStates, HandleSetState(c, r, s)
      PROVE  TypeOK'
  <2>1. Write(r, s) \in Threads
    BY DEF Write, Threads
  <2>2. QED
    BY <1>9, <2>1 DEF HandleSetState, TypeOK
<1>10. ASSUME NEW c \in Conns, NEW app \in Apps, NEW add \in BOOLEAN,
              HandleBlackList(c, app, add)
       PROVE  TypeOK'
  <2>1. RevokeTargets(app) \cap Items \subseteq Items
    OBVIOUS
  <2>2. RevokeTargets(app) \subseteq Items
    <3>1. /\ "videoDecoder" \in Types /\ "audioDecoder" \in Types
      BY DEF Types, TypeOrder, ToSet
    <3>2. \A t \in Types : \A i \in 1..Len(ItemsOf[t]) : ItemsOf[t][i] \in Items
      BY ItemsAreItems DEF ToSet
    <3>3. QED
      BY <3>1, <3>2 DEF RevokeTargets
  <2>3. revoked' \subseteq Items
    BY <1>10, <2>2 DEF HandleBlackList, TypeOK
  <2>4. blackList' \subseteq Apps
    BY <1>10 DEF HandleBlackList, TypeOK
  <2>5. QED
    BY <1>10, <2>3, <2>4 DEF HandleBlackList, TypeOK
<1>11. ASSUME NEW c \in Conns, RevokeDone(c) PROVE TypeOK'
  <2>1. thr[c].item \in Items /\ thr[c].req \in Requests /\ thr[c].op \in Ops
    BY <1>11, ThreadParts DEF RevokeDone, TypeOK
  <2>2. Idle \in Threads
    BY DEF Threads
  <2>3. Recycled(thr[c].op, thr[c].req, pool) \in [Types -> Nat]
    BY <2>1, RequestParts DEF Recycled, TypeOK
  <2>4. QED
    BY <1>11, <2>1, <2>2, <2>3, TakeOverType DEF RevokeDone, TypeOK
<1>12. ASSUME NEW c \in Conns, RevokeTimeout(c) PROVE TypeOK'
  BY <1>12 DEF RevokeTimeout, TypeOK, Threads
<1>13. ASSUME NEW c \in Conns, WriteState(c) PROVE TypeOK'
  <2>1. thr[c].item \in Items /\ thr[c].state \in ResStates
    BY <1>13, ThreadParts DEF WriteState, TypeOK
  <2>2. Idle \in Threads
    BY DEF Threads
  <2>3. /\ res' = [res EXCEPT ![thr[c].item] =
                      [res[thr[c].item] EXCEPT !.state = thr[c].state]]
        /\ thr' = [thr EXCEPT ![c] = Idle]
        /\ UNCHANGED <<pending, pool, blackList, peer, made, told, revoked, scarred>>
    BY <1>13 DEF WriteState
  <2>4. [res[thr[c].item] EXCEPT !.state = thr[c].state] \in Owner
    BY <2>1, OwnerUpdates DEF TypeOK
  <2>5. QED
    BY <2>1, <2>2, <2>3, <2>4 DEF TypeOK
<1>14. ASSUME NEW c \in Conns, CheckOwner(c) PROVE TypeOK'
  <2>1. thr[c].at \in 1..Len(AllItems) + 1
    BY <1>14, ThreadParts DEF CheckOwner, TypeOK
  <2>2. Exited \in Threads
    BY DEF Threads
  <2>3. thr[c].at <= Len(AllItems) => Clear(thr[c].at) \in Threads /\ Check(thr[c].at + 1) \in Threads
    BY <2>1, AllItemsLength DEF Clear, Check, Threads
  <2>4. QED
    BY <1>14, <2>1, <2>2, <2>3, AllItemsLength DEF CheckOwner, TypeOK
<1>15. ASSUME NEW c \in Conns, ClearOwner(c) PROVE TypeOK'
  <2>1. thr[c].at \in 1..Len(AllItems)
    BY <1>15, ThreadParts DEF ClearOwner, TypeOK
  <2>2. Check(thr[c].at + 1) \in Threads
    BY <2>1, AllItemsLength DEF Check, Threads
  <2>3. AllItems[thr[c].at] \in Items
    BY <2>1, AllItemsAreItems
  <2>4. QED
    BY <1>15, <2>2, <2>3, UnownedType DEF ClearOwner, TypeOK
<1>16. QED
  BY <1>1, <1>2, <1>3, <1>4, <1>5, <1>6, <1>7, <1>8, <1>9, <1>10, <1>11, <1>12,
     <1>13, <1>14, <1>15 DEF Next, Handle, Proceed

\* The state of the server is always well typed.
THEOREM TypeCorrect == Spec => []TypeOK
<1>1. Init => TypeOK
  BY UnownedType, ServerAssumption DEF Init, TypeOK, Threads
<1>2. QED
  BY <1>1, TypeStep, PTL DEF Spec

(***************************************************************************)
(* Tests and assignments.  The set-state handler and the cleanup after a   *)
(* lost connection take no mutex, so that what they have tested may have   *)
(* changed when they assign.                                               *)
(***************************************************************************)

\* A thread that has tested the owner of a resource and is about to assign
\* to it.
Between(x) == x.step \in {"write", "clear"}
Target(x) == IF x.step = "clear" THEN AllItems[x.at] ELSE x.item

\* It is still the owner's: no release can come in between, because the same
\* thread would have to handle it.  Only a preemption that could not reach
\* the client can, which leaves the resource scarred.
Holders ==
  \A c \in Conns :
    Between(thr[c]) /\ Target(thr[c]) \notin scarred
      => res[Target(thr[c])].connOwner = c

\* A thread cleans up only after its client has closed its end.
Leaving(x) == x.step \in {"check", "clear", "exited"}
Closed == \A c \in Conns : Leaving(thr[c]) => peer[c] = "closed"

HoldInv == Holders /\ Closed

\* A thread that does neither.
Quiet(x) == ~Between(x) /\ ~Leaving(x)

\* What such a thread assigns to is a resource.
LEMMA TargetIsItem ==
  ASSUME TypeOK, NEW c \in Conns, Between(thr[c])
  PROVE  Target(thr[c]) \in Items
BY ThreadParts, AllItemsAreItems DEF TypeOK, Between, Target

\* A step that starts no assignment, and changes the owner of no resource
\* whose owner is about to assign, keeps the invariant.
LEMMA HoldKept ==
  ASSUME TypeOK, HoldInv, UNCHANGED peer, scarred \subseteq scarred',
         \A d \in Conns : thr'[d] = thr[d] \/ Quiet(thr'[d]),
         \A x \in Items, d \in Conns :
           res[x].connOwner = d /\ x \notin scarred' /\ Between(thr[d])
             => res'[x].connOwner = d
  PROVE  HoldInv'
<1>1. Closed'
  BY DEF HoldInv, Closed, Quiet
<1>2. ASSUME NEW d \in Conns, Between(thr'[d]), Target(thr'[d]) \notin scarred'
      PROVE  res'[Target(thr'[d])].connOwner = d
  <2>1. thr'[d] = thr[d]
    BY <1>2 DEF Quiet
  <2>2. Target(thr[d]) \in Items /\ res[Target(thr[d])].connOwner = d
    BY <1>2, <2>1, TargetIsItem DEF HoldInv, Holders
  <2>3. QED
    BY <1>2, <2>1, <2>2
<1>3. QED
  BY <1>1, <1>2 DEF HoldInv, Holders

\* A new owner, and threads that are idle or where they were.
LEMMA TakeOverHold ==
  ASSUME TypeOK, HoldInv, UNCHANGED peer, NEW r \in Items, NEW q, NEW tell,
         TakeOver(r, q, tell),
         \A d \in Conns : thr'[d] = thr[d] \/ Quiet(thr'[d])
  PROVE  HoldInv'
<1>1. /\ \A x \in Items \ {r} : res'[x] = res[x]
      /\ scarred \subseteq scarred'
      /\ res[r].connOwner # Nobody => r \in scarred'
  BY DEF TakeOver, TypeOK
<1>2. \A x \in Items, d \in Conns :
        res[x].connOwner = d /\ x \notin scarred' => res'[x].connOwner = d
  BY <1>1, ServerAssumption
<1>3. QED
  BY <1>1, <1>2, HoldKept

\* A preemption that waits, or does not.
LEMMA PreemptHold ==
  ASSUME TypeOK, HoldInv, UNCHANGED peer, NEW c \in Conns, NEW op, NEW q, NEW r \in Items,
         NEW free, Preempt(c, op, q, r, free)
  PROVE  HoldInv'
<1>1. CASE TakeOver(r, q, op # "usage") /\ UNCHANGED thr
  BY <1>1, TakeOverHold
<1>2. CASE thr' = [thr EXCEPT ![c] = Revoke(op, q, r)] /\ UNCHANGED <<res, told, scarred>>
  <2>1. \A d \in Conns : thr'[d] = thr[d] \/ Quiet(thr'[d])
    BY <1>2 DEF Revoke, Quiet, Between, Leaving, TypeOK
  <2>2. QED
    BY <1>2, <2>1, HoldKept
<1>3. QED
  BY <1>1, <1>2 DEF Preempt

\* A request.
LEMMA RequestHold ==
  ASSUME TypeOK, HoldInv, UNCHANGED peer, NEW c \in Conns, NEW op, NEW q, NEW list,
         NEW free, RequestResource(c, op, q, list, free)
  PROVE  HoldInv'
<1>1. ASSUME NEW r \in Items, TakeOver(r, q, op # "usage"), UNCHANGED thr PROVE HoldInv'
  BY <1>1, TakeOverHold
<1>2. ASSUME NEW r \in Items, Preempt(c, op, q, r, free) PROVE HoldInv'
  BY <1>2, PreemptHold
<1>3. ASSUME UNCHANGED <<res, thr, scarred>> PROVE HoldInv'
  BY <1>3, HoldKept
<1>4. QED
  BY <1>1, <1>2, <1>3 DEF RequestResource

\* A release by the owner, whose thread reads the message and so is not in
\* between.
LEMMA ReleaseHold ==
  ASSUME TypeOK, HoldInv, NEW c \in Conns, NEW r \in Items, res[r].connOwner = c,
         thr[c] = Idle, UNCHANGED <<thr, scarred, peer>>, ReleaseResource(c, r)
  PROVE  HoldInv'
<1>1. \A x \in Items \ {r} : res'[x] = res[x]
  <2>1. CASE pending[r] = <<>>
    BY <2>1 DEF ReleaseResource, TypeOK
  <2>2. CASE pending[r] # <<>>
    BY <2>2 DEF ReleaseResource, TypeOK
  <2>3. QED
    BY <2>1, <2>2
<1>2. ~Between(thr[c])
  BY DEF Idle, Between
<1>3. QED
  BY <1>1, <1>2, HoldKept

\* No step assigns to a resource that is not the thread's own, unless scarred.
LEMMA HoldStep == TypeOK /\ HoldInv /\ [Next]_vars => HoldInv'
<1> SUFFICES ASSUME TypeOK, HoldInv, [Next]_vars PROVE HoldInv'
  OBVIOUS
<1>1. ASSUME UNCHANGED <<res, thr, peer, scarred>> PROVE HoldInv'
  BY <1>1, HoldKept
<1>2. ASSUME NEW r \in Items, NEW v, res' = [res EXCEPT ![r] = v],
             v.connOwner = res[r].connOwner, UNCHANGED <<thr, peer, scarred>>
      PROVE  HoldInv'
  <2>1. \A x \in Items : res'[x].connOwner = res[x].connOwner
    BY <1>2 DEF TypeOK
  <2>2. QED
    BY <1>2, <2>1, HoldKept
<1>3. CASE UNCHANGED vars
  BY <1>1, <1>3 DEF vars
<1>4. ASSUME NEW c \in Conns, PeerClose(c) PROVE HoldInv'
  BY <1>4 DEF PeerClose, HoldInv, Holders, Closed, TypeOK
<1>5. ASSUME NEW c \in Conns, EndOfFile(c) PROVE HoldInv'
  <2>1. /\ UNCHANGED <<res, scarred, peer>>
        /\ peer[c] = "closed"
        /\ \A d \in Conns : thr'[d] = IF d = c THEN Check(1) ELSE thr[d]
    BY <1>5 DEF EndOfFile, TypeOK
  <2>2. ~Between(Check(1))
    BY DEF Check, Between
  <2>3. Closed'
    BY <2>1 DEF HoldInv, Closed
  <2>4. Holders'
    BY <2>1, <2>2 DEF HoldInv, Holders
  <2>5. QED
    BY <2>3, <2>4 DEF HoldInv
<1>6. ASSUME NEW c \in Conns, NEW q \in Requests, HandleRequest(c, q) PROVE HoldInv'
  BY <1>1, <1>6, RequestHold DEF HandleRequest
<1>7. ASSUME NEW c \in Conns, NEW r \in Items, HandleRelease(c, r) PROVE HoldInv'
  BY <1>1, <1>7, ReleaseHold DEF HandleRelease, Reads
<1>8. ASSUME NEW c \in Conns, NEW t \in RequestTypes, NEW id \in 1..made[c],
             HandleCancel(c, t, id)
      PROVE  HoldInv'
  <2>1. ASSUME NEW r \in Items, Owns(c, t, id, r), ReleaseResource(c, r) PROVE HoldInv'
    BY <1>8, <2>1, ReleaseHold DEF HandleCancel, Reads, Owns
  <2>2. QED
    BY <1>1, <1>8, <2>1 DEF HandleCancel
<1>9. ASSUME NEW c \in Conns, NEW t \in RequestTypes, NEW id \in 1..made[c],
             NEW p \in Priorities, HandleSetPriority(c, t, id, p)
      PROVE  HoldInv'
  <2>1. UNCHANGED peer
    BY <1>9 DEF HandleSetPriority
  <2>2. ASSUME NEW r \in Items, SetOwnerPriority(r, p) PROVE HoldInv'
    <3> DEFINE v == [res[r] EXCEPT !.priorityOwner = p]
    <3>1. v.connOwner = res[r].connOwner
      BY DEF TypeOK, Owner
    <3>2. res' = [res EXCEPT ![r] = v] /\ UNCHANGED <<thr, scarred>>
      BY <2>2 DEF SetOwnerPriority
    <3>3. QED
      BY <1>2, <2>1, <3>1, <3>2
  <2>3. ASSUME NEW r \in Items, NEW k, SetPendingPriority(c, r, k, p) PROVE HoldInv'
    <3> DEFINE q == [pending[r][k] EXCEPT !.priority = p]
    <3>1. UNCHANGED <<res, thr, scarred>> \/ Preempt(c, "priority", q, r, pool)
      BY <2>3 DEF SetPendingPriority
    <3> HIDE DEF q
    <3>2. QED
      BY <1>1, <2>1, <3>1, PreemptHold
  <2>4. QED
    BY <1>9, <2>2, <2>3 DEF HandleSetPriority
<1>10. ASSUME NEW c \in Conns, NEW t \in RequestTypes, NEW id \in 1..made[c],
              NEW u \in Usages, HandleSetUsage(c, t, id, u)
       PROVE  HoldInv'
  <2>1. UNCHANGED peer
    BY <1>10 DEF HandleSetUsage
  <2>2. ASSUME NEW r \in Items, SetOwnerUsage(r, u) PROVE HoldInv'
    <3> DEFINE v == [res[r] EXCEPT !.usageOwner = u.bits]
    <3>1. v.connOwner = res[r].connOwner
      BY DEF TypeOK, Owner
    <3>2. res' = [res EXCEPT ![r] = v] /\ UNCHANGED <<thr, scarred>>
      BY <2>2 DEF SetOwnerUsage
    <3>3. QED
      BY <1>2, <2>1, <3>1, <3>2
  <2>3. ASSUME NEW r, NEW k,
               RequestResource(c, "usage", [pending[r][k] EXCEPT !.usage = u],
                               [pending EXCEPT ![r] = RemovePendingAt(@, k)],
                               [pool EXCEPT ![t] = @ + 1])
        PROVE  HoldInv'
    BY <2>1, <2>3, RequestHold
  <2>4. QED
    BY <1>10, <2>2, <2>3 DEF HandleSetUsage
<1>11. ASSUME NEW c \in Conns, NEW r \in Items, NEW s \in ResStates, HandleSetState(c, r, s)
       PROVE  HoldInv'
  <2>1. /\ UNCHANGED <<res, scarred, peer>>
        /\ res[r].connOwner = c
        /\ \A d \in Conns : thr'[d] = IF d = c THEN Write(r, s) ELSE thr[d]
    BY <1>11 DEF HandleSetState, TypeOK
  <2>2. ~Leaving(Write(r, s)) /\ Target(Write(r, s)) = r
    BY DEF Write, Leaving, Target
  <2>3. QED
    BY <2>1, <2>2 DEF HoldInv, Holders, Closed
<1>12. ASSUME NEW c \in Conns, NEW app \in Apps, NEW add \in BOOLEAN,
              HandleBlackList(c, app, add)
       PROVE  HoldInv'
  BY <1>1, <1>12 DEF HandleBlackList
<1>13. ASSUME NEW c \in Conns, thr' = [thr EXCEPT ![c] = Idle]
       PROVE  \A d \in Conns : thr'[d] = thr[d] \/ Quiet(thr'[d])
  BY <1>13 DEF Idle, Quiet, Between, Leaving, TypeOK
<1>14. ASSUME NEW c \in Conns, RevokeDone(c) PROVE HoldInv'
  <2>1. thr[c].item \in Items
    BY <1>14, ThreadParts DEF RevokeDone, TypeOK
  <2>2. TakeOver(thr[c].item, thr[c].req, thr[c].op # "usage")
    BY <1>14 DEF RevokeDone
  <2>3. UNCHANGED peer /\ thr' = [thr EXCEPT ![c] = Idle]
    BY <1>14 DEF RevokeDone
  <2>4. QED
    BY <1>13, <2>1, <2>2, <2>3, TakeOverHold
<1>15. ASSUME NEW c \in Conns, RevokeTimeout(c) PROVE HoldInv'
  BY <1>13, <1>15, HoldKept DEF RevokeTimeout
<1>16. ASSUME NEW c \in Conns, WriteState(c) PROVE HoldInv'
  <2>1. \A x \in Items : res'[x].connOwner = res[x].connOwner
    BY <1>16 DEF WriteState, TypeOK, Owner
  <2>2. UNCHANGED <<peer, scarred>> /\ thr' = [thr EXCEPT ![c] = Idle]
    BY <1>16 DEF WriteState
  <2>3. QED
    BY <1>13, <2>1, <2>2, HoldKept
<1>17. ASSUME NEW c \in Conns, CheckOwner(c) PROVE HoldInv'
  <2> DEFINE n == thr[c].at
             z == IF n > Len(AllItems) THEN Exited
                  ELSE IF res[AllItems[n]].connOwner = c THEN Clear(n) ELSE Check(n + 1)
  <2>1. /\ UNCHANGED <<res, scarred, peer>>
        /\ peer[c] = "closed"
        /\ \A d \in Conns : thr'[d] = IF d = c THEN z ELSE thr[d]
    BY <1>17 DEF CheckOwner, HoldInv, Closed, Leaving, TypeOK
  <2>2. Between(z) => res[Target(z)].connOwner = c
    BY DEF Exited, Clear, Check, Between, Target
  <2> HIDE DEF z
  <2>3. Closed'
    BY <2>1 DEF HoldInv, Closed
  <2>4. Holders'
    BY <2>1, <2>2 DEF HoldInv, Holders
  <2>5. QED
    BY <2>3, <2>4 DEF HoldInv
<1>18. ASSUME NEW c \in Conns, ClearOwner(c) PROVE HoldInv'
  <2> DEFINE r == AllItems[thr[c].at]
             z == Check(thr[c].at + 1)
  <2>1. /\ UNCHANGED peer
        /\ peer[c] = "closed"
        /\ res' = [res EXCEPT ![r] = Unowned]
        /\ scarred' = scarred \cup {r}
        /\ \A d \in Conns : thr'[d] = IF d = c THEN z ELSE thr[d]
    BY <1>18 DEF ClearOwner, HoldInv, Closed, Leaving, TypeOK
  <2>2. ~Between(z)
    BY DEF Check, Between
  <2> HIDE DEF r, z
  <2>3. \A x \in Items \ {r} : res'[x] = res[x]
    BY <2>1 DEF TypeOK
  <2>4. Closed'
    BY <2>1 DEF HoldInv, Closed
  <2>5. ASSUME NEW d \in Conns, Between(thr'[d]), Target(thr'[d]) \notin scarred'
        PROVE  res'[Target(thr'[d])].connOwner = d
    <3>1. thr'[d] = thr[d]
      BY <2>1, <2>2, <2>5
    <3>2. /\ Target(thr[d]) \in Items \ {r}
          /\ res[Target(thr[d])].connOwner = d
      BY <2>1, <2>5, <3>1, TargetIsItem DEF HoldInv, Holders
    <3>3. QED
      BY <2>3, <3>1, <3>2
  <2>6. QED
    BY <2>4, <2>5 DEF HoldInv, Holders
<1>19. QED
  BY <1>3, <1>4, <1>5, <1>6, <1>7, <1>8, <1>9, <1>10, <1>11, <1>12, <1>14, <1>15, <1>16,
     <1>17, <1>18 DEF Next, Handle, Proceed

\* The invariant holds from the start.
LEMMA HoldAlways == Spec => []HoldInv
<1>1. Init => HoldInv
  BY DEF Init, HoldInv, Holders, Closed, Between, Leaving, Idle
<1>2. QED
  BY <1>1, TypeCorrect, HoldStep, PTL DEF Spec

(***************************************************************************)
(* Ownership: the server implements ErmOwnership, so that no two clients   *)
(* hold a resource that never lost an owner.                               *)
(***************************************************************************)

\* The owners after the table changed in one place.
LEMMA OwnersExcept ==
  ASSUME TypeOK, NEW r \in Items, NEW v \in Owner, res' = [res EXCEPT ![r] = v]
  PROVE  [x \in Items |-> res'[x].connOwner]
           = [[x \in Items |-> res[x].connOwner] EXCEPT ![r] = v.connOwner]
BY DEF TypeOK

\* What a client is told as the owner, in the terms of ErmOwnership.
LEMMA TellOutcome ==
  ASSUME TypeOK, NEW r \in Items, NEW c \in Conns, NEW tell \in BOOLEAN,
         told' = IF tell THEN [told EXCEPT ![r] = @ \cup {c}] ELSE told
  PROVE  Ownership!Tell(r, told[r], c)
<1>1. CASE tell
  BY <1>1 DEF Ownership!Tell
<1>2. CASE ~tell
  <2>1. told' = [told EXCEPT ![r] = told[r] \cup {}]
    BY <1>2 DEF TypeOK
  <2>2. QED
    BY <2>1 DEF Ownership!Tell
<1>3. QED
  BY <1>1, <1>2

\* essRMAssignResource grants a free resource or takes one from an owner
\* that could not be reached.
LEMMA TakeOverOwnership ==
  ASSUME TypeOK, NEW r \in Items, NEW q \in Requests, NEW tell \in BOOLEAN,
         TakeOver(r, q, tell), UNCHANGED peer,
         res[r].connOwner = Nobody \/ peer[res[r].connOwner] = "closed"
  PROVE  Ownership!Next
<1>1. q.conn \in Conns
  BY RequestParts
<1>2. [x \in Items |-> res'[x].connOwner]
        = [[x \in Items |-> res[x].connOwner] EXCEPT ![r] = q.conn]
  <2> DEFINE v == Assigned(r, q)
  <2>1. v \in Owner /\ v.connOwner = q.conn
    BY AssignedType
  <2>2. res' = [res EXCEPT ![r] = v]
    BY DEF TakeOver
  <2> HIDE DEF v
  <2>3. QED
    BY <2>1, <2>2 DEF TypeOK
<1>3. Ownership!Tell(r, told[r], q.conn)
  BY <1>1, TellOutcome DEF TakeOver
<1>4. CASE res[r].connOwner = Nobody
  <2>1. Ownership!Grant(r, q.conn)
    BY <1>2, <1>3, <1>4 DEF TakeOver, Ownership!Grant
  <2>2. QED
    BY <1>1, <2>1 DEF Ownership!Next
<1>5. CASE res[r].connOwner # Nobody
  <2>1. q.conn # Nobody
    BY <1>1, ServerAssumption
  <2>2. res[r].connOwner \in {c \in Conns : peer[c] = "closed"}
    BY <1>5 DEF TypeOK, Owner
  <2>3. Ownership!Seize(r, q.conn)
    BY <1>2, <1>3, <1>5, <2>1, <2>2 DEF TakeOver, Ownership!Seize
  <2>4. QED
    BY <1>1, <2>3 DEF Ownership!Next
<1>6. QED
  BY <1>4, <1>5

\* Only an owner whose client has closed its end may be out of reach.
LEMMA OutOfReach ==
  ASSUME TypeOK, HoldInv, NEW o \in Conns \cup {Nobody}, FALSE \in SendOutcomes(o)
  PROVE  o = Nobody \/ peer[o] = "closed"
<1>1. CASE o # Nobody /\ thr[o] = Exited
  BY <1>1 DEF HoldInv, Closed, Leaving, Exited
<1>2. CASE o # Nobody /\ thr[o] # Exited
  BY <1>2 DEF SendOutcomes, TypeOK
<1>3. QED
  BY <1>1, <1>2

\* Preempting an owner changes no ownership while the owner is waited for.
LEMMA PreemptOwnership ==
  ASSUME TypeOK, HoldInv, UNCHANGED peer, NEW c, NEW op, NEW q \in Requests,
         NEW r \in Items, NEW free, Preempt(c, op, q, r, free)
  PROVE  Ownership!Next \/ UNCHANGED Ownership!vars
<1>1. CASE TakeOver(r, q, op # "usage") /\ FALSE \in SendOutcomes(res[r].connOwner)
  <2>1. res[r].connOwner \in Conns \cup {Nobody}
    BY DEF TypeOK, Owner
  <2>2. QED
    BY <1>1, <2>1, OutOfReach, TakeOverOwnership
<1>2. CASE UNCHANGED <<res, told, scarred>>
  BY <1>2 DEF Ownership!vars
<1>3. PICK sent \in SendOutcomes(res[r].connOwner) :
        IF sent THEN UNCHANGED <<res, told, scarred>> ELSE TakeOver(r, q, op # "usage")
  BY DEF Preempt
<1>4. sent \in BOOLEAN
  BY DEF SendOutcomes
<1>5. QED
  BY <1>1, <1>2, <1>3, <1>4

\* A request grants a resource, or waits, or is denied.
LEMMA RequestOwnership ==
  ASSUME TypeOK, HoldInv, UNCHANGED peer, NEW c, NEW op, NEW q \in Requests, NEW list,
         NEW free, RequestResource(c, op, q, list, free)
  PROVE  Ownership!Next \/ UNCHANGED Ownership!vars
<1>1. ASSUME NEW r \in Items, res[r].connOwner = Nobody, TakeOver(r, q, op # "usage")
      PROVE  Ownership!Next
  BY <1>1, TakeOverOwnership
<1>2. ASSUME NEW r \in Items, Preempt(c, op, q, r, free)
      PROVE  Ownership!Next \/ UNCHANGED Ownership!vars
  BY <1>2, PreemptOwnership
<1>3. ASSUME UNCHANGED <<res, thr, told, revoked, scarred>>
      PROVE  UNCHANGED Ownership!vars
  BY <1>3 DEF Ownership!vars
<1>4. QED
  BY <1>1, <1>2, <1>3 DEF RequestResource

\* A release frees the resource or hands it to one other client.
LEMMA ReleaseOwnership ==
  ASSUME TypeOK, NEW c \in Conns, NEW r \in Items,
         res[r].connOwner = c, UNCHANGED <<scarred, peer>>,
         ReleaseResource(c, r)
  PROVE  Ownership!Next
<1>1. CASE pending[r] = <<>>
  <2>1. res' = [res EXCEPT ![r] = Unowned] /\ told' = [told EXCEPT ![r] = @ \ {c}]
    BY <1>1 DEF ReleaseResource
  <2>2. [x \in Items |-> res'[x].connOwner]
          = [[x \in Items |-> res[x].connOwner] EXCEPT ![r] = Nobody]
    BY <2>1, UnownedType, OwnersExcept
  <2>3. Ownership!Release(r, c)
    BY <2>1, <2>2 DEF Ownership!Release
  <2>4. QED
    BY <2>3 DEF Ownership!Next
<1>2. CASE pending[r] # <<>>
  <2> DEFINE q == Head(pending[r])
  <2>1. pending[r] \in Seq(Requests)
    BY DEF TypeOK
  <2>2. q \in Requests
    BY <1>2, <2>1
  <2>3. q.conn \in Conns
    BY <2>2, RequestParts
  <2>4. /\ res' = [res EXCEPT ![r] = [Assigned(r, q) EXCEPT !.state = idle]]
        /\ told' = [told EXCEPT ![r] = (@ \ {c}) \cup {q.conn}]
    BY <1>2 DEF ReleaseResource
  <2> HIDE DEF q
  <2>5. [x \in Items |-> res'[x].connOwner]
          = [[x \in Items |-> res[x].connOwner] EXCEPT ![r] = q.conn]
    <3> DEFINE v == [Assigned(r, q) EXCEPT !.state = idle]
    <3>1. v \in Owner /\ v.connOwner = q.conn
      BY <2>2, AssignedType
    <3>2. res' = [res EXCEPT ![r] = v]
      BY <2>4
    <3> HIDE DEF v
    <3>3. QED
      BY <3>1, <3>2, OwnersExcept
  <2>6. PICK d \in Conns : d = q.conn
    BY <2>3
  <2>7. Ownership!HandOver(r, c, d)
    BY <2>4, <2>5, <2>6 DEF Ownership!HandOver, Ownership!Tell
  <2>8. QED
    BY <2>7 DEF Ownership!Next
<1>3. QED
  BY <1>1, <1>2

\* Every step of the server is a step of ErmOwnership or changes nothing of
\* what it sees.
LEMMA OwnershipStep ==
  TypeOK /\ HoldInv /\ [Next]_vars => [Ownership!Next]_(Ownership!vars)
<1> DEFINE Moves == Ownership!Next \/ UNCHANGED Ownership!vars
<1> SUFFICES ASSUME TypeOK, HoldInv, [Next]_vars PROVE Moves
  OBVIOUS
<1>1. ASSUME UNCHANGED <<res, told, scarred, peer>> PROVE Moves
  BY <1>1 DEF Ownership!vars
<1>2. ASSUME NEW r \in Items, NEW v \in Owner, res' = [res EXCEPT ![r] = v],
             v.connOwner = res[r].connOwner, UNCHANGED <<told, scarred, peer>>
      PROVE  Moves
  <2>1. [x \in Items |-> res'[x].connOwner] = [x \in Items |-> res[x].connOwner]
    BY <1>2 DEF TypeOK
  <2>2. QED
    BY <1>2, <2>1 DEF Ownership!vars
<1> HIDE DEF Moves
<1>3. CASE UNCHANGED vars
  BY <1>1, <1>3 DEF vars
<1>4. ASSUME NEW c \in Conns, PeerClose(c) \/ EndOfFile(c) PROVE Moves
  <2>1. CASE PeerClose(c)
    <3>1. {d \in Conns : peer'[d] = "closed"} = {d \in Conns : peer[d] = "closed"} \cup {c}
      BY <2>1 DEF PeerClose, TypeOK
    <3>2. Ownership!Leave(c)
      BY <2>1, <3>1 DEF PeerClose, Ownership!Leave
    <3>3. QED
      BY <3>2 DEF Ownership!Next, Moves
  <2>2. CASE EndOfFile(c)
    BY <1>1, <2>2 DEF EndOfFile
  <2>3. QED
    BY <1>4, <2>1, <2>2
<1>5. ASSUME NEW c \in Conns, NEW q \in Requests, HandleRequest(c, q) PROVE Moves
  BY <1>1, <1>5, RequestOwnership DEF HandleRequest, Moves
<1>6. ASSUME NEW c \in Conns, NEW r \in Items, HandleRelease(c, r) PROVE Moves
  <2>1. CASE res[r].connOwner = c
    BY <1>6, <2>1, ReleaseOwnership DEF HandleRelease, Moves
  <2>2. CASE res[r].connOwner # c
    <3>1. Ownership!Disown(r, c)
      BY <1>6, <2>2 DEF HandleRelease, Ownership!Disown
    <3>2. QED
      BY <3>1 DEF Ownership!Next, Moves
  <2>3. QED
    BY <2>1, <2>2
<1>7. ASSUME NEW c \in Conns, NEW t \in RequestTypes, NEW id \in 1..made[c],
             HandleCancel(c, t, id)
      PROVE  Moves
  <2>1. ASSUME NEW r \in Items, Owns(c, t, id, r), ReleaseResource(c, r) PROVE Moves
    BY <1>7, <2>1, ReleaseOwnership DEF HandleCancel, Owns, Moves
  <2>2. QED
    BY <1>1, <1>7, <2>1 DEF HandleCancel
<1>8. ASSUME NEW c \in Conns, NEW t \in RequestTypes, NEW id \in 1..made[c],
             NEW p \in Priorities, HandleSetPriority(c, t, id, p)
      PROVE  Moves
  <2>. UNCHANGED peer
    BY <1>8 DEF HandleSetPriority
  <2>1. ASSUME NEW r \in Items, SetOwnerPriority(r, p) PROVE Moves
    <3> DEFINE v == [res[r] EXCEPT !.priorityOwner = p]
    <3>1. v \in Owner /\ v.connOwner = res[r].connOwner
      BY OwnerUpdates DEF TypeOK
    <3>2. res' = [res EXCEPT ![r] = v] /\ UNCHANGED <<told, scarred>>
      BY <2>1 DEF SetOwnerPriority
    <3>3. QED
      BY <1>2, <3>1, <3>2
  <2>2. ASSUME NEW r \in Items, NEW k \in 1..Len(pending[r]), SetPendingPriority(c, r, k, p)
        PROVE  Moves
    <3> DEFINE q == [pending[r][k] EXCEPT !.priority = p]
    <3>1. q \in Requests
      BY WaitingIsRequest
    <3>2. UNCHANGED <<res, told, scarred>> \/ Preempt(c, "priority", q, r, pool)
      BY <2>2 DEF SetPendingPriority
    <3> HIDE DEF q
    <3>3. QED
      BY <1>1, <3>1, <3>2, PreemptOwnership DEF Moves
  <2>3. QED
    BY <1>8, <2>1, <2>2 DEF HandleSetPriority
<1>9. ASSUME NEW c \in Conns, NEW t \in RequestTypes, NEW id \in 1..made[c],
             NEW u \in Usages, HandleSetUsage(c, t, id, u)
      PROVE  Moves
  <2>. UNCHANGED peer
    BY <1>9 DEF HandleSetUsage
  <2>1. ASSUME NEW r \in Items, SetOwnerUsage(r, u) PROVE Moves
    <3> DEFINE v == [res[r] EXCEPT !.usageOwner = u.bits]
    <3>1. v \in Owner /\ v.connOwner = res[r].connOwner
      BY OwnerUpdates DEF TypeOK
    <3>2. res' = [res EXCEPT ![r] = v] /\ UNCHANGED <<told, scarred>>
      BY <2>1 DEF SetOwnerUsage
    <3>3. QED
      BY <1>2, <3>1, <3>2
  <2>2. ASSUME NEW r \in Items, NEW k \in 1..Len(pending[r]),
               RequestResource(c, "usage", [pending[r][k] EXCEPT !.usage = u],
                               [pending EXCEPT ![r] = RemovePendingAt(@, k)],
                               [pool EXCEPT ![t] = @ + 1])
        PROVE  Moves
    BY <2>2, WaitingIsRequest, RequestOwnership DEF Moves
  <2>3. QED
    BY <1>9, <2>1, <2>2 DEF HandleSetUsage
<1>10. ASSUME NEW c \in Conns, NEW r \in Items, NEW s \in ResStates,
              HandleSetState(c, r, s)
       PROVE  Moves
  BY <1>1, <1>10 DEF HandleSetState
<1>11. ASSUME NEW c \in Conns, NEW app \in Apps, NEW add \in BOOLEAN,
              HandleBlackList(c, app, add)
       PROVE  Moves
  BY <1>1, <1>11 DEF HandleBlackList
<1>12. ASSUME NEW c \in Conns, RevokeDone(c) PROVE Moves
  <2>1. thr[c].item \in Items /\ thr[c].req \in Requests
    BY <1>12, ThreadParts DEF RevokeDone, TypeOK
  <2>2. TakeOver(thr[c].item, thr[c].req, thr[c].op # "usage")
    BY <1>12 DEF RevokeDone
  <2>3. UNCHANGED peer /\ res[thr[c].item].connOwner = Nobody
    BY <1>12 DEF RevokeDone
  <2>4. QED
    BY <2>1, <2>2, <2>3, TakeOverOwnership DEF Moves
<1>13. ASSUME NEW c \in Conns, RevokeTimeout(c) \/ CheckOwner(c) PROVE Moves
  BY <1>1, <1>13 DEF RevokeTimeout, CheckOwner
<1>14. ASSUME NEW c \in Conns, WriteState(c) PROVE Moves
  <2> DEFINE r == thr[c].item
             v == [res[r] EXCEPT !.state = thr[c].state]
  <2>1. r \in Items /\ thr[c].state \in ResStates
    BY <1>14, ThreadParts DEF WriteState, TypeOK
  <2>2. v \in Owner /\ v.connOwner = res[r].connOwner
    BY <2>1, OwnerUpdates DEF TypeOK
  <2>3. res' = [res EXCEPT ![r] = v] /\ UNCHANGED <<told, scarred, peer>>
    BY <1>14 DEF WriteState
  <2>4. QED
    BY <1>2, <2>1, <2>2, <2>3
<1>15. ASSUME NEW c \in Conns, ClearOwner(c) PROVE Moves
  <2> DEFINE r == AllItems[thr[c].at]
  <2>1. r \in Items
    BY <1>15, ThreadParts, AllItemsAreItems DEF ClearOwner, TypeOK
  <2>2. /\ res' = [res EXCEPT ![r] = Unowned]
        /\ scarred' = scarred \cup {r}
        /\ UNCHANGED <<told, peer>>
        /\ thr[c].step = "clear"
    BY <1>15 DEF ClearOwner
  <2>3. r \notin scarred => res[r].connOwner \in {d \in Conns : peer[d] = "closed"}
    BY <2>2 DEF HoldInv, Holders, Closed, Between, Leaving, Target
  <2> HIDE DEF r
  <2>4. [x \in Items |-> res'[x].connOwner]
          = [[x \in Items |-> res[x].connOwner] EXCEPT ![r] = Nobody]
    BY <2>1, <2>2, UnownedType, OwnersExcept
  <2>5. Ownership!Seize(r, Nobody)
    BY <2>1, <2>2, <2>3, <2>4 DEF Ownership!Seize
  <2>6. QED
    BY <2>1, <2>5 DEF Ownership!Next, Moves
<1>16. QED
  BY <1>3, <1>4, <1>5, <1>6, <1>7, <1>8, <1>9, <1>10, <1>11, <1>12, <1>13, <1>14, <1>15
     DEF Next, Handle, Proceed

\* The server implements ErmOwnership, for any configuration and number of
\* clients: no handler takes a resource from an owner that can be reached.
THEOREM OwnershipImplemented == Spec => ImplementsOwnership
<1>1. Init => Ownership!Init
  BY DEF Init, Ownership!Init, Unowned
<1>2. QED
  BY <1>1, OwnershipStep, TypeCorrect, HoldAlways, PTL DEF Spec, ImplementsOwnership, Ownership!Spec

\* A step of ErmOwnership leaves at most one believer.
LEMMA ExclusiveStep ==
  TypeOK /\ ExclusiveGrant /\ [Ownership!Next]_(Ownership!vars) => ExclusiveGrant'
<1> SUFFICES ASSUME TypeOK, ExclusiveGrant, [Ownership!Next]_(Ownership!vars),
                    NEW x \in Items, x \notin scarred'
             PROVE  told'[x] \subseteq {res'[x].connOwner}
  BY DEF ExclusiveGrant
<1> DEFINE owners == [r \in Items |-> res[r].connOwner]
           ownersNext == [r \in Items |-> res'[r].connOwner]
<1>1. owners[x] = res[x].connOwner /\ ownersNext[x] = res'[x].connOwner
  OBVIOUS
<1>2. x \notin scarred => told[x] \subseteq {owners[x]}
  BY DEF ExclusiveGrant
<1>3. told[x] \subseteq Conns /\ Nobody \notin Conns
  BY ServerAssumption DEF TypeOK
<1>4. DOMAIN told = Items /\ DOMAIN owners = Items
  BY DEF TypeOK
<1>5. CASE UNCHANGED Ownership!vars
  BY <1>1, <1>2, <1>5 DEF Ownership!vars
<1>6. ASSUME NEW r \in Items, NEW c \in Conns, Ownership!Grant(r, c)
      PROVE  told'[x] \subseteq {ownersNext[x]}
  <2>1. /\ owners[r] = Nobody
        /\ ownersNext = [owners EXCEPT ![r] = c]
        /\ scarred' = scarred
    BY <1>6 DEF Ownership!Grant
  <2>2. PICK news \in {{}, {c}} : told' = [told EXCEPT ![r] = told[r] \cup news]
    BY <1>6 DEF Ownership!Grant, Ownership!Tell
  <2> HIDE DEF owners, ownersNext
  <2>3. CASE x = r
    BY <1>2, <1>3, <1>4, <2>1, <2>2, <2>3
  <2>4. CASE x # r
    BY <1>2, <1>4, <2>1, <2>2, <2>4
  <2>5. QED
    BY <2>3, <2>4
<1>7. ASSUME NEW r \in Items, NEW c \in Conns, Ownership!Release(r, c)
      PROVE  told'[x] \subseteq {ownersNext[x]}
  BY <1>2, <1>4, <1>7 DEF Ownership!Release
<1>8. ASSUME NEW r \in Items, NEW c \in Conns, Ownership!Disown(r, c)
      PROVE  told'[x] \subseteq {ownersNext[x]}
  BY <1>2, <1>4, <1>8 DEF Ownership!Disown
<1>9. ASSUME NEW r \in Items, NEW c \in Conns, NEW d \in Conns, Ownership!HandOver(r, c, d)
      PROVE  told'[x] \subseteq {ownersNext[x]}
  <2>1. /\ owners[r] = c
        /\ ownersNext = [owners EXCEPT ![r] = d]
        /\ scarred' = scarred
    BY <1>9 DEF Ownership!HandOver
  <2>2. PICK news \in {{}, {d}} : told' = [told EXCEPT ![r] = (told[r] \ {c}) \cup news]
    BY <1>9 DEF Ownership!HandOver, Ownership!Tell
  <2> HIDE DEF owners, ownersNext
  <2>3. CASE x = r
    BY <1>2, <1>4, <2>1, <2>2, <2>3
  <2>4. CASE x # r
    BY <1>2, <1>4, <2>1, <2>2, <2>4
  <2>5. QED
    BY <2>3, <2>4
<1>10. ASSUME NEW r \in Items, NEW d \in Conns \cup {Nobody}, Ownership!Seize(r, d)
       PROVE  told'[x] \subseteq {ownersNext[x]}
  BY <1>2, <1>4, <1>10 DEF Ownership!Seize, Ownership!Tell
<1>11. ASSUME NEW c \in Conns, Ownership!Leave(c) PROVE told'[x] \subseteq {ownersNext[x]}
  BY <1>1, <1>2, <1>11 DEF Ownership!Leave
<1>12. QED
  BY <1>1, <1>5, <1>6, <1>7, <1>8, <1>9, <1>10, <1>11 DEF Ownership!Next

\* Two clients never both hold a resource that never lost an owner.
THEOREM Exclusive == Spec => []ExclusiveGrant
<1>1. Init => ExclusiveGrant
  BY DEF Init, ExclusiveGrant
<1>2. QED
  BY <1>1, TypeCorrect, HoldAlways, OwnershipStep, ExclusiveStep, PTL DEF Spec

(***************************************************************************)
(* The pending lists.                                                      *)
(***************************************************************************)

\* The priorities of requests are numbers.
LEMMA PrioritiesAreNumbers == \A q \in Requests : q.priority \in Int
<1>1. SUFFICES ASSUME NEW q \in Requests PROVE q.priority \in Int
  OBVIOUS
<1>2. q.priority \in Priorities
  BY RequestParts
<1>3. Priorities \subseteq Nat
  BY ServerAssumption
<1>4. \A n \in Nat : n \in Int
  OBVIOUS
<1>5. QED
  BY <1>2, <1>3, <1>4, Zenon

\* A request made again over ordered lists leaves them ordered.
LEMMA RequestSorted ==
  ASSUME NEW c, NEW op, NEW q \in Requests,
         NEW list \in [Items -> Seq(Requests)], NEW free,
         \A x \in Items : Sorted(list[x]),
         RequestResource(c, op, q, list, free)
  PROVE  \A x \in Items : Sorted(pending'[x])
<1>1. \/ pending' = list
      \/ \E r \in Items : pending' = [list EXCEPT ![r] = InsertByPriority(@, q)]
  BY DEF RequestResource
<1>2. ASSUME NEW r \in Items, pending' = [list EXCEPT ![r] = InsertByPriority(@, q)]
      PROVE  \A x \in Items : Sorted(pending'[x])
  <2>1. Sorted(InsertByPriority(list[r], q))
    BY InsertSorted, PrioritiesAreNumbers
  <2>2. QED
    BY <1>2, <2>1
<1>3. QED
  BY <1>1, <1>2

\* No step disturbs the order.
LEMMA SortedStep == TypeOK /\ QueuesSorted /\ [Next]_vars => QueuesSorted'
<1> SUFFICES ASSUME TypeOK, QueuesSorted, [Next]_vars
             PROVE  \A x \in Items : Sorted(pending'[x])
  BY DEF QueuesSorted
<1> DEFINE Good == \A x \in Items : Sorted(pending'[x])
<1>1. pending \in [Items -> Seq(Requests)] /\ \A x \in Items : Sorted(pending[x])
  BY DEF TypeOK, QueuesSorted
<1>2. ASSUME UNCHANGED pending PROVE Good
  BY <1>1, <1>2
<1>3. ASSUME NEW r \in Items, NEW q, Sorted(q), pending' = [pending EXCEPT ![r] = q]
      PROVE  Good
  BY <1>1, <1>3
<1>4. ASSUME NEW r \in Items, NEW k \in 1..Len(pending[r])
      PROVE  /\ RemovePendingAt(pending[r], k) \in Seq(Requests)
             /\ Sorted(RemovePendingAt(pending[r], k))
  BY <1>1, RemoveType, RemoveSorted, PrioritiesAreNumbers
<1>5. ASSUME NEW c \in Conns, NEW r \in Items, ReleaseResource(c, r) PROVE Good
  <2>1. CASE pending[r] = <<>>
    BY <1>2, <1>5, <2>1 DEF ReleaseResource
  <2>2. CASE pending[r] # <<>>
    <3>1. Sorted(Tail(pending[r]))
      BY <1>1, <2>2, TailSorted
    <3>2. pending' = [pending EXCEPT ![r] = Tail(@)]
      BY <1>5, <2>2 DEF ReleaseResource
    <3>3. QED
      BY <1>3, <3>1, <3>2
  <2>3. QED
    BY <2>1, <2>2
<1> HIDE DEF Good
<1>6. ASSUME NEW c \in Conns, NEW q \in Requests, HandleRequest(c, q) PROVE Good
  <2>1. CASE RequestResource(c, "request", q, pending, pool)
    BY <1>1, <2>1, RequestSorted DEF Good
  <2>2. QED
    BY <1>2, <1>6, <2>1 DEF HandleRequest
<1>7. ASSUME NEW c \in Conns, NEW r \in Items, HandleRelease(c, r) PROVE Good
  BY <1>2, <1>5, <1>7 DEF HandleRelease
<1>8. ASSUME NEW c \in Conns, NEW t \in RequestTypes, NEW id \in 1..made[c],
             HandleCancel(c, t, id)
      PROVE  Good
  <2>1. ASSUME NEW r \in Items, NEW k \in 1..Len(pending[r]),
               pending' = [pending EXCEPT ![r] = RemovePendingAt(@, k)]
        PROVE  Good
    BY <1>3, <1>4, <2>1
  <2>2. QED
    BY <1>5, <1>8, <2>1 DEF HandleCancel
<1>9. ASSUME NEW c \in Conns, NEW t \in RequestTypes, NEW id \in 1..made[c],
             NEW p \in Priorities, HandleSetPriority(c, t, id, p)
      PROVE  Good
  <2>1. ASSUME NEW r \in Items, SetOwnerPriority(r, p) PROVE Good
    BY <1>2, <2>1 DEF SetOwnerPriority
  <2>2. ASSUME NEW r \in Items, NEW k \in 1..Len(pending[r]), SetPendingPriority(c, r, k, p)
        PROVE  Good
    <3> DEFINE q == [pending[r][k] EXCEPT !.priority = p]
               rest == RemovePendingAt(pending[r], k)
    <3>1. q \in Requests /\ rest \in Seq(Requests) /\ Sorted(rest)
      BY <1>4, WaitingIsRequest
    <3>2. \/ pending' = [pending EXCEPT ![r] = InsertByPriority(rest, q)]
          \/ pending' = [pending EXCEPT ![r] = rest]
      BY <2>2 DEF SetPendingPriority
    <3> HIDE DEF q, rest
    <3>3. Sorted(InsertByPriority(rest, q))
      BY <3>1, InsertSorted, PrioritiesAreNumbers
    <3>4. QED
      BY <1>3, <3>1, <3>2, <3>3
  <2>3. QED
    BY <1>9, <2>1, <2>2 DEF HandleSetPriority
<1>10. ASSUME NEW c \in Conns, NEW t \in RequestTypes, NEW id \in 1..made[c],
              NEW u \in Usages, HandleSetUsage(c, t, id, u)
       PROVE  Good
  <2>1. ASSUME NEW r \in Items, SetOwnerUsage(r, u) PROVE Good
    BY <1>2, <2>1 DEF SetOwnerUsage
  <2>2. ASSUME NEW r \in Items, NEW k \in 1..Len(pending[r]),
               RequestResource(c, "usage", [pending[r][k] EXCEPT !.usage = u],
                               [pending EXCEPT ![r] = RemovePendingAt(@, k)],
                               [pool EXCEPT ![t] = @ + 1])
        PROVE  Good
    <3>1. [pending[r][k] EXCEPT !.usage = u] \in Requests
      BY WaitingIsRequest
    <3>2. /\ [pending EXCEPT ![r] = RemovePendingAt(@, k)] \in [Items -> Seq(Requests)]
          /\ \A x \in Items : Sorted([pending EXCEPT ![r] = RemovePendingAt(@, k)][x])
      BY <1>1, <1>4
    <3>3. QED
      BY <2>2, <3>1, <3>2, RequestSorted DEF Good
  <2>3. QED
    BY <1>10, <2>1, <2>2 DEF HandleSetUsage
<1>11. CASE UNCHANGED vars
  BY <1>2, <1>11 DEF vars, Good
<1>12. ASSUME NEW c \in Conns, NEW r \in Items, NEW s \in ResStates, HandleSetState(c, r, s)
       PROVE  Good
  BY <1>2, <1>12 DEF HandleSetState
<1>13. ASSUME NEW c \in Conns, NEW app \in Apps, NEW add \in BOOLEAN,
              HandleBlackList(c, app, add)
       PROVE  Good
  BY <1>2, <1>13 DEF HandleBlackList
<1>14. ASSUME NEW c \in Conns, PeerClose(c) \/ EndOfFile(c) \/ Proceed(c) PROVE Good
  BY <1>2, <1>14
     DEF PeerClose, EndOfFile, Proceed, RevokeDone, RevokeTimeout, WriteState, CheckOwner, ClearOwner
<1>15. QED
  BY <1>6, <1>7, <1>8, <1>9, <1>10, <1>11, <1>12, <1>13, <1>14 DEF Next, Handle, Good

\* The requests waiting for a resource are always ordered by priority.
THEOREM SortedQueues == Spec => []QueuesSorted
<1>1. Init => QueuesSorted
  BY DEF Init, QueuesSorted, Sorted
<1>2. QED
  BY <1>1, TypeCorrect, SortedStep, PTL DEF Spec

(***************************************************************************)
(* The activity state.                                                     *)
(***************************************************************************)

\* A new owner.
LEMMA TakeOverIdle ==
  ASSUME TypeOK, IdleWhenFree, NEW r \in Items, NEW q \in Requests, NEW tell,
         TakeOver(r, q, tell)
  PROVE  IdleWhenFree'
<1>1. q.conn \in Conns /\ q.conn # Nobody
  BY RequestParts, ServerAssumption
<1>2. /\ \A x \in Items \ {r} : res'[x] = res[x]
      /\ res'[r].connOwner = q.conn
      /\ scarred \subseteq scarred'
  BY AssignedType DEF TakeOver, TypeOK
<1>3. QED
  BY <1>1, <1>2 DEF IdleWhenFree

\* A preemption that waits, or does not.
LEMMA PreemptIdle ==
  ASSUME TypeOK, IdleWhenFree, NEW c, NEW op, NEW q \in Requests, NEW r \in Items,
         NEW free, Preempt(c, op, q, r, free)
  PROVE  IdleWhenFree'
<1>1. CASE TakeOver(r, q, op # "usage")
  BY <1>1, TakeOverIdle
<1>2. CASE UNCHANGED <<res, told, scarred>>
  BY <1>2 DEF IdleWhenFree
<1>3. QED
  BY <1>1, <1>2 DEF Preempt

\* A request.
LEMMA RequestIdle ==
  ASSUME TypeOK, IdleWhenFree, NEW c, NEW op, NEW q \in Requests, NEW list, NEW free,
         RequestResource(c, op, q, list, free)
  PROVE  IdleWhenFree'
<1>1. ASSUME NEW r \in Items, TakeOver(r, q, op # "usage") PROVE IdleWhenFree'
  BY <1>1, TakeOverIdle
<1>2. ASSUME NEW r \in Items, Preempt(c, op, q, r, free) PROVE IdleWhenFree'
  BY <1>2, PreemptIdle
<1>3. ASSUME UNCHANGED <<res, scarred>> PROVE IdleWhenFree'
  BY <1>3 DEF IdleWhenFree
<1>4. QED
  BY <1>1, <1>2, <1>3 DEF RequestResource

\* A release.
LEMMA ReleaseIdle ==
  ASSUME TypeOK, IdleWhenFree, NEW c, NEW r \in Items, UNCHANGED scarred,
         ReleaseResource(c, r)
  PROVE  IdleWhenFree'
<1>1. /\ \A x \in Items \ {r} : res'[x] = res[x]
      /\ res'[r].state = idle
  <2>1. CASE pending[r] = <<>>
    BY <2>1 DEF ReleaseResource, Unowned, TypeOK
  <2>2. CASE pending[r] # <<>>
    BY <2>2 DEF ReleaseResource, Assigned, TypeOK
  <2>3. QED
    BY <2>1, <2>2
<1>2. QED
  BY <1>1 DEF IdleWhenFree

\* No step writes a state where it does not belong.
LEMMA IdleStep == TypeOK /\ HoldInv /\ IdleWhenFree /\ [Next]_vars => IdleWhenFree'
<1> SUFFICES ASSUME TypeOK, HoldInv, IdleWhenFree, [Next]_vars PROVE IdleWhenFree'
  OBVIOUS
<1>1. ASSUME UNCHANGED <<res, scarred>> PROVE IdleWhenFree'
  BY <1>1 DEF IdleWhenFree
<1>2. ASSUME NEW r \in Items, NEW v, res' = [res EXCEPT ![r] = v],
             v.connOwner = res[r].connOwner, v.state = res[r].state, UNCHANGED scarred
      PROVE  IdleWhenFree'
  <2>1. \A x \in Items : res'[x].connOwner = res[x].connOwner /\ res'[x].state = res[x].state
    BY <1>2 DEF TypeOK
  <2>2. QED
    BY <1>2, <2>1 DEF IdleWhenFree
<1>3. CASE UNCHANGED vars
  BY <1>1, <1>3 DEF vars
<1>4. ASSUME NEW c \in Conns, PeerClose(c) \/ EndOfFile(c) PROVE IdleWhenFree'
  BY <1>1, <1>4 DEF PeerClose, EndOfFile
<1>5. ASSUME NEW c \in Conns, NEW q \in Requests, HandleRequest(c, q) PROVE IdleWhenFree'
  BY <1>1, <1>5, RequestIdle DEF HandleRequest
<1>6. ASSUME NEW c \in Conns, NEW r \in Items, HandleRelease(c, r) PROVE IdleWhenFree'
  BY <1>1, <1>6, ReleaseIdle DEF HandleRelease
<1>7. ASSUME NEW c \in Conns, NEW t \in RequestTypes, NEW id \in 1..made[c],
             HandleCancel(c, t, id)
      PROVE  IdleWhenFree'
  <2>1. ASSUME NEW r \in Items, ReleaseResource(c, r) PROVE IdleWhenFree'
    BY <1>7, <2>1, ReleaseIdle DEF HandleCancel
  <2>2. QED
    BY <1>1, <1>7, <2>1 DEF HandleCancel
<1>8. ASSUME NEW c \in Conns, NEW t \in RequestTypes, NEW id \in 1..made[c],
             NEW p \in Priorities, HandleSetPriority(c, t, id, p)
      PROVE  IdleWhenFree'
  <2>1. ASSUME NEW r \in Items, SetOwnerPriority(r, p) PROVE IdleWhenFree'
    <3> DEFINE v == [res[r] EXCEPT !.priorityOwner = p]
    <3>1. v.connOwner = res[r].connOwner /\ v.state = res[r].state
      BY DEF TypeOK, Owner
    <3>2. res' = [res EXCEPT ![r] = v] /\ UNCHANGED scarred
      BY <2>1 DEF SetOwnerPriority
    <3>3. QED
      BY <1>2, <3>1, <3>2
  <2>2. ASSUME NEW r \in Items, NEW k \in 1..Len(pending[r]), SetPendingPriority(c, r, k, p)
        PROVE  IdleWhenFree'
    <3> DEFINE q == [pending[r][k] EXCEPT !.priority = p]
    <3>1. q \in Requests
      BY WaitingIsRequest
    <3>2. UNCHANGED <<res, scarred>> \/ Preempt(c, "priority", q, r, pool)
      BY <2>2 DEF SetPendingPriority
    <3> HIDE DEF q
    <3>3. QED
      BY <1>1, <3>1, <3>2, PreemptIdle
  <2>3. QED
    BY <1>8, <2>1, <2>2 DEF HandleSetPriority
<1>9. ASSUME NEW c \in Conns, NEW t \in RequestTypes, NEW id \in 1..made[c],
             NEW u \in Usages, HandleSetUsage(c, t, id, u)
      PROVE  IdleWhenFree'
  <2>1. ASSUME NEW r \in Items, SetOwnerUsage(r, u) PROVE IdleWhenFree'
    <3> DEFINE v == [res[r] EXCEPT !.usageOwner = u.bits]
    <3>1. v.connOwner = res[r].connOwner /\ v.state = res[r].state
      BY DEF TypeOK, Owner
    <3>2. res' = [res EXCEPT ![r] = v] /\ UNCHANGED scarred
      BY <2>1 DEF SetOwnerUsage
    <3>3. QED
      BY <1>2, <3>1, <3>2
  <2>2. ASSUME NEW r \in Items, NEW k \in 1..Len(pending[r]),
               RequestResource(c, "usage", [pending[r][k] EXCEPT !.usage = u],
                               [pending EXCEPT ![r] = RemovePendingAt(@, k)],
                               [pool EXCEPT ![t] = @ + 1])
        PROVE  IdleWhenFree'
    BY <2>2, WaitingIsRequest, RequestIdle
  <2>3. QED
    BY <1>9, <2>1, <2>2 DEF HandleSetUsage
<1>10. ASSUME NEW c \in Conns, NEW r \in Items, NEW s \in ResStates, HandleSetState(c, r, s)
       PROVE  IdleWhenFree'
  BY <1>1, <1>10 DEF HandleSetState
<1>11. ASSUME NEW c \in Conns, NEW app \in Apps, NEW add \in BOOLEAN,
              HandleBlackList(c, app, add)
       PROVE  IdleWhenFree'
  BY <1>1, <1>11 DEF HandleBlackList
<1>12. ASSUME NEW c \in Conns, RevokeDone(c) PROVE IdleWhenFree'
  <2>1. thr[c].item \in Items /\ thr[c].req \in Requests
    BY <1>12, ThreadParts DEF RevokeDone, TypeOK
  <2>2. TakeOver(thr[c].item, thr[c].req, thr[c].op # "usage")
    BY <1>12 DEF RevokeDone
  <2>3. QED
    BY <2>1, <2>2, TakeOverIdle
<1>13. ASSUME NEW c \in Conns, RevokeTimeout(c) \/ CheckOwner(c) PROVE IdleWhenFree'
  BY <1>1, <1>13 DEF RevokeTimeout, CheckOwner
<1>14. ASSUME NEW c \in Conns, WriteState(c) PROVE IdleWhenFree'
  <2> DEFINE r == thr[c].item
  <2>1. r \in Items
    BY <1>14, ThreadParts DEF WriteState, TypeOK
  <2>2. \A x \in Items : res'[x].connOwner = res[x].connOwner
    BY <1>14, <2>1 DEF WriteState, TypeOK, Owner
  <2>3. \A x \in Items : x # r => res'[x].state = res[x].state
    BY <1>14, <2>1 DEF WriteState, TypeOK
  <2>4. UNCHANGED scarred
    BY <1>14 DEF WriteState
  <2>5. r \notin scarred => res[r].connOwner = c /\ c # Nobody
    BY <1>14, ServerAssumption DEF WriteState, HoldInv, Holders, Between, Target
  <2> HIDE DEF r
  <2>6. QED
    BY <2>2, <2>3, <2>4, <2>5 DEF IdleWhenFree
<1>15. ASSUME NEW c \in Conns, ClearOwner(c) PROVE IdleWhenFree'
  <2> DEFINE r == AllItems[thr[c].at]
  <2>1. res' = [res EXCEPT ![r] = Unowned] /\ scarred' = scarred \cup {r}
    BY <1>15 DEF ClearOwner
  <2> HIDE DEF r
  <2>2. \A x \in Items \ {r} : res'[x] = res[x]
    BY <2>1 DEF TypeOK
  <2>3. QED
    BY <2>1, <2>2 DEF IdleWhenFree
<1>16. QED
  BY <1>3, <1>4, <1>5, <1>6, <1>7, <1>8, <1>9, <1>10, <1>11, <1>12, <1>13, <1>14, <1>15
     DEF Next, Handle, Proceed

\* A resource that is free and never lost an owner is idle: the unlocked
\* state write of an owner cannot land after its release.
THEOREM IdleFree == Spec => []IdleWhenFree
<1>1. Init => IdleWhenFree
  BY DEF Init, IdleWhenFree, Unowned
<1>2. QED
  BY <1>1, TypeCorrect, HoldAlways, IdleStep, PTL DEF Spec

(***************************************************************************)
(* Who waits, and for whom: a free resource has nobody waiting for it, and *)
(* an owner that keeps a better request waiting has been asked to release. *)
(* One argument gives both: a request is only queued behind an owner it    *)
(* does not beat (lemma FindSuitable), and a handover takes the best one.  *)
(***************************************************************************)

Unserved(x) == pending[x] # <<>> /\ Head(pending[x]).priority < res[x].priorityOwner

\* NoIdleResource and BetterRequestRevokes for one resource.
Served(x) ==
  x \notin scarred =>
    /\ res[x].connOwner = Nobody => pending[x] = <<>>
    /\ Unserved(x) => x \in revoked \/ peer[res[x].connOwner] # "open"

ServedInv == \A x \in Items : Served(x)

\* What the run checks, in the words of the proof.
LEMMA ServedMeaning == ServedInv <=> NoIdleResource /\ BetterRequestRevokes
BY DEF ServedInv, Served, Unserved, NoIdleResource, BetterRequestRevokes

\* The list of x is cut: nothing is left of it, or its head is still there.
Cut(list, x) == list[x] = <<>> \/ (pending[x] # <<>> /\ Head(list[x]) = Head(pending[x]))

\* A request waits behind an owner that it does not beat.
LEMMA QueuedBehindOwner ==
  ASSUME TypeOK, NEW q \in Requests, NEW r \in Items, r = Decide(q).pending
  PROVE  res[r].connOwner # Nobody /\ res[r].priorityOwner <= q.priority
<1>1. r # Nobody /\ Nobody \notin Items /\ requesterWinsPriorityTie \in BOOLEAN
  BY ServerAssumption
<1>2. ItemsOf[q.type] \in Seq(Items)
  BY RequestParts, ServerAssumption
<1>3. Suits(View, ItemsOf[q.type], IsVideo(q.type), requesterWinsPriorityTie,
            q.priority, q.usage, Decide(q))
  BY <1>1, <1>2, FindSuitable DEF Decide
<1>4. Kept(View[r], requesterWinsPriorityTie, q.priority, q.usage)
  BY <1>1, <1>3, Zenon DEF Suits
<1>5. View[r].connOwner = res[r].connOwner /\ View[r].priorityOwner = res[r].priorityOwner
  BY DEF View
<1>6. /\ View[r].connOwner # Nobody
      /\ View[r].priorityOwner = q.priority \/ View[r].priorityOwner < q.priority
  BY <1>4 DEF Kept, Tied, Outranks, Owned
<1>7. res[r].priorityOwner \in Int /\ q.priority \in Int
  <2>1. res[r].priorityOwner \in Priorities \cup {0}
    BY DEF TypeOK, Owner
  <2>2. \A p \in Priorities : p \in Int
    BY ServerAssumption
  <2>3. QED
    BY <2>1, <2>2, PrioritiesAreNumbers
<1>8. QED
  BY <1>5, <1>6, <1>7

\* A resource stays served when its owner and the owner's priority stay and
\* its list is only cut.
LEMMA ServedKept ==
  ASSUME NEW x \in Items, Served(x),
         x \in scarred => x \in scarred',
         x \in revoked => x \in revoked',
         \A d \in Conns : peer[d] # "open" => peer'[d] # "open",
         res[x].connOwner \in Conns \cup {Nobody},
         res'[x].connOwner = res[x].connOwner,
         res'[x].priorityOwner = res[x].priorityOwner,
         Cut(pending', x)
  PROVE  Served(x)'
BY DEF Served, Unserved, Cut

\* A new owner, and lists that are only cut.
LEMMA TakeOverServed ==
  ASSUME TypeOK, ServedInv, UNCHANGED peer, NEW r \in Items, NEW q \in Requests, NEW tell,
         TakeOver(r, q, tell), \A x \in Items : Cut(pending', x)
  PROVE  ServedInv'
<1>1. /\ \A x \in Items \ {r} : res'[x] = res[x]
      /\ res'[r] = Assigned(r, q)
      /\ revoked' = revoked \ {r}
      /\ scarred \subseteq scarred'
      /\ res[r].connOwner # Nobody => r \in scarred'
  BY DEF TakeOver, TypeOK
<1>2. \A x \in Items : res[x].connOwner \in Conns \cup {Nobody}
  BY DEF TypeOK, Owner
<1>3. ASSUME NEW x \in Items \ {r} PROVE Served(x)'
  BY <1>1, <1>2, ServedKept DEF ServedInv
<1>4. Served(r)'
  <2>1. r \notin scarred' => pending'[r] = <<>>
    BY <1>1 DEF ServedInv, Served, Cut
  <2>2. QED
    BY <2>1 DEF Served, Unserved
<1>5. QED
  BY <1>3, <1>4 DEF ServedInv

\* Lists that are only cut, and more owners that are asked to release.
LEMMA CutServed ==
  ASSUME TypeOK, ServedInv, UNCHANGED peer, revoked \subseteq revoked',
         scarred \subseteq scarred',
         \A x \in Items : /\ res'[x].connOwner = res[x].connOwner
                          /\ res'[x].priorityOwner = res[x].priorityOwner,
         \A x \in Items : Cut(pending', x)
  PROVE  ServedInv'
<1>1. \A x \in Items : res[x].connOwner \in Conns \cup {Nobody}
  BY DEF TypeOK, Owner
<1>2. QED
  BY <1>1, ServedKept DEF ServedInv

\* The list of one resource is cut, the others stay.
LEMMA CutExcept ==
  ASSUME TypeOK, NEW r \in Items, NEW q, q = <<>> \/ (pending[r] # <<>> /\ Head(q) = Head(pending[r]))
  PROVE  \A x \in Items : Cut([pending EXCEPT ![r] = q], x)
BY DEF TypeOK, Cut

\* Taking an entry out of a list takes it out of the list's cut.
LEMMA CutRemove ==
  ASSUME TypeOK, NEW r \in Items, NEW k \in 1..Len(pending[r])
  PROVE  \A x \in Items : Cut([pending EXCEPT ![r] = RemovePendingAt(@, k)], x)
<1>1. pending[r] \in Seq(Requests)
  BY DEF TypeOK
<1>2. QED
  BY <1>1, RemoveHead, CutExcept

\* A request inserted behind an owner it does not beat.
LEMMA InsertServed ==
  ASSUME TypeOK, ServedInv, UNCHANGED <<res, peer, revoked, scarred>>,
         NEW list \in [Items -> Seq(Requests)], \A x \in Items : Cut(list, x),
         NEW r \in Items, NEW q \in Requests,
         res[r].connOwner # Nobody \/ r \in scarred,
         res[r].priorityOwner <= q.priority,
         pending' = [list EXCEPT ![r] = InsertByPriority(@, q)]
  PROVE  ServedInv'
<1>1. \A x \in Items : res[x].connOwner \in Conns \cup {Nobody}
  BY DEF TypeOK, Owner
<1>2. ASSUME NEW x \in Items \ {r} PROVE Served(x)'
  <2>1. Cut(pending', x)
    BY DEF Cut
  <2>2. QED
    BY <1>1, <2>1, ServedKept DEF ServedInv
<1>3. Served(r)'
  <2>1. pending'[r] = InsertByPriority(list[r], q) /\ list[r] \in Seq(Requests)
    OBVIOUS
  <2>2. \/ Head(pending'[r]) = q
        \/ list[r] # <<>> /\ Head(pending'[r]) = Head(list[r])
    BY <2>1, InsertHead
  <2>3. CASE Head(pending'[r]) = q
    <3>1. ~(q.priority < res[r].priorityOwner)
      <4>1. q.priority \in Int
        BY PrioritiesAreNumbers
      <4>2. res[r].priorityOwner \in Int
        <5>1. res[r].priorityOwner \in Priorities \cup {0}
          BY DEF TypeOK, Owner
        <5>2. \A p \in Priorities : p \in Int
          BY ServerAssumption
        <5>3. QED
          BY <5>1, <5>2
      <4>3. QED
        BY <4>1, <4>2
    <3>2. QED
      BY <2>3, <3>1 DEF Served, Unserved
  <2>4. CASE list[r] # <<>> /\ Head(pending'[r]) = Head(list[r])
    <3>1. pending[r] # <<>> /\ Head(pending'[r]) = Head(pending[r])
      BY <2>4 DEF Cut
    <3>2. QED
      BY <3>1 DEF ServedInv, Served, Unserved
  <2>5. QED
    BY <2>2, <2>3, <2>4
<1>4. QED
  BY <1>2, <1>3 DEF ServedInv

\* A preemption, the lists being cut.
LEMMA PreemptServed ==
  ASSUME TypeOK, ServedInv, UNCHANGED peer, NEW c, NEW op, NEW q \in Requests,
         NEW r \in Items, NEW free, Preempt(c, op, q, r, free),
         \A x \in Items : Cut(pending', x)
  PROVE  ServedInv'
<1>1. CASE TakeOver(r, q, op # "usage")
  BY <1>1, TakeOverServed
<1>2. CASE revoked' = revoked \cup {r} /\ UNCHANGED <<res, scarred>>
  BY <1>2, CutServed
<1>3. QED
  BY <1>1, <1>2 DEF Preempt

\* A request, made over lists that are cut.
LEMMA RequestServed ==
  ASSUME TypeOK, ServedInv, UNCHANGED peer, NEW c, NEW op, NEW q \in Requests,
         NEW list \in [Items -> Seq(Requests)], \A x \in Items : Cut(list, x),
         NEW free, RequestResource(c, op, q, list, free)
  PROVE  ServedInv'
<1>1. ASSUME NEW r \in Items, pending' = list,
             TakeOver(r, q, op # "usage") \/ Preempt(c, op, q, r, free)
      PROVE  ServedInv'
  <2>1. \A x \in Items : Cut(pending', x)
    BY <1>1
  <2>2. QED
    BY <1>1, <2>1, TakeOverServed, PreemptServed
<1>2. ASSUME NEW r \in Items, r = Decide(q).pending,
             pending' = [list EXCEPT ![r] = InsertByPriority(@, q)],
             UNCHANGED <<res, thr, told, revoked, scarred>>
      PROVE  ServedInv'
  <2>1. res[r].connOwner # Nobody /\ res[r].priorityOwner <= q.priority
    BY <1>2, QueuedBehindOwner
  <2>2. QED
    BY <1>2, <2>1, InsertServed
<1>3. ASSUME pending' = list, UNCHANGED <<res, thr, told, revoked, scarred>> PROVE ServedInv'
  <2>1. \A x \in Items : Cut(pending', x)
    BY <1>3
  <2>2. QED
    BY <1>3, <2>1, CutServed
<1>4. QED
  BY <1>1, <1>2, <1>3 DEF RequestResource

\* A release: nobody is waiting, or the best request becomes the owner.
LEMMA ReleaseServed ==
  ASSUME TypeOK, QueuesSorted, ServedInv, UNCHANGED <<peer, scarred>>, NEW c,
         NEW r \in Items, ReleaseResource(c, r)
  PROVE  ServedInv'
<1>1. \A x \in Items : res[x].connOwner \in Conns \cup {Nobody}
  BY DEF TypeOK, Owner
<1>2. ASSUME NEW x \in Items \ {r} PROVE Served(x)'
  <2>1. res'[x] = res[x] /\ pending'[x] = pending[x] /\ (x \in revoked => x \in revoked')
    BY DEF ReleaseResource, TypeOK
  <2>2. QED
    BY <1>1, <2>1, ServedKept DEF ServedInv, Cut
<1>3. Served(r)'
  <2>1. CASE pending[r] = <<>>
    BY <2>1 DEF ReleaseResource, Served, Unserved
  <2>2. CASE pending[r] # <<>>
    <3> DEFINE q == Head(pending[r])
    <3>1. /\ pending[r] \in Seq(Requests)
          /\ q = pending[r][1] /\ q \in Requests
          /\ Len(pending[r]) \in Nat /\ Len(pending[r]) > 0
      BY <2>2 DEF TypeOK
    <3>2. /\ res'[r] = [Assigned(r, q) EXCEPT !.state = idle]
          /\ pending'[r] = Tail(pending[r])
      BY <2>2 DEF ReleaseResource, TypeOK
    <3> HIDE DEF q
    <3>3. res'[r].connOwner = q.conn /\ res'[r].priorityOwner = q.priority
      BY <3>2 DEF Assigned
    <3>4. res'[r].connOwner # Nobody
      BY <3>1, <3>3, RequestParts, ServerAssumption
    <3>5. pending'[r] # <<>> => ~(Head(pending'[r]).priority < q.priority)
      <4> SUFFICES ASSUME pending'[r] # <<>> PROVE ~(Head(pending'[r]).priority < q.priority)
        OBVIOUS
      <4>1. Head(pending'[r]) = pending[r][2] /\ 2 \in 1..Len(pending[r]) /\ 1 \in 1..Len(pending[r])
        BY <3>1, <3>2
      <4>2. q.priority <= pending[r][2].priority
        BY <3>1, <4>1 DEF QueuesSorted, Sorted
      <4>3. q.priority \in Int /\ pending[r][2].priority \in Int
        BY <3>1, <4>1, PrioritiesAreNumbers
      <4>4. QED
        BY <4>1, <4>2, <4>3
    <3>6. QED
      BY <3>3, <3>4, <3>5 DEF Served, Unserved
  <2>3. QED
    BY <2>1, <2>2
<1>4. QED
  BY <1>2, <1>3 DEF ServedInv

\* An owner's new priority: it is asked to release when it falls behind, and
\* only an owner that has closed its connection cannot be asked.
LEMMA OwnerPriorityServed ==
  ASSUME TypeOK, HoldInv, ServedInv, UNCHANGED peer, NEW r \in Items, NEW p \in Priorities,
         res[r].connOwner \in Conns, SetOwnerPriority(r, p)
  PROVE  ServedInv'
<1>1. /\ \A x \in Items \ {r} : res'[x] = res[x]
      /\ res'[r].connOwner = res[r].connOwner
      /\ res'[r].priorityOwner = p
      /\ UNCHANGED <<pending, scarred>>
      /\ revoked \subseteq revoked'
  BY DEF SetOwnerPriority, TypeOK, Owner
<1>2. \A x \in Items : res[x].connOwner \in Conns \cup {Nobody}
  BY DEF TypeOK, Owner
<1>3. ASSUME NEW x \in Items \ {r} PROVE Served(x)'
  BY <1>1, <1>2, ServedKept DEF ServedInv, Cut
<1>4. Served(r)'
  <2>1. PICK sent \in SendOutcomes(res[r].connOwner) :
          revoked' = IF sent /\ pending[r] # <<>> /\ p > Head(pending[r]).priority
                     THEN revoked \cup {r} ELSE revoked
    BY DEF SetOwnerPriority
  <2>2. sent \/ peer[res[r].connOwner] = "closed"
    <3>1. sent \in BOOLEAN
      BY DEF SendOutcomes
    <3>2. res[r].connOwner # Nobody
      BY ServerAssumption
    <3>3. QED
      BY <3>1, <3>2, OutOfReach
  <2>3. pending[r] # <<>> =>
          (Head(pending[r]).priority < p => p > Head(pending[r]).priority)
    <3>1. pending[r] # <<>> => Head(pending[r]) \in Requests
      BY DEF TypeOK
    <3>2. p \in Int
      BY ServerAssumption
    <3>3. QED
      BY <3>1, <3>2, PrioritiesAreNumbers
  <2>4. res[r].connOwner # Nobody
    BY ServerAssumption
  <2>5. QED
    BY <1>1, <2>1, <2>2, <2>3, <2>4 DEF Served, Unserved
<1>5. QED
  BY <1>3, <1>4 DEF ServedInv

\* A waiting request's new priority: it waits again behind an owner it does
\* not beat, or leaves the list.
LEMMA PendingPriorityServed ==
  ASSUME TypeOK, ServedInv, UNCHANGED peer, NEW c, NEW r \in Items,
         NEW k \in 1..Len(pending[r]), NEW p \in Priorities, SetPendingPriority(c, r, k, p)
  PROVE  ServedInv'
<1> DEFINE q == [pending[r][k] EXCEPT !.priority = p]
           rest == RemovePendingAt(pending[r], k)
           list == [pending EXCEPT ![r] = RemovePendingAt(@, k)]
           stay == \/ p > res[r].priorityOwner
                   \/ ~requesterWinsPriorityTie /\ p = res[r].priorityOwner
<1>1. q \in Requests /\ q.priority = p
  BY WaitingIsRequest DEF Requests
<1>2. rest \in Seq(Requests)
  BY RemoveType DEF TypeOK
<1>3. list \in [Items -> Seq(Requests)] /\ list[r] = rest
  BY <1>2 DEF TypeOK
<1>4. \A x \in Items : Cut(list, x)
  BY CutRemove
<1>5. CASE stay
  <2>1. /\ pending' = [list EXCEPT ![r] = InsertByPriority(@, q)]
        /\ UNCHANGED <<res, revoked, scarred>>
    BY <1>5, <1>3 DEF SetPendingPriority, TypeOK
  <2>2. res[r].priorityOwner <= p
    <3>1. p \in Int /\ res[r].priorityOwner \in Int
      <4>1. res[r].priorityOwner \in Priorities \cup {0}
        BY DEF TypeOK, Owner
      <4>2. \A n \in Priorities : n \in Int
        BY ServerAssumption
      <4>3. QED
        BY <4>1, <4>2
    <3>2. QED
      BY <1>5, <3>1
  <2>3. res[r].connOwner # Nobody \/ r \in scarred
    <3>1. pending[r] # <<>>
      BY DEF TypeOK
    <3>2. QED
      BY <3>1 DEF ServedInv, Served
  <2> HIDE DEF q, list
  <2>4. QED
    BY <1>1, <1>3, <1>4, <2>1, <2>2, <2>3, InsertServed
<1>6. CASE ~stay
  <2>1. /\ pending' = list
        /\ \/ /\ revoked' = revoked \cup {r} \/ revoked' = revoked
              /\ UNCHANGED <<res, scarred>>
           \/ Preempt(c, "priority", q, r, pool)
    BY <1>6 DEF SetPendingPriority
  <2> HIDE DEF q, list
  <2>2. \A x \in Items : Cut(pending', x)
    BY <1>4, <2>1
  <2>3. CASE Preempt(c, "priority", q, r, pool)
    BY <1>1, <2>2, <2>3, PreemptServed
  <2>4. CASE revoked \subseteq revoked' /\ UNCHANGED <<res, scarred>>
    BY <2>2, <2>4, CutServed
  <2>5. QED
    BY <2>1, <2>3, <2>4
<1>7. QED
  BY <1>5, <1>6

\* No step leaves a request waiting for nobody, or unasked for.
LEMMA ServedStep ==
  TypeOK /\ HoldInv /\ QueuesSorted /\ ServedInv /\ [Next]_vars => ServedInv'
<1> SUFFICES ASSUME TypeOK, HoldInv, QueuesSorted, ServedInv, [Next]_vars
             PROVE  ServedInv'
  OBVIOUS
<1>1. \A x \in Items : Cut(pending, x)
  BY DEF Cut
<1>2. ASSUME revoked \subseteq revoked', UNCHANGED <<res, pending, scarred, peer>>
      PROVE  ServedInv'
  <2>1. \A x \in Items : Cut(pending', x)
    BY <1>2 DEF Cut
  <2>2. QED
    BY <1>2, <2>1, CutServed
<1>3. CASE UNCHANGED vars
  BY <1>2, <1>3 DEF vars
<1>4. ASSUME NEW c \in Conns, PeerClose(c) PROVE ServedInv'
  <2>1. UNCHANGED <<res, pending, revoked, scarred>> /\ peer' = [peer EXCEPT ![c] = "closed"]
    BY <1>4 DEF PeerClose
  <2>2. \A d \in Conns : peer[d] # "open" => peer'[d] # "open"
    BY <2>1 DEF TypeOK
  <2>3. \A x \in Items : res[x].connOwner \in Conns \cup {Nobody}
    BY DEF TypeOK, Owner
  <2>4. \A x \in Items : Cut(pending', x)
    BY <2>1 DEF Cut
  <2>5. QED
    BY <2>1, <2>2, <2>3, <2>4, ServedKept DEF ServedInv
<1>5. ASSUME NEW c \in Conns, EndOfFile(c) \/ RevokeTimeout(c) \/ CheckOwner(c) PROVE ServedInv'
  BY <1>2, <1>5 DEF EndOfFile, RevokeTimeout, CheckOwner
<1>6. ASSUME NEW c \in Conns, NEW q \in Requests, HandleRequest(c, q) PROVE ServedInv'
  <2>1. CASE RequestResource(c, "request", q, pending, pool) /\ UNCHANGED peer
    BY <1>1, <2>1, RequestServed DEF TypeOK
  <2>2. QED
    BY <1>2, <1>6, <2>1 DEF HandleRequest
<1>7. ASSUME NEW c \in Conns, NEW r \in Items, HandleRelease(c, r) PROVE ServedInv'
  BY <1>2, <1>7, ReleaseServed DEF HandleRelease
<1>8. ASSUME NEW c \in Conns, NEW t \in RequestTypes, NEW id \in 1..made[c],
             HandleCancel(c, t, id)
      PROVE  ServedInv'
  <2>1. UNCHANGED <<peer, scarred>>
    BY <1>8 DEF HandleCancel
  <2>2. ASSUME NEW r \in Items, NEW k \in 1..Len(pending[r]), UNCHANGED <<res, revoked>>,
               pending' = [pending EXCEPT ![r] = RemovePendingAt(@, k)]
        PROVE  ServedInv'
    <3>1. \A x \in Items : Cut(pending', x)
      BY <2>2, CutRemove
    <3>2. QED
      BY <2>1, <2>2, <3>1, CutServed
  <2>3. QED
    BY <1>8, <2>1, <2>2, ReleaseServed DEF HandleCancel
<1>9. ASSUME NEW c \in Conns, NEW t \in RequestTypes, NEW id \in 1..made[c],
             NEW p \in Priorities, HandleSetPriority(c, t, id, p)
      PROVE  ServedInv'
  <2>1. UNCHANGED peer
    BY <1>9 DEF HandleSetPriority
  <2>2. ASSUME NEW r \in Items, Owns(c, t, id, r), SetOwnerPriority(r, p) PROVE ServedInv'
    BY <2>1, <2>2, OwnerPriorityServed DEF Owns
  <2>3. ASSUME NEW r \in Items, NEW k \in 1..Len(pending[r]), SetPendingPriority(c, r, k, p)
        PROVE  ServedInv'
    BY <2>1, <2>3, PendingPriorityServed
  <2>4. QED
    BY <1>9, <2>2, <2>3 DEF HandleSetPriority
<1>10. ASSUME NEW c \in Conns, NEW t \in RequestTypes, NEW id \in 1..made[c],
              NEW u \in Usages, HandleSetUsage(c, t, id, u)
       PROVE  ServedInv'
  <2>1. UNCHANGED peer
    BY <1>10 DEF HandleSetUsage
  <2>2. ASSUME NEW r \in Items, SetOwnerUsage(r, u) PROVE ServedInv'
    <3>1. \A x \in Items : /\ res'[x].connOwner = res[x].connOwner
                           /\ res'[x].priorityOwner = res[x].priorityOwner
      BY <2>2 DEF SetOwnerUsage, TypeOK, Owner
    <3>2. revoked \subseteq revoked' /\ UNCHANGED <<pending, scarred>>
      BY <2>2 DEF SetOwnerUsage
    <3>3. \A x \in Items : Cut(pending', x)
      BY <3>2 DEF Cut
    <3>4. QED
      BY <2>1, <3>1, <3>2, <3>3, CutServed
  <2>3. ASSUME NEW r \in Items, NEW k \in 1..Len(pending[r]),
               RequestResource(c, "usage", [pending[r][k] EXCEPT !.usage = u],
                               [pending EXCEPT ![r] = RemovePendingAt(@, k)],
                               [pool EXCEPT ![t] = @ + 1])
        PROVE  ServedInv'
    <3>1. [pending[r][k] EXCEPT !.usage = u] \in Requests
      BY WaitingIsRequest
    <3>2. [pending EXCEPT ![r] = RemovePendingAt(@, k)] \in [Items -> Seq(Requests)]
      BY RemoveType DEF TypeOK
    <3>3. QED
      BY <2>1, <2>3, <3>1, <3>2, CutRemove, RequestServed
  <2>4. QED
    BY <1>10, <2>2, <2>3 DEF HandleSetUsage
<1>11. ASSUME NEW c \in Conns, NEW r \in Items, NEW s \in ResStates, HandleSetState(c, r, s)
       PROVE  ServedInv'
  BY <1>2, <1>11 DEF HandleSetState
<1>12. ASSUME NEW c \in Conns, NEW app \in Apps, NEW add \in BOOLEAN,
              HandleBlackList(c, app, add)
       PROVE  ServedInv'
  BY <1>2, <1>12 DEF HandleBlackList
<1>13. ASSUME NEW c \in Conns, RevokeDone(c) PROVE ServedInv'
  <2>1. thr[c].item \in Items /\ thr[c].req \in Requests
    BY <1>13, ThreadParts DEF RevokeDone, TypeOK
  <2>2. TakeOver(thr[c].item, thr[c].req, thr[c].op # "usage") /\ UNCHANGED <<pending, peer>>
    BY <1>13 DEF RevokeDone
  <2>3. \A x \in Items : Cut(pending', x)
    BY <2>2 DEF Cut
  <2>4. QED
    BY <2>1, <2>2, <2>3, TakeOverServed
<1>14. ASSUME NEW c \in Conns, WriteState(c) PROVE ServedInv'
  <2>1. \A x \in Items : /\ res'[x].connOwner = res[x].connOwner
                         /\ res'[x].priorityOwner = res[x].priorityOwner
    BY <1>14 DEF WriteState, TypeOK, Owner
  <2>2. UNCHANGED <<pending, peer, revoked, scarred>>
    BY <1>14 DEF WriteState
  <2>3. \A x \in Items : Cut(pending', x)
    BY <2>2 DEF Cut
  <2>4. QED
    BY <2>1, <2>2, <2>3, CutServed
<1>15. ASSUME NEW c \in Conns, ClearOwner(c) PROVE ServedInv'
  <2>1. PICK r :
        /\ res' = [res EXCEPT ![r] = Unowned]
        /\ revoked' = revoked \ {r}
        /\ scarred' = scarred \cup {r}
        /\ UNCHANGED <<pending, peer>>
    BY <1>15 DEF ClearOwner
  <2>2. \A x \in Items : res[x].connOwner \in Conns \cup {Nobody}
    BY DEF TypeOK, Owner
  <2>3. ASSUME NEW x \in Items \ {r} PROVE Served(x)'
    <3>1. res'[x] = res[x] /\ (x \in revoked => x \in revoked') /\ Cut(pending', x)
      BY <2>1 DEF TypeOK, Cut
    <3>2. QED
      BY <2>1, <2>2, <3>1, ServedKept DEF ServedInv
  <2>4. r \in scarred'
    BY <2>1
  <2>5. Served(r)'
    BY <2>4 DEF Served
  <2>6. \A x \in Items : x # r => Served(x)'
    BY <2>3
  <2>7. QED
    BY <2>5, <2>6 DEF ServedInv
<1>16. QED
  BY <1>3, <1>4, <1>5, <1>6, <1>7, <1>8, <1>9, <1>10, <1>11, <1>12, <1>13, <1>14, <1>15
     DEF Next, Handle, Proceed

\* The invariant of the served resources holds in every reachable state.
LEMMA ServedAlways == Spec => []ServedInv
<1>1. Init => ServedInv
  BY DEF Init, ServedInv, Served, Unserved
<1>2. QED
  BY <1>1, TypeCorrect, HoldAlways, SortedQueues, ServedStep, PTL DEF Spec

\* A resource nobody owns has nobody waiting for it, unless its owner's
\* connection was lost: no release leaves a pending request behind.
THEOREM NoneLeftWaiting == Spec => []NoIdleResource
<1>1. ServedInv => NoIdleResource
  BY ServedMeaning
<1>2. QED
  BY <1>1, ServedAlways, PTL

\* An owner that keeps a more important request waiting has been asked to
\* release, if it can be reached, whatever priorities and usages change.
THEOREM BetterRequestIsServed == Spec => []BetterRequestRevokes
<1>1. ServedInv => BetterRequestRevokes
  BY ServedMeaning
<1>2. QED
  BY <1>1, ServedAlways, PTL

(***************************************************************************)
(* Where a request is: the number of the request is fresh when it is made, *)
(* and it is moved between the table, the lists and a preemption.          *)
(***************************************************************************)

Key(q) == <<q.conn, q.requestId>>
OwnKey(o) == <<o.connOwner, o.requestIdOwner>>

\* The request with this key owns nothing and waits nowhere.
Elsewhere(key, own, list) ==
  /\ \A r \in Items : OwnKey(own[r]) # key
  /\ \A r \in Items : \A k \in 1..Len(list[r]) : Key(list[r][k]) # key

\* The number of the request has been used by its client.
Used(key, n) == key[2] <= n[key[1]]

Busy(x) == x.step = "revoke"

\* In the table own, the lists and the threads every request is in one place.
TableApart(own, n) ==
  \A r, x \in Items : own[r].connOwner # Nobody =>
    /\ OwnKey(own[r]) = OwnKey(own[x]) => r = x
    /\ Used(OwnKey(own[r]), n)

ListsApart(own, list, n) ==
  \A r, x \in Items : \A k \in 1..Len(list[r]) :
    /\ \A j \in 1..Len(list[x]) : Key(list[r][k]) = Key(list[x][j]) => r = x /\ k = j
    /\ OwnKey(own[x]) # Key(list[r][k])
    /\ Used(Key(list[r][k]), n)

ThreadsApart(own, list, busy, n) ==
  \A c \in Conns : Busy(busy[c]) =>
    /\ busy[c].req.conn = c
    /\ Used(Key(busy[c].req), n)
    /\ Elsewhere(Key(busy[c].req), own, list)

Apart(own, list, busy, n) ==
  TableApart(own, n) /\ ListsApart(own, list, n) /\ ThreadsApart(own, list, busy, n)

\* Request q has a used number and is in no place.
Nowhere(q, own, list, busy, n) ==
  /\ Used(Key(q), n)
  /\ Elsewhere(Key(q), own, list)
  /\ \A c \in Conns : Busy(busy[c]) => Key(busy[c].req) # Key(q)

PlaceInv == Apart(res, pending, thr, made)

\* A resource is given to a request that is in no place.
LEMMA AssignApart ==
  ASSUME NEW own \in [Items -> Owner], NEW list \in [Items -> Seq(Requests)],
         NEW busy, NEW n, NEW r \in Items, NEW q, NEW v,
         Apart(own, list, busy, n), Nowhere(q, own, list, busy, n), OwnKey(v) = Key(q)
  PROVE  Apart([own EXCEPT ![r] = v], list, busy, n)
<1>1. \A x \in Items : [own EXCEPT ![r] = v][x] = IF x = r THEN v ELSE own[x]
  OBVIOUS
<1> DEFINE new == [own EXCEPT ![r] = v]
<1> HIDE DEF new
<1>2. \A x \in Items : OwnKey(new[x]) = IF x = r THEN Key(q) ELSE OwnKey(own[x])
  BY <1>1 DEF new
<1>3. \A x, y \in Items : new[x].connOwner # Nobody =>
        /\ OwnKey(new[x]) = OwnKey(new[y]) => x = y
        /\ Used(OwnKey(new[x]), n)
  BY <1>1, <1>2 DEF Apart, TableApart, ListsApart, ThreadsApart, Nowhere, Elsewhere, new
<1>4. \A x, y \in Items : \A k \in 1..Len(list[x]) : OwnKey(new[y]) # Key(list[x][k])
  BY <1>2 DEF Apart, TableApart, ListsApart, ThreadsApart, Nowhere, Elsewhere
<1>5. \A c \in Conns : Busy(busy[c]) => Elsewhere(Key(busy[c].req), new, list)
  BY <1>2 DEF Apart, TableApart, ListsApart, ThreadsApart, Nowhere, Elsewhere
<1>6. TableApart(new, n)
  BY <1>3 DEF TableApart
<1>7. ListsApart(new, list, n)
  BY <1>4 DEF Apart, ListsApart
<1>8. ThreadsApart(new, list, busy, n)
  BY <1>5 DEF Apart, ThreadsApart
<1>9. QED
  BY <1>6, <1>7, <1>8 DEF Apart, new

\* A resource is taken from its owner, or its owner stays the same request.
LEMMA FreeApart ==
  ASSUME NEW own \in [Items -> Owner], NEW list \in [Items -> Seq(Requests)],
         NEW busy \in [Conns -> Threads], NEW n, NEW r \in Items, NEW v,
         Apart(own, list, busy, n),
         v.connOwner = Nobody \/ OwnKey(v) = OwnKey(own[r])
  PROVE  Apart([own EXCEPT ![r] = v], list, busy, n)
<1> DEFINE new == [own EXCEPT ![r] = v]
<1>1. \A x \in Items : new[x] = IF x = r THEN v ELSE own[x]
  OBVIOUS
<1> HIDE DEF new
<1>2. \A x \in Items : \/ OwnKey(new[x]) = OwnKey(own[x])
                       \/ OwnKey(new[x])[1] = Nobody
  BY <1>1 DEF OwnKey
<1>3. \A x \in Items : OwnKey(new[x])[1] = new[x].connOwner /\ OwnKey(own[x])[1] = own[x].connOwner
  BY DEF OwnKey
<1>4. \A x \in Items : \A k \in 1..Len(list[x]) : Key(list[x][k])[1] # Nobody
  <2>1. \A x \in Items : \A k \in 1..Len(list[x]) : list[x][k] \in Requests
    OBVIOUS
  <2>2. QED
    BY <2>1, RequestParts, ServerAssumption DEF Key
<1>5. \A c \in Conns : Busy(busy[c]) => Key(busy[c].req)[1] # Nobody
  BY ThreadParts, RequestParts, ServerAssumption DEF Busy, Key
<1>6. \A x, y \in Items : new[x].connOwner # Nobody =>
        /\ OwnKey(new[x]) = OwnKey(new[y]) => x = y
        /\ Used(OwnKey(new[x]), n)
  <2> SUFFICES ASSUME NEW x \in Items, NEW y \in Items, new[x].connOwner # Nobody
               PROVE  /\ OwnKey(new[x]) = OwnKey(new[y]) => x = y
                      /\ Used(OwnKey(new[x]), n)
    OBVIOUS
  <2>1. OwnKey(new[x]) = OwnKey(own[x]) /\ own[x].connOwner # Nobody
    BY <1>2, <1>3
  <2>2. OwnKey(new[x]) = OwnKey(new[y]) => OwnKey(own[x]) = OwnKey(own[y])
    BY <1>2, <1>3, <2>1
  <2>3. QED
    BY <2>1, <2>2 DEF Apart, TableApart, ListsApart, ThreadsApart
<1>7. \A x, y \in Items : \A k \in 1..Len(list[x]) : OwnKey(new[y]) # Key(list[x][k])
  BY <1>2, <1>4 DEF Apart, TableApart, ListsApart, ThreadsApart
<1>8. \A c \in Conns : Busy(busy[c]) => Elsewhere(Key(busy[c].req), new, list)
  BY <1>2, <1>5 DEF Apart, TableApart, ListsApart, ThreadsApart, Elsewhere
<1>9. TableApart(new, n)
  BY <1>6 DEF TableApart
<1>10. ListsApart(new, list, n)
  BY <1>7 DEF Apart, ListsApart
<1>11. ThreadsApart(new, list, busy, n)
  BY <1>8 DEF Apart, ThreadsApart
<1>12. QED
  BY <1>9, <1>10, <1>11 DEF Apart, new

\* Entries of one list are moved, each to one place, and some are dropped:
\* at[i] is where the entry at i was.
LEMMA FewerApart ==
  ASSUME NEW own, NEW list \in [Items -> Seq(Requests)],
         NEW busy, NEW n, NEW r \in Items, NEW rest \in Seq(Requests),
         NEW at,
         \A i \in 1..Len(rest) : at[i] \in 1..Len(list[r]) /\ rest[i] = list[r][at[i]],
         \A i, j \in 1..Len(rest) : at[i] = at[j] => i = j,
         Apart(own, list, busy, n)
  PROVE  /\ Apart(own, [list EXCEPT ![r] = rest], busy, n)
         /\ \A k \in 1..Len(list[r]) :
              (\A i \in 1..Len(rest) : at[i] # k) =>
                Nowhere(list[r][k], own, [list EXCEPT ![r] = rest], busy, n)
<1> DEFINE new == [list EXCEPT ![r] = rest]
           was(x, i) == IF x = r THEN at[i] ELSE i
<1>1. \A x \in Items : new[x] = IF x = r THEN rest ELSE list[x]
  OBVIOUS
<1> HIDE DEF new
<1>2. \A x \in Items : \A i \in 1..Len(new[x]) :
        was(x, i) \in 1..Len(list[x]) /\ new[x][i] = list[x][was(x, i)]
  BY <1>1
<1>3. \A x \in Items : \A i, j \in 1..Len(new[x]) : was(x, i) = was(x, j) => i = j
  BY <1>1
<1> HIDE DEF was
<1>4. ASSUME NEW x \in Items, NEW y \in Items, NEW k \in 1..Len(new[x]), NEW j \in 1..Len(new[y]),
             Key(new[x][k]) = Key(new[y][j])
      PROVE  x = y /\ k = j
  <2>1. was(x, k) \in 1..Len(list[x]) /\ was(y, j) \in 1..Len(list[y])
    BY <1>2
  <2>2. Key(list[x][was(x, k)]) = Key(list[y][was(y, j)])
    BY <1>2, <1>4
  <2>3. x = y /\ was(x, k) = was(y, j)
    BY <2>1, <2>2 DEF Apart, ListsApart
  <2>4. QED
    BY <1>3, <2>3
<1>5. \A x, y \in Items : \A k \in 1..Len(new[x]) :
        OwnKey(own[y]) # Key(new[x][k]) /\ Used(Key(new[x][k]), n)
  BY <1>2 DEF Apart, TableApart, ListsApart, ThreadsApart
<1>6. \A key : Elsewhere(key, own, list) => Elsewhere(key, own, new)
  BY <1>2 DEF Elsewhere
<1>7. Apart(own, new, busy, n)
  BY <1>4, <1>5, <1>6 DEF Apart, TableApart, ListsApart, ThreadsApart
<1>8. ASSUME NEW k \in 1..Len(list[r]), \A i \in 1..Len(rest) : at[i] # k
      PROVE  Nowhere(list[r][k], own, new, busy, n)
  <2> DEFINE q == list[r][k]
  <2>1. Used(Key(q), n) /\ \A x \in Items : OwnKey(own[x]) # Key(q)
    BY DEF Apart, TableApart, ListsApart, ThreadsApart
  <2>2. \A x \in Items : \A i \in 1..Len(new[x]) : Key(new[x][i]) # Key(q)
    <3> SUFFICES ASSUME NEW x \in Items, NEW i \in 1..Len(new[x]), Key(new[x][i]) = Key(q)
                 PROVE  FALSE
      OBVIOUS
    <3>1. x = r /\ was(x, i) = k
      BY <1>2 DEF Apart, TableApart, ListsApart, ThreadsApart
    <3>2. QED
      BY <1>1, <1>8, <3>1 DEF was
  <2>3. \A c \in Conns : Busy(busy[c]) => Key(busy[c].req) # Key(q)
    BY DEF Apart, TableApart, ListsApart, ThreadsApart, Elsewhere
  <2> HIDE DEF q
  <2>4. Nowhere(q, own, new, busy, n)
    BY <2>1, <2>2, <2>3 DEF Nowhere, Elsewhere
  <2>5. QED
    BY <2>4 DEF q
<1>9. QED
  BY <1>7, <1>8 DEF new

\* essRMRemovePending takes an entry out of every place.
LEMMA RemoveApart ==
  ASSUME NEW own, NEW list \in [Items -> Seq(Requests)], NEW busy, NEW n,
         NEW r \in Items, NEW k \in 1..Len(list[r]),
         Apart(own, list, busy, n)
  PROVE  LET new == [list EXCEPT ![r] = RemovePendingAt(@, k)]
         IN  /\ new \in [Items -> Seq(Requests)]
             /\ Apart(own, new, busy, n)
             /\ Nowhere(list[r][k], own, new, busy, n)
<1> DEFINE rest == RemovePendingAt(list[r], k)
           at == [i \in 1..Len(rest) |-> IF i < k THEN i ELSE i + 1]
<1>1. list[r] \in Seq(Requests)
  OBVIOUS
<1>2. rest \in Seq(Requests)
  BY <1>1, RemoveType
<1>3. \A i \in 1..Len(rest) :
        LET j == IF i < k THEN i ELSE i + 1 IN j \in 1..Len(list[r]) /\ rest[i] = list[r][j]
  BY <1>1, RemovePlaces
<1> HIDE DEF rest
<1>4. /\ \A i \in 1..Len(rest) : at[i] \in 1..Len(list[r]) /\ rest[i] = list[r][at[i]]
      /\ \A i, j \in 1..Len(rest) : at[i] = at[j] => i = j
      /\ \A i \in 1..Len(rest) : at[i] # k
  <2>1. \A i \in 1..Len(rest) : at[i] = IF i < k THEN i ELSE i + 1
    OBVIOUS
  <2>2. k \in Int /\ \A i \in 1..Len(rest) : i \in Int
    OBVIOUS
  <2> HIDE DEF at
  <2>3. QED
    BY <1>3, <2>1, <2>2
<1> HIDE DEF at
<1>5. /\ Apart(own, [list EXCEPT ![r] = rest], busy, n)
      /\ Nowhere(list[r][k], own, [list EXCEPT ![r] = rest], busy, n)
  BY <1>2, <1>4, FewerApart
<1>6. QED
  BY <1>2, <1>5 DEF rest

\* So does taking the head off.
LEMMA TailApart ==
  ASSUME NEW own, NEW list \in [Items -> Seq(Requests)], NEW busy, NEW n,
         NEW r \in Items, list[r] # <<>>,
         Apart(own, list, busy, n)
  PROVE  LET new == [list EXCEPT ![r] = Tail(@)]
         IN  /\ new \in [Items -> Seq(Requests)]
             /\ Apart(own, new, busy, n)
             /\ Nowhere(Head(list[r]), own, new, busy, n)
<1> DEFINE rest == Tail(list[r])
           at == [i \in 1..Len(rest) |-> i + 1]
<1>1. list[r] \in Seq(Requests) /\ Len(list[r]) \in Nat /\ Len(list[r]) > 0
  OBVIOUS
<1>2. /\ rest \in Seq(Requests)
      /\ Len(rest) = Len(list[r]) - 1
      /\ \A i \in 1..Len(rest) : rest[i] = list[r][i+1]
      /\ Head(list[r]) = list[r][1]
  BY <1>1
<1> HIDE DEF rest
<1>3. /\ \A i \in 1..Len(rest) : at[i] \in 1..Len(list[r]) /\ rest[i] = list[r][at[i]]
      /\ \A i, j \in 1..Len(rest) : at[i] = at[j] => i = j
      /\ 1 \in 1..Len(list[r]) /\ \A i \in 1..Len(rest) : at[i] # 1
  BY <1>1, <1>2
<1> HIDE DEF at
<1>4. /\ Apart(own, [list EXCEPT ![r] = rest], busy, n)
      /\ Nowhere(list[r][1], own, [list EXCEPT ![r] = rest], busy, n)
  BY <1>2, <1>3, FewerApart
<1>5. QED
  BY <1>2, <1>4 DEF rest

\* essRMInsertPendingByPriority puts a request that is in no place in one.
LEMMA InsertApart ==
  ASSUME NEW own, NEW list \in [Items -> Seq(Requests)], NEW busy, NEW n,
         NEW r \in Items, NEW q \in Requests,
         Apart(own, list, busy, n), Nowhere(q, own, list, busy, n)
  PROVE  Apart(own, [list EXCEPT ![r] = InsertByPriority(@, q)], busy, n)
<1> DEFINE more == InsertByPriority(list[r], q)
           new == [list EXCEPT ![r] = more]
<1>1. Len(list[r]) \in Nat /\ Len(more) = Len(list[r]) + 1
  BY InsertType
<1>2. PICK p \in 1..Len(list[r]) + 1 : InsertedAt(more, list[r], q, p)
  <2>1. list[r] \in Seq(Requests)
    OBVIOUS
  <2>2. QED
    BY <2>1, InsertPlaces
<1>15. \A i \in 1..Len(list[r]) + 1 :
        more[i] = IF i < p THEN list[r][i] ELSE IF i = p THEN q ELSE list[r][i-1]
  BY <1>2 DEF InsertedAt
<1> DEFINE was(x, i) == IF x = r /\ i > p THEN i - 1 ELSE i
<1>3. \A x \in Items : new[x] = IF x = r THEN more ELSE list[x]
  OBVIOUS
<1> HIDE DEF new, more
<1>4. \A x \in Items : \A i \in 1..Len(new[x]) : ~(x = r /\ i = p) =>
        was(x, i) \in 1..Len(list[x]) /\ new[x][i] = list[x][was(x, i)]
  BY <1>1, <1>2, <1>3, <1>15
<1>5. \A x \in Items : \A i, j \in 1..Len(new[x]) :
        ~(x = r /\ i = p) /\ ~(x = r /\ j = p) /\ was(x, i) = was(x, j) => i = j
  <2>1. \A x \in Items : \A i \in 1..Len(new[x]) : i \in Int
    OBVIOUS
  <2>2. p \in Int
    BY <1>1
  <2>3. QED
    BY <2>1, <2>2
<1>6. new[r][p] = q
  BY <1>1, <1>2, <1>3, <1>15
<1> HIDE DEF was
<1>7. \A x \in Items : \A i \in 1..Len(new[x]) :
        ~(x = r /\ i = p) => Key(new[x][i]) # Key(q)
  BY <1>4 DEF Nowhere, Elsewhere
<1>8. ASSUME NEW x \in Items, NEW y \in Items, NEW k \in 1..Len(new[x]), NEW j \in 1..Len(new[y]),
             Key(new[x][k]) = Key(new[y][j])
      PROVE  x = y /\ k = j
  <2>1. CASE x = r /\ k = p
    BY <1>6, <1>7, <1>8, <2>1
  <2>2. CASE y = r /\ j = p
    BY <1>6, <1>7, <1>8, <2>2
  <2>3. CASE ~(x = r /\ k = p) /\ ~(y = r /\ j = p)
    <3>1. was(x, k) \in 1..Len(list[x]) /\ was(y, j) \in 1..Len(list[y])
      BY <1>4, <2>3
    <3>2. Key(list[x][was(x, k)]) = Key(list[y][was(y, j)])
      BY <1>4, <1>8, <2>3
    <3>3. x = y /\ was(x, k) = was(y, j)
      BY <3>1, <3>2 DEF Apart, ListsApart
    <3>4. QED
      BY <1>5, <2>3, <3>3
  <2>4. QED
    BY <2>1, <2>2, <2>3
<1>9. ASSUME NEW x \in Items, NEW y \in Items, NEW k \in 1..Len(new[x])
      PROVE  OwnKey(own[y]) # Key(new[x][k]) /\ Used(Key(new[x][k]), n)
  <2>1. CASE x = r /\ k = p
    BY <1>6, <2>1 DEF Nowhere, Elsewhere
  <2>2. CASE ~(x = r /\ k = p)
    <3>1. was(x, k) \in 1..Len(list[x]) /\ new[x][k] = list[x][was(x, k)]
      BY <1>4, <2>2
    <3>2. QED
      BY <3>1 DEF Apart, ListsApart
  <2>3. QED
    BY <2>1, <2>2
<1>10. ASSUME NEW c \in Conns, Busy(busy[c])
       PROVE  Elsewhere(Key(busy[c].req), own, new)
  <2>1. Elsewhere(Key(busy[c].req), own, list) /\ Key(busy[c].req) # Key(q)
    BY <1>10 DEF Apart, ThreadsApart, Nowhere
  <2>2. ASSUME NEW x \in Items, NEW k \in 1..Len(new[x])
        PROVE  Key(new[x][k]) # Key(busy[c].req)
    <3>1. CASE x = r /\ k = p
      BY <1>6, <2>1, <3>1
    <3>2. CASE ~(x = r /\ k = p)
      BY <1>4, <2>1, <3>2 DEF Elsewhere
    <3>3. QED
      BY <3>1, <3>2
  <2>3. QED
    BY <2>1, <2>2 DEF Elsewhere
<1>11. TableApart(own, n)
  BY DEF Apart
<1>12. ListsApart(own, new, n)
  BY <1>8, <1>9 DEF ListsApart
<1>13. ThreadsApart(own, new, busy, n)
  BY <1>10 DEF Apart, ThreadsApart
<1>14. QED
  BY <1>11, <1>12, <1>13 DEF Apart, new, more

\* A thread begins to preempt for a request that is in no place.
LEMMA RevokeApart ==
  ASSUME NEW own, NEW list, NEW busy \in [Conns -> Threads], NEW n, NEW c \in Conns,
         NEW op, NEW q, NEW r, q.conn = c,
         Apart(own, list, busy, n), Nowhere(q, own, list, busy, n)
  PROVE  Apart(own, list, [busy EXCEPT ![c] = Revoke(op, q, r)], n)
<1> DEFINE new == [busy EXCEPT ![c] = Revoke(op, q, r)]
<1>1. \A d \in Conns : new[d] = IF d = c THEN Revoke(op, q, r) ELSE busy[d]
  OBVIOUS
<1>2. Revoke(op, q, r).req = q
  BY DEF Revoke
<1> HIDE DEF new
<1>3. ThreadsApart(own, list, new, n)
  BY <1>1, <1>2 DEF Apart, ThreadsApart, Nowhere
<1>4. QED
  BY <1>3 DEF Apart, new

\* Threads that preempt are still at the same preemption.
LEMMA ThreadsKeepApart ==
  ASSUME NEW own, NEW list, NEW busy, NEW new, NEW n,
         \A d \in Conns : Busy(new[d]) => new[d] = busy[d],
         Apart(own, list, busy, n)
  PROVE  Apart(own, list, new, n)
<1>1. ThreadsApart(own, list, new, n)
  BY DEF Apart, ThreadsApart
<1>2. QED
  BY <1>1 DEF Apart

\* Nothing but which requests are where counts.
LEMMA KeepPlace ==
  ASSUME TypeOK, PlaceInv, UNCHANGED <<pending, made>>,
         res' \in [Items -> Owner],
         \A x \in Items : res'[x].connOwner = res[x].connOwner
                          /\ res'[x].requestIdOwner = res[x].requestIdOwner,
         \A d \in Conns : Busy(thr'[d]) => thr'[d] = thr[d]
  PROVE  PlaceInv'
<1>1. Apart(res, pending, thr', made)
  BY ThreadsKeepApart DEF PlaceInv
<1>2. \A x \in Items : OwnKey(res'[x]) = OwnKey(res[x])
  BY DEF OwnKey
<1>3. TableApart(res', made)
  BY <1>1, <1>2 DEF Apart, TableApart
<1>4. ListsApart(res', pending, made)
  BY <1>1, <1>2 DEF Apart, ListsApart
<1>5. ThreadsApart(res', pending, thr', made)
  BY <1>1, <1>2 DEF Apart, ThreadsApart, Elsewhere
<1>6. QED
  BY <1>3, <1>4, <1>5 DEF PlaceInv, Apart

\* A request that is in no place is given a resource.
LEMMA TakeOverPlace ==
  ASSUME TypeOK, NEW list \in [Items -> Seq(Requests)], NEW n, NEW busy,
         NEW r \in Items, NEW q \in Requests, NEW tell,
         Apart(res, list, busy, n), Nowhere(q, res, list, busy, n),
         TakeOver(r, q, tell)
  PROVE  Apart(res', list, busy, n)
<1>1. res' = [res EXCEPT ![r] = Assigned(r, q)] /\ res \in [Items -> Owner]
  BY DEF TakeOver, TypeOK
<1>2. OwnKey(Assigned(r, q)) = Key(q)
  BY DEF Assigned, OwnKey, Key
<1>3. QED
  BY <1>1, <1>2, AssignApart

\* A preemption for a request that is in no place.
LEMMA PreemptPlace ==
  ASSUME TypeOK, NEW c \in Conns, NEW op, NEW q \in Requests, NEW r \in Items, NEW free,
         q.conn = c, NEW n, NEW list \in [Items -> Seq(Requests)],
         Apart(res, list, thr, n), Nowhere(q, res, list, thr, n),
         Preempt(c, op, q, r, free)
  PROVE  Apart(res', list, thr', n)
<1>1. CASE TakeOver(r, q, op # "usage") /\ UNCHANGED thr
  BY <1>1, TakeOverPlace
<1>2. CASE thr' = [thr EXCEPT ![c] = Revoke(op, q, r)] /\ UNCHANGED res
  BY <1>2, RevokeApart DEF TypeOK
<1>3. QED
  BY <1>1, <1>2 DEF Preempt

\* Every outcome of a request that is in no place puts it in one at most.
LEMMA RequestPlace ==
  ASSUME TypeOK, NEW c \in Conns, NEW op, NEW q \in Requests, NEW free,
         q.conn = c, NEW list \in [Items -> Seq(Requests)],
         Apart(res, list, thr, made'), Nowhere(q, res, list, thr, made'),
         RequestResource(c, op, q, list, free)
  PROVE  PlaceInv'
<1>1. ASSUME NEW r \in Items, TakeOver(r, q, op # "usage"), UNCHANGED thr, pending' = list
      PROVE  PlaceInv'
  BY <1>1, TakeOverPlace DEF PlaceInv
<1>2. ASSUME NEW r \in Items, Preempt(c, op, q, r, free), pending' = list
      PROVE  PlaceInv'
  BY <1>2, PreemptPlace DEF PlaceInv
<1>3. ASSUME NEW r \in Items, pending' = [list EXCEPT ![r] = InsertByPriority(@, q)],
             UNCHANGED <<res, thr>>
      PROVE  PlaceInv'
  BY <1>3, InsertApart DEF PlaceInv
<1>4. ASSUME pending' = list, UNCHANGED <<res, thr>>
      PROVE  PlaceInv'
  BY <1>4 DEF PlaceInv
<1>5. QED
  BY <1>1, <1>2, <1>3, <1>4 DEF RequestResource

\* A release frees the resource, or moves the best request from the list.
LEMMA ReleasePlace ==
  ASSUME TypeOK, PlaceInv, UNCHANGED <<thr, made>>, NEW c, NEW r \in Items,
         ReleaseResource(c, r)
  PROVE  PlaceInv'
<1>1. /\ res \in [Items -> Owner] /\ pending \in [Items -> Seq(Requests)]
      /\ thr \in [Conns -> Threads]
  BY DEF TypeOK
<1>2. CASE pending[r] = <<>>
  <2>1. Unowned.connOwner = Nobody /\ res' = [res EXCEPT ![r] = Unowned] /\ UNCHANGED pending
    BY <1>2 DEF Unowned, ReleaseResource
  <2>2. QED
    BY <1>1, <2>1, FreeApart DEF PlaceInv
<1>3. CASE pending[r] # <<>>
  <2> DEFINE q == Head(pending[r])
             v == [Assigned(r, q) EXCEPT !.state = idle]
             list == [pending EXCEPT ![r] = Tail(@)]
  <2>1. res' = [res EXCEPT ![r] = v] /\ pending' = list
    BY <1>3 DEF ReleaseResource
  <2>2. OwnKey(v) = Key(q)
    BY DEF Assigned, OwnKey, Key
  <2>3. /\ list \in [Items -> Seq(Requests)]
        /\ Apart(res, list, thr, made)
        /\ Nowhere(q, res, list, thr, made)
    BY <1>1, <1>3, TailApart DEF PlaceInv
  <2> HIDE DEF q, v, list
  <2>4. Apart([res EXCEPT ![r] = v], list, thr, made)
    BY <1>1, <2>2, <2>3, AssignApart
  <2>5. QED
    BY <2>1, <2>4 DEF PlaceInv
<1>4. QED
  BY <1>2, <1>3

\* A new request has a number that its client has not used.
LEMMA NewRequestPlace ==
  ASSUME TypeOK, PlaceInv, NEW c \in Conns, NEW q \in Requests,
         q.conn = c, q.requestId = made[c] + 1, made' = [made EXCEPT ![c] = @ + 1]
  PROVE  Apart(res, pending, thr, made') /\ Nowhere(q, res, pending, thr, made')
<1>1. \A d \in Conns : made[d] \in Int /\ made'[d] = IF d = c THEN made[d] + 1 ELSE made[d]
  BY ServerAssumption DEF TypeOK
<1>2. \A x \in Items : /\ res[x].connOwner \in Conns \cup {Nobody}
                       /\ res[x].requestIdOwner \in Int
  BY DEF TypeOK, Owner, RequestIds
<1>3. \A x \in Requests : x.conn \in Conns /\ x.requestId \in Int
  BY DEF Requests, RequestIds
<1>4. \A x \in Items : \A k \in 1..Len(pending[x]) : pending[x][k] \in Requests
  BY DEF TypeOK
<1>5. \A d \in Conns : Busy(thr[d]) => thr[d].req \in Requests
  BY ThreadParts DEF TypeOK, Busy
<1>6. \A x \in Requests : Used(Key(x), made) =>
        Used(Key(x), made') /\ Key(x) # Key(q)
  BY <1>1, <1>3 DEF Used, Key
<1>7. \A x \in Items : res[x].connOwner # Nobody /\ Used(OwnKey(res[x]), made) =>
        Used(OwnKey(res[x]), made') /\ OwnKey(res[x]) # Key(q)
  BY <1>1, <1>2 DEF Used, OwnKey, Key
<1>8. \A x \in Items : res[x].connOwner = Nobody => OwnKey(res[x]) # Key(q)
  BY ServerAssumption DEF OwnKey, Key
<1>9. TableApart(res, made')
  BY <1>7 DEF PlaceInv, Apart, TableApart
<1>10. ListsApart(res, pending, made')
  BY <1>4, <1>6 DEF PlaceInv, Apart, ListsApart
<1>11. ThreadsApart(res, pending, thr, made')
  BY <1>5, <1>6 DEF PlaceInv, Apart, ThreadsApart
<1>12. Used(Key(q), made')
  BY <1>1 DEF Used, Key
<1>13. \A x \in Items : OwnKey(res[x]) # Key(q)
  BY <1>7, <1>8 DEF PlaceInv, Apart, TableApart
<1>14. \A x \in Items : \A k \in 1..Len(pending[x]) : Key(pending[x][k]) # Key(q)
  BY <1>4, <1>6 DEF PlaceInv, Apart, ListsApart
<1>15. \A d \in Conns : Busy(thr[d]) => Key(thr[d].req) # Key(q)
  BY <1>5, <1>6 DEF PlaceInv, Apart, ThreadsApart
<1>16. QED
  BY <1>9, <1>10, <1>11, <1>12, <1>13, <1>14, <1>15 DEF Apart, Nowhere, Elsewhere

\* A waiting request is taken from its list before anything is done for it.
LEMMA TakenOut ==
  ASSUME TypeOK, PlaceInv, NEW r \in Items, NEW k \in 1..Len(pending[r]), NEW q,
         Key(q) = Key(pending[r][k])
  PROVE  LET list == [pending EXCEPT ![r] = RemovePendingAt(@, k)]
         IN  /\ list \in [Items -> Seq(Requests)]
             /\ Apart(res, list, thr, made)
             /\ Nowhere(q, res, list, thr, made)
<1> DEFINE list == [pending EXCEPT ![r] = RemovePendingAt(@, k)]
<1>1. /\ list \in [Items -> Seq(Requests)]
      /\ Apart(res, list, thr, made)
      /\ Nowhere(pending[r][k], res, list, thr, made)
  BY RemoveApart DEF TypeOK, PlaceInv
<1> HIDE DEF list
<1>2. Nowhere(q, res, list, thr, made)
  BY <1>1 DEF Nowhere
<1>3. QED
  BY <1>1, <1>2 DEF list

\* A priority change of a waiting request.
LEMMA PendingPriorityPlace ==
  ASSUME TypeOK, PlaceInv, UNCHANGED made, NEW c \in Conns, thr[c] = Idle, NEW r \in Items,
         NEW k \in 1..Len(pending[r]), pending[r][k].conn = c,
         NEW p \in Priorities, SetPendingPriority(c, r, k, p)
  PROVE  PlaceInv'
<1> DEFINE q == [pending[r][k] EXCEPT !.priority = p]
           rest == RemovePendingAt(pending[r], k)
           list == [pending EXCEPT ![r] = RemovePendingAt(@, k)]
<1>1. /\ q \in Requests
      /\ q.conn = c
      /\ Key(q) = Key(pending[r][k])
  BY WaitingIsRequest DEF Requests, Key
<1>2. /\ list \in [Items -> Seq(Requests)]
      /\ Apart(res, list, thr, made)
      /\ Nowhere(q, res, list, thr, made)
  <2> HIDE DEF q
  <2>1. QED
    BY <1>1, TakenOut
<1>3. list[r] = rest /\ [pending EXCEPT ![r] = rest] = list
  BY DEF TypeOK
<1>4. \/ pending' = [pending EXCEPT ![r] = InsertByPriority(rest, q)] /\ UNCHANGED <<res, thr>>
      \/ pending' = [pending EXCEPT ![r] = rest] /\ UNCHANGED <<res, thr>>
      \/ pending' = [pending EXCEPT ![r] = rest] /\ Preempt(c, "priority", q, r, pool)
  BY DEF SetPendingPriority
<1>5. [pending EXCEPT ![r] = InsertByPriority(rest, q)] = [list EXCEPT ![r] = InsertByPriority(@, q)]
  BY <1>3 DEF TypeOK
<1> HIDE DEF q, rest, list
<1>6. CASE pending' = [list EXCEPT ![r] = InsertByPriority(@, q)] /\ UNCHANGED <<res, thr>>
  BY <1>1, <1>2, <1>6, InsertApart DEF PlaceInv
<1>7. CASE pending' = list /\ UNCHANGED <<res, thr>>
  BY <1>2, <1>7 DEF PlaceInv
<1>8. CASE pending' = list /\ Preempt(c, "priority", q, r, pool)
  BY <1>1, <1>2, <1>8, PreemptPlace DEF PlaceInv
<1>9. QED
  BY <1>3, <1>4, <1>5, <1>6, <1>7, <1>8

\* No step leaves a second copy of a request behind.
LEMMA PlaceStep == TypeOK /\ TypeOK' /\ PlaceInv /\ [Next]_vars => PlaceInv'
<1> SUFFICES ASSUME TypeOK, TypeOK', PlaceInv, [Next]_vars PROVE PlaceInv'
  OBVIOUS
<1>1. /\ res \in [Items -> Owner] /\ res' \in [Items -> Owner]
      /\ pending \in [Items -> Seq(Requests)]
      /\ thr \in [Conns -> Threads]
  BY DEF TypeOK
<1>2. ASSUME UNCHANGED <<res, pending, made>>,
             NEW c \in Conns, NEW x, ~Busy(x), thr' = [thr EXCEPT ![c] = x]
      PROVE  PlaceInv'
  <2>1. \A d \in Conns : Busy(thr'[d]) => thr'[d] = thr[d]
    BY <1>1, <1>2
  <2>2. QED
    BY <1>1, <1>2, <2>1, KeepPlace
<1>3. ASSUME UNCHANGED <<res, pending, thr, made>> PROVE PlaceInv'
  BY <1>3 DEF PlaceInv
<1>4. ASSUME NEW r \in Items, NEW v, res' = [res EXCEPT ![r] = v],
             OwnKey(v) = OwnKey(res[r]), UNCHANGED <<pending, made>>,
             \A d \in Conns : Busy(thr'[d]) => thr'[d] = thr[d]
      PROVE  PlaceInv'
  <2>1. Apart([res EXCEPT ![r] = v], pending, thr, made)
    BY <1>1, <1>4, FreeApart DEF PlaceInv
  <2>2. QED
    BY <1>4, <2>1, ThreadsKeepApart DEF PlaceInv
<1>5. CASE UNCHANGED vars
  BY <1>3, <1>5 DEF vars
<1>6. ASSUME NEW c \in Conns, PeerClose(c) PROVE PlaceInv'
  BY <1>3, <1>6 DEF PeerClose
<1>7. ASSUME NEW c \in Conns, EndOfFile(c) PROVE PlaceInv'
  <2>1. ~Busy(Check(1))
    BY DEF Busy, Check
  <2>2. QED
    BY <1>2, <1>7, <2>1 DEF EndOfFile
<1>8. ASSUME NEW c \in Conns, NEW q \in Requests, HandleRequest(c, q) PROVE PlaceInv'
  <2>1. /\ q.conn = c /\ q.requestId = made[c] + 1
        /\ made' = [made EXCEPT ![c] = @ + 1]
    BY <1>8 DEF HandleRequest
  <2>2. Apart(res, pending, thr, made') /\ Nowhere(q, res, pending, thr, made')
    BY <2>1, NewRequestPlace
  <2>3. CASE UNCHANGED <<res, pending, thr>>
    BY <2>2, <2>3 DEF PlaceInv
  <2>4. CASE RequestResource(c, "request", q, pending, pool)
    BY <1>1, <2>1, <2>2, <2>4, RequestPlace
  <2>5. QED
    BY <1>8, <2>3, <2>4 DEF HandleRequest
<1>9. ASSUME NEW c \in Conns, NEW r \in Items, HandleRelease(c, r) PROVE PlaceInv'
  BY <1>3, <1>9, ReleasePlace DEF HandleRelease
<1>10. ASSUME NEW c \in Conns, NEW t \in RequestTypes, NEW id \in 1..made[c],
              HandleCancel(c, t, id)
       PROVE  PlaceInv'
  <2>1. UNCHANGED <<thr, made>>
    BY <1>10 DEF HandleCancel
  <2>2. ASSUME NEW r \in Items, NEW k \in 1..Len(pending[r]), UNCHANGED res,
               pending' = [pending EXCEPT ![r] = RemovePendingAt(@, k)]
        PROVE  PlaceInv'
    BY <1>1, <2>1, <2>2, RemoveApart DEF PlaceInv
  <2>3. QED
    BY <1>10, <2>1, <2>2, ReleasePlace DEF HandleCancel
<1>11. ASSUME NEW c \in Conns, NEW t \in RequestTypes, NEW id \in 1..made[c],
              NEW p \in Priorities, HandleSetPriority(c, t, id, p)
       PROVE  PlaceInv'
  <2>1. UNCHANGED made /\ thr[c] = Idle
    BY <1>11 DEF HandleSetPriority, Reads
  <2>2. ASSUME NEW r \in Items, SetOwnerPriority(r, p) PROVE PlaceInv'
    <3> DEFINE v == [res[r] EXCEPT !.priorityOwner = p]
    <3>1. OwnKey(v) = OwnKey(res[r])
      BY <1>1 DEF OwnKey, Owner
    <3>2. res' = [res EXCEPT ![r] = v] /\ UNCHANGED <<pending, thr>>
      BY <2>2 DEF SetOwnerPriority
    <3> HIDE DEF v
    <3>3. QED
      BY <1>4, <2>1, <3>1, <3>2
  <2>3. ASSUME NEW r \in Items, NEW k \in 1..Len(pending[r]), Waits(c, t, id, r, k),
               SetPendingPriority(c, r, k, p)
        PROVE  PlaceInv'
    BY <2>1, <2>3, PendingPriorityPlace DEF Waits
  <2>4. QED
    BY <1>11, <2>2, <2>3 DEF HandleSetPriority
<1>12. ASSUME NEW c \in Conns, NEW t \in RequestTypes, NEW id \in 1..made[c],
              NEW u \in Usages, HandleSetUsage(c, t, id, u)
       PROVE  PlaceInv'
  <2>1. UNCHANGED made
    BY <1>12 DEF HandleSetUsage
  <2>2. ASSUME NEW r \in Items, SetOwnerUsage(r, u) PROVE PlaceInv'
    <3> DEFINE v == [res[r] EXCEPT !.usageOwner = u.bits]
    <3>1. OwnKey(v) = OwnKey(res[r])
      BY <1>1 DEF OwnKey, Owner
    <3>2. res' = [res EXCEPT ![r] = v] /\ UNCHANGED <<pending, thr>>
      BY <2>2 DEF SetOwnerUsage
    <3> HIDE DEF v
    <3>3. QED
      BY <1>4, <2>1, <3>1, <3>2
  <2>3. ASSUME NEW r \in Items, NEW k \in 1..Len(pending[r]), Waits(c, t, id, r, k),
               RequestResource(c, "usage", [pending[r][k] EXCEPT !.usage = u],
                               [pending EXCEPT ![r] = RemovePendingAt(@, k)],
                               [pool EXCEPT ![t] = @ + 1])
        PROVE  PlaceInv'
    <3> DEFINE q == [pending[r][k] EXCEPT !.usage = u]
               list == [pending EXCEPT ![r] = RemovePendingAt(@, k)]
    <3>1. /\ q \in Requests
          /\ q.conn = c
          /\ Key(q) = Key(pending[r][k])
      BY <2>3, WaitingIsRequest DEF Requests, Key, Waits
    <3>2. RequestResource(c, "usage", q, list, [pool EXCEPT ![t] = @ + 1])
      BY <2>3
    <3> HIDE DEF q
    <3>3. /\ list \in [Items -> Seq(Requests)]
          /\ Apart(res, list, thr, made')
          /\ Nowhere(q, res, list, thr, made')
      BY <2>1, <3>1, TakenOut
    <3> HIDE DEF list
    <3>4. QED
      BY <3>1, <3>2, <3>3, RequestPlace
  <2>4. QED
    BY <1>12, <2>2, <2>3 DEF HandleSetUsage
<1>13. ASSUME NEW c \in Conns, NEW r \in Items, NEW x \in ResStates, HandleSetState(c, r, x)
       PROVE  PlaceInv'
  <2>1. ~Busy(Write(r, x))
    BY DEF Busy, Write
  <2>2. QED
    BY <1>2, <1>13, <2>1 DEF HandleSetState
<1>14. ASSUME NEW c \in Conns, NEW app \in Apps, NEW add \in BOOLEAN,
              HandleBlackList(c, app, add)
       PROVE  PlaceInv'
  BY <1>3, <1>14 DEF HandleBlackList
<1>15. ~Busy(Idle)
  BY DEF Busy, Idle
<1>16. ASSUME NEW c \in Conns, RevokeDone(c) PROVE PlaceInv'
  <2> DEFINE q == thr[c].req
             r == thr[c].item
  <2>1. Busy(thr[c]) /\ q \in Requests /\ r \in Items
    BY <1>1, <1>16, ThreadParts DEF RevokeDone, Busy
  <2>2. \A d \in Conns : Busy(thr'[d]) => d # c /\ thr'[d] = thr[d]
    BY <1>1, <1>15, <1>16 DEF RevokeDone
  <2>3. Apart(res, pending, thr', made)
    BY <2>2, ThreadsKeepApart DEF PlaceInv
  <2>4. q.conn = c /\ Used(Key(q), made) /\ Elsewhere(Key(q), res, pending)
    BY <2>1 DEF PlaceInv, Apart, ThreadsApart
  <2>5. \A d \in Conns : Busy(thr'[d]) => Key(thr'[d].req) # Key(q)
    BY <2>2, <2>4 DEF PlaceInv, Apart, ThreadsApart, Key
  <2>6. Nowhere(q, res, pending, thr', made)
    BY <2>4, <2>5 DEF Nowhere
  <2>7. TakeOver(r, q, thr[c].op # "usage") /\ UNCHANGED <<pending, made>>
    BY <1>16 DEF RevokeDone
  <2> HIDE DEF q, r
  <2>8. Apart(res', pending, thr', made)
    BY <1>1, <2>1, <2>3, <2>6, <2>7, TakeOverPlace
  <2>9. QED
    BY <2>7, <2>8 DEF PlaceInv
<1>17. ASSUME NEW c \in Conns, RevokeTimeout(c) PROVE PlaceInv'
  BY <1>2, <1>15, <1>17 DEF RevokeTimeout
<1>18. ASSUME NEW c \in Conns, WriteState(c) PROVE PlaceInv'
  <2> DEFINE r == thr[c].item
             v == [res[r] EXCEPT !.state = thr[c].state]
  <2>1. r \in Items
    BY <1>1, <1>18, ThreadParts DEF WriteState
  <2>2. OwnKey(v) = OwnKey(res[r])
    BY <1>1, <2>1 DEF OwnKey, Owner
  <2>3. res' = [res EXCEPT ![r] = v] /\ UNCHANGED <<pending, made>>
    BY <1>18 DEF WriteState
  <2>4. \A d \in Conns : Busy(thr'[d]) => thr'[d] = thr[d]
    BY <1>1, <1>15, <1>18 DEF WriteState
  <2> HIDE DEF v, r
  <2>5. QED
    BY <1>4, <2>1, <2>2, <2>3, <2>4
<1>19. ASSUME NEW c \in Conns, CheckOwner(c) PROVE PlaceInv'
  <2>1. \A k : ~Busy(Clear(k)) /\ ~Busy(Check(k)) /\ ~Busy(Exited)
    BY DEF Busy, Clear, Check, Exited
  <2>2. QED
    BY <1>2, <1>19, <2>1 DEF CheckOwner
<1>20. ASSUME NEW c \in Conns, ClearOwner(c) PROVE PlaceInv'
  <2> DEFINE r == AllItems[thr[c].at]
  <2>1. r \in Items
    BY <1>1, <1>20, ThreadParts, AllItemsAreItems DEF ClearOwner
  <2>2. /\ res' = [res EXCEPT ![r] = Unowned] /\ UNCHANGED <<pending, made>>
        /\ thr' = [thr EXCEPT ![c] = Check(@.at + 1)]
    BY <1>20 DEF ClearOwner
  <2>3. ~Busy(Check(thr[c].at + 1))
    BY DEF Busy, Check
  <2>4. \A d \in Conns : Busy(thr'[d]) => thr'[d] = thr[d]
    BY <1>1, <2>2, <2>3
  <2>5. Unowned.connOwner = Nobody
    BY DEF Unowned
  <2> HIDE DEF r
  <2>6. Apart([res EXCEPT ![r] = Unowned], pending, thr, made)
    BY <1>1, <2>1, <2>5, FreeApart DEF PlaceInv
  <2>7. QED
    BY <2>2, <2>4, <2>6, ThreadsKeepApart DEF PlaceInv
<1>21. QED
  BY <1>5, <1>6, <1>7, <1>8, <1>9, <1>10, <1>11, <1>12, <1>13, <1>14, <1>16, <1>17, <1>18,
     <1>19, <1>20 DEF Next, Handle, Proceed

\* The invariant of the places holds in every reachable state.
LEMMA PlaceAlways == Spec => []PlaceInv
<1>1. Init => PlaceInv
  BY DEF Init, PlaceInv, Apart, TableApart, ListsApart, ThreadsApart, Unowned, Busy, Idle
<1>2. QED
  BY <1>1, TypeCorrect, PlaceStep, PTL DEF Spec

\* A set with at most one member has at most one member.
LEMMA AtMostOne ==
  ASSUME NEW S, \A x, y \in S : x = y
  PROVE  Cardinality(S) = IF S = {} THEN 0 ELSE 1
<1>1. CASE S = {}
  BY <1>1, FS_EmptySet
<1>2. CASE S # {}
  <2>1. PICK x : S = {x}
    BY <1>2
  <2>2. QED
    BY <1>2, <2>1, FS_Singleton
<1>3. QED
  BY <1>1, <1>2

\* Every request is in one place: it owns a resource, waits for one, or is
\* preempting an owner, however requests, priority and usage changes,
\* timeouts and lost connections interleave.
THEOREM OnePlace == Spec => []RequestInOnePlace
<1>1. TypeOK /\ PlaceInv => RequestInOnePlace
  <2> SUFFICES ASSUME TypeOK, PlaceInv, NEW c \in Conns, NEW id \in RequestIds
               PROVE  Copies(c, id) <= 1
    BY DEF RequestInOnePlace
  <2> DEFINE owned == {r \in Items : res[r].connOwner = c /\ res[r].requestIdOwner = id}
             waiting == {x \in Items \X (1..(Cardinality(Conns) * MaxRequests)) :
                           /\ x[2] <= Len(pending[x[1]])
                           /\ pending[x[1]][x[2]].conn = c
                           /\ pending[x[1]][x[2]].requestId = id}
             preempting == thr[c].step = "revoke" /\ thr[c].req.requestId = id
             key == <<c, id>>
  <2>1. \A r \in owned : OwnKey(res[r]) = key /\ res[r].connOwner # Nobody
    BY ServerAssumption DEF OwnKey
  <2>2. \A x \in waiting : /\ x[1] \in Items /\ x[2] \in 1..Len(pending[x[1]])
                           /\ Key(pending[x[1]][x[2]]) = key
    <3> SUFFICES ASSUME NEW x \in waiting
                 PROVE  /\ x[1] \in Items /\ x[2] \in 1..Len(pending[x[1]])
                        /\ Key(pending[x[1]][x[2]]) = key
      OBVIOUS
    <3>1. x[1] \in Items /\ x[2] \in Int /\ 1 <= x[2] /\ x[2] <= Len(pending[x[1]])
      OBVIOUS
    <3>2. Len(pending[x[1]]) \in Nat
      BY <3>1 DEF TypeOK
    <3>3. QED
      BY <3>1, <3>2 DEF Key
  <2>3. preempting => Busy(thr[c]) /\ Key(thr[c].req) = key
    BY DEF Busy, Key, PlaceInv, Apart, ThreadsApart
  <2>4. \A r, x \in owned : r = x
    BY <2>1 DEF PlaceInv, Apart, TableApart
  <2>5. \A x, y \in waiting : x = y
    <3> SUFFICES ASSUME NEW x \in waiting, NEW y \in waiting PROVE x = y
      OBVIOUS
    <3> DEFINE place(z) == /\ z[1] \in Items /\ z[2] \in 1..Len(pending[z[1]])
                           /\ Key(pending[z[1]][z[2]]) = key
    <3>a. place(x) /\ place(y)
      BY <2>2
    <3>b. ListsApart(res, pending, made)
      BY DEF PlaceInv, Apart
    <3>1. x[1] = y[1] /\ x[2] = y[2]
      <4> HIDE DEF waiting
      <4>1. QED
        BY <3>a, <3>b DEF ListsApart
    <3>2. x = <<x[1], x[2]>> /\ y = <<y[1], y[2]>>
      OBVIOUS
    <3>3. QED
      BY <3>1, <3>2
  <2>6. owned # {} => waiting = {}
    BY <2>1, <2>2 DEF PlaceInv, Apart, ListsApart
  <2>7. preempting => owned = {} /\ waiting = {}
    BY <2>1, <2>2, <2>3 DEF PlaceInv, Apart, ThreadsApart, Elsewhere
  <2>8. Copies(c, id) = Cardinality(owned) + Cardinality(waiting) + (IF preempting THEN 1 ELSE 0)
    BY DEF Copies
  <2> HIDE DEF owned, waiting, preempting
  <2>9. /\ Cardinality(owned) = IF owned = {} THEN 0 ELSE 1
        /\ Cardinality(waiting) = IF waiting = {} THEN 0 ELSE 1
    BY <2>4, <2>5, AtMostOne
  <2>10. QED
    BY <2>6, <2>7, <2>8, <2>9
<1>2. QED
  BY <1>1, TypeCorrect, PlaceAlways, PTL

=============================================================================
