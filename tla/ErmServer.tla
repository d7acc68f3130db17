----------------------------- MODULE ErmServer -----------------------------
(***************************************************************************)
(* The Essos resource manager's server (essos/essos-resmgr-uds.cpp): one   *)
(* thread per client connection, all working on the resource table, the    *)
(* pending lists and the black list.                                       *)
(*                                                                         *)
(* The clients are an environment that sends any message the client        *)
(* library can send, in any order, and may close its socket at any time.   *)
(*                                                                         *)
(* Granularity.  Every handler takes the state mutex and runs as one step, *)
(* except at the places where the code lets others in:                     *)
(*   - essRMRevokeResource drops the state mutex while it polls for the    *)
(*     owner's release, still holding the mutex of the resource type (step *)
(*     "revoke"); request, priority and usage messages of that type are    *)
(*     not handled meanwhile, others are;                                  *)
(*   - the set-state handler and the cleanup after a lost connection take  *)
(*     no mutex at all, so their test and their assignment are two steps   *)
(*     ("write", "clear").                                                 *)
(* A connection object is not reused: what the code does when the address  *)
(* of a freed connection is handed out again is outside this model.        *)
(***************************************************************************)
EXTENDS ErmArbiter, ErmQueueOps, FiniteSets

CONSTANTS Conns,         \* connection objects, each used for one client
          Items,         \* all resources
          ItemsOf,       \* ItemsOf[t]: the resources of a type in table order
          Config,        \* capabilities, criteriaMask, maxWidth, maxHeight of each
          requesterWinsPriorityTie,
          PoolItems,     \* PoolItems[t]: 3 per resource of the type in the code
          RevokeRetries, \* timeoutMS / 10; with 0 the wait does not time out
          AppOf,         \* AppOf[c]: the appid the client announces
          Priorities, Usages, ResStates,
          MaxRequests,   \* bound: requests made over one connection
          MaxCloses      \* bound: connections closed by their clients

TypeOrder == <<"videoDecoder", "audioDecoder", "frontEnd", "svpAllocator">>
Types == ToSet(TypeOrder)
TypeOf(r) == CHOOSE t \in Types : r \in ToSet(ItemsOf[t])
AllItems == ItemsOf["videoDecoder"] \o ItemsOf["audioDecoder"]
              \o ItemsOf["frontEnd"] \o ItemsOf["svpAllocator"]
Apps == {AppOf[c] : c \in Conns}
RequestIds == 1..MaxRequests
idle == "idle"

ASSUME ServerAssumption ==
  /\ Nobody \notin Conns \cup Items
  /\ ItemsOf \in [Types -> Seq(Items)]
  /\ ToSet(AllItems) = Items
  /\ IsInjective(AllItems)
  /\ requesterWinsPriorityTie \in BOOLEAN
  /\ PoolItems \in [Types -> Nat]
  /\ RevokeRetries \in Nat
  /\ Priorities \subseteq Nat
  /\ MaxRequests \in Nat
  /\ MaxCloses \in Nat
  /\ idle \in ResStates

\* Requests for a type without resources are denied at once and left out.
RequestTypes == {t \in Types : ItemsOf[t] # <<>>}
IsVideo(t) == t = "videoDecoder"
RequestUsages(t) == {UsageRead(IsVideo(t), u) : u \in Usages}
ServerUsages == Usages \cup UNION {RequestUsages(t) : t \in Types}
Requests == [conn : Conns, requestId : RequestIds, type : RequestTypes,
             priority : Priorities, usage : ServerUsages, asyncEnable : BOOLEAN]

VARIABLES
  res,      \* the resource table
  pending,  \* pending[r]: the requests waiting for r, best first
  pool,     \* pool[t]: how many pending entries are free
  blackList,
  peer,     \* the client's end of a connection
  thr,      \* the connection's thread: what it is doing
  made,     \* the number of requests a client has made
  \* History, read by properties only:
  told,     \* told[r]: who was told it has r and has not given it back
  revoked,  \* the resources whose present owner was asked to release them
  scarred   \* the resources that lost an owner to a closed connection

vars == <<res, pending, pool, blackList, peer, thr, made, told, revoked, scarred>>

----------------------------------------------------------------------------
(* The states of a connection thread.                                      *)

Idle == [step |-> "idle"]
Exited == [step |-> "exited"]
Revoke(op, q, r) == [step |-> "revoke", op |-> op, req |-> q, item |-> r]
Write(r, s) == [step |-> "write", item |-> r, state |-> s]
Check(n) == [step |-> "check", at |-> n]
Clear(n) == [step |-> "clear", at |-> n]

Ops == {"request", "priority", "usage"}

Threads ==
  {Idle, Exited}
    \cup [step : {"revoke"}, op : Ops, req : Requests, item : Items]
    \cup [step : {"write"}, item : Items, state : ResStates]
    \cup [step : {"check"}, at : 1..Len(AllItems) + 1]
    \cup [step : {"clear"}, at : 1..Len(AllItems)]

\* The type mutex is held across steps only by a thread that revokes.
TypeLocked(t) == \E c \in Conns : thr[c].step = "revoke" /\ TypeOf(thr[c].item) = t

\* The message this thread takes from its socket next: one the client sent,
\* possibly before it closed its end.
Reads(c) == thr[c] = Idle

Unowned == [connOwner |-> Nobody, requestIdOwner |-> 0, priorityOwner |-> 0,
            usageOwner |-> {}, state |-> idle]

\* A connection that has sent nothing yet is as good as none, so all of them
\* exist from the start.
Init ==
  /\ res = [r \in Items |-> Unowned]
  /\ pending = [r \in Items |-> <<>>]
  /\ pool = PoolItems
  /\ blackList = {}
  /\ peer = [c \in Conns |-> "open"]
  /\ thr = [c \in Conns |-> Idle]
  /\ made = [c \in Conns |-> 0]
  /\ told = [r \in Items |-> {}]
  /\ revoked = {}
  /\ scarred = {}

----------------------------------------------------------------------------
(* Helpers of the handlers.                                                *)

\* essRMAssignResource: everything about the owner, but not the state.
Assigned(r, q) ==
  [connOwner |-> q.conn, requestIdOwner |-> q.requestId,
   priorityOwner |-> q.priority, usageOwner |-> q.usage.bits,
   state |-> res[r].state]

\* essRMSendResRevoke: whether the message can be written.  The socket of a
\* freed connection object may be anything.
SendOutcomes(o) ==
  IF o = Nobody THEN {FALSE}
  ELSE IF thr[o] = Exited THEN BOOLEAN
  ELSE {peer[o] = "open"}

\* What essRMFindSuitableResource sees of the table.
View == [r \in Items |-> [capabilities |-> Config[r].capabilities,
                          criteriaMask |-> Config[r].criteriaMask,
                          maxWidth |-> Config[r].maxWidth,
                          maxHeight |-> Config[r].maxHeight,
                          connOwner |-> res[r].connOwner,
                          priorityOwner |-> res[r].priorityOwner,
                          usageOwner |-> res[r].usageOwner]]

Decide(q) == FindSuitableResource(View, ItemsOf[q.type], IsVideo(q.type),
                                  requesterWinsPriorityTie, q.priority, q.usage)

\* Where request id of connection c waits.
Waits(c, t, id, r, k) ==
  /\ r \in ToSet(ItemsOf[t])
  /\ k \in 1..Len(pending[r])
  /\ pending[r][k].conn = c
  /\ pending[r][k].requestId = id

Owns(c, t, id, r) ==
  /\ r \in ToSet(ItemsOf[t])
  /\ res[r].connOwner = c
  /\ res[r].requestIdOwner = id

\* The owner of r is replaced by the one of q, who is told so or not.
TakeOver(r, q, tell) ==
  /\ res' = [res EXCEPT ![r] = Assigned(r, q)]
  /\ told' = IF tell THEN [told EXCEPT ![r] = @ \cup {q.conn}] ELSE told
  /\ revoked' = revoked \ {r}
  /\ scarred' = IF res[r].connOwner = Nobody THEN scarred ELSE scarred \cup {r}

\* Mutant: an entry is taken instead of given back.
RecycledTaken(op, q, free) ==
  IF op = "priority" THEN [free EXCEPT ![q.type] = @ - 1] ELSE free

\* essRMTransferResource recycles the entry of a pending request that wins.
Recycled(op, q, free) ==
  IF op = "priority" THEN [free EXCEPT ![q.type] = @ + 1] ELSE free

\* essRMRevokeResource with wait: an owner that cannot be reached loses r at
\* once, another is asked and waited for.
Preempt(c, op, q, r, free) ==
  \E sent \in SendOutcomes(res[r].connOwner) :
    IF sent
    THEN /\ thr' = [thr EXCEPT ![c] = Revoke(op, q, r)]
         /\ revoked' = revoked \cup {r}
         /\ pool' = free
         /\ UNCHANGED <<res, told, scarred>>
    ELSE /\ TakeOver(r, q, op # "usage")
         /\ pool' = Recycled(op, q, free)
         /\ UNCHANGED thr

----------------------------------------------------------------------------
(* 'R': a resource request, also made again by 'U' for a pending request   *)
(* whose usage changes, with the lists and the pool as that leaves them.   *)

RequestResource(c, op, q, list, free) ==
  LET found == Decide(q)
      denied == \/ found.pending = Nobody
                \/ ~q.asyncEnable
                \/ free[q.type] = 0
  IN  \/ \E r \in Items :
           /\ r = found.suitable
           /\ IF res[r].connOwner = Nobody
              THEN /\ TakeOver(r, q, op # "usage")
                   /\ pool' = free
                   /\ UNCHANGED thr
              ELSE Preempt(c, op, q, r, free)
           /\ pending' = list
      \/ \E r \in Items :
           /\ found.suitable = Nobody
           /\ ~denied
           /\ r = found.pending
           /\ pending' = [list EXCEPT ![r] = InsertByPriority(@, q)]
           /\ pool' = [free EXCEPT ![q.type] = @ - 1]
           /\ UNCHANGED <<res, thr, told, revoked, scarred>>
      \/ /\ found.suitable = Nobody
         /\ denied
         /\ pending' = list
         /\ pool' = free
         /\ UNCHANGED <<res, thr, told, revoked, scarred>>

HandleRequest(c, q) ==
  /\ Reads(c)
  /\ q.conn = c
  /\ q.requestId = made[c] + 1
  /\ q.usage \in RequestUsages(q.type)
  /\ ~TypeLocked(q.type)
  /\ made' = [made EXCEPT ![c] = @ + 1]
  /\ IF AppOf[c] \in blackList
     THEN UNCHANGED <<res, pending, pool, thr, told, revoked, scarred>>
     ELSE RequestResource(c, "request", q, pending, pool)
  /\ UNCHANGED <<blackList, peer>>

----------------------------------------------------------------------------
(* 'L' and 'C': the owner gives a resource back, and the best pending      *)
(* request gets it in the same step; or a pending request is withdrawn.    *)

\* Mutant: nobody is given the resource.
ReleaseWithoutHandover(c, r) ==
  /\ revoked' = revoked \ {r}
  /\ res' = [res EXCEPT ![r] = Unowned]
  /\ told' = [told EXCEPT ![r] = @ \ {c}]
  /\ UNCHANGED <<pending, pool>>

\* Mutant: the activity state survives the owner.
ReleaseKeepsState(c, r) ==
  /\ pending[r] = <<>>
  /\ res' = [res EXCEPT ![r] = [Unowned EXCEPT !.state = res[r].state]]
  /\ told' = [told EXCEPT ![r] = @ \ {c}]
  /\ revoked' = revoked \ {r}
  /\ UNCHANGED <<pending, pool>>

ReleaseResource(c, r) ==
  /\ revoked' = revoked \ {r}
  /\ IF pending[r] = <<>>
     THEN /\ res' = [res EXCEPT ![r] = Unowned]
          /\ told' = [told EXCEPT ![r] = @ \ {c}]
          /\ UNCHANGED <<pending, pool>>
     ELSE LET q == Head(pending[r])
          IN  /\ res' = [res EXCEPT ![r] = [Assigned(r, q) EXCEPT !.state = idle]]
              /\ pending' = [pending EXCEPT ![r] = Tail(@)]
              /\ pool' = [pool EXCEPT ![TypeOf(r)] = @ + 1]
              /\ told' = [told EXCEPT ![r] = (@ \ {c}) \cup {q.conn}]

HandleRelease(c, r) ==
  /\ Reads(c)
  /\ c \in told[r]
  /\ IF res[r].connOwner = c
     THEN ReleaseResource(c, r)
     ELSE /\ told' = [told EXCEPT ![r] = @ \ {c}]
          /\ UNCHANGED <<res, pending, pool, revoked>>
  /\ UNCHANGED <<blackList, peer, thr, made, scarred>>

\* The pending entry of a cancelled request is not recycled.
HandleCancel(c, t, id) ==
  /\ Reads(c)
  /\ \/ \E r \in Items : Owns(c, t, id, r) /\ ReleaseResource(c, r)
     \/ \E r \in Items : \E k \in 1..Len(pending[r]) :
          /\ Waits(c, t, id, r, k)
          /\ pending' = [pending EXCEPT ![r] = RemovePendingAt(@, k)]
          /\ UNCHANGED <<res, pool, told, revoked>>
  /\ UNCHANGED <<blackList, peer, thr, made, scarred>>

----------------------------------------------------------------------------
(* 'P': a priority change.  An owner that falls behind its best pending    *)
(* request is asked to release; a pending request that now beats the owner *)
(* leaves the list and preempts it, unless the owner is the same client.   *)

\* Mutant: the comparison with the best pending request is the wrong way.
SetOwnerPriorityReversed(r, p) ==
  /\ res' = [res EXCEPT ![r].priorityOwner = p]
  /\ revoked' = IF pending[r] # <<>> /\ p < Head(pending[r]).priority
                THEN revoked \cup {r} ELSE revoked
  /\ UNCHANGED <<pending, pool, thr, told, scarred>>

SetOwnerPriority(r, p) ==
  /\ res' = [res EXCEPT ![r].priorityOwner = p]
  /\ \E sent \in SendOutcomes(res[r].connOwner) :
       revoked' = IF /\ sent
                     /\ pending[r] # <<>>
                     /\ p > Head(pending[r]).priority
                  THEN revoked \cup {r} ELSE revoked
  /\ UNCHANGED <<pending, pool, thr, told, scarred>>

\* Mutant: the entry is not moved to the place of its new priority.
SetPendingPriorityInPlace(c, r, k, p) ==
  /\ pending' = [pending EXCEPT ![r][k].priority = p]
  /\ UNCHANGED <<res, pool, thr, told, revoked, scarred>>

\* Mutant: the entry stays in the list while its request preempts the owner.
SetPendingPriorityKeepsEntry(c, r, k, p) ==
  LET q == [pending[r][k] EXCEPT !.priority = p]
  IN  /\ p < res[r].priorityOwner
      /\ res[r].connOwner # c
      /\ pending' = [pending EXCEPT ![r][k] = q]
      /\ Preempt(c, "priority", q, r, pool)

SetPendingPriority(c, r, k, p) ==
  LET q    == [pending[r][k] EXCEPT !.priority = p]
      rest == RemovePendingAt(pending[r], k)
      stay == \/ p > res[r].priorityOwner
              \/ ~requesterWinsPriorityTie /\ p = res[r].priorityOwner
  IN  IF stay
      THEN /\ pending' = [pending EXCEPT ![r] = InsertByPriority(rest, q)]
           /\ UNCHANGED <<res, pool, thr, told, revoked, scarred>>
      ELSE /\ pending' = [pending EXCEPT ![r] = rest]
           /\ IF res[r].connOwner = c
              THEN /\ \E sent \in SendOutcomes(c) :
                        revoked' = IF sent THEN revoked \cup {r} ELSE revoked
                   /\ UNCHANGED <<res, pool, thr, told, scarred>>
              ELSE Preempt(c, "priority", q, r, pool)

HandleSetPriority(c, t, id, p) ==
  /\ Reads(c)
  /\ ~TypeLocked(t)
  /\ \/ \E r \in Items : Owns(c, t, id, r) /\ SetOwnerPriority(r, p)
     \/ \E r \in Items : \E k \in 1..Len(pending[r]) :
          Waits(c, t, id, r, k) /\ SetPendingPriority(c, r, k, p)
  /\ UNCHANGED <<blackList, peer, made>>

----------------------------------------------------------------------------
(* 'U': a usage change.  An owner whose resource no longer suits it, or    *)
(* suits its best pending request better, is asked to release; a pending   *)
(* request is withdrawn and made again, and its outcome is not sent.       *)

SetOwnerUsage(r, u) ==
  LET before == Unneeded(Config[r], res[r].usageOwner)
      after  == Unneeded(Config[r], u.bits)
      unfit  == ~Eligible(Config[r], u)
      better == /\ after # before
                /\ after # {}
                /\ pending[r] # <<>>
                /\ Ideal(Config[r], Head(pending[r]).usage)
  IN  /\ res' = [res EXCEPT ![r].usageOwner = u.bits]
      /\ \E sent \in SendOutcomes(res[r].connOwner) :
           revoked' = IF sent /\ (unfit \/ better) THEN revoked \cup {r} ELSE revoked
      /\ UNCHANGED <<pending, pool, thr, told, scarred>>

HandleSetUsage(c, t, id, u) ==
  /\ Reads(c)
  /\ ~TypeLocked(t)
  /\ \/ \E r \in Items : Owns(c, t, id, r) /\ SetOwnerUsage(r, u)
     \/ \E r \in Items : \E k \in 1..Len(pending[r]) :
          /\ Waits(c, t, id, r, k)
          /\ RequestResource(c, "usage", [pending[r][k] EXCEPT !.usage = u],
                             [pending EXCEPT ![r] = RemovePendingAt(@, k)],
                             [pool EXCEPT ![t] = @ + 1])
  /\ UNCHANGED <<blackList, peer, made>>

----------------------------------------------------------------------------
(* The end of a preemption: the owner has released, or did not in time.    *)
(* On a timeout a request is denied; a pending request whose priority or   *)
(* usage changed is dropped, with its entry in the first case.             *)

RevokeDone(c) ==
  /\ thr[c].step = "revoke"
  /\ LET q == thr[c].req
         r == thr[c].item
     IN  /\ res[r].connOwner = Nobody
         /\ TakeOver(r, q, thr[c].op # "usage")
         /\ pool' = Recycled(thr[c].op, q, pool)
  /\ thr' = [thr EXCEPT ![c] = Idle]
  /\ UNCHANGED <<pending, blackList, peer, made>>

\* Mutant: the timeout is taken for the release.
RevokeTimeoutAssigns(c) ==
  /\ thr[c].step = "revoke"
  /\ res' = [res EXCEPT ![thr[c].item] = Assigned(thr[c].item, thr[c].req)]
  /\ told' = [told EXCEPT ![thr[c].item] = @ \cup {c}]
  /\ thr' = [thr EXCEPT ![c] = Idle]
  /\ UNCHANGED <<pending, pool, blackList, peer, made, revoked, scarred>>

\* Mutant: the last retry is not counted.
RevokeTimeoutLate(c) ==
  /\ thr[c].step = "revoke"
  /\ RevokeRetries > 1
  /\ res[thr[c].item].connOwner # Nobody
  /\ thr' = [thr EXCEPT ![c] = Idle]
  /\ UNCHANGED <<res, pending, pool, blackList, peer, made, told, revoked, scarred>>

RevokeTimeout(c) ==
  /\ thr[c].step = "revoke"
  /\ RevokeRetries > 0
  /\ res[thr[c].item].connOwner # Nobody
  /\ thr' = [thr EXCEPT ![c] = Idle]
  /\ UNCHANGED <<res, pending, pool, blackList, peer, made, told, revoked, scarred>>

----------------------------------------------------------------------------
(* 'S': the state of an owned resource.  No mutex is taken.                *)

HandleSetState(c, r, s) ==
  /\ Reads(c)
  /\ res[r].connOwner = c
  /\ thr' = [thr EXCEPT ![c] = Write(r, s)]
  /\ UNCHANGED <<res, pending, pool, blackList, peer, made, told, revoked, scarred>>

WriteState(c) ==
  /\ thr[c].step = "write"
  /\ res' = [res EXCEPT ![thr[c].item].state = thr[c].state]
  /\ thr' = [thr EXCEPT ![c] = Idle]
  /\ UNCHANGED <<pending, pool, blackList, peer, made, told, revoked, scarred>>

----------------------------------------------------------------------------
(* 'B': the black list.  essRMgrRevokeAll addresses the owners of front    *)
(* ends and allocators as if they owned the video decoder of that index.   *)

RevokeTargets(app) ==
  LET OwnedByApp(r) == res[r].connOwner # Nobody /\ AppOf[res[r].connOwner] = app
      ByType(t) == {i \in 1..Len(ItemsOf[t]) : OwnedByApp(ItemsOf[t][i])}
      Decoder(i) == ItemsOf["videoDecoder"][i]
      direct == UNION {{ItemsOf[t][i] : i \in ByType(t)} : t \in {"videoDecoder", "audioDecoder"}}
      astray == {Decoder(i) : i \in (ByType("frontEnd") \cup ByType("svpAllocator"))
                                      \cap 1..Len(ItemsOf["videoDecoder"])}
  IN  direct \cup astray

HandleBlackList(c, app, add) ==
  /\ Reads(c)
  /\ add # (app \in blackList)
  /\ blackList' = IF add THEN blackList \cup {app} ELSE blackList \ {app}
  /\ revoked' = IF add
                THEN revoked \cup {r \in RevokeTargets(app) :
                                     TRUE \in SendOutcomes(res[r].connOwner)}
                ELSE revoked
  /\ UNCHANGED <<res, pending, pool, peer, thr, made, told, scarred>>

----------------------------------------------------------------------------
(* Connections.  After end of file the thread gives up what the connection *)
(* owns, resource by resource and without a mutex, and ends.  Pending      *)
(* requests of the connection stay where they are.                         *)

PeerClose(c) ==
  /\ peer[c] = "open"
  /\ Cardinality({d \in Conns : peer[d] = "closed"}) < MaxCloses
  /\ peer' = [peer EXCEPT ![c] = "closed"]
  /\ UNCHANGED <<res, pending, pool, blackList, thr, made, told, revoked, scarred>>

EndOfFile(c) ==
  /\ thr[c] = Idle
  /\ peer[c] = "closed"
  /\ thr' = [thr EXCEPT ![c] = Check(1)]
  /\ UNCHANGED <<res, pending, pool, blackList, peer, made, told, revoked, scarred>>

\* Mutant: it is not checked who owns the resource.
CheckOwnerSkipped(c) ==
  /\ thr[c].step = "check"
  /\ LET n == thr[c].at
     IN  thr' = [thr EXCEPT ![c] = IF n > Len(AllItems) THEN Exited ELSE Clear(n)]
  /\ UNCHANGED <<res, pending, pool, blackList, peer, made, told, revoked, scarred>>

CheckOwner(c) ==
  /\ thr[c].step = "check"
  /\ LET n == thr[c].at
     IN  thr' = [thr EXCEPT ![c] =
                   IF n > Len(AllItems) THEN Exited
                   ELSE IF res[AllItems[n]].connOwner = c THEN Clear(n) ELSE Check(n + 1)]
  /\ UNCHANGED <<res, pending, pool, blackList, peer, made, told, revoked, scarred>>

ClearOwner(c) ==
  /\ thr[c].step = "clear"
  /\ LET r == AllItems[thr[c].at]
     IN  /\ res' = [res EXCEPT ![r] = Unowned]
         /\ revoked' = revoked \ {r}
         /\ scarred' = scarred \cup {r}
  /\ thr' = [thr EXCEPT ![c] = Check(@.at + 1)]
  /\ UNCHANGED <<pending, pool, blackList, peer, made, told>>

----------------------------------------------------------------------------

Handle(c) ==
  \/ \E q \in Requests : HandleRequest(c, q)
  \/ \E r \in Items : HandleRelease(c, r)
  \/ \E t \in RequestTypes, id \in 1..made[c] :
       \/ HandleCancel(c, t, id)
       \/ \E p \in Priorities : HandleSetPriority(c, t, id, p)
       \/ \E u \in Usages : HandleSetUsage(c, t, id, u)
  \/ \E r \in Items, s \in ResStates : HandleSetState(c, r, s)
  \/ \E app \in Apps, add \in BOOLEAN : HandleBlackList(c, app, add)

\* What a thread does on its own, once it has begun.
Proceed(c) == RevokeDone(c) \/ RevokeTimeout(c) \/ WriteState(c) \/ CheckOwner(c) \/ ClearOwner(c)

Next == \E c \in Conns : \/ PeerClose(c) \/ EndOfFile(c)
                         \/ Handle(c) \/ Proceed(c)

Spec == Init /\ [][Next]_vars

FairSpec == Spec /\ \A c \in Conns : WF_vars(Proceed(c))

----------------------------------------------------------------------------
(* Properties.                                                             *)

Owner == [connOwner : Conns \cup {Nobody}, requestIdOwner : RequestIds \cup {0},
          priorityOwner : Priorities \cup {0},
          usageOwner : {u.bits : u \in ServerUsages} \cup {{}}, state : ResStates]

TypeOK ==
  /\ res \in [Items -> Owner]
  /\ pending \in [Items -> Seq(Requests)]
  /\ pool \in [Types -> Nat]
  /\ blackList \subseteq Apps
  /\ peer \in [Conns -> {"open", "closed"}]
  /\ thr \in [Conns -> Threads]
  /\ made \in [Conns -> 0..MaxRequests]
  /\ told \in [Items -> SUBSET Conns]
  /\ revoked \subseteq Items
  /\ scarred \subseteq Items

\* Whatever releases, cancels, priority and usage changes interleave, the
\* requests waiting for a resource stay ordered by priority.
QueuesSorted == \A r \in Items : Sorted(pending[r])

\* Two clients never both believe they hold a resource, unless the resource
\* has lost an owner to a closed connection: a preemption that times out
\* takes nothing away, and a release hands over to one client only.
ExclusiveGrant ==
  \A r \in Items \ scarred : told[r] \subseteq {res[r].connOwner}

\* Ownership moves only as ErmOwnership says: a resource leaves an owner that
\* can be reached only by that owner's own release or cancel.
Ownership == INSTANCE ErmOwnership WITH
               owner <- [r \in Items |-> res[r].connOwner],
               gone <- {c \in Conns : peer[c] = "closed"}
ImplementsOwnership == Ownership!Spec

\* A resource nobody owns has nobody waiting for it, unless its owner's
\* connection was lost: no release leaves a pending request behind.
NoIdleResource ==
  \A r \in Items \ scarred : res[r].connOwner = Nobody => pending[r] = <<>>

\* A pending request more important than the owner it waits for means the
\* owner has been asked to release, if it can be reached: no change of
\* priority or usage and no handover lets an owner keep a resource against a
\* better request unasked.
BetterRequestRevokes ==
  \A r \in Items \ scarred :
    (pending[r] # <<>> /\ Head(pending[r]).priority < res[r].priorityOwner)
      => r \in revoked \/ peer[res[r].connOwner] # "open"

\* Every request is in one place: it owns a resource, waits for one, or is
\* preempting an owner.  No handler leaves a second copy behind.
Copies(c, id) ==
  Cardinality({r \in Items : res[r].connOwner = c /\ res[r].requestIdOwner = id})
  + Cardinality({x \in Items \X (1..(Cardinality(Conns) * MaxRequests)) :
                   /\ x[2] <= Len(pending[x[1]])
                   /\ pending[x[1]][x[2]].conn = c
                   /\ pending[x[1]][x[2]].requestId = id})
  + (IF thr[c].step = "revoke" /\ thr[c].req.requestId = id THEN 1 ELSE 0)

RequestInOnePlace == \A c \in Conns, id \in RequestIds : Copies(c, id) <= 1

\* The activity state of a resource nobody owns is idle, unless its owner's
\* connection was lost: the unlocked state write of a former owner cannot
\* land on a resource it has released.
IdleWhenFree ==
  \A r \in Items \ scarred : res[r].connOwner = Nobody => res[r].state = idle

\* A preemption ends: with a revoke timeout configured, the type is not
\* locked for ever by an owner that does not release.
RevokeEnds == \A c \in Conns : thr[c].step = "revoke" ~> thr[c].step # "revoke"

=============================================================================
