----------------------------- MODULE ErmQueues -----------------------------
(***************************************************************************)
(* What the pending-request bookkeeping of one resource type amounts to: a *)
(* priority queue of entries per resource and a pool of free entries.      *)
(* ErmPool, the linked-list code, is proved to implement this module.      *)
(***************************************************************************)
EXTENDS ErmQueueOps, FiniteSets

CONSTANTS Items,      \* the resources of the type
          Entries,    \* the entries of EssRMgrResourceControl.pending
          Priorities  \* the priorities clients ask with

VARIABLES queue,  \* queue[r]: the pending requests of r, best first
          pool,   \* the entries free for a new pending request
          held    \* entries unlinked while their request preempts an owner

vars == <<queue, pool, held>>

Init == /\ queue = [r \in Items |-> <<>>]
        /\ pool = Entries
        /\ held = {}

\* essRMRequestResource: a request that has to wait takes a pool entry.
Enqueue(r, e, p) ==
  /\ held = {}
  /\ e \in pool
  /\ queue' = [queue EXCEPT ![r] = InsertByPriority(@, [entry |-> e, priority |-> p])]
  /\ pool' = pool \ {e}
  /\ UNCHANGED held

\* essRMReleaseResource: the best pending request is granted.
GrantHead(r) ==
  /\ queue[r] # <<>>
  /\ queue' = [queue EXCEPT ![r] = Tail(@)]
  /\ pool' = pool \cup {Head(queue[r]).entry}
  /\ UNCHANGED held

\* essRMCancelRequestResource: the entry does not go back to the pool.
Cancel(r, k) ==
  /\ queue' = [queue EXCEPT ![r] = RemovePendingAt(@, k)]
  /\ UNCHANGED <<pool, held>>

\* essRMSetPriorityResource, the request stays pending.
Reprioritise(r, k, p) ==
  /\ held = {}
  /\ queue' = [queue EXCEPT
                 ![r] = InsertByPriority(RemovePendingAt(@, k), [@[k] EXCEPT !.priority = p])]
  /\ UNCHANGED <<pool, held>>

\* essRMSetPriorityResource, the request now beats the owner.
Preempt(r, k) ==
  /\ held = {}
  /\ queue' = [queue EXCEPT ![r] = RemovePendingAt(@, k)]
  /\ held' = {queue[r][k].entry}
  /\ UNCHANGED pool

\* The preemption ends: the entry is recycled when the resource changed
\* hands, and forgotten otherwise.
Preempted(success) ==
  /\ held # {}
  /\ pool' = IF success THEN pool \cup held ELSE pool
  /\ held' = {}
  /\ UNCHANGED queue

\* essRMSetUsageResource: the entry is recycled and the request made anew;
\* it may wait again, for any resource of the type, or need no entry.
Reissue(r, k) ==
  LET x    == queue[r][k]
      rest == [queue EXCEPT ![r] = RemovePendingAt(@, k)]
  IN /\ held = {}
     /\ \/ /\ queue' = rest
           /\ pool' = pool \cup {x.entry}
        \/ \E s \in Items : /\ queue' = [rest EXCEPT ![s] = InsertByPriority(@, x)]
                            /\ UNCHANGED pool
     /\ UNCHANGED held

Next ==
  \/ \E r \in Items, p \in Priorities, e \in Entries : Enqueue(r, e, p)
  \/ \E r \in Items : GrantHead(r)
  \/ \E r \in Items : \E k \in 1..Len(queue[r]) :
       \/ Cancel(r, k)
       \/ \E p \in Priorities : Reprioritise(r, k, p)
       \/ Preempt(r, k)
       \/ Reissue(r, k)
  \/ \E success \in BOOLEAN : Preempted(success)

Spec == Init /\ [][Next]_vars

=============================================================================
