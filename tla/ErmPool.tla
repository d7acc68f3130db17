------------------------------ MODULE ErmPool ------------------------------
(***************************************************************************)
(* The pending lists of one resource type as essos/essos-resmgr-uds.cpp    *)
(* stores them: doubly linked lists threaded through one array, one list   *)
(* per resource and one for the pool of free entries.                      *)
(*                                                                         *)
(* Each action is what one server operation does to the array while it     *)
(* holds the state mutex.  Whether a request waits, preempts or is denied  *)
(* is the arbiter's business (ErmArbiter, ErmServer), so here it is free.  *)
(***************************************************************************)
EXTENDS ErmQueueOps, FiniteSets

CONSTANTS Items,       \* the resources of the type
          PoolItems,   \* maxPoolItems: 3 per resource in the code
          Priorities   \* the priorities clients ask with

ASSUME PoolAssumption == /\ PoolItems \in Nat \ {0}
                         /\ Priorities \subseteq Int

Entries == 0..PoolItems-1
Nil == -1
Links == Entries \cup {Nil}

VARIABLES ctrl,  \* next, prev, priorityUser: the fields of pending[];
                 \* pendingPoolIdx; pendingNtfyIdx: the list head per resource
          held   \* the entry a waiting preemption works on, or Nil

vars == <<ctrl, held>>

TypeOK ==
  /\ ctrl \in [next : [Entries -> Links], prev : [Entries -> Links],
               priorityUser : [Entries -> Priorities \cup {0}],
               pendingPoolIdx : Links, pendingNtfyIdx : [Items -> Links]]
  /\ held \in Links

Init ==
  /\ ctrl = [next |-> [e \in Entries |-> IF e + 1 < PoolItems THEN e + 1 ELSE Nil],
             prev |-> [e \in Entries |-> IF e > 0 THEN e - 1 ELSE Nil],
             priorityUser |-> [e \in Entries |-> 0],
             pendingPoolIdx |-> 0,
             pendingNtfyIdx |-> [r \in Items |-> Nil]]
  /\ held = Nil

----------------------------------------------------------------------------
(* Reading a list: nth[k] is the entry k links behind "first".  A list     *)
(* that loops is cut after PoolItems + 1 entries.                          *)

Chain(c, first) ==
  LET nth[k \in 0..PoolItems] ==
        IF k = 0 THEN first
        ELSE IF nth[k-1] = Nil THEN Nil ELSE c.next[nth[k-1]]
  IN  [i \in 1..Cardinality({k \in 0..PoolItems : nth[k] # Nil}) |-> nth[i-1]]

Pending(c, r) == Chain(c, c.pendingNtfyIdx[r])

(* The four list operations, as functions of the control block.            *)

GetPendingPoolItem(c) ==
  LET e == c.pendingPoolIdx
      n == c.next[e]
  IN  [c EXCEPT !.pendingPoolIdx = n,
                !.prev = IF n = Nil THEN @ ELSE [@ EXCEPT ![n] = Nil],
                !.next[e] = Nil]

PutPendingPoolItem(c, e) ==
  LET top == c.pendingPoolIdx
  IN  [c EXCEPT !.next[e] = top,
                !.prev = [(IF top = Nil THEN @ ELSE [@ EXCEPT ![top] = e])
                            EXCEPT ![e] = Nil],
                !.pendingPoolIdx = e]

\* Mutant: the search stops at an equal priority, so ties are served last
\* come first.
InsertBeforeEqual(c, r, e) ==
  LET list   == Pending(c, r)
      before == SelectInSeq(list, LAMBDA i : c.priorityUser[e] <= c.priorityUser[i])
      last   == IF before = 0 THEN Len(list) ELSE before - 1
      insertAfter == IF last = 0 THEN Nil ELSE list[last]
      n      == IF last = 0 THEN c.pendingNtfyIdx[r] ELSE c.next[insertAfter]
  IN  [c EXCEPT
         !.next = IF last = 0 THEN [@ EXCEPT ![e] = n]
                  ELSE [@ EXCEPT ![e] = n, ![insertAfter] = e],
         !.prev = IF n = Nil THEN [@ EXCEPT ![e] = insertAfter]
                  ELSE [@ EXCEPT ![e] = insertAfter, ![n] = e],
         !.pendingNtfyIdx = IF last = 0 THEN [@ EXCEPT ![r] = e] ELSE @]

InsertPendingByPriority(c, r, e) ==
  LET list   == Pending(c, r)
      before == SelectInSeq(list, LAMBDA i : c.priorityUser[e] < c.priorityUser[i])
      last   == IF before = 0 THEN Len(list) ELSE before - 1
      insertAfter == IF last = 0 THEN Nil ELSE list[last]
      n      == IF last = 0 THEN c.pendingNtfyIdx[r] ELSE c.next[insertAfter]
  IN  [c EXCEPT
         !.next = IF last = 0 THEN [@ EXCEPT ![e] = n]
                  ELSE [@ EXCEPT ![e] = n, ![insertAfter] = e],
         !.prev = IF n = Nil THEN [@ EXCEPT ![e] = insertAfter]
                  ELSE [@ EXCEPT ![e] = insertAfter, ![n] = e],
         !.pendingNtfyIdx = IF last = 0 THEN [@ EXCEPT ![r] = e] ELSE @]

RemovePending(c, r, e) ==
  LET n == c.next[e]
      p == c.prev[e]
  IN  [c EXCEPT
         !.prev = [(IF n = Nil THEN @ ELSE [@ EXCEPT ![n] = p]) EXCEPT ![e] = Nil],
         !.next = [(IF p = Nil THEN @ ELSE [@ EXCEPT ![p] = n]) EXCEPT ![e] = Nil],
         !.pendingNtfyIdx = IF p = Nil THEN [@ EXCEPT ![r] = Nil] ELSE @]

WithPriority(c, e, p) == [c EXCEPT !.priorityUser[e] = p]

----------------------------------------------------------------------------
(* The server operations.  held # Nil while a preemption waits with the    *)
(* type mutex held: only releases and cancels, which do not take that      *)
(* mutex, run then.                                                        *)

Enqueue(r, p) ==
  LET e == ctrl.pendingPoolIdx
  IN  /\ held = Nil
      /\ e # Nil
      /\ ctrl' = InsertPendingByPriority(
                   WithPriority(GetPendingPoolItem(ctrl), e, p), r, e)
      /\ UNCHANGED held

\* Mutant: the new head keeps its link to the popped one.
GrantHeadKeepsPrev(r) ==
  LET e == ctrl.pendingNtfyIdx[r]
  IN  /\ e # Nil
      /\ ctrl' = PutPendingPoolItem([ctrl EXCEPT !.pendingNtfyIdx[r] = ctrl.next[e]], e)
      /\ UNCHANGED held

\* Release pops the head without touching its own links, then recycles it.
GrantHead(r) ==
  LET e == ctrl.pendingNtfyIdx[r]
      n == ctrl.next[e]
      popped == [ctrl EXCEPT
                   !.pendingNtfyIdx[r] = n,
                   !.prev = IF n = Nil THEN @ ELSE [@ EXCEPT ![n] = Nil]]
  IN  /\ e # Nil
      /\ ctrl' = PutPendingPoolItem(popped, e)
      /\ UNCHANGED held

Cancel(r, e) ==
  /\ ctrl' = RemovePending(ctrl, r, e)
  /\ UNCHANGED held

Reprioritise(r, e, p) ==
  /\ held = Nil
  /\ ctrl' = InsertPendingByPriority(
               RemovePending(WithPriority(ctrl, e, p), r, e), r, e)
  /\ UNCHANGED held

Preempt(r, e, p) ==
  /\ held = Nil
  /\ ctrl' = RemovePending(WithPriority(ctrl, e, p), r, e)
  /\ held' = e

PreemptSucceeded ==
  /\ held # Nil
  /\ ctrl' = PutPendingPoolItem(ctrl, held)
  /\ held' = Nil

PreemptFailed ==
  /\ held # Nil
  /\ held' = Nil
  /\ UNCHANGED ctrl

\* The request leaves its list and its entry is recycled; when it has to
\* wait again it takes the entry on top of the pool, which is the same one.
Reissue(r, e, s) ==
  LET p == ctrl.priorityUser[e]
      recycled == PutPendingPoolItem(RemovePending(ctrl, r, e), e)
      top == recycled.pendingPoolIdx
  IN  /\ held = Nil
      /\ ctrl' = IF s \in Items
                 THEN InsertPendingByPriority(
                        WithPriority(GetPendingPoolItem(recycled), top, p), s, top)
                 ELSE recycled
      /\ UNCHANGED held

Next ==
  \/ \E r \in Items, p \in Priorities : Enqueue(r, p)
  \/ \E r \in Items : GrantHead(r)
  \/ \E r \in Items : \E e \in ToSet(Pending(ctrl, r)) :
       \/ Cancel(r, e)
       \/ \E p \in Priorities : Reprioritise(r, e, p) \/ Preempt(r, e, p)
       \/ \E s \in Items \cup {Nil} : Reissue(r, e, s)
  \/ PreemptSucceeded
  \/ PreemptFailed

Spec == Init /\ [][Next]_vars

----------------------------------------------------------------------------
(* Properties.                                                             *)

Heads == {ctrl.pendingPoolIdx} \cup {ctrl.pendingNtfyIdx[r] : r \in Items}

Linked(first) ==
  LET s == Chain(ctrl, first)
  IN  /\ Len(s) <= PoolItems
      /\ IsInjective(s)
      /\ \A i \in 1..Len(s) : ctrl.prev[s[i]] = IF i = 1 THEN Nil ELSE s[i-1]

\* The pool and the pending lists never share an entry, none of them loops,
\* and every prev link mirrors a next link: no sequence of grants, cancels,
\* priority and usage changes lets one request overwrite another's entry.
ListsDisjoint ==
  /\ \A h \in Heads : Linked(h)
  /\ \A g, h \in Heads : g # h =>
       ToSet(Chain(ctrl, g)) \cap ToSet(Chain(ctrl, h)) = {}
  /\ \A r, s \in Items : (r # s /\ ctrl.pendingNtfyIdx[r] # Nil) =>
       ctrl.pendingNtfyIdx[r] # ctrl.pendingNtfyIdx[s]
  /\ \A r \in Items : ctrl.pendingNtfyIdx[r] # Nil =>
       ctrl.pendingNtfyIdx[r] # ctrl.pendingPoolIdx
  /\ held # Nil => \A h \in Heads : held \notin ToSet(Chain(ctrl, h))

Queue(r) ==
  LET s == Pending(ctrl, r)
  IN  [i \in 1..Len(s) |-> [entry |-> s[i], priority |-> ctrl.priorityUser[s[i]]]]

Queues == INSTANCE ErmQueues WITH
            queue <- [r \in Items |-> Queue(r)],
            pool <- ToSet(Chain(ctrl, ctrl.pendingPoolIdx)),
            held <- IF held = Nil THEN {} ELSE {held}

\* The linked lists behave as the priority queues of ErmQueues: every
\* insertion lands in priority order, first come first served among equals,
\* and the entries behind a removed one stay unless it was the head.
ImplementsQueues == Queues!Spec

=============================================================================
