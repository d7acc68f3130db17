---------------------------- MODULE ErmQueueOps ----------------------------
(***************************************************************************)
(* The pending lists of the Essos resource manager, seen as sequences of   *)
(* records with a "priority" field: a smaller number is more important.    *)
(* ErmPool models the same operations on the linked list the server keeps  *)
(* (essos/essos-resmgr-uds.cpp) and is checked against these.              *)
(***************************************************************************)
EXTENDS Integers, SequencesExt

\* The search for the place of x goes past the first i entries.
Passes(q, x, i) == \A j \in 1..i : q[j].priority <= x.priority

\* essRMInsertPendingByPriority: an entry goes before the first one that is
\* strictly less important, so equal priorities keep their arrival order.
InsertByPriority(q, x) ==
  [i \in 1..Len(q) + 1 |->
     IF i <= Len(q) /\ Passes(q, x, i) THEN q[i]
     ELSE IF Passes(q, x, i - 1) THEN x
     ELSE q[i-1]]

\* essRMRemovePending: the list head is set to -1 when the removed entry has
\* no predecessor, which detaches every entry behind it as well.
RemovePendingAt(q, k) == IF k = 1 THEN <<>> ELSE RemoveAt(q, k)

Sorted(q) == \A i, j \in 1..Len(q) : i < j => q[i].priority <= q[j].priority

=============================================================================
