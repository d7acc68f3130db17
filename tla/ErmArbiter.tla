----------------------------- MODULE ErmArbiter -----------------------------
(***************************************************************************)
(* essRMFindSuitableResource of essos/essos-resmgr-uds.cpp: which resource *)
(* a request gets, and which one it may wait for.                          *)
(*                                                                         *)
(* A resource is a record with the fields of EssRMgrResource the function  *)
(* reads.  Capability, usage and criteria masks are sets of bit values, so *)
(* that 1 \in r.capabilities is the limitedResolution bit.  A usage is     *)
(* [bits, maxWidth, maxHeight]; a smaller priority is more important.      *)
(***************************************************************************)
EXTENDS Integers, SequencesExt

CONSTANT Nobody     \* no connection, no resource

limitedResolution == 1

\* The usage the server works with when a request message announces usage u.
\* The message carries the length of the size information and then the size;
\* the handler of 'R' reads the size from where the length is.
InfoLen == 8
UsageRead(isVideo, u) ==
  IF isVideo THEN [u EXCEPT !.maxWidth = InfoLen, !.maxHeight = u.maxWidth] ELSE u

----------------------------------------------------------------------------
(* Tests on one resource r for a request with this priority and usage.     *)

Owned(r) == r.connOwner # Nobody

\* The request asks for something the resource is declared limited in.
Eligible(r, usage) == usage.bits \cap r.capabilities \cap r.criteriaMask = {}

\* The criteria bits on which the two masks agree, and the resource for which
\* there are none: it is limited in exactly what the request does not ask for.
Unneeded(r, bits) ==
  r.criteriaMask \ ((bits \ r.capabilities) \cup (r.capabilities \ bits))

Ideal(r, usage) == Unneeded(r, usage.bits) = {}

Limited(r, isVideo) == isVideo /\ limitedResolution \in r.capabilities

TooSmall(r, isVideo, usage) ==
  Limited(r, isVideo) /\ (usage.maxWidth > r.maxWidth \/ usage.maxHeight > r.maxHeight)

SizeLimit(r, isVideo) == IF Limited(r, isVideo) THEN r.maxWidth * r.maxHeight ELSE -1

Criteria(r) == SumSet(r.capabilities \cap r.criteriaMask)

Tied(r, priority, usage) ==
  Owned(r) /\ r.priorityOwner = priority /\ r.usageOwner = usage.bits

Outranks(r, priority) == Owned(r) /\ r.priorityOwner < priority

----------------------------------------------------------------------------
(* The scan keeps the best resource so far and its size limit, the first   *)
(* resource to wait for and the last one that is lost to a tie.            *)

NothingFound == [suitable |-> Nobody, maxSize |-> -1, pending |-> Nobody, preempt |-> Nobody]

\* Mutant: a free resource is not preferred to one that has to be revoked.
DisplacesBySizeOnly(res, isVideo, acc, i) ==
  LET s    == acc.suitable
      size == SizeLimit(res[i], isVideo)
  IN  s = Nobody \/ (isVideo /\ acc.maxSize # -1 /\ size = -1) \/ size < acc.maxSize

\* Whether resource i displaces the current choice s.  The last disjunct is
\* the C++ condition with its precedence: (video && limited choice &&
\* unlimited i) || i is smaller.
Displaces(res, isVideo, acc, i) ==
  LET s    == acc.suitable
      size == SizeLimit(res[i], isVideo)
  IN  \/ s = Nobody
      \/ Owned(res[s]) /\ ~Owned(res[i])
      \/ ~Owned(res[i]) /\ Criteria(res[i]) > Criteria(res[s])
      \/ /\ ~(/\ Owned(res[s]) /\ Owned(res[i])
              /\ res[s].priorityOwner > res[i].priorityOwner)
         /\ (isVideo /\ acc.maxSize # -1 /\ size = -1) \/ size < acc.maxSize
         /\ Owned(res[s]) \/ ~Owned(res[i])

FirstPending(acc, i) == IF acc.pending = Nobody THEN [acc EXCEPT !.pending = i] ELSE acc

\* Mutant: an owner with a better priority is not skipped.
ConsiderOutranked(res, isVideo, tieWins, priority, usage, acc, i) ==
  IF TooSmall(res[i], isVideo, usage) THEN acc
  ELSE IF Tied(res[i], priority, usage)
    THEN IF tieWins THEN [acc EXCEPT !.preempt = i] ELSE FirstPending(acc, i)
  ELSE IF Displaces(res, isVideo, acc, i)
    THEN [acc EXCEPT !.suitable = i, !.maxSize = SizeLimit(res[i], isVideo)]
  ELSE acc

\* Mutant: nothing to wait for is remembered when the priority is outranked.
ConsiderForgetful(res, isVideo, tieWins, priority, usage, acc, i) ==
  IF TooSmall(res[i], isVideo, usage) \/ Outranks(res[i], priority) THEN acc
  ELSE IF Tied(res[i], priority, usage)
    THEN IF tieWins THEN [acc EXCEPT !.preempt = i] ELSE FirstPending(acc, i)
  ELSE IF Displaces(res, isVideo, acc, i)
    THEN [acc EXCEPT !.suitable = i, !.maxSize = SizeLimit(res[i], isVideo)]
  ELSE acc

Consider(res, isVideo, tieWins, priority, usage, acc, i) ==
  IF TooSmall(res[i], isVideo, usage) THEN acc
  ELSE IF Tied(res[i], priority, usage)
    THEN IF tieWins THEN [acc EXCEPT !.preempt = i] ELSE FirstPending(acc, i)
  ELSE IF Outranks(res[i], priority) THEN FirstPending(acc, i)
  ELSE IF Displaces(res, isVideo, acc, i)
    THEN [acc EXCEPT !.suitable = i, !.maxSize = SizeLimit(res[i], isVideo)]
  ELSE acc

\* One scan of a group of resources in table order.
Scan(res, ids, group, isVideo, tieWins, priority, usage, first) ==
  LET scan[n \in 0..Len(ids)] ==
        IF n = 0 THEN first
        ELSE IF ids[n] \in group
        THEN Consider(res, isVideo, tieWins, priority, usage, scan[n-1], ids[n])
        ELSE scan[n-1]
  IN  scan[Len(ids)]

\* The ideal resources are scanned first; all eligible ones, those again
\* included, only when none of the ideal ones will do.
FindSuitableResource(res, ids, isVideo, tieWins, priority, usage) ==
  LET eligibleItems == {i \in ToSet(ids) : Eligible(res[i], usage)}
      bestItems == {i \in eligibleItems : Ideal(res[i], usage)}
      best == Scan(res, ids, bestItems, isVideo, tieWins, priority, usage, NothingFound)
      all  == IF best.suitable # Nobody THEN best
              ELSE Scan(res, ids, eligibleItems, isVideo, tieWins, priority, usage, best)
  IN  [suitable |-> IF all.suitable = Nobody THEN all.preempt ELSE all.suitable,
       pending  |-> all.pending]

=============================================================================
