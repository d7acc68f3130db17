---------------------------- MODULE MCErmArbiter ----------------------------
(***************************************************************************)
(* essRMFindSuitableResource on every video decoder table of bounded size  *)
(* and every request against it.  A table is chosen initially; the one     *)
(* step answers one request, after which the behavior is over.             *)
(***************************************************************************)
EXTENDS ErmArbiter, FiniteSets

CONSTANTS Decoders,     \* how many decoders the table has
          Bits,         \* the capability bits in use
          AskedPriorities,
          Sizes,
          Somebody      \* any owner

ASSUME ArbiterAssumption ==
  /\ Decoders \in Nat
  /\ Nobody \notin 1..Decoders
  /\ AskedPriorities \subseteq Int

ids == [i \in 1..Decoders |-> i]

\* The two dimensions are treated alike; a request constrains one or none.
Usages == [bits : SUBSET Bits, maxWidth : Sizes \cup {0}, maxHeight : {0}]
            \cup [bits : SUBSET Bits, maxWidth : {0}, maxHeight : Sizes]

\* A limited decoder has a size; an owner has a priority and usage bits.
IdleDecoder(c, w) ==
  [capabilities |-> c, criteriaMask |-> Bits, maxWidth |-> w, maxHeight |-> w,
   connOwner |-> Nobody, priorityOwner |-> 0, usageOwner |-> {}]

Idle == {IdleDecoder(c, w) : c \in {s \in SUBSET Bits : limitedResolution \in s}, w \in Sizes}
          \cup {IdleDecoder(c, 0) : c \in {s \in SUBSET Bits : limitedResolution \notin s}}

OwnedDecoder(d, p, u) ==
  [d EXCEPT !.connOwner = Somebody, !.priorityOwner = p, !.usageOwner = u]

Decoder == Idle \cup {OwnedDecoder(d, p, u) : d \in Idle, p \in AskedPriorities,
                                             u \in {{}, {limitedResolution}}}

NoUsage == [bits |-> {}, maxWidth |-> 0, maxHeight |-> 0]
NoRequest == [tieWins |-> FALSE, priority |-> 0, usage |-> NoUsage]
Unanswered == [suitable |-> Nobody, pending |-> Nobody]

VARIABLES res, request, answer
arbiterVars == <<res, request, answer>>

ArbiterInit == /\ res \in [1..Decoders -> Decoder]
               /\ request = NoRequest
               /\ answer = Unanswered

Asked == request # NoRequest

\* The usage is the one the server has read from the message.
ArbiterNext ==
  \E tieWins \in BOOLEAN, p \in AskedPriorities, u \in Usages :
    /\ ~Asked
    /\ request' = [tieWins |-> tieWins, priority |-> p, usage |-> u]
    /\ answer' = FindSuitableResource(res, ids, TRUE, tieWins, p, u)
    /\ UNCHANGED res

ArbiterSpec == ArbiterInit /\ [][ArbiterNext]_arbiterVars

----------------------------------------------------------------------------
(* The decoders that can serve the request at all, and those of them that  *)
(* are not kept by their owner.                                            *)

Fits(i) == Eligible(res[i], request.usage) /\ ~TooSmall(res[i], TRUE, request.usage)
Fitting == {i \in 1..Decoders : Fits(i)}
Contestable ==
  {i \in Fitting : /\ ~Outranks(res[i], request.priority)
                   /\ ~Tied(res[i], request.priority, request.usage)}

\* A request is given a decoder that can serve it, and takes it away only
\* from an owner that is not more important; a tie of priority and usage
\* goes to the requester only under requesterWinsPriorityTie.
OnlyFromWeaker ==
  LET i == answer.suitable
  IN  (Asked /\ i # Nobody) =>
        /\ i \in Fitting
        /\ Owned(res[i]) =>
             /\ res[i].priorityOwner >= request.priority
             /\ Tied(res[i], request.priority, request.usage) => request.tieWins

\* No request is turned away for good while some decoder could serve it: it
\* gets one, or is told which one to wait for, and that one is held by an
\* owner it cannot displace.
DeniedOnlyIfUnservable ==
  (Asked /\ answer.suitable = Nobody) =>
    /\ Fitting = {} <=> answer.pending = Nobody
    /\ Contestable = {}
    /\ answer.pending # Nobody => answer.pending \in Fitting

\* The choice is made among the ideal decoders when one of them can be had,
\* and inside the group nobody is preempted while a free decoder is left.
FreeFirstInGroup ==
  LET i     == answer.suitable
      ideal == {k \in Contestable : Ideal(res[k], request.usage)}
      group == IF ideal # {} THEN ideal ELSE Contestable
  IN  (Asked /\ Contestable # {}) =>
        /\ i \in group
        /\ Owned(res[i]) => \A k \in group : Owned(res[k])

=============================================================================
