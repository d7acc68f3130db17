------------------------- MODULE VideoServerProofs -------------------------
(***************************************************************************)
(* What the video server guarantees for any number of connections, planes, *)
(* buffers and frames, if an ending connection sleeps through at most one  *)
(* vertical blank.  The invariant says who owns which plane (Ownership),   *)
(* what the refresh thread may find at each step of a tick (TickInv), and  *)
(* that every frame is in one place: in a frame queue, in a slot of a      *)
(* plane, or on the way back to its client (FrameInv).                     *)
(***************************************************************************)
EXTENDS VideoServer, SequenceTheorems, FiniteSetTheorems, WellFoundedInduction, TLAPS

\* A message is sent.
LEMMA AppendSet ==
  ASSUME NEW S, NEW s \in Seq(S), NEW x \in S
  PROVE  /\ Append(s, x) \in Seq(S)
         /\ ToSet(Append(s, x)) = ToSet(s) \cup {x}
<1>1. /\ Append(s, x) \in Seq(S) /\ Len(Append(s, x)) = Len(s) + 1 /\ Len(s) \in Nat
      /\ \A i \in 1..Len(s) : Append(s, x)[i] = s[i]
      /\ Append(s, x)[Len(s) + 1] = x
  OBVIOUS
<1>2. DOMAIN s = 1..Len(s) /\ DOMAIN Append(s, x) = 1..(Len(s) + 1)
  BY <1>1
<1>3. \A y \in ToSet(Append(s, x)) : y \in ToSet(s) \cup {x}
  BY <1>1, <1>2 DEF ToSet
<1>4. \A y \in ToSet(s) : y \in ToSet(Append(s, x))
  BY <1>1, <1>2 DEF ToSet
<1>5. x \in ToSet(Append(s, x))
  BY <1>1, <1>2 DEF ToSet
<1>6. QED
  BY <1>1, <1>3, <1>4, <1>5

\* A message is received.
LEMMA TailSet ==
  ASSUME NEW S, NEW s \in Seq(S), s # <<>>
  PROVE  /\ Head(s) \in S /\ Tail(s) \in Seq(S)
         /\ ToSet(s) = {Head(s)} \cup ToSet(Tail(s))
<1>1. /\ Len(s) \in Nat /\ Len(s) > 0 /\ Tail(s) \in Seq(S) /\ Len(Tail(s)) = Len(s) - 1
      /\ \A i \in 1..Len(s)-1 : Tail(s)[i] = s[i+1]
      /\ Head(s) = s[1] /\ s[1] \in S
  OBVIOUS
<1>2. DOMAIN s = 1..Len(s) /\ DOMAIN Tail(s) = 1..(Len(s) - 1)
  BY <1>1
<1>3. \A y \in ToSet(s) : y \in {Head(s)} \cup ToSet(Tail(s))
  <2> SUFFICES ASSUME NEW i \in 1..Len(s) PROVE s[i] \in {Head(s)} \cup ToSet(Tail(s))
    BY <1>2 DEF ToSet
  <2>1. CASE i = 1
    BY <1>1, <2>1
  <2>2. CASE i # 1
    <3>1. i - 1 \in 1..(Len(s) - 1) /\ s[i] = Tail(s)[i-1]
      BY <1>1, <2>2
    <3>2. QED
      BY <1>2, <3>1 DEF ToSet
  <2>3. QED
    BY <2>1, <2>2
<1>4. \A y \in ToSet(Tail(s)) : y \in ToSet(s)
  <2> SUFFICES ASSUME NEW i \in 1..(Len(s) - 1) PROVE Tail(s)[i] \in ToSet(s)
    BY <1>2 DEF ToSet
  <2>1. i + 1 \in 1..Len(s) /\ Tail(s)[i] = s[i+1]
    BY <1>1
  <2>2. QED
    BY <1>2, <2>1 DEF ToSet
<1>5. Head(s) \in ToSet(s)
  BY <1>1, <1>2 DEF ToSet
<1>6. QED
  BY <1>1, <1>3, <1>4, <1>5

\* A part of a sequence, with its length in a form easier to compute with.
LEMMA PartOf ==
  ASSUME NEW S, NEW s \in Seq(S), NEW m \in Nat \ {0}, NEW n \in Nat, n <= Len(s), m <= n + 1
  PROVE  /\ SubSeq(s, m, n) \in Seq(S) /\ Len(SubSeq(s, m, n)) = n + 1 - m
         /\ \A i \in 1..(n + 1 - m) : SubSeq(s, m, n)[i] = s[m - 1 + i]
<1>1. \A i \in m..n : s[i] \in S
  OBVIOUS
<1>2. /\ SubSeq(s, m, n) \in Seq(S)
      /\ Len(SubSeq(s, m, n)) = IF m <= n THEN n - m + 1 ELSE 0
      /\ \A i \in 1..(n - m + 1) : SubSeq(s, m, n)[i] = s[m + i - 1]
  BY <1>1, SubSeqProperties
<1>3. (n + 1 - m = n - m + 1) /\ \A i \in Int : m - 1 + i = m + i - 1
  OBVIOUS
<1>4. QED
  BY <1>2, <1>3

\* The places of a sequence without its n-th element.
LEMMA RemoveAtPlaces ==
  ASSUME NEW S, NEW s \in Seq(S), NEW n \in 1..Len(s)
  PROVE  /\ RemoveAt(s, n) \in Seq(S) /\ Len(RemoveAt(s, n)) = Len(s) - 1
         /\ \A i \in 1..(Len(s) - 1) : RemoveAt(s, n)[i] = s[IF i < n THEN i ELSE i + 1]
<1>1. Len(s) \in Nat /\ n \in Nat
  OBVIOUS
<1>2. PICK a : a = SubSeq(s, 1, n-1)
  OBVIOUS
<1>3. PICK b : b = SubSeq(s, n+1, Len(s))
  OBVIOUS
<1>4. /\ a \in Seq(S) /\ Len(a) = n - 1
      /\ \A i \in 1..(n - 1) : a[i] = s[i]
  BY <1>1, <1>2, PartOf
<1>5. /\ b \in Seq(S) /\ Len(b) = Len(s) - n
      /\ \A i \in 1..(Len(s) - n) : b[i] = s[n + i]
  BY <1>1, <1>3, PartOf
<1>6. RemoveAt(s, n) = a \o b
  BY <1>2, <1>3 DEF RemoveAt
<1>7. /\ a \o b \in Seq(S) /\ Len(a \o b) = Len(a) + Len(b)
      /\ \A i \in 1..Len(a) + Len(b) :
           (a \o b)[i] = IF i <= Len(a) THEN a[i] ELSE b[i - Len(a)]
  BY <1>4, <1>5, ConcatProperties
<1>8. ASSUME NEW i \in 1..(Len(s) - 1)
      PROVE  (a \o b)[i] = s[IF i < n THEN i ELSE i + 1]
  <2>1. CASE i < n
    BY <1>1, <1>4, <1>5, <1>7, <2>1
  <2>2. CASE i >= n
    <3>1. (a \o b)[i] = b[i - (n - 1)] /\ i - (n - 1) \in 1..Len(s)-n
      BY <1>1, <1>4, <1>5, <1>7, <2>2
    <3>2. n + (i - (n - 1)) = i + 1
      BY <1>1
    <3>3. QED
      BY <1>1, <1>5, <2>2, <3>1, <3>2
  <2>3. i < n \/ i >= n
    BY <1>1
  <2>4. QED
    BY <2>1, <2>2, <2>3
<1>9. QED
  BY <1>1, <1>4, <1>5, <1>6, <1>7, <1>8

\* A sequence without its n-th element.
LEMMA RemoveAtSet ==
  ASSUME NEW S, NEW s \in Seq(S), NEW n \in 1..Len(s), IsInjective(s)
  PROVE  /\ RemoveAt(s, n) \in Seq(S) /\ IsInjective(RemoveAt(s, n))
         /\ ToSet(RemoveAt(s, n)) = ToSet(s) \ {s[n]}
<1>1. Len(s) \in Nat /\ DOMAIN s = 1..Len(s) /\ n \in Nat
  OBVIOUS
<1>2. PICK t : t = RemoveAt(s, n)
  OBVIOUS
<1>3. PICK from : from = [i \in 1..(Len(s) - 1) |-> IF i < n THEN i ELSE i + 1]
  OBVIOUS
<1>4. /\ t \in Seq(S) /\ DOMAIN t = 1..(Len(s) - 1)
      /\ \A i \in 1..(Len(s) - 1) : t[i] = s[from[i]]
  BY <1>1, <1>2, <1>3, RemoveAtPlaces
<1>5. \A i \in 1..(Len(s) - 1) : from[i] \in 1..Len(s) /\ from[i] # n
  BY <1>1, <1>3
<1>6. \A i, j \in 1..(Len(s) - 1) : from[i] = from[j] => i = j
  BY <1>1, <1>3
<1>7. ASSUME NEW i \in 1..Len(s), i # n PROVE \E j \in 1..(Len(s) - 1) : from[j] = i
  <2>1. CASE i < n
    BY <1>1, <1>3, <2>1
  <2>2. CASE i > n
    <3>1. i - 1 \in 1..(Len(s) - 1) /\ from[i - 1] = i
      BY <1>1, <1>3, <2>2
    <3>2. QED
      BY <3>1
  <2>3. QED
    BY <1>1, <1>7, <2>1, <2>2
<1>8. IsInjective(t)
  <2> SUFFICES ASSUME NEW i \in 1..(Len(s) - 1), NEW j \in 1..(Len(s) - 1), t[i] = t[j]
               PROVE  i = j
    BY <1>4 DEF IsInjective
  <2>1. from[i] \in DOMAIN s /\ from[j] \in DOMAIN s /\ s[from[i]] = s[from[j]]
    BY <1>1, <1>4, <1>5
  <2>2. QED
    BY <1>6, <2>1 DEF IsInjective
<1>9. ASSUME NEW i \in 1..(Len(s) - 1) PROVE t[i] \in ToSet(s) \ {s[n]}
  BY <1>1, <1>4, <1>5 DEF ToSet, IsInjective
<1>10. ASSUME NEW i \in 1..Len(s), s[i] # s[n] PROVE s[i] \in ToSet(t)
  <2>1. PICK j \in 1..(Len(s) - 1) : from[j] = i
    BY <1>7, <1>10
  <2>2. t[j] = s[i]
    BY <1>4, <2>1
  <2>3. QED
    BY <1>4, <2>2 DEF ToSet
<1>11. ToSet(t) = ToSet(s) \ {s[n]}
  BY <1>1, <1>4, <1>9, <1>10 DEF ToSet
<1>12. QED
  BY <1>2, <1>4, <1>8, <1>11

\* A set of numbers has a least one.
LEMMA LeastNumber ==
  ASSUME NEW T \in SUBSET Nat, T # {}
  PROVE  \E n \in T : \A m \in T : n <= m
<1> DEFINE Below == {1..n : n \in T}
           R == StrictSubsetOrdering(Nat)
<1>1. IsWellFoundedOn(R, FiniteSubsetsOf(Nat))
  BY FS_StrictSubsetOrderingWellFounded
<1>2. \A n \in T : IsFiniteSet(1..n) /\ 1..n \in SUBSET Nat
  BY FS_Interval
<1>3. Below \subseteq FiniteSubsetsOf(Nat) /\ Below # {}
  BY <1>2 DEF FiniteSubsetsOf
<1>4. PICK x \in Below : \A y \in Below : ~(<<y, x>> \in R)
  BY <1>1, <1>3, WFMin
<1>5. PICK n \in T : x = 1..n
  OBVIOUS
<1>6. ASSUME NEW m \in T, m < n PROVE FALSE
  <2>1. 1..m \subseteq 1..n /\ n \in 1..n /\ n \notin 1..m
    BY <1>6
  <2>2. 1..m \in Below /\ 1..m \in SUBSET Nat /\ x \in SUBSET Nat
    BY <1>5
  <2>3. QED
    BY <1>4, <1>5, <2>1, <2>2 DEF StrictSubsetOrdering
<1>7. QED
  BY <1>6

(***************************************************************************)
(* The invariant.                                                          *)
(***************************************************************************)

Kinds == {"next", "curr", "prev", "free"}
Real(f) == f.bufferId # NoBuffer
OnPlane(c) == step[c] \in {"serving", "dark"}
Owned(p) == plane[p].conn # NoConn

(* A plane and the connection that uses it know each other. *)
Ownership ==
    /\ IsInjective(used)
    /\ \A p \in Planes : Owned(p) <=> p \in ToSet(used)
    /\ \A p \in Planes : Owned(p) =>
         /\ planeOf[plane[p].conn] = p
         /\ plane[p].inUse <=> Serving(plane[p].conn)
    /\ \A p \in Planes : ~Owned(p) =>
         /\ plane[p].next = NoFrame /\ plane[p].prev = NoFrame /\ plane[p].free = NoFrame
         /\ ~Real(plane[p].curr)
         /\ vfm[p] = Fresh
         /\ ~plane[p].inUse /\ ~plane[p].keepLastFrame
    /\ \A c \in Conns :
         /\ OnPlane(c) => planeOf[c] \in Planes /\ plane[planeOf[c]].conn = c
         /\ ~OnPlane(c) => planeOf[c] = NoPlane
         /\ step[c] = "dark" => ~plane[planeOf[c]].keepLastFrame
         /\ step[c] = "dark" /\ refresh # Idle => naps[c] >= 1
         /\ step[c] = "new" => lent[c] = {}

Pops == {"drain", "base", "first", "second", "take"}

(* A frame waits in NEXT from the check of its plane to the swap, or, when     *)
(* its plane has been turned off, until the plane is freed.                    *)
NextWaits ==
    \A n \in 1..Len(used) : plane[used[n]].next # NoFrame =>
      \/ refresh.step \in Pops \cup {"check"} /\ n < refresh.at
      \/ refresh.step = "swap" /\ (n >= refresh.at \/ step[plane[used[n]].conn] = "dark")
      \/ refresh = Idle /\ step[plane[used[n]].conn] = "dark" /\ naps[plane[used[n]].conn] >= 1

(* A frame waits in FREE from the swap to the release of the next tick. *)
FreeWaits ==
    \A n \in 1..Len(used) : Real(plane[used[n]].free) =>
      \/ refresh = Idle
      \/ refresh.step = "release" /\ n >= refresh.at
      \/ refresh.step = "swap" /\ n < refresh.at

(* The frame found so far is the one on the screen or the first of the queue. *)
FoundSoFar ==
    refresh.step \in Pops =>
      LET p == used[refresh.at]
          v == vfm[p]
      IN  /\ refresh.step = "drain" => refresh.frame = NoFrame
          /\ refresh.step \in {"base", "first", "second"} => refresh.frame = Held(p)
          /\ refresh.step = "second" =>
               v.queue # <<>> /\ Head(v.queue) = plane[p].curr /\ Real(plane[p].curr)
          /\ refresh.step = "take" =>
               \/ refresh.frame \in {NoFrame, Held(p)}
               \/ v.queue # <<>> /\ refresh.frame = Head(v.queue)

TickInv == NextWaits /\ FreeWaits /\ FoundSoFar

(* Frames are of the plane's owner and were sent; a frame without a buffer *)
(* was left by a connection that has ended.                                *)
QueuesBelong ==
    \A p \in Planes : \A f \in Queued(p) :
      f.fb[1] = plane[p].conn /\ f.fb[2] <= sent[f.fb[1]]

SlotsBelong ==
    \A p \in Planes, k \in Kinds :
      /\ Real(plane[p][k]) =>
           /\ plane[p][k].fb \in Fbs
           /\ plane[p][k].fb[1] = plane[p].conn
           /\ plane[p][k].fb[2] <= sent[plane[p][k].fb[1]]
      /\ ~Real(plane[p][k]) =>
           plane[p][k] = NoFrame \/ (k # "next" /\ plane[p][k].fb \in kept)

ReleasesBelong == \A f \in ToRelease : f.fb[2] <= sent[f.fb[1]] /\ f.fb \notin kept

KeptAreOld ==
    \A fb \in kept : fb[2] <= sent[fb[1]] /\ ~OnPlane(fb[1]) /\ step[fb[1]] # "new"

FreedWereSent == \A fb \in freed : fb[2] <= sent[fb[1]]

Belong == QueuesBelong /\ SlotsBelong /\ ReleasesBelong /\ KeptAreOld /\ FreedWereSent

(* A frame is in one place, but the current frame may be in a slot and at *)
(* the head of the queue.                                                 *)
SlotsApart ==
    \A p, q \in Planes, k, l \in Kinds :
      plane[p][k].fb = plane[q][l].fb /\ plane[p][k] # NoFrame => p = q /\ k = l

QueuesApart ==
    \A p \in Planes, k \in Kinds : \A f \in Queued(p) :
      f.fb = plane[p][k].fb =>
        k \in {"next", "curr"} /\ plane[p][k] = f /\ f.bufferId = vfm[p].bufferIdCurrent

ReleasesApart ==
    \A f \in ToRelease, p \in Planes :
      /\ \A g \in Queued(p) : g.fb # f.fb
      /\ \A k \in Kinds : plane[p][k].fb # f.fb

Apart == SlotsApart /\ QueuesApart /\ ReleasesApart

(* The current buffer is that of the newest frame on or for the screen. *)
Newest(p) == IF plane[p].next # NoFrame THEN plane[p].next ELSE plane[p].curr
CurrentIsNewest ==
    \A p \in Planes :
      vfm[p].bufferIdCurrent # NoBuffer => Newest(p).bufferId = vfm[p].bufferIdCurrent

(* What a client sees as one buffer is one frame, and not yet returned. *)
Unique ==
    \A f, g \in Present :
      Real(f) /\ f.bufferId = g.bufferId /\ f.fb[1] = g.fb[1] => f = g
AllLent == \A f \in Present : Real(f) => f.bufferId \in lent[f.fb[1]]
NotYetFreed == \A f \in Present : f.fb \notin freed

(* Frames are shown in the order of the queue. *)
Older(f, g) == Real(f) => f.fb[2] < g.fb[2]
InOrder ==
    \A p \in Planes :
      /\ plane[p].next # NoFrame => Older(plane[p].curr, plane[p].next)
      /\ \A f \in Queued(p), k \in {"next", "curr"} :
           Real(plane[p][k]) => plane[p][k].fb[2] <= f.fb[2]

Increasing(q) == \A i, j \in 1..Len(q) : i < j => q[i].fb[2] < q[j].fb[2]
QueuesIncrease == \A p \in Planes : Increasing(vfm[p].queue)

FrameInv ==
    /\ Belong /\ Apart /\ CurrentIsNewest
    /\ Unique /\ AllLent /\ NotYetFreed /\ FreedOnce
    /\ InOrder
    /\ NoLeak /\ NoBufferLost

(* A frame is in the offload queue or in the hand of the offload thread once, *)
(* addressed to its client.                                                   *)
IsRelease(m) == m.type = "release"
MessagesApart ==
    /\ \A i \in 1..Len(messages) : IsRelease(messages[i]) =>
         messages[i].frame.fb[1] = messages[i].conn
    /\ \A i, j \in 1..Len(messages) :
         IsRelease(messages[i]) /\ IsRelease(messages[j]) /\ i # j =>
           messages[i].frame.fb # messages[j].frame.fb
    /\ offload.step = "work" /\ IsRelease(offload.msg) =>
         /\ offload.msg.frame.fb[1] = offload.msg.conn
         /\ \A i \in 1..Len(messages) : IsRelease(messages[i]) =>
              messages[i].frame.fb # offload.msg.frame.fb

(* A client has sent a finite number of frames. *)
RefusedFew == \A c \in Conns : IsFiniteSet(refused[c])

(* All about frames. *)
PlacesInv == QueuesIncrease /\ MessagesApart /\ FrameInv

VideoInv == TypeOK /\ Ownership /\ TickInv /\ RefusedFew /\ PlacesInv

(***************************************************************************)
(* Types.                                                                  *)
(***************************************************************************)

\* Where the refresh thread is.
LEMMA RefreshAt ==
  ASSUME TypeOK
  PROVE  /\ refresh # Idle => refresh.at \in 1..Len(used) /\ used[refresh.at] \in Planes
         /\ refresh.step \in Pops =>
              refresh # Idle /\ refresh.frame \in Frames \cup {NoFrame} /\ refresh.dropped \in BOOLEAN
         /\ refresh.step \in {"release", "check", "swap"} => refresh # Idle
         /\ refresh.step = "idle" => refresh = Idle
<1>1. CASE refresh = Idle
  BY <1>1 DEF Idle, Pops
<1>2. CASE refresh \in [step : {"release", "check", "swap"}, at : 1..Len(used)]
  BY <1>2 DEF TypeOK, Idle, Pops
<1>3. CASE refresh \in [step : {"drain", "base", "first", "second", "take"}, at : 1..Len(used),
                        frame : Frames \cup {NoFrame}, dropped : BOOLEAN]
  BY <1>3 DEF TypeOK, Idle, Pops
<1>4. QED
  BY <1>1, <1>2, <1>3 DEF TypeOK, RefreshSteps

\* The forms a position of the refresh thread may take.
LEMMA RefreshForms ==
  ASSUME NEW n \in 1..Len(used), NEW f \in Frames \cup {NoFrame}, NEW d \in BOOLEAN
  PROVE  /\ Releasing(n) \in RefreshSteps /\ Checking(n) \in RefreshSteps
         /\ Swapping(n) \in RefreshSteps
         /\ \A s \in Pops : Popping(s, n, f, d) \in RefreshSteps
  BY DEF RefreshSteps, Releasing, Checking, Swapping, Popping, Pops

\* The frame buffers of frames, and their buffers.
LEMMA FrameFields ==
  /\ \A f \in Frames : f.fb \in Fbs /\ f.bufferId \in Buffers /\ f.fb[1] \in Conns
                       /\ f.fb[2] \in 1..MaxFrames /\ f # NoFrame /\ Real(f) /\ f \in Slots
  /\ NoFrame \in Slots /\ NoFb \notin Fbs /\ ~Real(NoFrame)
  /\ \A f, g \in Slots : f.fb = g.fb /\ f.bufferId = g.bufferId => f = g
  /\ \A f \in Slots : Real(f) /\ f.fb \in Fbs => f \in Frames
<1>1. NoFb \notin Fbs
  BY DEF NoFb, Fbs
<1>2. NoBuffer \notin Buffers
  BY VideoAssumption
<1>3. \A f \in Frames : f.fb \in Fbs /\ f.bufferId \in Buffers /\ f.fb[1] \in Conns
                        /\ f.fb[2] \in 1..MaxFrames /\ f \in Slots
  BY DEF Frames, Fbs, Slots
<1>4. \A f \in Frames : f # NoFrame
  BY <1>1, <1>3 DEF NoFrame
<1>5. QED
  BY <1>1, <1>2, <1>3, <1>4 DEF Slots, NoFrame, Frames, Real

\* A message in the queue or in the hand of the offload thread.
LEMMA MessageFields ==
  /\ \A m \in Messages : IsRelease(m) => m.conn \in Conns /\ m.frame \in Frames
  /\ \A c \in Conns, f \in Frames :
       Release(c, f) \in Messages /\ IsRelease(Release(c, f))
       /\ Release(c, f).conn = c /\ Release(c, f).frame = f
  /\ \A c \in Conns : Notice(c) \in Messages /\ ~IsRelease(Notice(c))
  /\ Nothing \in Messages /\ ~IsRelease(Nothing)
  /\ \A m \in Messages : m = Nothing \/ m.conn \in Conns
  BY DEF Messages, IsRelease, Release, Notice, Nothing

\* The effect of freeing frames of one client and giving them back, on types.
LEMMA FreeAndReturnType ==
  ASSUME TypeOK, NEW c \in Conns, NEW S \in SUBSET Frames, FreeAndReturn(c, S)
  PROVE  freed' \subseteq Fbs /\ freedTwice' \subseteq Fbs /\ lent' \in [Conns -> SUBSET Buffers]
<1>1. {f.fb : f \in S} \subseteq Fbs
  BY FrameFields
<1>2. QED
  BY <1>1 DEF TypeOK, FreeAndReturn, Free

\* Of executing a message.
LEMMA ExecuteType ==
  ASSUME TypeOK, NEW m \in Messages, Execute(m)
  PROVE  freed' \subseteq Fbs /\ freedTwice' \subseteq Fbs /\ lent' \in [Conns -> SUBSET Buffers]
<1>1. CASE IsRelease(m)
  <2>1. m.conn \in Conns /\ {m.frame} \in SUBSET Frames
    BY <1>1, MessageFields
  <2>2. FreeAndReturn(m.conn, {m.frame})
    BY <1>1 DEF Execute, IsRelease
  <2>3. QED
    BY <2>1, <2>2, FreeAndReturnType
<1>2. CASE ~IsRelease(m)
  BY <1>2 DEF Execute, IsRelease, TypeOK
<1>3. QED
  BY <1>1, <1>2

MessagesType ==
    /\ messages \in Seq(Messages) /\ Len(messages) < OffloadCapacity
    /\ freed \subseteq Fbs /\ freedTwice \subseteq Fbs /\ lent \in [Conns -> SUBSET Buffers]

\* Of handing the offload thread a message.
LEMMA PushType ==
  ASSUME TypeOK, NEW m \in Messages, OffloadMsgPush(m)
  PROVE  MessagesType'
<1>1. OffloadCapacity \in Nat
  BY VideoAssumption
<1>2. CASE Len(messages) < OffloadCapacity - 1
  <2>1. messages' = Append(messages, m) /\ UNCHANGED <<freed, freedTwice, lent>>
    BY <1>2 DEF OffloadMsgPush
  <2>2. messages' \in Seq(Messages) /\ Len(messages') = Len(messages) + 1 /\ Len(messages) \in Nat
    BY <2>1 DEF TypeOK
  <2>3. QED
    BY <1>1, <1>2, <2>1, <2>2 DEF TypeOK, MessagesType
<1>3. CASE ~(Len(messages) < OffloadCapacity - 1)
  <2>1. messages' = messages /\ Execute(m)
    BY <1>3 DEF OffloadMsgPush
  <2>2. QED
    BY <2>1, ExecuteType DEF TypeOK, MessagesType
<1>4. QED
  BY <1>2, <1>3

\* Of doing so with a frame of a slot, which may hold none.
LEMMA SendType ==
  ASSUME TypeOK, NEW c \in Conns, NEW f \in Slots, Real(f) => f \in Frames,
         SendBufferRelease(c, f) \/ NoPush
  PROVE  MessagesType'
<1>1. CASE NoPush
  BY <1>1 DEF NoPush, TypeOK, MessagesType
<1>2. CASE SendBufferRelease(c, f) /\ Real(f)
  BY <1>2, MessageFields, PushType DEF SendBufferRelease, Real
<1>3. QED
  BY <1>1, <1>2 DEF SendBufferRelease, Real

\* The messages of a connection are done.
LEMMA FlushedType ==
  ASSUME TypeOK, NEW c \in Conns
  PROVE  /\ Flushed(c) \in Seq(Messages) /\ Len(Flushed(c)) = Len(messages)
         /\ PendingReleases(c) \in SUBSET Frames
         /\ \A i \in 1..Len(messages) :
              Flushed(c)[i] = IF messages[i].conn = c THEN Nothing ELSE messages[i]
<1>1. messages \in Seq(Messages) /\ Len(messages) \in Nat /\ DOMAIN messages = 1..Len(messages)
  BY DEF TypeOK
<1>2. \A i \in 1..Len(messages) : messages[i] \in Messages
  BY <1>1
<1>3. Flushed(c) \in [1..Len(messages) -> Messages]
  BY <1>2, MessageFields DEF Flushed
<1>4. Flushed(c) \in Seq(Messages) /\ Len(Flushed(c)) = Len(messages)
  BY <1>1, <1>3
<1>5. PendingReleases(c) \in SUBSET Frames
  BY <1>1, <1>2, MessageFields DEF PendingReleases, ToSet, IsRelease
<1>6. QED
  BY <1>1, <1>4, <1>5 DEF Flushed

\* A plane in use is a plane, and the frames of its queue are frames.
LEMMA QueueType ==
  ASSUME TypeOK, NEW p \in Planes
  PROVE  /\ vfm[p].queue \in Seq(Frames)
         /\ Queued(p) \in SUBSET Frames /\ Discarded(vfm[p]) \in SUBSET Queued(p)
         /\ plane[p].conn \in Conns \cup {NoConn}
         /\ \A k \in Kinds : plane[p][k] \in Slots
<1>1. vfm[p].queue \in Seq(Frames)
  BY DEF TypeOK, Managers
<1>2. plane[p] \in PlaneStates
  BY DEF TypeOK
<1>3. QED
  BY <1>1, <1>2 DEF Queued, ToSet, Discarded, PlaneStates, Kinds

\* A plane is given up.
LEMMA RemoveFirstSet ==
  ASSUME NEW S, NEW s \in Seq(S), IsInjective(s), NEW e \in ToSet(s)
  PROVE  /\ RemoveFirst(s, e) \in Seq(S) /\ IsInjective(RemoveFirst(s, e))
         /\ ToSet(RemoveFirst(s, e)) = ToSet(s) \ {e}
<1> DEFINE I == {i \in 1..Len(s) : s[i] = e}
<1>1. DOMAIN s = 1..Len(s) /\ Len(s) \in Nat
  OBVIOUS
<1>2. I # {} /\ I \in SUBSET Nat
  BY <1>1 DEF ToSet
<1>3. PICK m \in I : \A j \in I : m <= j
  BY <1>2, LeastNumber
<1>4. Min(I) = m
  BY <1>3, <1>2 DEF Min
<1>5. SelectInSeq(s, LAMBDA v : v = e) = m
  BY <1>3, <1>4 DEF SelectInSeq
<1>6. m \in 1..Len(s) /\ s[m] = e /\ RemoveFirst(s, e) = RemoveAt(s, m)
  BY <1>3, <1>5 DEF RemoveFirst
<1>7. QED
  BY <1>6, RemoveAtSet

\* The frame on the screen, if its buffer is known, is a frame of the plane's
\* owner.
LEMMA HeldType ==
  ASSUME TypeOK, SlotsBelong, NEW p \in Planes
  PROVE  /\ Held(p) \in Frames \cup {NoFrame}
         /\ \A k \in Kinds : Real(plane[p][k]) => plane[p][k] \in Frames
         /\ Real(plane[p].curr) => Held(p) = plane[p].curr
         /\ ~Real(plane[p].curr) => Held(p) = NoFrame
<1>1. \A k \in Kinds : Real(plane[p][k]) => plane[p][k] \in Frames
  BY QueueType, FrameFields DEF SlotsBelong
<1>2. "curr" \in Kinds
  BY DEF Kinds
<1>3. QED
  BY <1>1, <1>2 DEF Held, Real

\* The plane of a connection that uses one.
LEMMA PlaneOfConn ==
  ASSUME TypeOK, Ownership, NEW c \in Conns, OnPlane(c)
  PROVE  /\ planeOf[c] \in Planes /\ plane[planeOf[c]].conn = c /\ Owned(planeOf[c])
         /\ planeOf[c] \in ToSet(used)
<1>1. planeOf[c] \in Planes /\ plane[planeOf[c]].conn = c
  BY DEF Ownership
<1>2. Owned(planeOf[c])
  BY <1>1, VideoAssumption DEF Owned
<1>3. QED
  BY <1>1, <1>2 DEF Ownership

\* The planes in use have an owner.
LEMMA UsedPlane ==
  ASSUME TypeOK, Ownership, NEW n \in 1..Len(used)
  PROVE  /\ used[n] \in Planes /\ Owned(used[n]) /\ plane[used[n]].conn \in Conns
         /\ planeOf[plane[used[n]].conn] = used[n] /\ OnPlane(plane[used[n]].conn)
         /\ plane[used[n]].inUse <=> Serving(plane[used[n]].conn)
<1>1. used[n] \in Planes /\ used[n] \in ToSet(used)
  BY DEF TypeOK, ToSet
<1>2. Owned(used[n]) /\ plane[used[n]].conn \in Conns
  BY <1>1, QueueType DEF Ownership, Owned
<1>3. planeOf[plane[used[n]].conn] = used[n] /\ (plane[used[n]].inUse <=> Serving(plane[used[n]].conn))
  BY <1>1, <1>2 DEF Ownership
<1>4. OnPlane(plane[used[n]].conn)
  BY <1>1, <1>2, <1>3, VideoAssumption DEF Ownership
<1>5. QED
  BY <1>1, <1>2, <1>3, <1>4

\* The updates of a plane keep its type.
LEMMA PlaneUpdates ==
  ASSUME NEW s \in PlaneStates
  PROVE  /\ \A b \in BOOLEAN : [s EXCEPT !.inUse = b] \in PlaneStates
         /\ \A b \in BOOLEAN : [s EXCEPT !.keepLastFrame = b] \in PlaneStates
         /\ \A c \in Conns : [s EXCEPT !.conn = c, !.inUse = TRUE] \in PlaneStates
         /\ \A f \in Slots : [s EXCEPT !.next = f] \in PlaneStates
         /\ \A f \in Slots : [s EXCEPT !.free = f] \in PlaneStates
         /\ Rotated(s) \in PlaneStates
<1>1. ASSUME NEW b \in BOOLEAN
      PROVE  [s EXCEPT !.inUse = b] \in PlaneStates /\ [s EXCEPT !.keepLastFrame = b] \in PlaneStates
  BY DEF PlaneStates
<1>2. ASSUME NEW c \in Conns PROVE [s EXCEPT !.conn = c, !.inUse = TRUE] \in PlaneStates
  BY DEF PlaneStates
<1>3. ASSUME NEW f \in Slots
      PROVE  [s EXCEPT !.next = f] \in PlaneStates /\ [s EXCEPT !.free = f] \in PlaneStates
  BY DEF PlaneStates
<1>4. Rotated(s) \in PlaneStates
  BY FrameFields DEF Rotated, PlaneStates
<1>5. QED
  BY <1>1, <1>2, <1>3, <1>4

\* The updates of a frame manager, too.
LEMMA ManagerUpdates ==
  ASSUME NEW v \in Managers
  PROVE  /\ \A q \in Seq(Frames) : [v EXCEPT !.queue = q] \in Managers
         /\ \A q \in Seq(Frames), b \in BOOLEAN :
              [v EXCEPT !.queue = q, !.frameAdvance = b] \in Managers
         /\ \A b \in BOOLEAN : [v EXCEPT !.frameAdvance = b] \in Managers
         /\ \A a, b \in BOOLEAN : [v EXCEPT !.resetBaseTime = a, !.started = b] \in Managers
         /\ \A a \in Buffers \cup {NoBuffer}, b \in BOOLEAN :
              [v EXCEPT !.bufferIdCurrent = a, !.underflowReported = b] \in Managers
         /\ \A a, b, d \in BOOLEAN :
              [v EXCEPT !.paused = a, !.resetBaseTime = b, !.started = d] \in Managers
<1>1. ASSUME NEW q \in Seq(Frames), NEW b \in BOOLEAN
      PROVE  [v EXCEPT !.queue = q] \in Managers
             /\ [v EXCEPT !.queue = q, !.frameAdvance = b] \in Managers
  BY DEF Managers
<1>2. ASSUME NEW b \in BOOLEAN PROVE [v EXCEPT !.frameAdvance = b] \in Managers
  BY DEF Managers
<1>3. ASSUME NEW a \in BOOLEAN, NEW b \in BOOLEAN
      PROVE  [v EXCEPT !.resetBaseTime = a, !.started = b] \in Managers
  BY DEF Managers
<1>4. ASSUME NEW a \in Buffers \cup {NoBuffer}, NEW b \in BOOLEAN
      PROVE  [v EXCEPT !.bufferIdCurrent = a, !.underflowReported = b] \in Managers
  BY DEF Managers
<1>5. ASSUME NEW a \in BOOLEAN, NEW b \in BOOLEAN, NEW d \in BOOLEAN
      PROVE  [v EXCEPT !.paused = a, !.resetBaseTime = b, !.started = d] \in Managers
  BY DEF Managers
<1>6. QED
  BY <1>1, <1>2, <1>3, <1>4, <1>5

\* Handlers keep the types.
LEMMA HandleType ==
  ASSUME TypeOK, Ownership, RefusedFew, NEW c \in Conns, Handle(c)
  PROVE  TypeOK'
<1>0. Fresh \in Managers
  BY DEF Fresh, Managers
<1>01. ASSUME Serving(c) PROVE planeOf[c] \in Planes /\ vfm[planeOf[c]] \in Managers
  BY <1>01, PlaneOfConn DEF Serving, OnPlane, TypeOK
<1>1. CASE HandleVideoResource(c)
  <2>1. CASE \E p \in Planes \ ToSet(used) :
               /\ step' = [step EXCEPT ![c] = "serving"]
               /\ planeOf' = [planeOf EXCEPT ![c] = p]
               /\ used' = Append(used, p)
               /\ plane' = [plane EXCEPT ![p].conn = c, ![p].inUse = TRUE]
               /\ vfm' = [vfm EXCEPT ![p] = Fresh]
    <3>1. PICK p \in Planes :
               /\ step' = [step EXCEPT ![c] = "serving"]
               /\ planeOf' = [planeOf EXCEPT ![c] = p]
               /\ used' = Append(used, p)
               /\ plane' = [plane EXCEPT ![p].conn = c, ![p].inUse = TRUE]
               /\ vfm' = [vfm EXCEPT ![p] = Fresh]
      BY <2>1
    <3>2. plane' \in [Planes -> PlaneStates]
      <4>1. plane[p] \in PlaneStates
        BY DEF TypeOK
      <4>2. plane' = [plane EXCEPT ![p] = [plane[p] EXCEPT !.conn = c, !.inUse = TRUE]]
        BY <3>1 DEF TypeOK
      <4>3. QED
        BY <4>1, <4>2, PlaneUpdates DEF TypeOK
    <3>3. refresh' \in RefreshSteps'
      BY <1>1 DEF HandleVideoResource, Unlocked, RefreshSteps
    <3>4. step' \in [Conns -> Steps] /\ planeOf' \in [Conns -> Planes \cup {NoPlane}]
          /\ used' \in Seq(Planes) /\ vfm' \in [Planes -> Managers]
      BY <1>0, <3>1 DEF TypeOK, Steps
    <3>5. QED
      BY <1>1, <3>2, <3>3, <3>4
         DEF HandleVideoResource, TypeOK, offloadVars, clientVars, freeVars
  <2>2. CASE step' = [step EXCEPT ![c] = "left"] /\ UNCHANGED <<planeOf, used, plane, vfm>>
    BY <1>1, <2>2
       DEF HandleVideoResource, TypeOK, Steps, RefreshSteps, offloadVars, clientVars, freeVars
  <2>3. QED
    BY <1>1, <2>1, <2>2 DEF HandleVideoResource
<1>2. CASE \E b \in Buffers : HandleFrame(c, b)
  <2>1. PICK b \in Buffers : HandleFrame(c, b)
    BY <1>2
  <2>2. Cardinality(refused[c]) \in Nat
    BY FS_CardinalityType DEF RefusedFew
  <2>3. sent[c] + 1 \in 1..MaxFrames /\ sent[c] + 1 \in 0..MaxFrames
    BY <2>1, <2>2, VideoAssumption DEF HandleFrame, MaySend, TypeOK
  <2>4. [fb |-> <<c, sent[c] + 1>>, bufferId |-> b] \in Frames
    BY <2>3 DEF Frames, Fbs
  <2>5. PICK f \in Frames : f = [fb |-> <<c, sent[c] + 1>>, bufferId |-> b]
    BY <2>4
  <2>6. vfm' = [vfm EXCEPT ![planeOf[c]].queue = Append(@, f)]
    BY <2>1, <2>5 DEF HandleFrame
  <2>7. vfm' \in [Planes -> Managers]
    <3>1. vfm[planeOf[c]] \in Managers /\ vfm[planeOf[c]].queue \in Seq(Frames)
      BY <1>01, <2>1, QueueType DEF HandleFrame
    <3>2. Append(vfm[planeOf[c]].queue, f) \in Seq(Frames)
      BY <3>1
    <3>3. vfm' = [vfm EXCEPT ![planeOf[c]] =
                    [vfm[planeOf[c]] EXCEPT !.queue = Append(vfm[planeOf[c]].queue, f)]]
      BY <2>6
    <3>4. QED
      BY <3>1, <3>2, <3>3, ManagerUpdates DEF TypeOK
  <2>8. lent' \in [Conns -> SUBSET Buffers] /\ sent' \in [Conns -> 0..MaxFrames]
    BY <2>1, <2>3 DEF HandleFrame, TypeOK
  <2>9. QED
    BY <2>1, <2>7, <2>8
       DEF HandleFrame, TypeOK, RefreshSteps, connVars, offloadVars, freeVars
<1>3. CASE \E b \in Buffers : HandleBadFrame(c, b)
  BY <1>3 DEF HandleBadFrame, TypeOK, RefreshSteps, connVars, offloadVars, freeVars
<1>4. CASE HandleFlush(c)
  <2>1. PendingReleases(c) \cup Discarded(vfm[planeOf[c]]) \in SUBSET Frames
    BY <1>01, <1>4, FlushedType, QueueType DEF HandleFlush
  <2>2. freed' \subseteq Fbs /\ freedTwice' \subseteq Fbs /\ lent' \in [Conns -> SUBSET Buffers]
    BY <1>4, <2>1, FreeAndReturnType DEF HandleFlush
  <2>3. messages' \in Seq(Messages) /\ Len(messages') < OffloadCapacity
    BY <1>4, FlushedType DEF HandleFlush, TypeOK
  <2>4. vfm' \in [Planes -> Managers]
    BY <1>0, <1>4 DEF HandleFlush, TypeOK
  <2>5. QED
    BY <1>4, <2>2, <2>3, <2>4 DEF HandleFlush, TypeOK, RefreshSteps, connVars
<1>5. CASE HandleSession(c)
  <2>1. Discarded(vfm[planeOf[c]]) \in SUBSET Frames
    BY <1>01, <1>5, QueueType DEF HandleSession
  <2>2. freed' \subseteq Fbs /\ freedTwice' \subseteq Fbs /\ lent' \in [Conns -> SUBSET Buffers]
    BY <1>5, <2>1, FreeAndReturnType DEF HandleSession
  <2>3. vfm' \in [Planes -> Managers]
    BY <1>0, <1>5 DEF HandleSession, TypeOK
  <2>4. immediate' \subseteq Conns
    BY <1>5 DEF HandleSession, TypeOK
  <2>5. QED
    BY <1>5, <2>2, <2>3, <2>4 DEF HandleSession, TypeOK, RefreshSteps, offloadVars
<1>6. CASE \E pause \in BOOLEAN : HandlePause(c, pause)
  <2>1. PICK pause \in BOOLEAN : HandlePause(c, pause)
    BY <1>6
  <2>2. vfm' \in [Planes -> Managers]
    BY <1>01, <2>1 DEF HandlePause, TypeOK, Managers
  <2>3. QED
    BY <2>1, <2>2
       DEF HandlePause, TypeOK, RefreshSteps, connVars, offloadVars, clientVars, freeVars
<1>7. CASE HandleFrameAdvance(c)
  <2>1. vfm' \in [Planes -> Managers]
    BY <1>01, <1>7 DEF HandleFrameAdvance, TypeOK, Managers
  <2>2. QED
    BY <1>7, <2>1
       DEF HandleFrameAdvance, TypeOK, RefreshSteps, connVars, offloadVars, clientVars, freeVars
<1>8. CASE \E keep \in BOOLEAN : HandleKeepLastFrame(c, keep)
  <2>1. PICK keep \in BOOLEAN : HandleKeepLastFrame(c, keep)
    BY <1>8
  <2>2. plane' \in [Planes -> PlaneStates]
    <3>1. plane[planeOf[c]] \in PlaneStates
      BY <1>01, <2>1 DEF HandleKeepLastFrame, TypeOK
    <3>2. plane' = [plane EXCEPT ![planeOf[c]] = [plane[planeOf[c]] EXCEPT !.keepLastFrame = keep]]
      BY <2>1 DEF HandleKeepLastFrame
    <3>3. QED
      BY <3>1, <3>2, PlaneUpdates DEF TypeOK
  <2>3. QED
    BY <2>1, <2>2
       DEF HandleKeepLastFrame, TypeOK, RefreshSteps, connVars, offloadVars, clientVars, freeVars
<1>9. QED
  BY <1>1, <1>2, <1>3, <1>4, <1>5, <1>6, <1>7, <1>8 DEF Handle

\* So do the steps that end a connection.
LEMMA EndType ==
  ASSUME TypeOK, Ownership, SlotsBelong, NEW c \in Conns,
         Leave(c) \/ LeaveFrame(c) \/ Ending(c)
  PROVE  TypeOK'
<1>0. Fresh \in Managers
  BY DEF Fresh, Managers
<1>1. CASE Leave(c)
  <2>1. CASE step[c] = "new" /\ step' = [step EXCEPT ![c] = "left"] /\ UNCHANGED plane
    BY <1>1, <2>1 DEF Leave, TypeOK, Steps, RefreshSteps, offloadVars, clientVars, freeVars
  <2>2. CASE /\ Serving(c)
             /\ step' = [step EXCEPT ![c] = "dark"]
             /\ plane' = [plane EXCEPT ![planeOf[c]].inUse = FALSE]
    <3>1. planeOf[c] \in Planes
      BY <2>2, PlaneOfConn DEF Serving, OnPlane
    <3>2. plane' \in [Planes -> PlaneStates]
      <4>1. plane[planeOf[c]] \in PlaneStates
        BY <3>1 DEF TypeOK
      <4>2. plane' = [plane EXCEPT ![planeOf[c]] = [plane[planeOf[c]] EXCEPT !.inUse = FALSE]]
        BY <2>2
      <4>3. QED
        BY <4>1, <4>2, PlaneUpdates DEF TypeOK
    <3>3. QED
      BY <1>1, <2>2, <3>2
         DEF Leave, TypeOK, Steps, RefreshSteps, offloadVars, clientVars, freeVars
  <2>3. QED
    BY <1>1, <2>1, <2>2 DEF Leave
<1>2. CASE LeaveFrame(c) \/ FreePlane(c)
  <2> DEFINE p == planeOf[c]
             s == plane[p]
  <2>1. EndPlane(c) /\ OnPlane(c)
    BY <1>2 DEF LeaveFrame, FreePlane, Serving, OnPlane
  <2>2. p \in Planes /\ p \in ToSet(used)
    BY <2>1, PlaneOfConn
  <2>3. used' \in Seq(Planes)
    BY <2>1, <2>2, RemoveFirstSet DEF EndPlane, Ownership, TypeOK
  <2>4. s.curr \in Slots
    BY <2>2, QueueType DEF Kinds
  <2>5. Unused \in PlaneStates /\ NoFrame \in Slots
    BY FrameFields DEF Unused, PlaneStates
  <2>6. plane' \in [Planes -> PlaneStates]
    <3>1. [s.curr EXCEPT !.bufferId = NoBuffer] \in Slots
      BY <2>4 DEF Slots
    <3>2. PICK x \in Slots : plane' = [plane EXCEPT ![p] = [Unused EXCEPT !.curr = x]]
      BY <2>1, <2>5, <3>1 DEF EndPlane
    <3>3. [Unused EXCEPT !.curr = x] \in PlaneStates
      BY <2>5 DEF PlaneStates
    <3>4. QED
      BY <3>2, <3>3 DEF TypeOK
  <2>7. Discarded(vfm[p]) \in SUBSET Frames
    BY <2>2, QueueType
  <2>8. {f.fb : f \in FreedByExit(s) \cup Discarded(vfm[p])} \ {NoFb} \subseteq Fbs
    <3>1. FreedByExit(s) \subseteq Slots
      BY <2>2, QueueType DEF FreedByExit, Kinds
    <3>2. \A f \in FreedByExit(s) \cup Discarded(vfm[p]) : f.fb \in Fbs \cup {NoFb}
      BY <2>7, <3>1, FrameFields DEF Slots
    <3>3. QED
      BY <3>2
  <2>9. freed' \subseteq Fbs
    BY <2>1, <2>8 DEF EndPlane, TypeOK
  <2>10. freedTwice' \subseteq Fbs
    <3>1. {f.fb : f \in Discarded(vfm[p])} \subseteq Fbs
      BY <2>7, FrameFields
    <3>2. QED
      BY <2>1, <3>1 DEF EndPlane, TypeOK
  <2>11. lent' \in [Conns -> SUBSET Buffers]
    BY <2>1 DEF EndPlane, TypeOK
  <2>12. kept' \subseteq Fbs
    BY <2>1, <2>4 DEF EndPlane, TypeOK, Slots
  <2>13. step' \in [Conns -> Steps] /\ planeOf' \in [Conns -> Planes \cup {NoPlane}]
         /\ vfm' \in [Planes -> Managers]
    BY <1>0, <2>1 DEF EndPlane, TypeOK, Steps
  <2>14. refresh' \in RefreshSteps'
    BY <2>1 DEF EndPlane, Unlocked, RefreshSteps
  <2>15. immediate' \subseteq Conns /\ naps' \in [Conns -> 0..ExitTicks] /\ posts' \in 0..MaxPosts
         /\ messages' \in Seq(Messages) /\ Len(messages') < OffloadCapacity
         /\ offload' \in {Waiting, Draining} \cup [step : {"work"}, msg : Messages]
         /\ sent' \in [Conns -> 0..MaxFrames] /\ refused' \in [Conns -> SUBSET Buffers]
    BY <2>1 DEF EndPlane, TypeOK, offloadVars
  <2>16. QED
    BY <2>3, <2>6, <2>9, <2>10, <2>11, <2>12, <2>13, <2>14, <2>15 DEF TypeOK
<1>3. CASE FlushOffload(c)
  <2>1. freed' \subseteq Fbs /\ freedTwice' \subseteq Fbs /\ lent' \in [Conns -> SUBSET Buffers]
    BY <1>3, FlushedType, FreeAndReturnType DEF FlushOffload
  <2>2. messages' \in Seq(Messages) /\ Len(messages') < OffloadCapacity
    BY <1>3, FlushedType DEF FlushOffload, TypeOK
  <2>3. QED
    BY <1>3, <2>1, <2>2 DEF FlushOffload, TypeOK, Steps, RefreshSteps
<1>4. CASE Destroy(c) \/ DestroyImpatiently(c)
  BY <1>4 DEF Destroy, DestroyImpatiently, TypeOK, Steps, RefreshSteps,
              offloadVars, clientVars, freeVars
<1>5. QED
  BY <1>1, <1>2, <1>3, <1>4 DEF Ending

\* What a step within the check of a plane works on.
LEMMA PopPlane ==
  ASSUME TypeOK, Ownership, SlotsBelong, refresh # Idle
  PROVE  /\ refresh.at \in 1..Len(used) /\ Len(used) \in Nat
         /\ used[refresh.at] \in Planes
         /\ plane[used[refresh.at]].conn \in Conns
         /\ vfm[used[refresh.at]] \in Managers /\ plane[used[refresh.at]] \in PlaneStates
         /\ vfm[used[refresh.at]].queue \in Seq(Frames)
         /\ Held(used[refresh.at]) \in Frames \cup {NoFrame}
<1>1. refresh.at \in 1..Len(used) /\ used[refresh.at] \in Planes
  BY RefreshAt
<1>2. vfm[used[refresh.at]] \in Managers /\ plane[used[refresh.at]] \in PlaneStates
  BY <1>1 DEF TypeOK
<1>3. Len(used) \in Nat
  BY DEF TypeOK
<1>4. plane[used[refresh.at]].conn \in Conns
  BY <1>1, UsedPlane
<1>5. vfm[used[refresh.at]].queue \in Seq(Frames)
  BY <1>1, QueueType
<1>6. Held(used[refresh.at]) \in Frames \cup {NoFrame}
  BY <1>1, HeldType
<1>7. QED
  BY <1>1, <1>2, <1>3, <1>4, <1>5, <1>6

\* The refresh thread goes on to the next plane or the next phase.
LEMMA OnwardType ==
  ASSUME TypeOK, NEW n \in 1..Len(used), NEW x, NEW y,
         n < Len(used) => x \in RefreshSteps, y \in RefreshSteps
  PROVE  Onward(n, x, y) \in RefreshSteps
BY DEF Onward

\* The count of the semaphore stays in its bounds.
LEMMA PostType ==
  ASSUME TypeOK, PostIfWork \/ UNCHANGED posts
  PROVE  posts' \in 0..MaxPosts
<1>1. posts \in 0..MaxPosts /\ MaxPosts \in Nat
  BY VideoAssumption DEF TypeOK
<1>2. QED
  BY <1>1 DEF PostIfWork

\* Within the check of a plane: another step, or another step and frame.
LEMMA RefreshMoves ==
  ASSUME TypeOK, refresh.step \in Pops, NEW f \in Frames \cup {NoFrame}, NEW s \in Pops
  PROVE  /\ [refresh EXCEPT !.step = s, !.frame = f] = Popping(s, refresh.at, f, refresh.dropped)
         /\ [refresh EXCEPT !.step = s] = Popping(s, refresh.at, refresh.frame, refresh.dropped)
         /\ [refresh EXCEPT !.step = s, !.frame = f] \in RefreshSteps
         /\ [refresh EXCEPT !.step = s] \in RefreshSteps
<1> DEFINE T == [step : Pops, at : 1..Len(used), frame : Frames \cup {NoFrame}, dropped : BOOLEAN]
<1>1. PICK x \in T : x = refresh
  BY DEF TypeOK, RefreshSteps, Pops, Idle
<1>2. [x EXCEPT !.step = s, !.frame = f] \in T /\ [x EXCEPT !.step = s] \in T
  OBVIOUS
<1>3. \A y \in T : y = Popping(y.step, y.at, y.frame, y.dropped)
  BY DEF Popping
<1>4. PICK y : y = [x EXCEPT !.step = s, !.frame = f]
  OBVIOUS
<1>5. PICK z : z = [x EXCEPT !.step = s]
  OBVIOUS
<1>6. y.step = s /\ y.at = x.at /\ y.frame = f /\ y.dropped = x.dropped
  BY <1>4
<1>7. z.step = s /\ z.at = x.at /\ z.frame = x.frame /\ z.dropped = x.dropped
  BY <1>5
<1>8. y = Popping(s, x.at, f, x.dropped)
  BY <1>2, <1>3, <1>4, <1>6
<1>9. z = Popping(s, x.at, x.frame, x.dropped)
  BY <1>2, <1>3, <1>5, <1>7
<1>10. x.at \in 1..Len(used) /\ x.frame \in Frames \cup {NoFrame} /\ x.dropped \in BOOLEAN
  OBVIOUS
<1>11. y \in RefreshSteps /\ z \in RefreshSteps
  BY <1>8, <1>9, <1>10, RefreshForms
<1>12. QED
  BY <1>1, <1>4, <1>5, <1>8, <1>9, <1>11

\* A frame is dropped.
LEMMA DropType ==
  ASSUME TypeOK, Ownership, SlotsBelong, refresh.step \in Pops,
         NEW f \in Frames, NEW s \in Pops, NEW found \in Frames \cup {NoFrame},
         Drop(used[refresh.at], f, s, found)
  PROVE  MessagesType' /\ refresh' \in RefreshSteps
<1>1. /\ refresh # Idle /\ refresh.dropped \in BOOLEAN /\ refresh.at \in 1..Len(used)
      /\ plane[used[refresh.at]].conn \in Conns
  BY RefreshAt, PopPlane
<1>2. MessagesType'
  BY <1>1, SendType, FrameFields DEF Drop
<1>3. refresh' \in RefreshSteps
  BY <1>1, RefreshForms DEF Drop
<1>4. QED
  BY <1>2, <1>3

\* A tick keeps the types.
LEMMA TickType ==
  ASSUME TypeOK, Ownership, SlotsBelong, Tick
  PROVE  TypeOK'
<1> DEFINE n == refresh.at
           p == used[n]
           v == vfm[p]
           q == v.queue
<1>1. CASE StartTick
  <2>1. ASSUME used # <<>> PROVE Releasing(1) \in RefreshSteps
    <3>1. 1 \in 1..Len(used)
      BY <2>1 DEF TypeOK
    <3>2. QED
      BY <3>1, FrameFields, RefreshForms
  <2>2. refresh' \in RefreshSteps' /\ posts' \in 0..MaxPosts
    BY <1>1, <2>1, PostType DEF StartTick, TypeOK, RefreshSteps
  <2>3. naps' \in [Conns -> 0..ExitTicks]
    <3>1. \A c \in Conns : naps[c] \in 0..ExitTicks /\ ExitTicks \in Nat
      BY VideoAssumption DEF TypeOK
    <3>2. \A c \in Asleep : naps[c] + 1 \in 0..ExitTicks
      BY <1>1, <3>1 DEF StartTick, Asleep
    <3>3. QED
      BY <1>1, <3>1, <3>2 DEF StartTick
  <2>4. QED
    BY <1>1, <2>2, <2>3 DEF StartTick, TypeOK, clientVars, freeVars
<1>2. CASE ReleasePrevious
  <2>1. refresh # Idle /\ n \in 1..Len(used) /\ p \in Planes /\ plane[p].conn \in Conns
        /\ plane[p] \in PlaneStates
    BY <1>2, RefreshAt, PopPlane DEF ReleasePrevious
  <2>2. plane[p].free \in Slots /\ (Real(plane[p].free) => plane[p].free \in Frames)
    BY <2>1, HeldType, QueueType DEF Kinds
  <2>3. MessagesType'
    BY <1>2, <2>1, <2>2, SendType DEF ReleasePrevious
  <2>4. plane' \in [Planes -> PlaneStates]
    <3>1. plane' = plane \/ plane' = [plane EXCEPT ![p] = [plane[p] EXCEPT !.free = NoFrame]]
      BY <1>2 DEF ReleasePrevious
    <3>2. [plane[p] EXCEPT !.free = NoFrame] \in PlaneStates
      BY <2>1, PlaneUpdates, FrameFields
    <3>3. QED
      BY <2>1, <3>1, <3>2 DEF TypeOK
  <2>5. refresh' \in RefreshSteps
    <3>1. Len(used) \in Nat
      BY DEF TypeOK
    <3>2. (n < Len(used) => n + 1 \in 1..Len(used)) /\ 1 \in 1..Len(used)
      BY <2>1, <3>1
    <3>3. (n < Len(used) => Releasing(n + 1) \in RefreshSteps) /\ Checking(1) \in RefreshSteps
      BY <3>2, FrameFields, RefreshForms
    <3>4. QED
      BY <1>2, <2>1, <3>3, OnwardType DEF ReleasePrevious
  <2>6. QED
    BY <1>2, <2>3, <2>4, <2>5 DEF ReleasePrevious, TypeOK, MessagesType, RefreshSteps, connVars
<1>3. CASE CheckPlane
  <2>1. refresh # Idle /\ n \in 1..Len(used) /\ p \in Planes /\ v \in Managers
        /\ Held(p) \in Frames \cup {NoFrame}
    BY <1>3, RefreshAt, PopPlane DEF CheckPlane
  <2>2. refresh' \in RefreshSteps
    BY <1>3, <2>1, RefreshForms DEF CheckPlane, Pops
  <2>3. vfm' \in [Planes -> Managers]
    <3>1. PICK b \in BOOLEAN :
            vfm' = [vfm EXCEPT ![p].resetBaseTime = @ \/ v.paused, ![p].started = @ \/ b]
      BY <1>3 DEF CheckPlane
    <3>2. v.resetBaseTime \in BOOLEAN /\ v.paused \in BOOLEAN /\ v.started \in BOOLEAN
      BY <2>1 DEF Managers
    <3>3. (v.resetBaseTime \/ v.paused) \in BOOLEAN /\ (v.started \/ b) \in BOOLEAN
      BY <3>2
    <3>4. vfm' = [vfm EXCEPT ![p] = [v EXCEPT !.resetBaseTime = v.resetBaseTime \/ v.paused,
                                              !.started = v.started \/ b]]
      BY <3>1
    <3>5. QED
      BY <2>1, <3>3, <3>4, ManagerUpdates DEF TypeOK
  <2>4. QED
    BY <1>3, <2>2, <2>3
       DEF CheckPlane, TypeOK, RefreshSteps, connVars, offloadVars, clientVars, freeVars
<1>4. CASE Drain
  <2>1. refresh.step \in Pops /\ refresh # Idle /\ p \in Planes /\ v \in Managers /\ q \in Seq(Frames)
        /\ refresh.dropped \in BOOLEAN /\ n \in 1..Len(used)
    BY <1>4, RefreshAt, PopPlane DEF Drain, Pops
  <2>2. CASE Len(q) > 1
    <3>1. Head(q) \in Frames /\ Tail(q) \in Seq(Frames)
      BY <2>1, <2>2
    <3>2. Drop(p, Head(q), "drain", NoFrame)
      BY <1>4, <2>2 DEF Drain
    <3>3. MessagesType' /\ refresh' \in RefreshSteps
      BY <2>1, <3>1, <3>2, DropType DEF Pops
    <3>4. vfm' = [vfm EXCEPT ![p] = [v EXCEPT !.queue = Tail(q)]]
      BY <1>4, <2>2 DEF Drain
    <3>5. vfm' \in [Planes -> Managers]
      BY <2>1, <3>1, <3>4, ManagerUpdates DEF TypeOK
    <3>6. QED
      BY <1>4, <3>3, <3>5 DEF Drain, TypeOK, MessagesType, RefreshSteps, connVars
  <2>3. CASE ~(Len(q) > 1)
    <3>1. q # <<>> => Head(q) \in Frames
      BY <2>1
    <3>2. PICK f : f = IF q = <<>> THEN NoFrame ELSE Head(q)
      OBVIOUS
    <3>3. refresh' = [refresh EXCEPT !.step = "take", !.frame = f]
      BY <1>4, <2>3, <3>2 DEF Drain
    <3>4. f \in Frames \cup {NoFrame} /\ "take" \in Pops
      BY <3>1, <3>2 DEF Pops
    <3>5. refresh' \in RefreshSteps
      BY <2>1, <3>3, <3>4, RefreshMoves
    <3>6. NoPush /\ UNCHANGED vfm
      BY <1>4, <2>3 DEF Drain
    <3>7. QED
      BY <1>4, <3>5, <3>6 DEF Drain, TypeOK, NoPush, RefreshSteps, connVars
  <2>4. QED
    BY <2>2, <2>3
<1>5. CASE DropExpired
  <2>1. refresh.step \in Pops /\ refresh # Idle /\ p \in Planes /\ v \in Managers /\ q \in Seq(Frames)
        /\ Held(p) \in Frames \cup {NoFrame}
    BY <1>5, RefreshAt, PopPlane DEF DropExpired, Pops
  <2>2. q # <<>> /\ Drop(p, Head(q), "first", Held(p))
        /\ vfm' = [vfm EXCEPT ![p] = [v EXCEPT !.queue = Tail(q)]]
    BY <1>5 DEF DropExpired
  <2>3. Head(q) \in Frames /\ Tail(q) \in Seq(Frames)
    BY <2>1, <2>2
  <2>4. MessagesType' /\ refresh' \in RefreshSteps
    BY <2>1, <2>2, <2>3, DropType DEF Pops
  <2>5. vfm' \in [Planes -> Managers]
    BY <2>1, <2>2, <2>3, ManagerUpdates DEF TypeOK
  <2>6. QED
    BY <1>5, <2>4, <2>5 DEF DropExpired, TypeOK, MessagesType, RefreshSteps, connVars
<1>6. CASE FirstDue
  <2>1. refresh.step \in Pops /\ refresh # Idle /\ p \in Planes /\ v \in Managers /\ q \in Seq(Frames)
    BY <1>6, RefreshAt, PopPlane DEF FirstDue, Pops
  <2>2. q # <<>>
    BY <1>6 DEF FirstDue
  <2>3. PICK s \in {"second", "take"} : refresh' = [refresh EXCEPT !.step = s, !.frame = Head(q)]
    BY <1>6 DEF FirstDue
  <2>4. refresh' \in RefreshSteps
    <3>1. Head(q) \in Frames \cup {NoFrame} /\ s \in Pops
      BY <2>1, <2>2 DEF Pops
    <3>2. QED
      BY <2>1, <2>3, <3>1, RefreshMoves
  <2>5. vfm' = vfm \/ vfm' = [vfm EXCEPT ![p] = [v EXCEPT !.frameAdvance = FALSE]]
    BY <1>6 DEF FirstDue
  <2>6. vfm' \in [Planes -> Managers]
    BY <2>1, <2>5, ManagerUpdates DEF TypeOK
  <2>7. QED
    BY <1>6, <2>4, <2>6
       DEF FirstDue, TypeOK, RefreshSteps, connVars, offloadVars, clientVars, freeVars
<1>7. CASE DropEarly
  <2>1. refresh.step \in Pops /\ refresh # Idle /\ p \in Planes /\ v \in Managers /\ q \in Seq(Frames)
        /\ Held(p) \in Frames \cup {NoFrame}
    BY <1>7, RefreshAt, PopPlane DEF DropEarly, Pops
  <2>2. Len(q) > 1 /\ Drop(p, q[2], "second", Held(p))
        /\ vfm' = [vfm EXCEPT ![p] = [v EXCEPT !.queue = RemoveAt(q, 2)]]
    BY <1>7 DEF DropEarly
  <2>3. q[2] \in Frames /\ RemoveAt(q, 2) \in Seq(Frames)
    BY <2>1, <2>2, RemoveAtPlaces
  <2>4. MessagesType' /\ refresh' \in RefreshSteps
    BY <2>1, <2>2, <2>3, DropType DEF Pops
  <2>5. vfm' \in [Planes -> Managers]
    BY <2>1, <2>2, <2>3, ManagerUpdates DEF TypeOK
  <2>6. QED
    BY <1>7, <2>4, <2>5 DEF DropEarly, TypeOK, MessagesType, RefreshSteps, connVars
<1>8. CASE SecondDue
  <2>1. refresh.step \in Pops /\ refresh # Idle /\ p \in Planes /\ v \in Managers /\ q \in Seq(Frames)
    BY <1>8, RefreshAt, PopPlane DEF SecondDue, Pops
  <2>2. Len(q) > 1
    BY <1>8 DEF SecondDue
  <2>3. q[2] \in Frames /\ Tail(q) \in Seq(Frames) /\ v.frameAdvance \in BOOLEAN
    BY <2>1, <2>2 DEF Managers
  <2>4. PICK s \in {"second", "take"}, b \in BOOLEAN :
          /\ refresh' = [refresh EXCEPT !.step = s, !.frame = q[2]]
          /\ vfm' = [vfm EXCEPT ![p].queue = Tail(@), ![p].frameAdvance = @ /\ b]
    BY <1>8 DEF SecondDue
  <2>5. refresh' \in RefreshSteps
    <3>1. q[2] \in Frames \cup {NoFrame} /\ s \in Pops
      BY <2>3 DEF Pops
    <3>2. QED
      BY <2>1, <2>4, <3>1, RefreshMoves
  <2>6. vfm' = [vfm EXCEPT ![p] = [v EXCEPT !.queue = Tail(q), !.frameAdvance = v.frameAdvance /\ b]]
        /\ (v.frameAdvance /\ b) \in BOOLEAN
    BY <2>3, <2>4
  <2>7. vfm' \in [Planes -> Managers]
    BY <2>1, <2>3, <2>6, ManagerUpdates DEF TypeOK
  <2>8. QED
    BY <1>8, <2>5, <2>7
       DEF SecondDue, TypeOK, RefreshSteps, connVars, offloadVars, clientVars, freeVars
<1>9. CASE NoneDue
  <2>1. refresh.step \in Pops /\ refresh' = [refresh EXCEPT !.step = "take"]
    BY <1>9 DEF NoneDue, Pops
  <2>2. refresh' \in RefreshSteps
    BY <2>1, FrameFields, RefreshMoves DEF Pops
  <2>3. QED
    BY <1>9, <2>2
       DEF NoneDue, TypeOK, RefreshSteps, connVars, offloadVars, clientVars, freeVars
<1>10. CASE TakeFrame
  <2>1. refresh.step \in Pops /\ refresh # Idle /\ p \in Planes /\ v \in Managers
        /\ plane[p].conn \in Conns /\ plane[p] \in PlaneStates
        /\ refresh.frame \in Frames \cup {NoFrame} /\ n \in 1..Len(used)
    BY <1>10, RefreshAt, PopPlane DEF TakeFrame, Pops
  <2>2. PICK a \in Buffers \cup {NoBuffer}, u \in BOOLEAN :
          vfm' = [vfm EXCEPT ![p] = [v EXCEPT !.bufferIdCurrent = a, !.underflowReported = u]]
    <3>1. v.bufferIdCurrent \in Buffers \cup {NoBuffer} /\ v.underflowReported \in BOOLEAN
      BY <2>1 DEF Managers
    <3>2. (IF refresh.frame = NoFrame THEN v.bufferIdCurrent ELSE refresh.frame.bufferId)
            \in Buffers \cup {NoBuffer}
      BY <2>1, <3>1, FrameFields
    <3>3. QED
      BY <1>10, <3>2 DEF TakeFrame
  <2>3. vfm' \in [Planes -> Managers]
    BY <2>1, <2>2, ManagerUpdates DEF TypeOK
  <2>4. plane' \in [Planes -> PlaneStates]
    <3>1. plane' = plane \/ plane' = [plane EXCEPT ![p] = [plane[p] EXCEPT !.next = refresh.frame]]
      BY <1>10 DEF TakeFrame
    <3>2. refresh.frame \in Slots
      BY <2>1, FrameFields
    <3>3. [plane[p] EXCEPT !.next = refresh.frame] \in PlaneStates
      BY <2>1, <3>2, PlaneUpdates
    <3>4. QED
      BY <2>1, <3>1, <3>3 DEF TypeOK
  <2>5. messages' \in Seq(Messages) /\ Len(messages') < OffloadCapacity
    <3>1. SendNotice(plane[p].conn) \/ UNCHANGED messages
      BY <1>10 DEF TakeFrame
    <3>2. Notice(plane[p].conn) \in Messages
      BY <2>1, MessageFields
    <3>3. \/ messages' = messages
          \/ /\ Len(messages) < OffloadCapacity - 1
             /\ messages' = Append(messages, Notice(plane[p].conn))
      BY <3>1 DEF SendNotice
    <3>4. messages \in Seq(Messages) /\ Len(messages) \in Nat /\ OffloadCapacity \in Nat
          /\ Len(messages) < OffloadCapacity
      BY VideoAssumption DEF TypeOK
    <3>5. QED
      BY <3>2, <3>3, <3>4
  <2>6. refresh' \in RefreshSteps
    <3>1. Len(used) \in Nat
      BY DEF TypeOK
    <3>2. (n < Len(used) => n + 1 \in 1..Len(used)) /\ 1 \in 1..Len(used)
      BY <2>1, <3>1
    <3>3. (n < Len(used) => Checking(n + 1) \in RefreshSteps) /\ Swapping(1) \in RefreshSteps
      BY <3>2, FrameFields, RefreshForms
    <3>4. QED
      BY <1>10, <2>1, <3>3, OnwardType DEF TakeFrame
  <2>7. QED
    BY <1>10, <2>3, <2>4, <2>5, <2>6
       DEF TakeFrame, TypeOK, RefreshSteps, connVars, clientVars, freeVars
<1>11. CASE SwapBuffers
  <2>1. refresh # Idle /\ p \in Planes /\ plane[p] \in PlaneStates /\ n \in 1..Len(used)
    BY <1>11, RefreshAt, PopPlane DEF SwapBuffers
  <2>2. plane' \in [Planes -> PlaneStates]
    BY <1>11, <2>1, PlaneUpdates DEF SwapBuffers, TypeOK
  <2>3. posts' \in 0..MaxPosts
    BY <1>11, PostType DEF SwapBuffers
  <2>4. refresh' \in RefreshSteps
    <3>1. Len(used) \in Nat
      BY DEF TypeOK
    <3>2. n < Len(used) => n + 1 \in 1..Len(used)
      BY <2>1, <3>1
    <3>3. (n < Len(used) => Swapping(n + 1) \in RefreshSteps) /\ Idle \in RefreshSteps
      BY <3>2, FrameFields, RefreshForms DEF RefreshSteps
    <3>4. QED
      BY <1>11, <2>1, <3>3, OnwardType DEF SwapBuffers
  <2>5. QED
    BY <1>11, <2>2, <2>3, <2>4
       DEF SwapBuffers, TypeOK, RefreshSteps, connVars, clientVars, freeVars
<1>12. QED
  BY <1>1, <1>2, <1>3, <1>4, <1>5, <1>6, <1>7, <1>8, <1>9, <1>10, <1>11 DEF Tick

\* So does the offload thread.
LEMMA OffloadType ==
  ASSUME TypeOK, Offload
  PROVE  TypeOK'
<1>1. CASE Wake
  <2>1. posts' \in 0..MaxPosts
    BY <1>1, VideoAssumption DEF Wake, TypeOK
  <2>2. QED
    BY <1>1, <2>1 DEF Wake, TypeOK, RefreshSteps, connVars, clientVars, freeVars
<1>2. CASE PopMessage
  <2>1. messages' \in Seq(Messages) /\ Len(messages') < OffloadCapacity
        /\ offload' \in {Waiting, Draining} \cup [step : {"work"}, msg : Messages]
    <3>1. CASE messages = <<>>
      BY <1>2, <3>1 DEF PopMessage, TypeOK
    <3>2. CASE messages # <<>>
      <4>1. Head(messages) \in Messages /\ Tail(messages) \in Seq(Messages)
            /\ Len(Tail(messages)) < Len(messages) /\ Len(messages) \in Nat
        BY <3>2 DEF TypeOK
      <4>2. Len(Tail(messages)) \in Nat /\ OffloadCapacity \in Nat
        BY <4>1, VideoAssumption
      <4>3. offload' = Working(Head(messages)) /\ messages' = Tail(messages)
        BY <1>2, <3>2 DEF PopMessage
      <4>4. Working(Head(messages)) \in [step : {"work"}, msg : Messages]
        BY <4>1 DEF Working
      <4>5. Len(messages) < OffloadCapacity
        BY DEF TypeOK
      <4>6. Len(messages') < OffloadCapacity
        BY <4>1, <4>2, <4>3, <4>5
      <4>7. QED
        BY <4>1, <4>3, <4>4, <4>6
    <3>3. QED
      BY <3>1, <3>2
  <2>2. QED
    BY <1>2, <2>1 DEF PopMessage, TypeOK, RefreshSteps, connVars, clientVars, freeVars
<1>3. CASE WorkOff
  <2>1. offload.msg \in Messages
    BY <1>3 DEF WorkOff, TypeOK, Waiting, Draining
  <2>2. freed' \subseteq Fbs /\ freedTwice' \subseteq Fbs /\ lent' \in [Conns -> SUBSET Buffers]
    BY <1>3, <2>1, ExecuteType DEF WorkOff
  <2>3. QED
    BY <1>3, <2>2 DEF WorkOff, TypeOK, RefreshSteps, connVars
<1>4. QED
  BY <1>1, <1>2, <1>3 DEF Offload

\* Every step keeps the types.
LEMMA TypeStep ==
  ASSUME TypeOK, Ownership, SlotsBelong, RefusedFew, [Next]_vars
  PROVE  TypeOK'
<1>1. CASE UNCHANGED vars
  BY <1>1 DEF TypeOK, RefreshSteps, vars, connVars, offloadVars, clientVars, freeVars
<1>2. CASE Next
  BY <1>2, HandleType, EndType, TickType, OffloadType DEF Next
<1>3. QED
  BY <1>1, <1>2

(***************************************************************************)
(* Where frames are.                                                       *)
(***************************************************************************)

\* The frames the server has are those in queues, in slots and on the way back.
LEMMA InPresent ==
  \A f : f \in Present <=> \/ \E p \in Planes : f \in Queued(p)
                           \/ \E p \in Planes, k \in Kinds : f = plane[p][k] /\ f # NoFrame
                           \/ f \in ToRelease
<1>1. \A p, f : f \in Shown(p) <=> \E k \in Kinds : f = plane[p][k] /\ f # NoFrame
  <2> TAKE p, f
  <2>1. f \in Shown(p) <=> /\ f # NoFrame
                           /\ f = plane[p].next \/ f = plane[p].curr \/ f = plane[p].prev
                              \/ f = plane[p].free
    BY DEF Shown
  <2>2. QED
    BY <2>1 DEF Kinds
<1>2. \A f : f \in Present <=> (\E p \in Planes : f \in Queued(p) \cup Shown(p)) \/ f \in ToRelease
  BY DEF Present
<1>3. QED
  BY <1>1, <1>2

\* The same after a step.
LEMMA InPresentNext ==
  \A f : f \in Present' <=> \/ \E p \in Planes : f \in Queued(p)'
                            \/ \E p \in Planes, k \in Kinds : f = plane'[p][k] /\ f # NoFrame
                            \/ f \in ToRelease'
<1>1. \A p, f : f \in Shown(p)' <=> \E k \in Kinds : f = plane'[p][k] /\ f # NoFrame
  <2> TAKE p, f
  <2>1. f \in Shown(p)' <=> /\ f # NoFrame
                            /\ f = plane'[p].next \/ f = plane'[p].curr \/ f = plane'[p].prev
                               \/ f = plane'[p].free
    BY DEF Shown
  <2>2. QED
    BY <2>1 DEF Kinds
<1>2. \A f : f \in Present' <=> (\E p \in Planes : f \in Queued(p)' \cup Shown(p)') \/ f \in ToRelease'
  BY DEF Present
<1>3. QED
  BY <1>1, <1>2

\* The frames on the way back, in the queue or in the offload thread's hand.
LEMMA InRelease ==
  ASSUME TypeOK
  PROVE  /\ \A f : f \in ToRelease <=>
              \/ \E i \in 1..Len(messages) : IsRelease(messages[i]) /\ f = messages[i].frame
              \/ offload.step = "work" /\ IsRelease(offload.msg) /\ f = offload.msg.frame
         /\ ToRelease \in SUBSET Frames
<1>1. DOMAIN messages = 1..Len(messages) /\ \A i \in 1..Len(messages) : messages[i] \in Messages
  BY DEF TypeOK
<1>2. \A f : f \in ToRelease <=>
              \/ \E i \in 1..Len(messages) : IsRelease(messages[i]) /\ f = messages[i].frame
              \/ offload.step = "work" /\ IsRelease(offload.msg) /\ f = offload.msg.frame
  BY <1>1 DEF ToRelease, ToSet, IsRelease
<1>3. offload.step = "work" => offload.msg \in Messages
  BY DEF TypeOK, Waiting, Draining
<1>4. QED
  BY <1>1, <1>2, <1>3, MessageFields

\* The same after a step.
LEMMA InReleaseNext ==
  ASSUME TypeOK'
  PROVE  /\ \A f : f \in ToRelease' <=>
              \/ \E i \in 1..Len(messages') : IsRelease(messages'[i]) /\ f = messages'[i].frame
              \/ offload'.step = "work" /\ IsRelease(offload'.msg) /\ f = offload'.msg.frame
         /\ ToRelease' \in SUBSET Frames
<1>1. DOMAIN messages' = 1..Len(messages') /\ \A i \in 1..Len(messages') : messages'[i] \in Messages
  BY DEF TypeOK
<1>2. \A f : f \in ToRelease' <=>
              \/ \E i \in 1..Len(messages') : IsRelease(messages'[i]) /\ f = messages'[i].frame
              \/ offload'.step = "work" /\ IsRelease(offload'.msg) /\ f = offload'.msg.frame
  BY <1>1 DEF ToRelease, ToSet, IsRelease
<1>3. offload'.step = "work" => offload'.msg \in Messages
  BY DEF TypeOK, Waiting, Draining
<1>4. QED
  BY <1>1, <1>2, <1>3, MessageFields

\* What the server has is a frame, or was left on a plane by an ended connection.
LEMMA PresentKinds ==
  ASSUME TypeOK, SlotsBelong, ReleasesBelong, QueuesBelong, KeptAreOld, Ownership
  PROVE  \A f \in Present : IF Real(f) THEN f \in Frames /\ f.fb \notin kept ELSE f.fb \in kept
<1> SUFFICES ASSUME NEW f \in Present
             PROVE  IF Real(f) THEN f \in Frames /\ f.fb \notin kept ELSE f.fb \in kept
  OBVIOUS
<1>1. ASSUME NEW c \in Conns, planeOf[c] # NoPlane PROVE \A fb \in kept : fb[1] # c
  BY <1>1 DEF KeptAreOld, Ownership
<1>2. ASSUME NEW p \in Planes, plane[p].conn \in Conns
      PROVE \A fb \in kept : fb[1] # plane[p].conn
  <2>1. planeOf[plane[p].conn] = p
    BY <1>2, VideoAssumption DEF Ownership, Owned
  <2>2. QED
    BY <1>1, <1>2, <2>1, VideoAssumption
<1>3. CASE f \in ToRelease
  BY <1>3, InRelease, FrameFields DEF ReleasesBelong
<1>4. ASSUME NEW p \in Planes, f \in Queued(p) PROVE f \in Frames /\ f.fb \notin kept
  <2>1. f \in Frames /\ f.fb[1] = plane[p].conn /\ f.fb[1] \in Conns
    BY <1>4, QueueType, FrameFields DEF QueuesBelong
  <2>2. QED
    BY <1>2, <2>1
<1>5. ASSUME NEW p \in Planes, NEW k \in Kinds, f = plane[p][k], f # NoFrame, Real(f)
      PROVE  f \in Frames /\ f.fb \notin kept
  <2>1. f \in Frames /\ f.fb[1] = plane[p].conn /\ f.fb[1] \in Conns
    BY <1>5, HeldType, FrameFields DEF SlotsBelong
  <2>2. QED
    BY <1>2, <2>1
<1>6. ASSUME NEW p \in Planes, NEW k \in Kinds, f = plane[p][k], f # NoFrame, ~Real(f)
      PROVE  f.fb \in kept
  BY <1>6 DEF SlotsBelong
<1>7. QED
  BY <1>3, <1>4, <1>5, <1>6, InPresent, FrameFields

(***************************************************************************)
(* Frame queues.                                                           *)
(***************************************************************************)

\* A frame is sent.
LEMMA AppendIncreases ==
  ASSUME NEW q \in Seq(Frames), Increasing(q), NEW f \in Frames,
         \A g \in ToSet(q) : g.fb[2] < f.fb[2]
  PROVE  Increasing(Append(q, f))
<1>1. /\ Len(q) \in Nat /\ Len(Append(q, f)) = Len(q) + 1 /\ DOMAIN q = 1..Len(q)
      /\ \A i \in 1..Len(q) : Append(q, f)[i] = q[i]
      /\ Append(q, f)[Len(q) + 1] = f
  OBVIOUS
<1>2. \A i \in 1..Len(q) : q[i].fb[2] < f.fb[2]
  BY <1>1 DEF ToSet
<1> SUFFICES ASSUME NEW i \in 1..(Len(q) + 1), NEW j \in 1..(Len(q) + 1), i < j
             PROVE  Append(q, f)[i].fb[2] < Append(q, f)[j].fb[2]
  BY <1>1 DEF Increasing
<1>3. CASE j = Len(q) + 1
  <2>1. i \in 1..Len(q)
    BY <1>1, <1>3
  <2>2. QED
    BY <1>1, <1>2, <1>3, <2>1
<1>4. CASE j # Len(q) + 1
  <2>1. i \in 1..Len(q) /\ j \in 1..Len(q)
    BY <1>1, <1>4
  <2>2. QED
    BY <1>1, <2>1 DEF Increasing
<1>5. QED
  BY <1>3, <1>4

\* No frame is twice in a queue, and the head is the oldest.
LEMMA QueueFacts ==
  ASSUME NEW q \in Seq(Frames), Increasing(q)
  PROVE  /\ IsInjective(q)
         /\ q # <<>> => /\ Head(q) \in ToSet(q) /\ Head(q) = q[1]
                        /\ \A f \in ToSet(q) : f = Head(q) \/ Head(q).fb[2] < f.fb[2]
         /\ Len(q) > 1 => q[2] \in ToSet(q) /\ q[2] # Head(q)
<1>1. /\ Len(q) \in Nat /\ DOMAIN q = 1..Len(q)
      /\ \A i \in 1..Len(q) : q[i] \in Frames /\ q[i].fb[2] \in Nat
  BY FrameFields
<1>2. IsInjective(q)
  <2> SUFFICES ASSUME NEW i \in 1..Len(q), NEW j \in 1..Len(q), q[i] = q[j] PROVE i = j
    BY <1>1 DEF IsInjective
  <2>1. ~(i < j) /\ ~(j < i)
    BY <1>1 DEF Increasing
  <2>2. QED
    BY <2>1
<1>3. q # <<>> => 1 \in 1..Len(q) /\ Head(q) = q[1]
  OBVIOUS
<1>4. ASSUME q # <<>>, NEW i \in 1..Len(q) PROVE q[i] = Head(q) \/ Head(q).fb[2] < q[i].fb[2]
  BY <1>1, <1>3, <1>4 DEF Increasing
<1>5. Len(q) > 1 => 2 \in 1..Len(q) /\ q # <<>>
  OBVIOUS
<1>6. Len(q) > 1 => q[2] # Head(q)
  BY <1>1, <1>2, <1>3, <1>5 DEF IsInjective
<1>7. QED
  BY <1>1, <1>2, <1>3, <1>4, <1>5, <1>6 DEF ToSet

\* The first frame leaves.
LEMMA TailIncreases ==
  ASSUME NEW q \in Seq(Frames), Increasing(q), q # <<>>
  PROVE  /\ Increasing(Tail(q)) /\ Tail(q) \in Seq(Frames)
         /\ ToSet(Tail(q)) = ToSet(q) \ {Head(q)}
         /\ Len(q) > 1 => Tail(q) # <<>> /\ Head(Tail(q)) = q[2]
<1>1. /\ Len(q) \in Nat /\ Len(Tail(q)) = Len(q) - 1 /\ Tail(q) \in Seq(Frames)
      /\ \A i \in 1..(Len(q) - 1) : Tail(q)[i] = q[i+1]
      /\ Head(q) = q[1] /\ DOMAIN q = 1..Len(q)
  OBVIOUS
<1>2. Increasing(Tail(q))
  <2> SUFFICES ASSUME NEW i \in 1..(Len(q) - 1), NEW j \in 1..(Len(q) - 1), i < j
               PROVE  Tail(q)[i].fb[2] < Tail(q)[j].fb[2]
    BY <1>1 DEF Increasing
  <2>1. i + 1 \in 1..Len(q) /\ j + 1 \in 1..Len(q) /\ i + 1 < j + 1
    BY <1>1
  <2>2. QED
    BY <1>1, <2>1 DEF Increasing
<1>3. ToSet(q) = {Head(q)} \cup ToSet(Tail(q))
  BY TailSet
<1>4. \A i \in 1..(Len(q) - 1) : Tail(q)[i] # Head(q)
  <2> SUFFICES ASSUME NEW i \in 1..(Len(q) - 1) PROVE q[i+1] # q[1]
    BY <1>1
  <2>1. IsInjective(q) /\ i + 1 \in DOMAIN q /\ 1 \in DOMAIN q /\ i + 1 # 1
    BY <1>1, QueueFacts
  <2>2. QED
    BY <2>1 DEF IsInjective
<1>5. Head(q) \notin ToSet(Tail(q))
  BY <1>1, <1>4 DEF ToSet
<1>6. Len(q) > 1 => Tail(q) # <<>> /\ Head(Tail(q)) = q[2]
  <2> SUFFICES ASSUME Len(q) > 1 PROVE Tail(q) # <<>> /\ Head(Tail(q)) = q[2]
    OBVIOUS
  <2>1. 1 \in 1..(Len(q) - 1) /\ Tail(q)[1] = q[2]
    BY <1>1
  <2>2. Tail(q) \in Seq(Frames) /\ Len(Tail(q)) > 0
    BY <1>1
  <2>3. \A t \in Seq(Frames) : Len(t) > 0 => t # <<>> /\ Head(t) = t[1]
    OBVIOUS
  <2>4. QED
    BY <2>1, <2>2, <2>3
<1>7. QED
  BY <1>1, <1>2, <1>3, <1>5, <1>6

\* The second frame leaves.
LEMMA SecondLeaves ==
  ASSUME NEW q \in Seq(Frames), Increasing(q), Len(q) > 1
  PROVE  /\ Increasing(RemoveAt(q, 2)) /\ RemoveAt(q, 2) \in Seq(Frames)
         /\ ToSet(RemoveAt(q, 2)) = ToSet(q) \ {q[2]}
         /\ RemoveAt(q, 2) # <<>> /\ Head(RemoveAt(q, 2)) = Head(q)
<1>1. PICK r : r = RemoveAt(q, 2)
  OBVIOUS
<1>2. 2 \in 1..Len(q) /\ Len(q) \in Nat
  OBVIOUS
<1>3. /\ r \in Seq(Frames) /\ Len(r) = Len(q) - 1
      /\ \A i \in 1..(Len(q) - 1) : r[i] = q[IF i < 2 THEN i ELSE i + 1]
  BY <1>1, <1>2, RemoveAtPlaces
<1>4. Increasing(r)
  <2> SUFFICES ASSUME NEW i \in 1..(Len(q) - 1), NEW j \in 1..(Len(q) - 1), i < j
               PROVE  r[i].fb[2] < r[j].fb[2]
    BY <1>3 DEF Increasing
  <2> DEFINE a == IF i < 2 THEN i ELSE i + 1
             b == IF j < 2 THEN j ELSE j + 1
  <2>1. a \in 1..Len(q) /\ b \in 1..Len(q) /\ a < b
    BY <1>2
  <2>2. QED
    BY <1>3, <2>1 DEF Increasing
<1>5. ToSet(r) = ToSet(q) \ {q[2]}
  BY <1>1, <1>2, QueueFacts, RemoveAtSet
<1>6. r # <<>> /\ Head(r) = r[1] /\ r[1] = q[1] /\ Head(q) = q[1]
  <2>1. Len(r) > 0 /\ 1 \in 1..(Len(q) - 1)
    BY <1>2, <1>3
  <2>2. r[1] = q[1]
    BY <1>3, <2>1
  <2>3. QED
    BY <1>3, <2>1, <2>2
<1>7. QED
  BY <1>1, <1>3, <1>4, <1>5, <1>6

(***************************************************************************)
(* Frames move and are given back.                                         *)
(***************************************************************************)

Buffered(G, c) == {g.bufferId : g \in {h \in G : h.fb[1] = c}}

(* The frames of G are freed, and their clients get their buffers. *)
GivesBack(G) ==
    /\ freed' = freed \cup {g.fb : g \in G}
    /\ freedTwice' = freedTwice \cup ({g.fb : g \in G} \cap freed)
    /\ \A c \in Conns :
         /\ lent[c] \ Buffered(G, c) \subseteq lent'[c]
         /\ lent'[c] \ refused'[c] \subseteq (lent[c] \ refused[c]) \ Buffered(G, c)

\* The frames of one client are given back.
LEMMA ReturnGives ==
  ASSUME TypeOK, NEW c \in Conns, NEW S \in SUBSET Frames, \A f \in S : f.fb[1] = c,
         FreeAndReturn(c, S), refused' = refused
  PROVE  GivesBack(S)
<1>1. {f.fb : f \in S} \ {NoFb} = {f.fb : f \in S}
  BY FrameFields
<1>2. freed' = freed \cup {g.fb : g \in S} /\ freedTwice' = freedTwice \cup ({g.fb : g \in S} \cap freed)
  BY <1>1 DEF FreeAndReturn, Free
<1>3. \A d \in Conns : lent'[d] = lent[d] \ Buffered(S, d)
  <2> TAKE d \in Conns
  <2>1. lent' = [lent EXCEPT ![c] = @ \ {f.bufferId : f \in S}] /\ lent \in [Conns -> SUBSET Buffers]
    BY DEF FreeAndReturn, TypeOK
  <2>2. CASE d = c
    <3>1. Buffered(S, d) = {f.bufferId : f \in S}
      BY <2>2 DEF Buffered
    <3>2. QED
      BY <2>1, <2>2, <3>1
  <2>3. CASE d # c
    <3>1. Buffered(S, d) = {}
      BY <2>3 DEF Buffered
    <3>2. QED
      BY <2>1, <2>3, <3>1
  <2>4. QED
    BY <2>2, <2>3
<1>4. QED
  BY <1>2, <1>3 DEF GivesBack

\* None is.
LEMMA NothingGives ==
  ASSUME UNCHANGED <<freed, freedTwice, lent, refused>>
  PROVE  GivesBack({})
<1>1. \A c : Buffered({}, c) = {}
  BY DEF Buffered
<1>2. QED
  BY <1>1 DEF GivesBack

\* A message is executed.
LEMMA ExecuteGives ==
  ASSUME TypeOK, NEW m \in Messages, IsRelease(m) => m.frame.fb[1] = m.conn,
         Execute(m), refused' = refused
  PROVE  GivesBack(IF IsRelease(m) THEN {m.frame} ELSE {})
<1>1. CASE IsRelease(m)
  <2>1. m.conn \in Conns /\ {m.frame} \in SUBSET Frames
    BY <1>1, MessageFields
  <2>2. FreeAndReturn(m.conn, {m.frame})
    BY <1>1 DEF Execute, IsRelease
  <2>3. QED
    BY <1>1, <2>1, <2>2, ReturnGives
<1>2. CASE ~IsRelease(m)
  BY <1>2, NothingGives DEF Execute, IsRelease
<1>3. QED
  BY <1>1, <1>2

\* A message is added to the offload queue.
LEMMA AppendMessage ==
  ASSUME TypeOK, TypeOK', MessagesApart, NEW m \in Messages, messages' = Append(messages, m),
         offload' = offload,
         IsRelease(m) => m.frame.fb[1] = m.conn /\ \A g \in ToRelease : g.fb # m.frame.fb
  PROVE  MessagesApart' /\ ToRelease' = ToRelease \cup (IF IsRelease(m) THEN {m.frame} ELSE {})
<1> DEFINE L == Len(messages)
<1>1. /\ L \in Nat /\ Len(messages') = L + 1
      /\ \A i \in 1..L : messages'[i] = messages[i]
      /\ messages'[L + 1] = m
  BY DEF TypeOK
<1>2. ASSUME NEW i \in 1..L, IsRelease(messages[i]) PROVE messages[i].frame \in ToRelease
  BY <1>2, InRelease
<1>3. ASSUME offload.step = "work", IsRelease(offload.msg) PROVE offload.msg.frame \in ToRelease
  BY <1>3, InRelease
<1>4. \A i \in 1..Len(messages') : i \in 1..L \/ i = L + 1
  BY <1>1
<1>5. MessagesApart'
  <2>1. \A i \in 1..Len(messages') : IsRelease(messages'[i]) =>
          messages'[i].frame.fb[1] = messages'[i].conn
    BY <1>1, <1>4 DEF MessagesApart
  <2>2. \A i, j \in 1..Len(messages') :
          IsRelease(messages'[i]) /\ IsRelease(messages'[j]) /\ i # j =>
            messages'[i].frame.fb # messages'[j].frame.fb
    BY <1>1, <1>2, <1>4 DEF MessagesApart
  <2>3. offload'.step = "work" /\ IsRelease(offload'.msg) =>
          /\ offload'.msg.frame.fb[1] = offload'.msg.conn
          /\ \A i \in 1..Len(messages') : IsRelease(messages'[i]) =>
               messages'[i].frame.fb # offload'.msg.frame.fb
    BY <1>1, <1>3, <1>4 DEF MessagesApart
  <2>4. QED
    BY <2>1, <2>2, <2>3 DEF MessagesApart, IsRelease
<1>6. \A f : f \in ToRelease' <=> f \in ToRelease \/ (IsRelease(m) /\ f = m.frame)
  <2> TAKE f
  <2>1. (\E i \in 1..Len(messages') : IsRelease(messages'[i]) /\ f = messages'[i].frame)
          <=> \/ \E i \in 1..L : IsRelease(messages[i]) /\ f = messages[i].frame
              \/ IsRelease(m) /\ f = m.frame
    <3>1. L + 1 \in 1..Len(messages') /\ \A i \in 1..L : i \in 1..Len(messages')
      BY <1>1
    <3>2. QED
      BY <1>1, <1>4, <3>1
  <2>2. QED
    BY <2>1, InRelease, InReleaseNext
<1>7. QED
  BY <1>5, <1>6

\* A frame is handed to the offload thread, or given back at once.
LEMMA PushGives ==
  ASSUME TypeOK, TypeOK', MessagesApart, NEW c \in Conns, NEW f \in Frames, f.fb[1] = c,
         \A g \in ToRelease : g.fb # f.fb,
         SendBufferRelease(c, f), UNCHANGED <<offload, refused>>
  PROVE  /\ MessagesApart'
         /\ \E X \in SUBSET {f} : ToRelease' = ToRelease \cup X /\ GivesBack({f} \ X)
<1>1. /\ Release(c, f) \in Messages /\ IsRelease(Release(c, f))
      /\ Release(c, f).conn = c /\ Release(c, f).frame = f
  BY MessageFields
<1>2. OffloadMsgPush(Release(c, f))
  BY FrameFields DEF SendBufferRelease, Real
<1>3. CASE Len(messages) < OffloadCapacity - 1
  <2>1. messages' = Append(messages, Release(c, f)) /\ UNCHANGED <<freed, freedTwice, lent>>
    BY <1>2, <1>3 DEF OffloadMsgPush
  <2>2. MessagesApart' /\ ToRelease' = ToRelease \cup {f}
    BY <1>1, <2>1, AppendMessage
  <2>3. GivesBack({}) /\ {f} \ {f} = {} /\ {f} \in SUBSET {f}
    BY <2>1, NothingGives
  <2>4. QED
    BY <2>2, <2>3
<1>4. CASE ~(Len(messages) < OffloadCapacity - 1)
  <2>1. messages' = messages /\ Execute(Release(c, f))
    BY <1>2, <1>4 DEF OffloadMsgPush
  <2>2. GivesBack({f})
    BY <1>1, <2>1, ExecuteGives
  <2>3. MessagesApart'
    BY <2>1 DEF MessagesApart, IsRelease
  <2>4. \A g : g \in ToRelease' <=> g \in ToRelease
    BY <2>1, InRelease, InReleaseNext
  <2>5. ToRelease' = ToRelease \cup {}
    BY <2>4
  <2>6. {} \in SUBSET {f} /\ {f} \ {} = {f}
    OBVIOUS
  <2>7. QED
    BY <2>2, <2>3, <2>5, <2>6
<1>5. QED
  BY <1>3, <1>4

\* The messages of a connection are done and leave empty ones.
LEMMA FlushedMoves ==
  ASSUME TypeOK, TypeOK', MessagesApart, NEW c \in Conns, messages' = Flushed(c),
         offload' = offload
  PROVE  /\ MessagesApart'
         /\ PendingReleases(c) \in SUBSET Frames /\ PendingReleases(c) \subseteq ToRelease
         /\ \A f \in PendingReleases(c) : f.fb[1] = c
         /\ \A f \in PendingReleases(c), g \in ToRelease' : f.fb # g.fb
         /\ ToRelease' \subseteq ToRelease /\ ToRelease \subseteq ToRelease' \cup PendingReleases(c)
<1> DEFINE L == Len(messages)
<1>1. /\ L \in Nat /\ Len(messages') = L /\ DOMAIN messages = 1..L
      /\ \A i \in 1..L : messages'[i] = IF messages[i].conn = c THEN Nothing ELSE messages[i]
      /\ PendingReleases(c) \in SUBSET Frames
  BY FlushedType DEF TypeOK
<1>2. \A i \in 1..L : IsRelease(messages'[i]) <=> IsRelease(messages[i]) /\ messages[i].conn # c
  BY <1>1, MessageFields
<1>3. \A i \in 1..L : IsRelease(messages'[i]) => messages'[i] = messages[i]
  BY <1>1, <1>2
<1>4. \A f : f \in PendingReleases(c) <=>
        \E i \in 1..L : IsRelease(messages[i]) /\ messages[i].conn = c /\ f = messages[i].frame
  BY <1>1 DEF PendingReleases, ToSet, IsRelease
<1>5. MessagesApart'
  <2>1. \A i \in 1..Len(messages') : IsRelease(messages'[i]) =>
          messages'[i].frame.fb[1] = messages'[i].conn
    BY <1>1, <1>2, <1>3 DEF MessagesApart
  <2>2. \A i, j \in 1..Len(messages') :
          IsRelease(messages'[i]) /\ IsRelease(messages'[j]) /\ i # j =>
            messages'[i].frame.fb # messages'[j].frame.fb
    BY <1>1, <1>2, <1>3 DEF MessagesApart
  <2>3. offload'.step = "work" /\ IsRelease(offload'.msg) =>
          /\ offload'.msg.frame.fb[1] = offload'.msg.conn
          /\ \A i \in 1..Len(messages') : IsRelease(messages'[i]) =>
               messages'[i].frame.fb # offload'.msg.frame.fb
    BY <1>1, <1>2, <1>3 DEF MessagesApart
  <2>4. QED
    BY <2>1, <2>2, <2>3 DEF MessagesApart, IsRelease
<1>6. PendingReleases(c) \subseteq ToRelease /\ \A f \in PendingReleases(c) : f.fb[1] = c
  BY <1>4, InRelease DEF MessagesApart
<1>7. ToRelease' \subseteq ToRelease
  BY <1>1, <1>2, <1>3, InRelease, InReleaseNext
<1>8. ToRelease \subseteq ToRelease' \cup PendingReleases(c)
  <2> SUFFICES ASSUME NEW f \in ToRelease PROVE f \in ToRelease' \cup PendingReleases(c)
    OBVIOUS
  <2>1. CASE offload.step = "work" /\ IsRelease(offload.msg) /\ f = offload.msg.frame
    BY <2>1, InReleaseNext
  <2>2. ASSUME NEW i \in 1..L, IsRelease(messages[i]), f = messages[i].frame
        PROVE  f \in ToRelease' \cup PendingReleases(c)
    <3>1. CASE messages[i].conn = c
      BY <1>4, <2>2, <3>1
    <3>2. CASE messages[i].conn # c
      <4>1. IsRelease(messages'[i]) /\ messages'[i] = messages[i] /\ i \in 1..Len(messages')
        BY <1>1, <1>2, <1>3, <2>2, <3>2
      <4>2. QED
        BY <2>2, <4>1, InReleaseNext
    <3>3. QED
      BY <3>1, <3>2
  <2>3. QED
    BY <2>1, <2>2, InRelease
<1>9. ASSUME NEW f \in PendingReleases(c), NEW g \in ToRelease' PROVE f.fb # g.fb
  <2>1. PICK i \in 1..L : IsRelease(messages[i]) /\ messages[i].conn = c /\ f = messages[i].frame
    BY <1>4
  <2>2. CASE offload.step = "work" /\ IsRelease(offload.msg) /\ g = offload.msg.frame
    BY <2>1, <2>2 DEF MessagesApart
  <2>3. ASSUME NEW j \in 1..L, IsRelease(messages'[j]), g = messages'[j].frame PROVE f.fb # g.fb
    <3>1. IsRelease(messages[j]) /\ messages[j].conn # c /\ g = messages[j].frame
      BY <1>2, <1>3, <2>3
    <3>2. i # j
      BY <2>1, <3>1
    <3>3. QED
      BY <2>1, <3>1, <3>2 DEF MessagesApart
  <2>4. QED
    BY <1>1, <2>2, <2>3, InReleaseNext
<1>10. QED
  BY <1>1, <1>5, <1>6, <1>7, <1>8, <1>9

\* The offload thread takes a message.
LEMMA PopMoves ==
  ASSUME TypeOK, TypeOK', MessagesApart, PopMessage
  PROVE  MessagesApart' /\ ToRelease' = ToRelease
<1>1. offload.step # "work"
  BY DEF PopMessage, Draining
<1>2. CASE messages = <<>>
  <2>1. offload' = Waiting /\ messages' = messages
    BY <1>2 DEF PopMessage
  <2>2. offload'.step # "work"
    BY <2>1 DEF Waiting
  <2>3. MessagesApart'
    BY <1>2, <2>1, <2>2 DEF MessagesApart, IsRelease
  <2>4. \A f : f \in ToRelease' <=> f \in ToRelease
    BY <1>1, <2>1, <2>2, InRelease, InReleaseNext
  <2>5. ToRelease' = ToRelease
    BY <2>4
  <2>6. QED
    BY <2>3, <2>5
<1>3. CASE messages # <<>>
  <2> DEFINE L == Len(messages)
             h == messages[1]
  <2>1. /\ L \in Nat /\ L >= 1 /\ Len(messages') = L - 1 /\ h = Head(messages)
        /\ \A i \in 1..(L - 1) : messages'[i] = messages[i + 1]
    <3>1. messages \in Seq(Messages) /\ messages' = Tail(messages)
      BY <1>3 DEF PopMessage, TypeOK
    <3>2. QED
      BY <1>3, <3>1
  <2>2. offload'.step = "work" /\ offload'.msg = h
    BY <1>3, <2>1 DEF PopMessage, Working
  <2>3. \A i \in 1..(L - 1) : i + 1 \in 1..L /\ i + 1 # 1
    BY <2>1
  <2>4. 1 \in 1..L
    BY <2>1
  <2>5. MessagesApart'
    <3>1. \A i \in 1..Len(messages') : IsRelease(messages'[i]) =>
            messages'[i].frame.fb[1] = messages'[i].conn
      BY <2>1, <2>3 DEF MessagesApart
    <3>2. \A i, j \in 1..Len(messages') :
            IsRelease(messages'[i]) /\ IsRelease(messages'[j]) /\ i # j =>
              messages'[i].frame.fb # messages'[j].frame.fb
      <4> SUFFICES ASSUME NEW i \in 1..(L - 1), NEW j \in 1..(L - 1),
                          IsRelease(messages'[i]), IsRelease(messages'[j]), i # j
                   PROVE  messages'[i].frame.fb # messages'[j].frame.fb
        BY <2>1
      <4>1. i + 1 \in 1..L /\ j + 1 \in 1..L /\ i + 1 # j + 1
        BY <2>1
      <4>2. QED
        BY <2>1, <4>1 DEF MessagesApart
    <3>3. offload'.step = "work" /\ IsRelease(offload'.msg) =>
            /\ offload'.msg.frame.fb[1] = offload'.msg.conn
            /\ \A i \in 1..Len(messages') : IsRelease(messages'[i]) =>
                 messages'[i].frame.fb # offload'.msg.frame.fb
      BY <2>1, <2>2, <2>3, <2>4 DEF MessagesApart
    <3>4. QED
      BY <3>1, <3>2, <3>3 DEF MessagesApart, IsRelease
  <2>6. \A f : f \in ToRelease' <=> f \in ToRelease
    <3> TAKE f
    <3>1. ASSUME NEW i \in 1..Len(messages'), IsRelease(messages'[i]), f = messages'[i].frame
          PROVE  f \in ToRelease
      BY <2>1, <2>3, <3>1, InRelease
    <3>2. ASSUME IsRelease(h), f = h.frame PROVE f \in ToRelease /\ f \in ToRelease'
      BY <2>2, <2>4, <3>2, InRelease, InReleaseNext
    <3>3. ASSUME NEW i \in 1..L, i # 1, IsRelease(messages[i]), f = messages[i].frame
          PROVE  f \in ToRelease'
      <4>1. i - 1 \in 1..(L - 1) /\ (i - 1) + 1 = i
        BY <2>1, <3>3
      <4>2. messages'[i - 1] = messages[i] /\ i - 1 \in 1..Len(messages')
        BY <2>1, <4>1
      <4>3. QED
        BY <3>3, <4>2, InReleaseNext
    <3>4. QED
      BY <1>1, <2>2, <3>1, <3>2, <3>3, InRelease, InReleaseNext
  <2>7. QED
    BY <2>5, <2>6
<1>4. QED
  BY <1>2, <1>3

\* And executes it.
LEMMA WorkGives ==
  ASSUME TypeOK, TypeOK', MessagesApart, WorkOff
  PROVE  /\ MessagesApart'
         /\ \E G \in SUBSET ToRelease :
              /\ GivesBack(G) /\ ToRelease' \subseteq ToRelease /\ ToRelease \subseteq ToRelease' \cup G
              /\ \A g \in G, f \in ToRelease' : f.fb # g.fb
<1> DEFINE m == offload.msg
           G == IF IsRelease(m) THEN {m.frame} ELSE {}
<1>1. offload.step = "work" /\ offload'.step # "work" /\ messages' = messages /\ Execute(m)
      /\ refused' = refused
  BY DEF WorkOff, Draining
<1>2. m \in Messages
  BY <1>1 DEF TypeOK, Waiting, Draining
<1>3. GivesBack(G)
  BY <1>1, <1>2, ExecuteGives DEF MessagesApart
<1>4. MessagesApart'
  BY <1>1 DEF MessagesApart, IsRelease
<1>5. G \in SUBSET ToRelease
  BY <1>1, InRelease
<1>6. ToRelease' \subseteq ToRelease /\ ToRelease \subseteq ToRelease' \cup G
  BY <1>1, InRelease, InReleaseNext
<1>7. \A g \in G, f \in ToRelease' : f.fb # g.fb
  BY <1>1, InReleaseNext DEF MessagesApart
<1>8. QED
  BY <1>3, <1>4, <1>5, <1>6, <1>7


(* No connection takes a plane but a new one, which has sent nothing. *)
StepsOn ==
    \A c \in Conns :
      /\ OnPlane(c)' => OnPlane(c) \/ step[c] = "new"
      /\ step'[c] = "new" => step[c] = "new"
      /\ Serving(c)' => Serving(c) \/ lent'[c] = {}

(* Frames move: those of X are now on the way back, those of G are given back, *)
(* and no slot that is shown or about to be changes.                           *)
Moves(X, G) ==
    /\ sent' = sent /\ kept' = kept
    /\ X \subseteq Present /\ G \subseteq Present /\ \A f \in X \cup G : Real(f)
    /\ StepsOn
    /\ \A p \in Planes :
         /\ \/ plane'[p].conn = plane[p].conn
            \/ Queued(p)' = {} /\ \A k \in Kinds : ~Real(plane'[p][k])
         /\ plane'[p].next = plane[p].next /\ plane'[p].curr = plane[p].curr
         /\ \A k \in Kinds : plane'[p][k] \in {plane[p][k], NoFrame}
         /\ Queued(p)' \subseteq Queued(p)
         /\ \/ vfm'[p].bufferIdCurrent = vfm[p].bufferIdCurrent
            \/ Queued(p)' = {} /\ vfm'[p].bufferIdCurrent = NoBuffer
    /\ ToRelease' \subseteq ToRelease \cup X
    /\ \A f \in X, p \in Planes :
         (\A g \in Queued(p)' : g.fb # f.fb) /\ \A k \in Kinds : plane'[p][k].fb # f.fb
    /\ GivesBack(G)
    /\ \A g \in G, f \in Present' : g.fb # f.fb
    /\ \A f \in Present : Real(f) => f \in Present' \cup G

\* A slot that holds something holds a frame buffer.
LEMMA SlotFb ==
  ASSUME TypeOK, SlotsBelong
  PROVE  \A p \in Planes, k \in Kinds : plane[p][k] # NoFrame => plane[p][k].fb \in Fbs
BY DEF SlotsBelong, TypeOK

\* The frames the server has were sent.
LEMMA PresentSent ==
  ASSUME TypeOK, Belong
  PROVE  \A f \in Present : Real(f) => f.fb[2] <= sent[f.fb[1]]
<1>1. \A f \in ToRelease : f.fb[2] <= sent[f.fb[1]]
  BY DEF Belong, ReleasesBelong
<1>2. \A p \in Planes : \A f \in Queued(p) : f.fb[2] <= sent[f.fb[1]]
  BY DEF Belong, QueuesBelong
<1>3. \A p \in Planes, k \in Kinds : Real(plane[p][k]) =>
        plane[p][k].fb[2] <= sent[plane[p][k].fb[1]]
  BY DEF Belong, SlotsBelong
<1>4. QED
  BY <1>1, <1>2, <1>3, InPresent

\* What is on different planes is of different connections.
LEMMA PlanesApart ==
  ASSUME TypeOK, Ownership, Belong, NEW p \in Planes, NEW f \in Frames, f.fb[1] = plane[p].conn,
         NEW q \in Planes, q # p
  PROVE  /\ \A g \in Queued(q) : g.fb # f.fb
         /\ \A k \in Kinds : plane[q][k].fb # f.fb
<1>1. plane[p].conn \in Conns /\ planeOf[plane[p].conn] = p /\ OnPlane(plane[p].conn)
  <2>1. plane[p].conn \in Conns
    BY FrameFields
  <2>2. planeOf[plane[p].conn] = p
    BY <2>1, VideoAssumption DEF Ownership, Owned
  <2>3. QED
    BY <2>1, <2>2, VideoAssumption DEF Ownership
<1>2. plane[q].conn # plane[p].conn
  <2>1. Owned(q) => planeOf[plane[q].conn] = q
    BY DEF Ownership
  <2>2. QED
    BY <1>1, <2>1, VideoAssumption DEF Owned
<1>3. \A g \in Queued(q) : g.fb # f.fb
  BY <1>2 DEF Belong, QueuesBelong
<1>4. ASSUME NEW k \in Kinds, plane[q][k].fb = f.fb PROVE FALSE
  <2>1. CASE Real(plane[q][k])
    BY <1>2, <1>4, <2>1 DEF Belong, SlotsBelong
  <2>2. CASE plane[q][k] = NoFrame
    BY <1>4, <2>2, FrameFields DEF NoFrame
  <2>3. CASE plane[q][k].fb \in kept
    BY <1>1, <1>4, <2>3 DEF Belong, KeptAreOld
  <2>4. QED
    BY <2>1, <2>2, <2>3 DEF Belong, SlotsBelong
<1>5. QED
  BY <1>3, <1>4

\* A queued frame with the current buffer is the newest one on or for the screen.
LEMMA CurrentHeld ==
  ASSUME TypeOK, FrameInv, NEW p \in Planes, NEW f \in Queued(p),
         f.bufferId = vfm[p].bufferIdCurrent
  PROVE  f = Newest(p) /\ \E k \in {"next", "curr"} : plane[p][k] = f
<1>1. f \in Frames /\ Real(f) /\ f.fb[1] = plane[p].conn /\ f \in Present
  BY QueueType, FrameFields, InPresent DEF FrameInv, Belong, QueuesBelong
<1>2. PICK k \in {"next", "curr"} : plane[p][k] = Newest(p)
  BY DEF Newest
<1>3. k \in Kinds /\ Newest(p).bufferId = f.bufferId
  BY <1>1 DEF Kinds, FrameInv, CurrentIsNewest, Real
<1>4. Real(plane[p][k]) /\ plane[p][k] # NoFrame
  BY <1>1, <1>2, <1>3, FrameFields DEF Real
<1>5. plane[p][k] \in Present /\ plane[p][k].fb[1] = plane[p].conn
  BY <1>3, <1>4, InPresent DEF FrameInv, Belong, SlotsBelong
<1>6. f = plane[p][k]
  BY <1>1, <1>2, <1>3, <1>5 DEF FrameInv, Unique
<1>7. QED
  BY <1>2, <1>6

\* No frame buffer leaks in the next state.
LEMMA NoLeakNext ==
  ASSUME \A c \in Conns : \A n \in 1..sent'[c] :
           <<c, n>> \in freed' \cup kept' \cup {f.fb : f \in Present'}
  PROVE  NoLeak'
BY Zenon DEF NoLeak

\* Moving frames keeps the invariant.
LEMMA MovesKeep ==
  ASSUME TypeOK, TypeOK', Ownership, FrameInv, NEW X, NEW G, Moves(X, G)
  PROVE  FrameInv'
<1>1. /\ Belong /\ QueuesBelong /\ SlotsBelong /\ ReleasesBelong /\ KeptAreOld /\ FreedWereSent
      /\ SlotsApart /\ QueuesApart /\ ReleasesApart /\ CurrentIsNewest
      /\ Unique /\ AllLent /\ NotYetFreed /\ FreedOnce /\ InOrder /\ NoLeak /\ NoBufferLost
  BY DEF FrameInv, Belong, Apart
<1>2. \A f \in Present : IF Real(f) THEN f \in Frames /\ f.fb \notin kept ELSE f.fb \in kept
  BY <1>1, PresentKinds
<1>3. sent' = sent /\ kept' = kept
  BY DEF Moves
<1>4. \A f \in Present' : f \in Present
  <2> SUFFICES ASSUME NEW f \in Present' PROVE f \in Present
    OBVIOUS
  <2>1. CASE f \in ToRelease'
    BY <2>1, InPresent DEF Moves
  <2>2. ASSUME NEW p \in Planes, f \in Queued(p)' PROVE f \in Present
    BY <2>2, InPresent DEF Moves
  <2>3. ASSUME NEW p \in Planes, NEW k \in Kinds, f = plane'[p][k], f # NoFrame
        PROVE  f \in Present
    BY <2>3, InPresent DEF Moves
  <2>4. QED
    BY <2>1, <2>2, <2>3, InPresentNext
<1>5. Belong'
  <2>1. QueuesBelong'
    BY <1>1, <1>3 DEF Moves, QueuesBelong
  <2>2. SlotsBelong'
    <3> SUFFICES ASSUME NEW p \in Planes, NEW k \in Kinds
                 PROVE  /\ Real(plane'[p][k]) =>
                             /\ plane'[p][k].fb \in Fbs
                             /\ plane'[p][k].fb[1] = plane'[p].conn
                             /\ plane'[p][k].fb[2] <= sent[plane'[p][k].fb[1]]
                        /\ ~Real(plane'[p][k]) =>
                             plane'[p][k] = NoFrame \/ (k # "next" /\ plane'[p][k].fb \in kept)
      BY <1>3 DEF SlotsBelong, Real
    <3>1. CASE plane'[p][k] = NoFrame
      BY <3>1, FrameFields
    <3>2. CASE plane'[p][k] = plane[p][k]
      BY <1>1, <3>2 DEF SlotsBelong, Moves
    <3>3. QED
      BY <3>1, <3>2 DEF Moves
  <2>3. ReleasesBelong'
    <3> SUFFICES ASSUME NEW f \in ToRelease' PROVE f.fb[2] <= sent[f.fb[1]] /\ f.fb \notin kept
      BY <1>3 DEF ReleasesBelong
    <3>1. f \in Present /\ (f \in ToRelease \/ Real(f))
      BY InPresent DEF Moves
    <3>2. QED
      BY <1>1, <1>2, <3>1, PresentSent DEF ReleasesBelong
  <2>4. KeptAreOld'
    <3> SUFFICES ASSUME NEW fb \in kept
                 PROVE  fb[2] <= sent[fb[1]] /\ ~OnPlane(fb[1])' /\ step'[fb[1]] # "new"
      BY <1>3 DEF KeptAreOld, OnPlane
    <3>1. fb[1] \in Conns
      BY DEF TypeOK, Fbs
    <3>2. QED
      BY <1>1, <3>1 DEF KeptAreOld, Moves, StepsOn
  <2>5. FreedWereSent'
    <3> SUFFICES ASSUME NEW fb \in freed' PROVE fb[2] <= sent[fb[1]]
      BY <1>3 DEF FreedWereSent
    <3>1. fb \in freed \/ \E g \in G : fb = g.fb
      BY DEF Moves, GivesBack
    <3>2. QED
      BY <1>1, <3>1, PresentSent DEF FreedWereSent, Moves
  <2>6. QED
    BY <2>1, <2>2, <2>3, <2>4, <2>5 DEF Belong
<1>6. Apart'
  <2>1. SlotsApart'
    <3> SUFFICES ASSUME NEW p \in Planes, NEW q \in Planes, NEW k \in Kinds, NEW l \in Kinds,
                        plane'[p][k].fb = plane'[q][l].fb, plane'[p][k] # NoFrame
                 PROVE  p = q /\ k = l
      BY DEF SlotsApart
    <3>1. plane'[p][k] = plane[p][k] /\ plane[p][k].fb \in Fbs
      BY <1>1, SlotFb DEF Moves
    <3>2. plane'[q][l] # NoFrame
      BY <3>1, FrameFields DEF NoFrame
    <3>3. plane'[q][l] = plane[q][l]
      BY <3>2 DEF Moves
    <3>4. QED
      BY <1>1, <3>1, <3>3 DEF SlotsApart
  <2>2. QueuesApart'
    <3> SUFFICES ASSUME NEW p \in Planes, NEW k \in Kinds, NEW f \in Queued(p)',
                        f.fb = plane'[p][k].fb
                 PROVE  /\ k \in {"next", "curr"} /\ plane'[p][k] = f
                        /\ f.bufferId = vfm'[p].bufferIdCurrent
      BY DEF QueuesApart
    <3>1. f \in Queued(p) /\ f.fb \in Fbs
      BY QueueType, FrameFields DEF Moves
    <3>2. plane'[p][k] = plane[p][k] /\ vfm'[p].bufferIdCurrent = vfm[p].bufferIdCurrent
      BY <3>1, FrameFields DEF Moves, NoFrame
    <3>3. QED
      BY <1>1, <3>1, <3>2 DEF QueuesApart
  <2>3. ReleasesApart'
    <3> SUFFICES ASSUME NEW f \in ToRelease', NEW p \in Planes
                 PROVE  /\ \A g \in Queued(p)' : g.fb # f.fb
                        /\ \A k \in Kinds : plane'[p][k].fb # f.fb
      BY DEF ReleasesApart
    <3>1. CASE f \in X
      BY <3>1 DEF Moves
    <3>2. CASE f \in ToRelease
      <4>1. f.fb # NoFb
        BY <3>2, InRelease, FrameFields
      <4>2. QED
        BY <1>1, <3>2, <4>1 DEF ReleasesApart, Moves, NoFrame
    <3>3. QED
      BY <3>1, <3>2 DEF Moves
  <2>4. QED
    BY <2>1, <2>2, <2>3 DEF Apart
<1>7. CurrentIsNewest'
  BY <1>1 DEF CurrentIsNewest, Newest, Moves
<1>8. Unique'
  BY <1>1, <1>4 DEF Unique, Real
<1>9. AllLent'
  <2> SUFFICES ASSUME NEW f \in Present', Real(f) PROVE f.bufferId \in lent'[f.fb[1]]
    BY DEF AllLent, Real
  <2>1. f \in Present /\ f.fb[1] \in Conns /\ f.bufferId \in lent[f.fb[1]]
    BY <1>1, <1>2, <1>4, FrameFields DEF AllLent
  <2>2. f.bufferId \notin Buffered(G, f.fb[1])
    <3> SUFFICES ASSUME NEW g \in G, g.fb[1] = f.fb[1], g.bufferId = f.bufferId PROVE FALSE
      BY DEF Buffered
    <3>1. g = f
      BY <1>1, <2>1 DEF Unique, Moves
    <3>2. QED
      BY <3>1 DEF Moves
  <2>3. QED
    BY <2>1, <2>2 DEF Moves, GivesBack
<1>10. NotYetFreed'
  <2> SUFFICES ASSUME NEW f \in Present' PROVE f.fb \notin freed'
    BY DEF NotYetFreed
  <2>1. f.fb \notin freed
    BY <1>1, <1>4 DEF NotYetFreed
  <2>2. QED
    BY <2>1 DEF Moves, GivesBack
<1>11. FreedOnce'
  <2>1. {g.fb : g \in G} \cap freed = {}
    BY <1>1 DEF NotYetFreed, Moves
  <2>2. QED
    BY <1>1, <2>1 DEF FreedOnce, Moves, GivesBack
<1>12. InOrder'
  <2> SUFFICES ASSUME NEW p \in Planes
               PROVE  /\ plane'[p].next # NoFrame => Older(plane'[p].curr, plane'[p].next)
                      /\ \A f \in Queued(p)', k \in {"next", "curr"} :
                           Real(plane'[p][k]) => plane'[p][k].fb[2] <= f.fb[2]
    BY DEF InOrder, Older, Real
  <2>1. plane'[p].next = plane[p].next /\ plane'[p].curr = plane[p].curr
        /\ Queued(p)' \subseteq Queued(p)
    BY DEF Moves
  <2>2. QED
    BY <1>1, <2>1 DEF InOrder
<1>13. NoLeak'
  <2> SUFFICES ASSUME NEW c \in Conns, NEW n \in 1..sent[c]
               PROVE  <<c, n>> \in freed' \cup kept \cup {f.fb : f \in Present'}
    BY <1>3, NoLeakNext
  <2>1. CASE <<c, n>> \in freed
    BY <2>1 DEF Moves, GivesBack
  <2>2. ASSUME NEW f \in Present, <<c, n>> = f.fb
        PROVE  <<c, n>> \in freed' \cup kept \cup {h.fb : h \in Present'}
    <3>1. CASE Real(f)
      BY <2>2, <3>1 DEF Moves, GivesBack
    <3>2. CASE ~Real(f)
      BY <1>2, <2>2, <3>2
    <3>3. QED
      BY <3>1, <3>2
  <2>3. QED
    BY <1>1, <2>1, <2>2 DEF NoLeak
<1>14. NoBufferLost'
  <2> SUFFICES ASSUME NEW c \in Conns, Serving(c)', NEW b \in lent'[c] \ refused'[c]
               PROVE  \E f \in Present' : f.fb[1] = c /\ f.bufferId = b
    BY DEF NoBufferLost
  <2>1. Serving(c) /\ b \in lent[c] \ refused[c] /\ b \notin Buffered(G, c)
    BY DEF Moves, GivesBack, StepsOn
  <2>2. PICK f \in Present : f.fb[1] = c /\ f.bufferId = b
    BY <1>1, <2>1 DEF NoBufferLost
  <2>3. Real(f)
    <3>1. b \in Buffers
      BY <2>1 DEF TypeOK
    <3>2. QED
      BY <2>2, <3>1, VideoAssumption DEF Real
  <2>4. f \notin G
    BY <2>1, <2>2 DEF Buffered
  <2>5. QED
    BY <2>2, <2>3, <2>4 DEF Moves
<1>15. QED
  BY <1>5, <1>6, <1>7, <1>8, <1>9, <1>10, <1>11, <1>12, <1>13, <1>14 DEF FrameInv

\* No frame moves.
LEMMA Still ==
  ASSUME TypeOK, TypeOK', Ownership, FrameInv, sent' = sent, kept' = kept, GivesBack({}),
         StepsOn, ToRelease' = ToRelease,
         \A p \in Planes :
           /\ \/ plane'[p].conn = plane[p].conn
              \/ vfm[p].queue = <<>> /\ \A k \in Kinds : ~Real(plane[p][k])
           /\ \A k \in Kinds : plane'[p][k] = plane[p][k]
           /\ vfm'[p].queue = vfm[p].queue
           /\ vfm'[p].bufferIdCurrent = vfm[p].bufferIdCurrent
  PROVE  FrameInv'
<1>1. \A p \in Planes : Queued(p)' = Queued(p)
  BY DEF Queued
<1>2. \A p \in Planes : vfm[p].queue = <<>> => Queued(p) = {}
  BY DEF Queued, ToSet
<1>3. \A p \in Planes : plane'[p].next = plane[p].next /\ plane'[p].curr = plane[p].curr
  BY DEF Kinds
<1>4. \A p \in Planes :
        \/ plane'[p].conn = plane[p].conn
        \/ Queued(p)' = {} /\ \A k \in Kinds : ~Real(plane'[p][k])
  BY <1>1, <1>2
<1>5. \A f \in Present : f \in Present'
  BY <1>1, InPresent, InPresentNext
<1>6. Moves({}, {})
  BY <1>1, <1>3, <1>4, <1>5 DEF Moves
<1>7. QED
  BY <1>6, MovesKeep

\* A frame buffer is in a queue once.
LEMMA QueueFbs ==
  ASSUME TypeOK, QueuesIncrease, NEW p \in Planes
  PROVE  \A f, g \in Queued(p) : f.fb = g.fb => f = g
<1> DEFINE q == vfm[p].queue
<1>1. q \in Seq(Frames) /\ Increasing(q)
  BY QueueType DEF QueuesIncrease
<1>2. ASSUME NEW i \in 1..Len(q), NEW j \in 1..Len(q), q[i].fb = q[j].fb PROVE q[i] = q[j]
  <2>1. q[i].fb[2] \in Nat /\ q[j].fb[2] \in Nat
    BY <1>1, FrameFields
  <2>2. ~(i < j) /\ ~(j < i)
    BY <1>1, <1>2, <2>1 DEF Increasing
  <2>3. QED
    BY <2>2
<1>3. DOMAIN q = 1..Len(q)
  BY <1>1
<1>4. QED
  BY <1>2, <1>3 DEF Queued, ToSet

(* Frames leave queues, and the way back: those of X are handed to the offload   *)
(* thread, those of G and Z given back, and a frame that is shown just leaves.   *)
Leaving(X, G, Z) ==
    /\ sent' = sent /\ kept' = kept /\ plane' = plane /\ StepsOn
    /\ \A p \in Planes :
         /\ Queued(p)' \subseteq Queued(p)
         /\ \/ vfm'[p].bufferIdCurrent = vfm[p].bufferIdCurrent
            \/ Queued(p)' = {} /\ vfm'[p].bufferIdCurrent = NoBuffer
         /\ \A f \in Queued(p) \ Queued(p)' :
              f.bufferId = vfm[p].bufferIdCurrent \/ f \in X \cup G
    /\ \A f \in X \cup G : \E p \in Planes :
         f \in Queued(p) \ Queued(p)' /\ f.bufferId # vfm[p].bufferIdCurrent
    /\ \A f \in X, g \in G : f.fb # g.fb
    /\ Z \subseteq ToRelease /\ \A f \in Z, g \in ToRelease' : f.fb # g.fb
    /\ ToRelease' \subseteq ToRelease \cup X /\ X \subseteq ToRelease'
    /\ ToRelease \subseteq ToRelease' \cup Z
    /\ GivesBack(G \cup Z)

\* Frames that leave keep the invariant.
LEMMA LeavingKeeps ==
  ASSUME TypeOK, TypeOK', Ownership, FrameInv, QueuesIncrease, NEW X, NEW G, NEW Z,
         Leaving(X, G, Z)
  PROVE  FrameInv'
<1>1. QueuesApart /\ ReleasesApart /\ QueuesBelong /\ Belong
  BY DEF FrameInv, Apart, Belong
<1>2. \A p \in Planes : Queued(p) \subseteq Present /\ \A f \in Queued(p) : f \in Frames /\ Real(f)
  BY QueueType, FrameFields, InPresent
<1>3. ToRelease \subseteq Present /\ \A f \in ToRelease : f \in Frames /\ Real(f)
  BY InRelease, FrameFields, InPresent
<1>4. ASSUME NEW f \in X \cup G, NEW p \in Planes
      PROVE  (\A g \in Queued(p)' : g.fb # f.fb) /\ \A k \in Kinds : plane'[p][k].fb # f.fb
  <2>1. PICK q \in Planes : f \in Queued(q) \ Queued(q)' /\ f.bufferId # vfm[q].bufferIdCurrent
    BY DEF Leaving
  <2>2. f \in Frames /\ f.fb[1] = plane[q].conn
    BY <1>1, <1>2, <2>1 DEF QueuesBelong
  <2>3. CASE p # q
    BY <1>1, <2>2, <2>3, PlanesApart DEF Leaving
  <2>4. CASE p = q
    <3>1. \A g \in Queued(p)' : g.fb # f.fb
      BY <2>1, <2>4, QueueFbs DEF Leaving
    <3>2. \A k \in Kinds : plane[p][k].fb # f.fb
      BY <1>1, <2>1, <2>4 DEF QueuesApart
    <3>3. QED
      BY <2>4, <3>1, <3>2 DEF Leaving
  <2>5. QED
    BY <2>3, <2>4
<1>5. ASSUME NEW z \in Z, NEW p \in Planes
      PROVE  (\A g \in Queued(p)' : g.fb # z.fb) /\ \A k \in Kinds : plane'[p][k].fb # z.fb
  BY <1>1 DEF ReleasesApart, Leaving
<1>6. ASSUME NEW g \in G \cup Z, NEW f \in ToRelease' PROVE g.fb # f.fb
  <2>1. CASE g \in Z
    BY <2>1 DEF Leaving
  <2>2. CASE g \in G /\ f \in X
    BY <2>2 DEF Leaving
  <2>3. CASE g \in G /\ f \in ToRelease
    <3>1. PICK q \in Planes : g \in Queued(q)
      BY <2>3 DEF Leaving
    <3>2. QED
      BY <1>1, <2>3, <3>1 DEF ReleasesApart
  <2>4. QED
    BY <2>1, <2>2, <2>3 DEF Leaving
<1>7. ASSUME NEW g \in G \cup Z, NEW f \in Present' PROVE g.fb # f.fb
  BY <1>4, <1>5, <1>6, InPresentNext
<1>8. ASSUME NEW f \in Present, Real(f) PROVE f \in Present' \cup (G \cup Z)
  <2>1. CASE f \in ToRelease
    BY <2>1, InPresentNext DEF Leaving
  <2>2. ASSUME NEW p \in Planes, NEW k \in Kinds, f = plane[p][k], f # NoFrame
        PROVE  f \in Present'
    BY <2>2, InPresentNext DEF Leaving
  <2>3. ASSUME NEW p \in Planes, f \in Queued(p) PROVE f \in Present' \cup (G \cup Z)
    <3>1. CASE f \in Queued(p)'
      BY <3>1, InPresentNext
    <3>2. CASE f \in X \cup G
      BY <3>2, InPresentNext DEF Leaving
    <3>3. CASE f.bufferId = vfm[p].bufferIdCurrent
      <4>1. PICK k \in {"next", "curr"} : plane[p][k] = f
        BY <2>3, <3>3, CurrentHeld
      <4>2. QED
        BY <1>2, <2>2, <2>3, <4>1, FrameFields DEF Kinds
    <3>4. QED
      BY <2>3, <3>1, <3>2, <3>3 DEF Leaving
  <2>4. QED
    BY <2>1, <2>2, <2>3, InPresent
<1>9. X \subseteq Present /\ G \cup Z \subseteq Present /\ \A f \in X \cup (G \cup Z) : Real(f)
  BY <1>2, <1>3 DEF Leaving
<1>10. Moves(X, G \cup Z)
  <2>1. \A p \in Planes :
         /\ plane'[p].conn = plane[p].conn
         /\ plane'[p].next = plane[p].next /\ plane'[p].curr = plane[p].curr
         /\ \A k \in Kinds : plane'[p][k] \in {plane[p][k], NoFrame}
    BY DEF Leaving
  <2>2. QED
    BY <1>4, <1>7, <1>8, <1>9, <2>1 DEF Moves, Leaving
<1>11. QED
  BY <1>10, MovesKeep


(***************************************************************************)
(* Every action keeps what is said of frames.                              *)
(***************************************************************************)

\* No frame moves, no message is sent and no buffer given back.
LEMMA NothingMoves ==
  ASSUME VideoInv, TypeOK', UNCHANGED <<messages, offload, clientVars, freeVars, kept>>, StepsOn,
         \A p \in Planes :
           /\ \/ plane'[p].conn = plane[p].conn
              \/ vfm[p].queue = <<>> /\ \A k \in Kinds : ~Real(plane[p][k])
           /\ \A k \in Kinds : plane'[p][k] = plane[p][k]
           /\ vfm'[p].queue = vfm[p].queue
           /\ vfm'[p].bufferIdCurrent = vfm[p].bufferIdCurrent
  PROVE  PlacesInv'
<1>1. GivesBack({})
  BY NothingGives DEF clientVars, freeVars
<1>2. \A f : f \in ToRelease' <=> f \in ToRelease
  BY InRelease, InReleaseNext DEF VideoInv
<1>3. ToRelease' = ToRelease
  BY <1>2
<1>4. FrameInv'
  BY <1>1, <1>3, Still DEF VideoInv, PlacesInv, clientVars
<1>5. MessagesApart'
  BY DEF MessagesApart, IsRelease, VideoInv, PlacesInv
<1>6. QueuesIncrease'
  BY DEF QueuesIncrease, VideoInv, PlacesInv
<1>7. QED
  BY <1>4, <1>5, <1>6 DEF PlacesInv

\* The parts of the tick that only look.
LEMMA LookingMovesNothing ==
  ASSUME VideoInv, TypeOK', StartTick \/ CheckPlane \/ FirstDue \/ NoneDue
  PROVE  PlacesInv'
<1>1. UNCHANGED <<messages, offload, clientVars, freeVars, kept, step, plane>>
  BY DEF StartTick, CheckPlane, FirstDue, NoneDue, connVars, offloadVars
<1>2. StepsOn
  BY <1>1 DEF StepsOn, OnPlane, Serving
<1>3. ASSUME NEW q \in Planes
      PROVE  vfm'[q].queue = vfm[q].queue /\ vfm'[q].bufferIdCurrent = vfm[q].bufferIdCurrent
  <2> DEFINE p == used[refresh.at]
  <2>1. vfm \in [Planes -> Managers]
    BY DEF VideoInv, TypeOK
  <2>2. CASE StartTick \/ NoneDue
    BY <2>2 DEF StartTick, NoneDue
  <2>3. CASE CheckPlane
    <3>1. PICK a, b : vfm' = [vfm EXCEPT ![p].resetBaseTime = a, ![p].started = b]
      BY <2>3 DEF CheckPlane
    <3>2. QED
      BY <2>1, <3>1 DEF Managers
  <2>4. CASE FirstDue
    <3>1. vfm' = vfm \/ vfm' = [vfm EXCEPT ![p].frameAdvance = FALSE]
      BY <2>4 DEF FirstDue
    <3>2. QED
      BY <2>1, <3>1 DEF Managers
  <2>5. QED
    BY <2>2, <2>3, <2>4
<1>4. QED
  BY <1>1, <1>2, <1>3, NothingMoves

\* The handlers that move nothing.
LEMMA SettingMovesNothing ==
  ASSUME VideoInv, TypeOK', NEW c \in Conns,
         \/ \E pause \in BOOLEAN : HandlePause(c, pause)
         \/ HandleFrameAdvance(c)
         \/ \E keep \in BOOLEAN : HandleKeepLastFrame(c, keep)
  PROVE  PlacesInv'
<1> DEFINE p == planeOf[c]
<1>1. UNCHANGED <<messages, offload, clientVars, freeVars, kept, step>>
  BY DEF HandlePause, HandleFrameAdvance, HandleKeepLastFrame, connVars, offloadVars
<1>2. StepsOn
  BY <1>1 DEF StepsOn, OnPlane, Serving
<1>3. vfm \in [Planes -> Managers] /\ plane \in [Planes -> PlaneStates]
  BY DEF VideoInv, TypeOK
<1>4. ASSUME NEW q \in Planes
      PROVE  /\ vfm'[q].queue = vfm[q].queue /\ vfm'[q].bufferIdCurrent = vfm[q].bufferIdCurrent
             /\ plane'[q].conn = plane[q].conn /\ \A k \in Kinds : plane'[q][k] = plane[q][k]
  <2>1. CASE \E pause \in BOOLEAN : HandlePause(c, pause)
    <3>0. PICK pause \in BOOLEAN : HandlePause(c, pause)
      BY <2>1
    <3>1. PICK a, b, d : vfm' = [vfm EXCEPT ![p] =
                           [vfm[p] EXCEPT !.paused = a, !.resetBaseTime = b, !.started = d]]
      <4> DEFINE on == vfm[p].paused /\ ~pause /\ vfm[p].resetBaseTime
      <4>1. vfm' = [vfm EXCEPT ![p] =
              [vfm[p] EXCEPT !.paused = pause,
                             !.resetBaseTime = vfm[p].resetBaseTime /\ ~on,
                             !.started = vfm[p].started /\ ~on]]
        BY <3>0 DEF HandlePause
      <4>2. QED
        BY <4>1
    <3>2. plane' = plane
      BY <2>1 DEF HandlePause
    <3>3. QED
      BY <1>3, <3>1, <3>2 DEF Managers
  <2>2. CASE HandleFrameAdvance(c)
    BY <1>3, <2>2 DEF HandleFrameAdvance, Managers
  <2>3. CASE \E keep \in BOOLEAN : HandleKeepLastFrame(c, keep)
    BY <1>3, <2>3 DEF HandleKeepLastFrame, PlaneStates, Kinds
  <2>4. QED
    BY <2>1, <2>2, <2>3
<1>5. QED
  BY <1>1, <1>2, <1>4, NothingMoves

\* A plane is taken.
LEMMA TakingMovesNothing ==
  ASSUME VideoInv, TypeOK', NEW c \in Conns, HandleVideoResource(c)
  PROVE  PlacesInv'
<1>1. /\ UNCHANGED <<messages, offload, clientVars, freeVars, kept>> /\ step[c] = "new"
      /\ step' \in {[step EXCEPT ![c] = "serving"], [step EXCEPT ![c] = "left"]}
  BY DEF HandleVideoResource, offloadVars
<1>2. StepsOn
  BY <1>1 DEF StepsOn, OnPlane, Serving, VideoInv, TypeOK, Ownership, clientVars
<1>3. ASSUME NEW q \in Planes
      PROVE  /\ \/ plane'[q].conn = plane[q].conn
                \/ vfm[q].queue = <<>> /\ \A k \in Kinds : ~Real(plane[q][k])
             /\ \A k \in Kinds : plane'[q][k] = plane[q][k]
             /\ vfm'[q].queue = vfm[q].queue
             /\ vfm'[q].bufferIdCurrent = vfm[q].bufferIdCurrent
  <2>1. CASE UNCHANGED <<plane, vfm>>
    BY <2>1
  <2>2. ASSUME NEW p \in Planes \ ToSet(used),
               plane' = [plane EXCEPT ![p].conn = c, ![p].inUse = TRUE],
               vfm' = [vfm EXCEPT ![p] = Fresh]
        PROVE  /\ \/ plane'[q].conn = plane[q].conn
                  \/ vfm[q].queue = <<>> /\ \A k \in Kinds : ~Real(plane[q][k])
               /\ \A k \in Kinds : plane'[q][k] = plane[q][k]
               /\ vfm'[q].queue = vfm[q].queue
               /\ vfm'[q].bufferIdCurrent = vfm[q].bufferIdCurrent
    <3>1. plane \in [Planes -> PlaneStates] /\ vfm \in [Planes -> Managers]
      BY DEF VideoInv, TypeOK
    <3>2. /\ vfm[p] = Fresh /\ plane[p].next = NoFrame /\ plane[p].prev = NoFrame
          /\ plane[p].free = NoFrame /\ ~Real(plane[p].curr)
      BY DEF VideoInv, Ownership
    <3>3. vfm' = vfm
      BY <2>2, <3>1, <3>2
    <3>4. \A k \in Kinds : plane'[q][k] = plane[q][k]
      BY <2>2, <3>1 DEF PlaneStates, Kinds
    <3>5. CASE q = p
      <4>1. \A k \in Kinds : ~Real(plane[p][k])
        BY <3>2, FrameFields DEF Kinds
      <4>2. QED
        BY <3>2, <3>3, <3>4, <3>5, <4>1 DEF Fresh
    <3>6. CASE q # p
      <4>1. plane'[q].conn = plane[q].conn
        BY <2>2, <3>1, <3>6
      <4>2. QED
        BY <3>3, <3>4, <4>1
    <3>7. QED
      BY <3>5, <3>6
  <2>3. QED
    BY <2>1, <2>2 DEF HandleVideoResource
<1>4. QED
  BY <1>1, <1>2, <1>3, NothingMoves

\* The ends of a connection that move nothing.
LEMMA LeavingMovesNothing ==
  ASSUME VideoInv, TypeOK', NEW c \in Conns, Leave(c) \/ Destroy(c) \/ DestroyImpatiently(c)
  PROVE  PlacesInv'
<1>1. UNCHANGED <<messages, offload, clientVars, freeVars, kept, vfm>>
  BY DEF Leave, Destroy, DestroyImpatiently, offloadVars
<1>2. \/ step[c] = "new" /\ step' = [step EXCEPT ![c] = "left"]
      \/ step[c] = "serving" /\ step' = [step EXCEPT ![c] = "dark"]
      \/ step' = [step EXCEPT ![c] = "destroyed"]
  BY DEF Leave, Destroy, DestroyImpatiently, Serving
<1>3. StepsOn
  BY <1>2 DEF StepsOn, OnPlane, Serving, VideoInv, TypeOK
<1>4. plane' = plane \/ plane' = [plane EXCEPT ![planeOf[c]].inUse = FALSE]
  BY DEF Leave, Destroy, DestroyImpatiently
<1>5. \A q \in Planes : plane'[q].conn = plane[q].conn /\ \A k \in Kinds : plane'[q][k] = plane[q][k]
  <2>1. plane \in [Planes -> PlaneStates]
    BY DEF VideoInv, TypeOK
  <2>2. QED
    BY <1>4, <2>1 DEF PlaneStates, Kinds
<1>6. QED
  BY <1>1, <1>3, <1>5, NothingMoves

\* A frame that cannot be imported.
LEMMA BadFrameMovesNothing ==
  ASSUME VideoInv, TypeOK', NEW c \in Conns, NEW b \in Buffers, HandleBadFrame(c, b)
  PROVE  PlacesInv'
<1>1. UNCHANGED <<step, messages, offload, sent, freed, freedTwice, kept, vfm, plane>>
  BY DEF HandleBadFrame, connVars, offloadVars, freeVars
<1>2. /\ lent' = [lent EXCEPT ![c] = @ \cup {b}] /\ lent \in [Conns -> SUBSET Buffers]
      /\ refused' = [refused EXCEPT ![c] = @ \cup {b}] /\ refused \in [Conns -> SUBSET Buffers]
  BY DEF HandleBadFrame, VideoInv, TypeOK
<1>3. GivesBack({})
  <2>1. \A d : Buffered({}, d) = {}
    BY DEF Buffered
  <2>2. \A d \in Conns : lent[d] \subseteq lent'[d] /\ lent'[d] \ refused'[d] \subseteq lent[d] \ refused[d]
    BY <1>2
  <2>3. QED
    BY <1>1, <2>1, <2>2 DEF GivesBack
<1>4. StepsOn
  BY <1>1 DEF StepsOn, OnPlane, Serving
<1>5. \A f : f \in ToRelease' <=> f \in ToRelease
  BY <1>1, InRelease, InReleaseNext DEF VideoInv
<1>6. ToRelease' = ToRelease
  BY <1>5
<1>7. FrameInv'
  BY <1>1, <1>3, <1>4, <1>6, Still DEF VideoInv, PlacesInv
<1>8. MessagesApart' /\ QueuesIncrease'
  BY <1>1 DEF MessagesApart, QueuesIncrease, IsRelease, VideoInv, PlacesInv
<1>9. QED
  BY <1>7, <1>8 DEF PlacesInv

\* The offload thread wakes, and takes and executes messages.
LEMMA OffloadKeeps ==
  ASSUME VideoInv, TypeOK', Offload
  PROVE  PlacesInv'
<1>1. UNCHANGED <<step, sent, refused, kept, vfm, plane>>
  BY DEF Offload, Wake, PopMessage, WorkOff, connVars, clientVars
<1>2. StepsOn /\ QueuesIncrease'
  BY <1>1 DEF StepsOn, OnPlane, Serving, QueuesIncrease, VideoInv, PlacesInv
<1>3. CASE Wake
  <2>1. UNCHANGED <<messages, freed, freedTwice, lent>> /\ offload.step # "work" /\ offload'.step # "work"
    BY <1>3 DEF Wake, Waiting, Draining, freeVars, clientVars
  <2>2. MessagesApart'
    BY <2>1 DEF MessagesApart, IsRelease, VideoInv, PlacesInv
  <2>3. \A f : f \in ToRelease' <=> f \in ToRelease
    BY <2>1, InRelease, InReleaseNext DEF VideoInv
  <2>4. ToRelease' = ToRelease /\ GivesBack({})
    BY <1>1, <2>1, <2>3, NothingGives
  <2>5. QED
    BY <1>1, <1>2, <2>2, <2>4, Still DEF VideoInv, PlacesInv
<1>4. CASE PopMessage
  <2>1. MessagesApart' /\ ToRelease' = ToRelease
    BY <1>4, PopMoves DEF VideoInv, PlacesInv
  <2>2. GivesBack({})
    BY <1>4, NothingGives DEF PopMessage, freeVars, clientVars
  <2>3. QED
    BY <1>1, <1>2, <2>1, <2>2, Still DEF VideoInv, PlacesInv
<1>5. CASE WorkOff
  <2>1. MessagesApart'
    BY <1>5, WorkGives DEF VideoInv, PlacesInv
  <2>2. PICK Z \in SUBSET ToRelease :
               /\ GivesBack(Z) /\ ToRelease' \subseteq ToRelease /\ ToRelease \subseteq ToRelease' \cup Z
               /\ \A g \in Z, f \in ToRelease' : f.fb # g.fb
    BY <1>5, WorkGives DEF VideoInv, PlacesInv
  <2>3. FrameInv'
    <3>1. Leaving({}, {}, Z)
      <4>1. \A p \in Planes : Queued(p)' = Queued(p)
        BY <1>1 DEF Queued
      <4>2. {} \cup Z = Z
        OBVIOUS
      <4>3. QED
        BY <1>1, <1>2, <2>2, <4>1, <4>2 DEF Leaving
    <3>2. QED
      BY <3>1, LeavingKeeps DEF VideoInv, PlacesInv
  <2>4. QED
    BY <1>2, <2>1, <2>3 DEF PlacesInv
<1>6. QED
  BY <1>3, <1>4, <1>5 DEF Offload

\* A frame leaves the queue of the plane that is checked.
LEMMA DropKeeps ==
  ASSUME VideoInv, TypeOK', UNCHANGED <<step, plane, offload, sent, refused, kept>>,
         NEW p \in Planes, NEW f \in Queued(p),
         IF f.bufferId = vfm[p].bufferIdCurrent THEN NoPush
           ELSE SendBufferRelease(plane[p].conn, f),
         \A q \in Planes : /\ Queued(q)' = IF q = p THEN Queued(q) \ {f} ELSE Queued(q)
                           /\ vfm'[q].bufferIdCurrent = vfm[q].bufferIdCurrent
  PROVE  FrameInv' /\ MessagesApart'
<1>1. f \in Frames /\ f.fb[1] = plane[p].conn /\ plane[p].conn \in Conns
  BY QueueType, FrameFields DEF VideoInv, PlacesInv, FrameInv, Belong, QueuesBelong
<1>2. \A g \in ToRelease : g.fb # f.fb
  BY DEF VideoInv, PlacesInv, FrameInv, Apart, ReleasesApart
<1>3. StepsOn
  BY DEF StepsOn, OnPlane, Serving
<1>4. CASE f.bufferId = vfm[p].bufferIdCurrent
  <2>1. messages' = messages /\ GivesBack({})
    BY <1>4, NothingGives DEF NoPush
  <2>2. MessagesApart'
    BY <2>1 DEF MessagesApart, IsRelease, VideoInv, PlacesInv
  <2>3. \A g : g \in ToRelease' <=> g \in ToRelease
    BY <2>1, InRelease, InReleaseNext DEF VideoInv
  <2>4. Leaving({}, {}, {})
    <3>1. {} \cup {} = {}
      OBVIOUS
    <3>2. QED
      BY <1>3, <1>4, <2>1, <2>3, <3>1 DEF Leaving
  <2>5. QED
    BY <2>2, <2>4, LeavingKeeps DEF VideoInv, PlacesInv
<1>5. CASE f.bufferId # vfm[p].bufferIdCurrent
  <2>1. SendBufferRelease(plane[p].conn, f)
    BY <1>5
  <2>2. MessagesApart' /\ \E X \in SUBSET {f} : ToRelease' = ToRelease \cup X /\ GivesBack({f} \ X)
    BY <1>1, <1>2, <2>1, PushGives DEF VideoInv, PlacesInv
  <2>3. PICK X \in SUBSET {f} : ToRelease' = ToRelease \cup X /\ GivesBack({f} \ X)
    BY <2>2
  <2>4. PICK G : G = {f} \ X
    OBVIOUS
  <2>5. X = {} \/ G = {}
    BY <2>4
  <2>6. X \cup G = {f} /\ G \cup {} = G
    BY <2>4
  <2>7. GivesBack(G \cup {})
    BY <2>3, <2>4, <2>6
  <2>8. Leaving(X, G, {})
    <3>1. \A g \in X \cup G : g = f
      BY <2>6
    <3>2. \A q \in Planes : \A g \in Queued(q) \ Queued(q)' : q = p /\ g = f /\ g \in X \cup G
      BY <2>6
    <3>3. f \in Queued(p) \ Queued(p)' /\ f.bufferId # vfm[p].bufferIdCurrent
      BY <1>5
    <3>4. \A q \in Planes : Queued(q)' \subseteq Queued(q)
      OBVIOUS
    <3>5. QED
      BY <1>3, <2>3, <2>5, <2>7, <3>1, <3>2, <3>3, <3>4 DEF Leaving
  <2>9. QED
    BY <2>2, <2>8, LeavingKeeps DEF VideoInv, PlacesInv
<1>6. QED
  BY <1>4, <1>5

\* A frame is dropped, or the one on the screen is replaced.
LEMMA DroppingKeeps ==
  ASSUME VideoInv, TypeOK', Drain \/ DropExpired \/ DropEarly \/ SecondDue
  PROVE  PlacesInv'
<1> DEFINE p == used[refresh.at]
           q == vfm[p].queue
<1>1. UNCHANGED <<step, plane, offload, sent, refused, kept>>
  BY DEF Drain, DropExpired, DropEarly, SecondDue, connVars, offloadVars, clientVars
<1>2. refresh.step \in Pops
  BY DEF Drain, DropExpired, DropEarly, SecondDue, Pops
<1>3. /\ p \in Planes /\ q \in Seq(Frames) /\ Increasing(q) /\ vfm[p] \in Managers
      /\ plane[p].conn \in Conns
  BY <1>2, RefreshAt, PopPlane DEF VideoInv, PlacesInv, FrameInv, Belong, QueuesIncrease
<1>4. vfm \in [Planes -> Managers]
  BY DEF VideoInv, TypeOK
<1>5. ASSUME NEW f \in Queued(p), NEW r \in Seq(Frames), Increasing(r), ToSet(r) = ToSet(q) \ {f},
             IF f.bufferId = vfm[p].bufferIdCurrent THEN NoPush
               ELSE SendBufferRelease(plane[p].conn, f),
             NEW b, vfm' = [vfm EXCEPT ![p].queue = r, ![p].frameAdvance = b]
                    \/ vfm' = [vfm EXCEPT ![p].queue = r]
      PROVE  PlacesInv'
  <2>0. vfm'[p].queue = r /\ vfm'[p].bufferIdCurrent = vfm[p].bufferIdCurrent
    <3>1. CASE vfm' = [vfm EXCEPT ![p].queue = r, ![p].frameAdvance = b]
      BY <1>3, <1>4, <3>1 DEF Managers
    <3>2. CASE vfm' = [vfm EXCEPT ![p].queue = r]
      BY <1>3, <1>4, <3>2 DEF Managers
    <3>3. QED
      BY <1>5, <3>1, <3>2
  <2>1. \A x \in Planes : /\ vfm'[x].queue = IF x = p THEN r ELSE vfm[x].queue
                          /\ vfm'[x].bufferIdCurrent = vfm[x].bufferIdCurrent
    <3>1. \A x \in Planes : x # p => vfm'[x] = vfm[x]
      BY <1>4, <1>5
    <3>2. QED
      BY <2>0, <3>1
  <2>2. \A x \in Planes : Queued(x)' = IF x = p THEN Queued(x) \ {f} ELSE Queued(x)
    BY <1>5, <2>1 DEF Queued
  <2>3. QueuesIncrease'
    BY <1>5, <2>1 DEF QueuesIncrease, VideoInv, PlacesInv
  <2>4. \A x \in Planes : /\ Queued(x)' = IF x = p THEN Queued(x) \ {f} ELSE Queued(x)
                          /\ vfm'[x].bufferIdCurrent = vfm[x].bufferIdCurrent
    BY <2>1, <2>2
  <2>5. FrameInv' /\ MessagesApart'
    BY <1>1, <1>3, <1>5, <2>4, DropKeeps
  <2>6. QED
    BY <2>3, <2>5 DEF PlacesInv
<1>6. ASSUME q # <<>>
      PROVE  /\ Tail(q) \in Seq(Frames) /\ Increasing(Tail(q)) /\ ToSet(Tail(q)) = ToSet(q) \ {Head(q)}
             /\ Head(q) \in Queued(p)
  BY <1>3, <1>6, TailIncreases, QueueFacts DEF Queued
<1>7. CASE Drain
  <2>1. CASE Len(q) > 1
    <3>1. /\ vfm' = [vfm EXCEPT ![p].queue = Tail(q)]
          /\ IF Head(q).bufferId = vfm[p].bufferIdCurrent THEN NoPush
               ELSE SendBufferRelease(plane[p].conn, Head(q))
      BY <1>7, <2>1 DEF Drain, Drop
    <3>2. q # <<>>
      BY <2>1
    <3>3. QED
      BY <1>5, <1>6, <3>1, <3>2
  <2>2. CASE ~(Len(q) > 1)
    <3>1. UNCHANGED <<vfm, messages, lent, freed, freedTwice>>
      BY <1>7, <2>2 DEF Drain, NoPush
    <3>2. StepsOn
      BY <1>1 DEF StepsOn, OnPlane, Serving
    <3>3. QED
      BY <1>1, <3>1, <3>2, NothingMoves DEF clientVars, freeVars
  <2>3. QED
    BY <2>1, <2>2
<1>8. CASE DropExpired
  <2>1. /\ vfm' = [vfm EXCEPT ![p].queue = Tail(q)] /\ q # <<>>
        /\ IF Head(q).bufferId = vfm[p].bufferIdCurrent THEN NoPush
             ELSE SendBufferRelease(plane[p].conn, Head(q))
    BY <1>8 DEF DropExpired, Drop
  <2>2. QED
    BY <1>5, <1>6, <2>1
<1>9. CASE DropEarly
  <2>1. /\ vfm' = [vfm EXCEPT ![p].queue = RemoveAt(q, 2)] /\ Len(q) > 1
        /\ IF q[2].bufferId = vfm[p].bufferIdCurrent THEN NoPush
             ELSE SendBufferRelease(plane[p].conn, q[2])
    BY <1>9 DEF DropEarly, Drop
  <2>2. q[2] \in Queued(p)
    BY <1>3, <2>1, QueueFacts DEF Queued
  <2>3. QED
    BY <1>3, <1>5, <2>1, <2>2, SecondLeaves
<1>10. CASE SecondDue
  <2>1. /\ Len(q) > 1 /\ refresh.step = "second"
        /\ \E b : vfm' = [vfm EXCEPT ![p].queue = Tail(q), ![p].frameAdvance = b]
        /\ UNCHANGED <<messages, lent, freed, freedTwice>>
    BY <1>10 DEF SecondDue, offloadVars, clientVars, freeVars
  <2>2. q # <<>> /\ Head(q) = plane[p].curr /\ Real(plane[p].curr)
    BY <1>2, <2>1 DEF VideoInv, TickInv, FoundSoFar
  <2>3. Head(q).bufferId = vfm[p].bufferIdCurrent
    <3>1. Head(q) \in Queued(p) /\ "curr" \in Kinds
      BY <1>6, <2>2 DEF Kinds
    <3>2. QED
      BY <1>3, <2>2, <3>1 DEF VideoInv, PlacesInv, FrameInv, Apart, QueuesApart
  <2>4. NoPush
    BY <2>1 DEF NoPush
  <2>5. QED
    BY <1>5, <1>6, <2>1, <2>2, <2>3, <2>4
<1>11. QED
  BY <1>7, <1>8, <1>9, <1>10

\* What a flush gives back of a queue, what it only forgets, and that the queue is empty.
LEMMA DiscardKeeps ==
  ASSUME VideoInv, TypeOK', NEW p \in Planes, NEW Z \in SUBSET ToRelease,
         UNCHANGED <<step, plane, offload, sent, refused, kept>>,
         vfm' = [vfm EXCEPT ![p] = Fresh],
         \A f \in Z, g \in ToRelease' : f.fb # g.fb,
         ToRelease' \subseteq ToRelease, ToRelease \subseteq ToRelease' \cup Z,
         GivesBack(Discarded(vfm[p]) \cup Z)
  PROVE  FrameInv' /\ QueuesIncrease'
<1> DEFINE G == Discarded(vfm[p])
<1>1. vfm \in [Planes -> Managers]
  BY DEF VideoInv, TypeOK
<1>2. \A q \in Planes : vfm'[q] = IF q = p THEN Fresh ELSE vfm[q]
  BY <1>1
<1>3. \A q \in Planes : Queued(q)' = IF q = p THEN {} ELSE Queued(q)
  BY <1>2 DEF Queued, Fresh, ToSet
<1>4. \A f : f \in G <=> f \in Queued(p) /\ f.bufferId # vfm[p].bufferIdCurrent
  BY DEF Discarded, Queued
<1>5. StepsOn
  BY DEF StepsOn, OnPlane, Serving
<1>6. Leaving({}, G, Z)
  <2>1. \A q \in Planes :
          /\ Queued(q)' \subseteq Queued(q)
          /\ \/ vfm'[q].bufferIdCurrent = vfm[q].bufferIdCurrent
             \/ Queued(q)' = {} /\ vfm'[q].bufferIdCurrent = NoBuffer
          /\ \A f \in Queued(q) \ Queued(q)' :
               f.bufferId = vfm[q].bufferIdCurrent \/ f \in {} \cup G
    BY <1>2, <1>3, <1>4 DEF Fresh
  <2>2. \A f \in {} \cup G : \E q \in Planes :
          f \in Queued(q) \ Queued(q)' /\ f.bufferId # vfm[q].bufferIdCurrent
    BY <1>3, <1>4
  <2>3. QED
    BY <1>5, <2>1, <2>2 DEF Leaving
<1>7. FrameInv'
  BY <1>6, LeavingKeeps DEF VideoInv, PlacesInv
<1>8. QueuesIncrease'
  BY <1>2 DEF QueuesIncrease, Increasing, Fresh, VideoInv, PlacesInv
<1>9. QED
  BY <1>7, <1>8

\* A flush, a new session, and the last flush of a connection.
LEMMA FlushingKeeps ==
  ASSUME VideoInv, TypeOK', NEW c \in Conns, HandleFlush(c) \/ HandleSession(c) \/ FlushOffload(c)
  PROVE  PlacesInv'
<1> DEFINE p == planeOf[c]
           P == PendingReleases(c)
           D == Discarded(vfm[p])
<1>1. ASSUME Serving(c)
      PROVE  p \in Planes /\ D \in SUBSET Frames /\ \A f \in D : f.fb[1] = c
  <2>1. p \in Planes /\ plane[p].conn = c
    BY <1>1, PlaneOfConn DEF Serving, OnPlane, VideoInv
  <2>2. QED
    BY <2>1, QueueType DEF VideoInv, PlacesInv, FrameInv, Belong, QueuesBelong
<1>2. ASSUME messages' = Flushed(c), offload' = offload
      PROVE  /\ MessagesApart'
             /\ P \in SUBSET Frames /\ P \subseteq ToRelease /\ \A f \in P : f.fb[1] = c
             /\ \A f \in P, g \in ToRelease' : f.fb # g.fb
             /\ ToRelease' \subseteq ToRelease /\ ToRelease \subseteq ToRelease' \cup P
  BY <1>2, FlushedMoves DEF VideoInv, PlacesInv
<1>3. CASE HandleFlush(c)
  <2>1. /\ Serving(c) /\ messages' = Flushed(c) /\ offload' = offload
        /\ FreeAndReturn(c, P \cup D) /\ vfm' = [vfm EXCEPT ![p] = Fresh]
        /\ UNCHANGED <<step, plane, offload, sent, refused, kept>>
    BY <1>3 DEF HandleFlush, connVars
  <2>2. GivesBack(P \cup D)
    <3>1. PICK S : S = P \cup D
      OBVIOUS
    <3>2. S \in SUBSET Frames /\ \A f \in S : f.fb[1] = c
      BY <1>1, <1>2, <2>1, <3>1
    <3>3. QED
      BY <2>1, <3>1, <3>2, ReturnGives DEF VideoInv
  <2>3. D \cup P = P \cup D
    OBVIOUS
  <2>4. GivesBack(D \cup P)
    BY <2>2, <2>3
  <2>5. QED
    BY <1>1, <1>2, <2>1, <2>4, DiscardKeeps DEF PlacesInv
<1>4. CASE HandleSession(c)
  <2>1. /\ Serving(c) /\ messages' = messages /\ offload' = offload
        /\ FreeAndReturn(c, D) /\ vfm' = [vfm EXCEPT ![p] = Fresh]
        /\ UNCHANGED <<step, plane, offload, sent, refused, kept>>
    BY <1>4 DEF HandleSession, offloadVars
  <2>2. GivesBack(D)
    BY <1>1, <2>1, ReturnGives DEF VideoInv
  <2>3. D \cup {} = D /\ {} \in SUBSET ToRelease
    OBVIOUS
  <2>4. GivesBack(D \cup {})
    BY <2>2, <2>3
  <2>5. \A f : f \in ToRelease' <=> f \in ToRelease
    BY <2>1, InRelease, InReleaseNext DEF VideoInv
  <2>6. FrameInv' /\ QueuesIncrease'
    <3>1. PICK Z : Z = {}
      OBVIOUS
    <3>2. ToRelease' \subseteq ToRelease /\ ToRelease \subseteq ToRelease' \cup Z
      BY <2>5
    <3>3. Z \in SUBSET ToRelease /\ (\A f \in Z, g \in ToRelease' : f.fb # g.fb) /\ GivesBack(D \cup Z)
      BY <2>4, <3>1
    <3>4. QED
      BY <1>1, <2>1, <3>2, <3>3, DiscardKeeps
  <2>7. MessagesApart'
    BY <2>1 DEF MessagesApart, IsRelease, VideoInv, PlacesInv
  <2>8. QED
    BY <2>6, <2>7 DEF PlacesInv
<1>5. CASE FlushOffload(c)
  <2>1. /\ step[c] = "left" /\ step' = [step EXCEPT ![c] = "drained"]
        /\ messages' = Flushed(c) /\ offload' = offload /\ FreeAndReturn(c, P)
        /\ UNCHANGED <<vfm, plane, offload, sent, refused, kept>>
    BY <1>5 DEF FlushOffload
  <2>2. StepsOn
    BY <2>1 DEF StepsOn, OnPlane, Serving, VideoInv, TypeOK
  <2>3. GivesBack(P)
    BY <1>2, <2>1, ReturnGives DEF VideoInv
  <2>4. Leaving({}, {}, P)
    <3>1. \A q \in Planes : Queued(q)' = Queued(q)
      BY <2>1 DEF Queued
    <3>2. {} \cup P = P
      OBVIOUS
    <3>3. QED
      BY <1>2, <2>1, <2>2, <2>3, <3>1, <3>2 DEF Leaving
  <2>5. FrameInv'
    BY <2>4, LeavingKeeps DEF VideoInv, PlacesInv
  <2>6. QueuesIncrease'
    BY <2>1 DEF QueuesIncrease, VideoInv, PlacesInv
  <2>7. QED
    BY <1>2, <2>1, <2>5, <2>6 DEF PlacesInv
<1>6. QED
  BY <1>3, <1>4, <1>5

\* What left the screen goes back.
LEMMA ReleasingKeeps ==
  ASSUME VideoInv, TypeOK', ReleasePrevious
  PROVE  PlacesInv'
<1> DEFINE p == used[refresh.at]
           s == plane[p]
           f == s.free
<1>1. UNCHANGED <<step, vfm, offload, sent, refused, kept>>
  BY DEF ReleasePrevious, connVars
<1>2. p \in Planes /\ s.conn \in Conns /\ s \in PlaneStates /\ plane \in [Planes -> PlaneStates]
  BY RefreshAt, PopPlane DEF ReleasePrevious, VideoInv, TypeOK, PlacesInv, FrameInv, Belong
<1>3. StepsOn /\ QueuesIncrease'
  BY <1>1 DEF StepsOn, OnPlane, Serving, QueuesIncrease, VideoInv, PlacesInv
<1>4. CASE ~Real(f)
  <2>1. plane' = plane /\ UNCHANGED <<messages, lent, freed, freedTwice>>
    BY <1>4 DEF ReleasePrevious, Real, SendBufferRelease, NoPush
  <2>2. QED
    BY <1>1, <1>3, <2>1, NothingMoves DEF clientVars, freeVars
<1>5. CASE Real(f)
  <2>1. SendBufferRelease(s.conn, f) /\ plane' = [plane EXCEPT ![p].free = NoFrame]
    BY <1>5 DEF ReleasePrevious, Real
  <2>2. \A q \in Planes :
          /\ plane'[q].conn = plane[q].conn
          /\ plane'[q].next = plane[q].next /\ plane'[q].curr = plane[q].curr
          /\ \A k \in Kinds : plane'[q][k] = IF q = p /\ k = "free" THEN NoFrame ELSE plane[q][k]
    BY <1>2, <2>1 DEF PlaneStates, Kinds
  <2>3. "free" \in Kinds /\ plane[p]["free"] = f
    BY DEF Kinds
  <2>4. f \in Frames /\ f.fb[1] = s.conn /\ f \in Present /\ f # NoFrame
    <3>1. f.fb \in Fbs /\ f.fb[1] = s.conn
      BY <1>2, <1>5, <2>3 DEF VideoInv, PlacesInv, FrameInv, Belong, SlotsBelong
    <3>2. f \in Slots
      BY <1>2 DEF PlaneStates
    <3>3. f \in Frames
      BY <1>5, <3>1, <3>2, FrameFields
    <3>4. QED
      BY <1>2, <2>3, <3>1, <3>3, FrameFields, InPresent
  <2>5. \A g \in ToRelease : g.fb # f.fb
    BY <1>2, <2>3 DEF VideoInv, PlacesInv, FrameInv, Apart, ReleasesApart
  <2>6. MessagesApart' /\ \E X \in SUBSET {f} : ToRelease' = ToRelease \cup X /\ GivesBack({f} \ X)
    BY <1>1, <1>2, <2>1, <2>4, <2>5, PushGives DEF VideoInv, PlacesInv
  <2>7. PICK X \in SUBSET {f} : ToRelease' = ToRelease \cup X /\ GivesBack({f} \ X)
    BY <2>6
  <2>8. PICK G : G = {f} \ X
    OBVIOUS
  <2>9. \A q \in Planes : Queued(q)' = Queued(q)
    BY <1>1 DEF Queued
  <2>10. ASSUME NEW q \in Planes
         PROVE  (\A g \in Queued(q) : g.fb # f.fb) /\ \A k \in Kinds : plane'[q][k].fb # f.fb
    <3>1. CASE q = p
      <4>1. \A g \in Queued(p) : g.fb # f.fb
        BY <1>2, <2>3 DEF VideoInv, PlacesInv, FrameInv, Apart, QueuesApart
      <4>2. ASSUME NEW k \in Kinds, k # "free" PROVE plane[p][k].fb # f.fb
        BY <1>2, <2>3, <2>4, <4>2 DEF VideoInv, PlacesInv, FrameInv, Apart, SlotsApart
      <4>3. NoFrame.fb # f.fb
        BY <2>4, FrameFields DEF NoFrame
      <4>4. QED
        BY <2>2, <3>1, <4>1, <4>2, <4>3
    <3>2. CASE q # p
      <4>1. (\A g \in Queued(q) : g.fb # f.fb) /\ \A k \in Kinds : plane[q][k].fb # f.fb
        BY <1>2, <2>4, <3>2, PlanesApart DEF VideoInv, PlacesInv, FrameInv
      <4>2. QED
        BY <2>2, <3>2, <4>1
    <3>3. QED
      BY <3>1, <3>2
  <2>11. X \cup G = {f} /\ (X = {} \/ G = {})
    BY <2>8
  <2>12. ASSUME NEW g \in G, NEW h \in Present' PROVE g.fb # h.fb
    <3>1. g = f /\ ToRelease' = ToRelease
      BY <2>7, <2>11
    <3>2. QED
      BY <2>5, <2>9, <2>10, <3>1, InPresentNext
  <2>13. ASSUME NEW h \in Present, Real(h) PROVE h \in Present' \cup G
    <3>1. h = f => h \in Present' \cup G
      BY <2>7, <2>11, InPresentNext
    <3>2. ASSUME NEW q \in Planes, NEW k \in Kinds, h = plane[q][k], h # NoFrame, h # f
          PROVE  h \in Present'
      <4>1. h = plane'[q][k]
        BY <2>2, <2>3, <3>2
      <4>2. QED
        BY <3>2, <4>1, InPresentNext
    <3>3. h \in ToRelease => h \in Present'
      BY <2>7, InPresentNext
    <3>4. (\E q \in Planes : h \in Queued(q)) => h \in Present'
      BY <2>9, InPresentNext
    <3>5. QED
      BY <3>1, <3>2, <3>3, <3>4, InPresent
  <2>14. Moves(X, G)
    <3>1. X \subseteq Present /\ G \subseteq Present /\ \A h \in X \cup G : Real(h)
      BY <1>5, <2>4, <2>11
    <3>2. \A q \in Planes :
             /\ \/ plane'[q].conn = plane[q].conn
                \/ Queued(q)' = {} /\ \A k \in Kinds : ~Real(plane'[q][k])
             /\ plane'[q].next = plane[q].next /\ plane'[q].curr = plane[q].curr
             /\ \A k \in Kinds : plane'[q][k] \in {plane[q][k], NoFrame}
             /\ Queued(q)' \subseteq Queued(q)
             /\ vfm'[q].bufferIdCurrent = vfm[q].bufferIdCurrent
      BY <1>1, <2>2, <2>9
    <3>3. \A h \in X, q \in Planes :
            (\A g \in Queued(q)' : g.fb # h.fb) /\ \A k \in Kinds : plane'[q][k].fb # h.fb
      BY <2>9, <2>10, <2>11
    <3>4. GivesBack(G) /\ ToRelease' \subseteq ToRelease \cup X
      BY <2>7, <2>8
    <3>5. QED
      BY <1>1, <1>3, <2>12, <2>13, <3>1, <3>2, <3>3, <3>4 DEF Moves
  <2>15. FrameInv'
    BY <2>14, MovesKeep DEF VideoInv, PlacesInv
  <2>16. QED
    BY <1>3, <2>6, <2>15 DEF PlacesInv
<1>6. QED
  BY <1>4, <1>5

\* The frames the server has are as before, but for what ended connections left.
LEMMA SamePresent ==
  ASSUME VideoInv, TypeOK', UNCHANGED <<step, clientVars, freeVars, kept>>,
         \A f \in Present' : f \in Present,
         \A f \in Present : Real(f) => f \in Present'
  PROVE  Unique' /\ AllLent' /\ NotYetFreed' /\ FreedOnce' /\ NoLeak' /\ NoBufferLost'
<1>1. Unique /\ AllLent /\ NotYetFreed /\ FreedOnce /\ NoLeak /\ NoBufferLost
  BY DEF VideoInv, PlacesInv, FrameInv
<1>2. Unique' /\ AllLent' /\ NotYetFreed' /\ FreedOnce'
  BY <1>1 DEF Unique, AllLent, NotYetFreed, FreedOnce, Real, clientVars, freeVars
<1>3. \A f \in Present : ~Real(f) => f.fb \in kept
  BY PresentKinds DEF VideoInv, PlacesInv, FrameInv, Belong
<1>4. NoLeak'
  <2> SUFFICES ASSUME NEW c \in Conns, NEW n \in 1..sent[c]
               PROVE  <<c, n>> \in freed' \cup kept \cup {f.fb : f \in Present'}
    BY NoLeakNext DEF clientVars
  <2>1. <<c, n>> \in freed \cup kept \cup {f.fb : f \in Present}
    BY <1>1 DEF NoLeak
  <2>2. QED
    BY <1>3, <2>1 DEF freeVars
<1>5. NoBufferLost'
  <2> SUFFICES ASSUME NEW c \in Conns, Serving(c), NEW b \in lent[c] \ refused[c]
               PROVE  \E f \in Present' : f.fb[1] = c /\ f.bufferId = b
    BY DEF NoBufferLost, Serving, clientVars
  <2>1. PICK f \in Present : f.fb[1] = c /\ f.bufferId = b
    BY <1>1 DEF NoBufferLost
  <2>2. b \in Buffers
    BY DEF VideoInv, TypeOK
  <2>3. Real(f)
    BY <2>1, <2>2, VideoAssumption DEF Real
  <2>4. QED
    BY <2>1, <2>3
<1>6. QED
  BY <1>2, <1>4, <1>5

\* The frames of a plane go on by one slot.
LEMMA SwappingKeeps ==
  ASSUME VideoInv, TypeOK', SwapBuffers
  PROVE  PlacesInv'
<1> DEFINE p == used[refresh.at]
           s == plane[p]
<1>1. UNCHANGED <<step, vfm, messages, offload, clientVars, freeVars, kept>>
  BY DEF SwapBuffers, connVars
<1>2. /\ p \in Planes /\ s.conn \in Conns /\ s \in PlaneStates /\ plane \in [Planes -> PlaneStates]
      /\ refresh.at \in 1..Len(used) /\ refresh # Idle /\ refresh.step = "swap"
  BY RefreshAt, PopPlane DEF SwapBuffers, VideoInv, TypeOK, PlacesInv, FrameInv, Belong
<1>3. StepsOn /\ QueuesIncrease' /\ MessagesApart'
  BY <1>1 DEF StepsOn, OnPlane, Serving, QueuesIncrease, MessagesApart, IsRelease, VideoInv, PlacesInv
<1>4. CASE plane' = plane
  BY <1>1, <1>3, <1>4, NothingMoves
<1>5. CASE s.next # NoFrame /\ plane' = [plane EXCEPT ![p] = Rotated(s)]
  <2>1. /\ \A q \in Planes : plane'[q] = IF q = p THEN Rotated(s) ELSE plane[q]
        /\ Rotated(s).conn = s.conn /\ Rotated(s).next = NoFrame /\ Rotated(s).curr = s.next
        /\ Rotated(s).prev = s.curr /\ Rotated(s).free = s.prev
    BY <1>2, <1>5 DEF Rotated, PlaneStates
  <2>2. /\ Belong /\ QueuesBelong /\ SlotsBelong /\ ReleasesBelong /\ KeptAreOld /\ FreedWereSent
        /\ SlotsApart /\ QueuesApart /\ ReleasesApart /\ CurrentIsNewest /\ Unique /\ InOrder
    BY DEF VideoInv, PlacesInv, FrameInv, Belong, Apart
  <2>3. Real(s.next)
    <3>1. "next" \in Kinds /\ plane[p]["next"] = s.next
      BY DEF Kinds
    <3>2. QED
      BY <1>2, <1>5, <2>2, <3>1 DEF SlotsBelong
  <2>4. ~Real(s.free)
    BY <1>2 DEF VideoInv, TickInv, FreeWaits, Idle
  <2>5. PICK from : from = [k \in Kinds |-> IF k = "curr" THEN "next" ELSE
                                            IF k = "prev" THEN "curr" ELSE "prev"]
    OBVIOUS
  <2>6. /\ \A k \in Kinds : from[k] \in Kinds
        /\ \A k, l \in Kinds \ {"next"} : from[k] = from[l] => k = l
        /\ \A k \in Kinds \ {"next"} : plane'[p][k] = plane[p][from[k]]
        /\ plane'[p]["next"] = NoFrame
    BY <1>2, <2>1, <2>5 DEF Kinds
  <2>7. \A q \in Planes : Queued(q)' = Queued(q) /\ plane'[q].conn = plane[q].conn
    BY <1>1, <2>1 DEF Queued
  <2>8. \A f : f \in ToRelease' <=> f \in ToRelease
    BY <1>1, InRelease, InReleaseNext DEF VideoInv
  <2>9. \A q \in Planes, k \in Kinds :
          plane'[q][k] = NoFrame \/ \E l \in Kinds : plane'[q][k] = plane[q][l]
    <3> TAKE q \in Planes, k \in Kinds
    <3>1. CASE q # p
      BY <2>1, <3>1
    <3>2. CASE q = p /\ k = "next"
      BY <2>6, <3>2
    <3>3. CASE q = p /\ k # "next"
      BY <2>6, <3>3
    <3>4. QED
      BY <3>1, <3>2, <3>3
  <2>10. ASSUME NEW f \in Present' PROVE f \in Present
    BY <2>7, <2>8, <2>9, InPresent, InPresentNext
  <2>11. ASSUME NEW f \in Present, Real(f) PROVE f \in Present'
    <3>1. (\E q \in Planes : f \in Queued(q)) \/ f \in ToRelease => f \in Present'
      BY <2>7, <2>8, InPresentNext
    <3>2. ASSUME NEW q \in Planes, NEW k \in Kinds, f = plane[q][k], f # NoFrame, q # p
          PROVE  f \in Present'
      <4>1. f = plane'[q][k]
        BY <2>1, <3>2
      <4>2. QED
        BY <3>2, <4>1, InPresentNext
    <3>3. ASSUME NEW k \in Kinds, f = plane[p][k], f # NoFrame PROVE f \in Present'
      <4>1. k # "free"
        BY <2>4, <2>11, <3>3
      <4>2. \E l \in Kinds : f = plane'[p][l]
        BY <1>2, <2>1, <3>3, <4>1 DEF Kinds
      <4>3. QED
        BY <1>2, <3>3, <4>2, InPresentNext
    <3>4. QED
      BY <3>1, <3>2, <3>3, InPresent
  <2>12. Unique' /\ AllLent' /\ NotYetFreed' /\ FreedOnce' /\ NoLeak' /\ NoBufferLost'
    BY <1>1, <2>10, <2>11, SamePresent
  <2>13. Belong'
    <3>1. QueuesBelong' /\ ReleasesBelong' /\ KeptAreOld' /\ FreedWereSent'
      BY <1>1, <2>2, <2>7, <2>8
         DEF QueuesBelong, ReleasesBelong, KeptAreOld, FreedWereSent, OnPlane, clientVars, freeVars
    <3>2. SlotsBelong'
      <4> SUFFICES ASSUME NEW q \in Planes, NEW k \in Kinds
                   PROVE  /\ Real(plane'[q][k]) =>
                               /\ plane'[q][k].fb \in Fbs
                               /\ plane'[q][k].fb[1] = plane'[q].conn
                               /\ plane'[q][k].fb[2] <= sent[plane'[q][k].fb[1]]
                          /\ ~Real(plane'[q][k]) =>
                               plane'[q][k] = NoFrame \/ (k # "next" /\ plane'[q][k].fb \in kept)
        BY <1>1 DEF SlotsBelong, Real, clientVars
      <4>1. CASE q # p
        BY <2>1, <2>2, <4>1 DEF SlotsBelong
      <4>2. CASE q = p /\ k = "next"
        BY <2>6, <4>2, FrameFields
      <4>3. CASE q = p /\ k # "next"
        <5>1. plane'[p][k] = plane[p][from[k]] /\ from[k] \in Kinds
          BY <2>6, <4>3
        <5>2. QED
          BY <2>2, <2>7, <4>3, <5>1 DEF SlotsBelong
      <4>4. QED
        BY <4>1, <4>2, <4>3
    <3>3. QED
      BY <3>1, <3>2 DEF Belong
  <2>14. Apart'
    <3>1. SlotsApart'
      <4> SUFFICES ASSUME NEW q \in Planes, NEW r \in Planes, NEW k \in Kinds, NEW l \in Kinds,
                          plane'[q][k].fb = plane'[r][l].fb, plane'[q][k] # NoFrame
                   PROVE  q = r /\ k = l
        BY DEF SlotsApart
      <4> DEFINE src(x, m) == IF x = p THEN from[m] ELSE m
      <4>1. ASSUME NEW x \in Planes, NEW m \in Kinds, plane'[x][m] # NoFrame
            PROVE  /\ plane'[x][m] = plane[x][src(x, m)] /\ src(x, m) \in Kinds
                   /\ x = p => m # "next"
        BY <2>1, <2>6, <4>1
      <4>2. plane'[q][k].fb \in Fbs
        BY <2>2, <4>1, SlotFb DEF VideoInv
      <4>3. plane'[r][l] # NoFrame
        BY <4>2, FrameFields DEF NoFrame
      <4>4. q = r /\ src(q, k) = src(r, l)
        <5>1. PICK a \in Kinds : a = src(q, k) /\ plane'[q][k] = plane[q][a]
          BY <4>1
        <5>2. PICK b \in Kinds : b = src(r, l) /\ plane'[r][l] = plane[r][b]
          BY <4>1, <4>3
        <5>3. QED
          BY <2>2, <5>1, <5>2 DEF SlotsApart
      <4>5. QED
        BY <2>6, <4>1, <4>3, <4>4
    <3>2. QueuesApart'
      <4> SUFFICES ASSUME NEW q \in Planes, NEW k \in Kinds, NEW f \in Queued(q),
                          f.fb = plane'[q][k].fb
                   PROVE  k \in {"next", "curr"} /\ plane'[q][k] = f /\ f.bufferId = vfm[q].bufferIdCurrent
        BY <1>1, <2>7 DEF QueuesApart
      <4>1. CASE q # p
        BY <2>1, <2>2, <4>1 DEF QueuesApart
      <4>2. CASE q = p
        <5>1. f \in Frames /\ f.fb # NoFb /\ Real(f) /\ f \in Present /\ f.fb[1] = s.conn
          BY <2>2, <4>2, QueueType, FrameFields, InPresent DEF VideoInv, QueuesBelong
        <5>2. k # "next" /\ plane'[p][k] = plane[p][from[k]] /\ from[k] \in Kinds
          BY <2>6, <4>2, <5>1 DEF NoFrame
        <5>3. /\ from[k] \in {"next", "curr"} /\ plane[p][from[k]] = f
              /\ f.bufferId = vfm[p].bufferIdCurrent
          BY <2>2, <4>2, <5>2 DEF QueuesApart
        <5>4. f = s.next
          BY <1>2, <1>5, <4>2, <5>3, CurrentHeld DEF Newest, VideoInv, PlacesInv
        <5>5. from[k] = "next"
          BY <1>2, <1>5, <2>2, <5>2, <5>3, <5>4 DEF SlotsApart, Kinds
        <5>6. k = "curr"
          BY <2>5, <5>2, <5>5
        <5>7. QED
          BY <4>2, <5>2, <5>3, <5>6
      <4>3. QED
        BY <4>1, <4>2
    <3>3. ReleasesApart'
      <4> SUFFICES ASSUME NEW f \in ToRelease, NEW q \in Planes
                   PROVE  /\ \A g \in Queued(q) : g.fb # f.fb
                          /\ \A k \in Kinds : plane'[q][k].fb # f.fb
        BY <2>7, <2>8 DEF ReleasesApart
      <4>1. NoFrame.fb # f.fb
        BY InRelease, FrameFields DEF VideoInv, NoFrame
      <4>2. QED
        BY <2>2, <2>9, <4>1 DEF ReleasesApart
    <3>4. QED
      BY <3>1, <3>2, <3>3 DEF Apart
  <2>15. CurrentIsNewest'
    <3> SUFFICES ASSUME NEW q \in Planes, vfm[q].bufferIdCurrent # NoBuffer
                 PROVE  Newest(q)'.bufferId = vfm[q].bufferIdCurrent
      BY <1>1 DEF CurrentIsNewest
    <3>1. Newest(q)' = Newest(q)
      <4>1. CASE q = p
        BY <1>5, <2>1, <4>1 DEF Newest
      <4>2. CASE q # p
        BY <2>1, <4>2 DEF Newest
      <4>3. QED
        BY <4>1, <4>2
    <3>2. QED
      BY <2>2, <3>1 DEF CurrentIsNewest
  <2>16. InOrder'
    <3> SUFFICES ASSUME NEW q \in Planes
                 PROVE  /\ plane'[q].next # NoFrame => Older(plane'[q].curr, plane'[q].next)
                        /\ \A f \in Queued(q), k \in {"next", "curr"} :
                             Real(plane'[q][k]) => plane'[q][k].fb[2] <= f.fb[2]
      BY <2>7 DEF InOrder, Older, Real
    <3>1. CASE q # p
      BY <2>1, <2>2, <3>1 DEF InOrder
    <3>2. CASE q = p
      <4>1. plane'[p].next = NoFrame /\ plane'[p]["curr"] = plane[p]["next"]
        BY <1>2, <2>1
      <4>2. \A f \in Queued(p) : Real(plane[p]["next"]) => plane[p]["next"].fb[2] <= f.fb[2]
        BY <1>2, <2>2 DEF InOrder
      <4>3. \A k \in {"next", "curr"} : Real(plane'[p][k]) => k = "curr"
        BY <4>1, FrameFields
      <4>4. \A f \in Queued(p), k \in {"next", "curr"} :
              Real(plane'[p][k]) => plane'[p][k].fb[2] <= f.fb[2]
        BY <4>1, <4>2, <4>3
      <4>5. QED
        BY <3>2, <4>1, <4>4
    <3>3. QED
      BY <3>1, <3>2
  <2>17. FrameInv'
    BY <2>12, <2>13, <2>14, <2>15, <2>16 DEF FrameInv
  <2>18. QED
    BY <1>3, <2>17 DEF PlacesInv
<1>6. QED
  BY <1>4, <1>5 DEF SwapBuffers

\* A notice to a client moves no frame.
LEMMA NoticeMovesNothing ==
  ASSUME VideoInv, TypeOK', NEW c \in Conns, SendNotice(c) \/ UNCHANGED messages, offload' = offload
  PROVE  MessagesApart' /\ ToRelease' = ToRelease
<1>1. CASE messages' = Append(messages, Notice(c))
  <2>1. Notice(c) \in Messages /\ ~IsRelease(Notice(c))
    BY MessageFields
  <2>2. MessagesApart' /\ ToRelease' = ToRelease \cup {}
    BY <1>1, <2>1, AppendMessage DEF VideoInv, PlacesInv
  <2>3. QED
    BY <2>2
<1>2. CASE messages' = messages
  <2>1. \A f : f \in ToRelease' <=> f \in ToRelease
    BY <1>2, InRelease, InReleaseNext DEF VideoInv
  <2>2. MessagesApart'
    BY <1>2 DEF MessagesApart, IsRelease, VideoInv, PlacesInv
  <2>3. QED
    BY <2>1, <2>2
<1>3. QED
  BY <1>1, <1>2 DEF SendNotice

\* The frame found becomes the current one, and the next for the screen.
LEMMA TakingKeeps ==
  ASSUME VideoInv, TypeOK', TakeFrame
  PROVE  PlacesInv'
<1> DEFINE p == used[refresh.at]
           s == plane[p]
           v == vfm[p]
           f == refresh.frame
           isNew == f # NoFrame /\ f.fb # s.curr.fb
<1>1. UNCHANGED <<step, offload, clientVars, freeVars, kept>>
  BY DEF TakeFrame, connVars
<1>2. /\ p \in Planes /\ s.conn \in Conns /\ s \in PlaneStates /\ plane \in [Planes -> PlaneStates]
      /\ vfm \in [Planes -> Managers] /\ v.queue \in Seq(Frames)
      /\ refresh.at \in 1..Len(used) /\ refresh.step = "take" /\ refresh # Idle
      /\ f \in Frames \cup {NoFrame}
  BY RefreshAt, PopPlane DEF TakeFrame, VideoInv, TypeOK, PlacesInv, FrameInv, Belong, Pops
<1>3. StepsOn
  BY <1>1 DEF StepsOn, OnPlane, Serving
<1>4. MessagesApart' /\ ToRelease' = ToRelease
  <2>1. SendNotice(s.conn) \/ UNCHANGED messages
    BY DEF TakeFrame
  <2>2. QED
    BY <1>1, <1>2, <2>1, NoticeMovesNothing
<1>5. \A q \in Planes :
        /\ vfm'[q].queue = vfm[q].queue
        /\ vfm'[q].bufferIdCurrent =
             IF q = p /\ f # NoFrame THEN f.bufferId ELSE vfm[q].bufferIdCurrent
  <2>1. PICK a, b : /\ vfm' = [vfm EXCEPT ![p] =
                           [v EXCEPT !.bufferIdCurrent = a, !.underflowReported = b]]
                    /\ a = IF f = NoFrame THEN v.bufferIdCurrent ELSE f.bufferId
    BY DEF TakeFrame
  <2>2. QED
    BY <1>2, <2>1 DEF Managers
<1>6. \A q \in Planes : Queued(q)' = Queued(q)
  BY <1>5 DEF Queued
<1>7. QueuesIncrease'
  BY <1>5 DEF QueuesIncrease, VideoInv, PlacesInv
<1>8. GivesBack({})
  BY <1>1, NothingGives DEF clientVars, freeVars
<1>9. CASE f = NoFrame
  <2>1. plane' = plane /\ \A q \in Planes : vfm'[q].bufferIdCurrent = vfm[q].bufferIdCurrent
    BY <1>5, <1>9 DEF TakeFrame
  <2>2. FrameInv'
    BY <1>1, <1>3, <1>4, <1>5, <1>8, <2>1, Still DEF VideoInv, PlacesInv, clientVars
  <2>3. QED
    BY <1>4, <1>7, <2>2 DEF PlacesInv
<1>10. CASE f # NoFrame
  <2>1. /\ Belong /\ QueuesBelong /\ SlotsBelong /\ ReleasesBelong /\ KeptAreOld /\ FreedWereSent
        /\ SlotsApart /\ QueuesApart /\ ReleasesApart /\ CurrentIsNewest /\ Unique /\ InOrder
    BY DEF VideoInv, PlacesInv, FrameInv, Belong, Apart
  <2>2. f \in Frames /\ Real(f) /\ f.fb # NoFb
    BY <1>2, <1>10, FrameFields
  <2>3. s.next = NoFrame
    BY <1>2 DEF VideoInv, TickInv, NextWaits, Pops
  <2>4. plane[p]["next"] = s.next /\ plane[p]["curr"] = s.curr /\ "next" \in Kinds /\ "curr" \in Kinds
    BY DEF Kinds
  <2>5. f = s.curr \/ (v.queue # <<>> /\ f = Head(v.queue))
    BY <1>2, <1>10 DEF VideoInv, TickInv, FoundSoFar, Pops, Held
  <2>6. f.fb[1] = s.conn /\ \A g \in Queued(p) : f = g \/ f.fb[2] < g.fb[2] \/ f = s.curr
    <3>1. CASE f = s.curr
      BY <1>2, <2>1, <2>2, <2>4, <3>1 DEF SlotsBelong
    <3>2. CASE v.queue # <<>> /\ f = Head(v.queue)
      <4>1. Increasing(v.queue)
        BY <1>2 DEF VideoInv, PlacesInv, QueuesIncrease
      <4>2. f \in Queued(p) /\ \A g \in Queued(p) : f = g \/ f.fb[2] < g.fb[2]
        BY <1>2, <3>2, <4>1, QueueFacts DEF Queued
      <4>3. QED
        BY <1>2, <2>1, <4>2 DEF QueuesBelong
    <3>3. QED
      BY <2>5, <3>1, <3>2
  <2>7. isNew => f \in Queued(p)
    <3>1. Increasing(v.queue)
      BY <1>2 DEF VideoInv, PlacesInv, QueuesIncrease
    <3>2. QED
      BY <1>2, <2>5, <3>1, QueueFacts DEF Queued
  <2>8. ~isNew => f = s.curr
    <3>1. Increasing(v.queue)
      BY <1>2 DEF VideoInv, PlacesInv, QueuesIncrease
    <3>2. ASSUME f.fb = s.curr.fb, v.queue # <<>>, f = Head(v.queue) PROVE f = s.curr
      <4>1. f \in Queued(p)
        BY <1>2, <3>1, <3>2, QueueFacts DEF Queued
      <4>2. QED
        BY <1>2, <2>1, <2>4, <3>2, <4>1 DEF QueuesApart
    <3>3. QED
      BY <1>10, <2>5, <3>2
  <2>9. \A q \in Planes :
          /\ plane'[q].conn = plane[q].conn
          /\ \A k \in Kinds : plane'[q][k] = IF isNew /\ q = p /\ k = "next" THEN f ELSE plane[q][k]
          /\ plane'[q].next = IF isNew /\ q = p THEN f ELSE plane[q].next
          /\ plane'[q].curr = plane[q].curr
    <3>1. plane' = IF isNew THEN [plane EXCEPT ![p].next = f] ELSE plane
      BY DEF TakeFrame
    <3>2. QED
      BY <1>2, <3>1 DEF PlaneStates, Kinds
  <2>10. ASSUME NEW g \in Present' PROVE g \in Present
    <3>1. g \in ToRelease' \/ (\E q \in Planes : g \in Queued(q)') => g \in Present
      BY <1>4, <1>6, InPresent
    <3>2. ASSUME NEW q \in Planes, NEW k \in Kinds, g = plane'[q][k], g # NoFrame
          PROVE  g \in Present
      <4>1. CASE isNew /\ q = p /\ k = "next"
        <5>1. g = f /\ f \in Queued(p)
          BY <2>7, <2>9, <3>2, <4>1
        <5>2. QED
          BY <1>2, <5>1, InPresent
      <4>2. CASE ~(isNew /\ q = p /\ k = "next")
        <5>1. g = plane[q][k]
          BY <2>9, <3>2, <4>2
        <5>2. QED
          BY <3>2, <5>1, InPresent
      <4>3. QED
        BY <4>1, <4>2
    <3>3. QED
      BY <3>1, <3>2, InPresentNext
  <2>11. ASSUME NEW g \in Present PROVE g \in Present'
    <3>1. g \in ToRelease \/ (\E q \in Planes : g \in Queued(q)) => g \in Present'
      BY <1>4, <1>6, InPresentNext
    <3>2. ASSUME NEW q \in Planes, NEW k \in Kinds, g = plane[q][k], g # NoFrame
          PROVE  g \in Present'
      <4>1. plane'[q][k] = g
        BY <2>3, <2>4, <2>9, <3>2
      <4>2. QED
        BY <3>2, <4>1, InPresentNext
    <3>3. QED
      BY <3>1, <3>2, InPresent
  <2>12. Unique' /\ AllLent' /\ NotYetFreed' /\ FreedOnce' /\ NoLeak' /\ NoBufferLost'
    BY <1>1, <2>10, <2>11, SamePresent
  <2>13. Belong'
    <3>1. QueuesBelong' /\ ReleasesBelong' /\ KeptAreOld' /\ FreedWereSent'
      BY <1>1, <1>4, <1>6, <2>1, <2>9
         DEF QueuesBelong, ReleasesBelong, KeptAreOld, FreedWereSent, OnPlane, clientVars, freeVars
    <3>2. SlotsBelong'
      <4> SUFFICES ASSUME NEW q \in Planes, NEW k \in Kinds
                   PROVE  /\ Real(plane'[q][k]) =>
                               /\ plane'[q][k].fb \in Fbs
                               /\ plane'[q][k].fb[1] = plane'[q].conn
                               /\ plane'[q][k].fb[2] <= sent[plane'[q][k].fb[1]]
                          /\ ~Real(plane'[q][k]) =>
                               plane'[q][k] = NoFrame \/ (k # "next" /\ plane'[q][k].fb \in kept)
        BY <1>1 DEF SlotsBelong, Real, clientVars
      <4>1. CASE isNew /\ q = p /\ k = "next"
        <5>1. plane'[q][k] = f /\ f \in Queued(p) /\ plane'[q].conn = plane[p].conn
          BY <2>7, <2>9, <4>1
        <5>2. QED
          BY <1>2, <2>1, <2>2, <5>1, FrameFields DEF QueuesBelong
      <4>2. CASE ~(isNew /\ q = p /\ k = "next")
        <5>1. plane'[q][k] = plane[q][k] /\ plane'[q].conn = plane[q].conn
          BY <2>9, <4>2
        <5>2. QED
          BY <2>1, <5>1 DEF SlotsBelong
      <4>3. QED
        BY <4>1, <4>2
    <3>3. QED
      BY <3>1, <3>2 DEF Belong
  <2>14. ASSUME isNew, NEW q \in Planes, NEW k \in Kinds, q # p \/ k # "next"
         PROVE  plane[q][k].fb # f.fb
    <3>1. CASE q # p
      BY <1>2, <2>1, <2>2, <2>6, <3>1, PlanesApart DEF VideoInv
    <3>2. CASE q = p
      <4>1. plane[p][k].fb = f.fb => k = "curr"
        BY <1>2, <2>1, <2>7, <2>14, <3>2 DEF QueuesApart
      <4>2. QED
        BY <2>4, <2>14, <3>2, <4>1
    <3>3. QED
      BY <3>1, <3>2
  <2>15. SlotsApart'
    <3> SUFFICES ASSUME NEW q \in Planes, NEW r \in Planes, NEW k \in Kinds, NEW l \in Kinds,
                        plane'[q][k].fb = plane'[r][l].fb, plane'[q][k] # NoFrame
                 PROVE  q = r /\ k = l
      BY DEF SlotsApart
    <3> DEFINE new(x, m) == isNew /\ x = p /\ m = "next"
    <3>1. CASE new(q, k) /\ new(r, l)
      BY <3>1
    <3>2. CASE new(q, k) /\ ~new(r, l)
      BY <2>9, <2>14, <3>2
    <3>3. CASE ~new(q, k) /\ new(r, l)
      BY <2>9, <2>14, <3>3
    <3>4. CASE ~new(q, k) /\ ~new(r, l)
      <4>1. plane'[q][k] = plane[q][k] /\ plane'[r][l] = plane[r][l]
        BY <2>9, <3>4
      <4>2. QED
        BY <2>1, <4>1 DEF SlotsApart
    <3>5. QED
      BY <3>1, <3>2, <3>3, <3>4
  <2>16. QueuesApart'
    <3> SUFFICES ASSUME NEW q \in Planes, NEW k \in Kinds, NEW g \in Queued(q),
                        g.fb = plane'[q][k].fb
                 PROVE  /\ k \in {"next", "curr"} /\ plane'[q][k] = g
                        /\ g.bufferId = vfm'[q].bufferIdCurrent
      BY <1>6 DEF QueuesApart
    <3>1. CASE q # p
      BY <1>5, <2>1, <2>9, <3>1 DEF QueuesApart
    <3>2. CASE q = p /\ isNew /\ k = "next"
      <4>1. plane'[p][k] = f /\ f \in Queued(p)
        BY <1>2, <2>7, <2>9, <3>2
      <4>2. g = f
        BY <1>2, <3>2, <4>1, QueueFbs DEF VideoInv, PlacesInv
      <4>3. QED
        BY <1>2, <1>5, <1>10, <3>2, <4>1, <4>2
    <3>3. CASE q = p /\ ~(isNew /\ k = "next")
      <4>1. plane'[p][k] = plane[p][k]
        BY <1>2, <2>9, <3>3
      <4>2. k \in {"next", "curr"} /\ plane[p][k] = g
        BY <2>1, <3>3, <4>1 DEF QueuesApart
      <4>3. g \in Frames
        BY <3>3, QueueType DEF VideoInv
      <4>4. k = "curr" /\ g = s.curr
        BY <2>3, <2>4, <4>2, <4>3, FrameFields
      <4>5. ~isNew
        <5> SUFFICES ASSUME isNew PROVE FALSE
          OBVIOUS
        <5>1. f \in Queued(p)
          BY <2>7
        <5>2. Real(s.curr) => s.curr.fb[2] <= f.fb[2]
          BY <1>2, <2>1, <2>4, <5>1 DEF InOrder
        <5>3. s.curr.fb[2] <= f.fb[2]
          BY <4>3, <4>4, <5>2, FrameFields
        <5>4. f = g \/ f.fb[2] < g.fb[2] \/ f = s.curr
          BY <2>6, <3>3
        <5>5. f # g
          BY <4>4
        <5>6. f.fb[2] \in Nat /\ g.fb[2] \in Nat
          BY <2>2, <4>3, FrameFields
        <5>7. QED
          BY <4>4, <5>3, <5>4, <5>5, <5>6
      <4>6. QED
        BY <1>5, <1>10, <2>8, <3>3, <4>1, <4>2, <4>4, <4>5
    <3>4. QED
      BY <3>1, <3>2, <3>3
  <2>17. ReleasesApart'
    <3> SUFFICES ASSUME NEW g \in ToRelease, NEW q \in Planes
                 PROVE  /\ \A h \in Queued(q) : h.fb # g.fb
                        /\ \A k \in Kinds : plane'[q][k].fb # g.fb
      BY <1>4, <1>6 DEF ReleasesApart
    <3>1. isNew => f.fb # g.fb
      BY <1>2, <2>1, <2>7 DEF ReleasesApart
    <3>2. QED
      BY <2>1, <2>9, <3>1 DEF ReleasesApart
  <2>18. CurrentIsNewest'
    <3> SUFFICES ASSUME NEW q \in Planes, vfm'[q].bufferIdCurrent # NoBuffer
                 PROVE  Newest(q)'.bufferId = vfm'[q].bufferIdCurrent
      BY DEF CurrentIsNewest
    <3>1. CASE q # p
      BY <1>5, <2>1, <2>9, <3>1 DEF CurrentIsNewest, Newest
    <3>2. CASE q = p
      <4>1. Newest(q)' = f
        <5>1. CASE isNew
          BY <2>2, <2>9, <3>2, <5>1, FrameFields DEF Newest
        <5>2. CASE ~isNew
          BY <2>3, <2>8, <2>9, <3>2, <5>2 DEF Newest
        <5>3. QED
          BY <5>1, <5>2
      <4>2. QED
        BY <1>5, <1>10, <3>2, <4>1
    <3>3. QED
      BY <3>1, <3>2
  <2>19. InOrder'
    <3> SUFFICES ASSUME NEW q \in Planes
                 PROVE  /\ plane'[q].next # NoFrame => Older(plane'[q].curr, plane'[q].next)
                        /\ \A g \in Queued(q), k \in {"next", "curr"} :
                             Real(plane'[q][k]) => plane'[q][k].fb[2] <= g.fb[2]
      BY <1>6 DEF InOrder, Older, Real
    <3>1. ASSUME NEW g \in Queued(q), NEW k \in {"next", "curr"}, Real(plane'[q][k]),
                 isNew /\ q = p /\ k = "next"
          PROVE  plane'[q][k].fb[2] <= g.fb[2]
      <4>1. plane'[q][k] = f
        BY <2>4, <2>9, <3>1
      <4>2. f # s.curr
        BY <3>1
      <4>3. f = g \/ f.fb[2] < g.fb[2]
        BY <2>6, <3>1, <4>2
      <4>4. g.fb[2] \in Nat /\ f.fb[2] \in Nat
        BY <2>2, QueueType, FrameFields DEF VideoInv
      <4>5. QED
        BY <4>1, <4>3, <4>4
    <3>2. ASSUME NEW g \in Queued(q), NEW k \in {"next", "curr"}, Real(plane'[q][k]),
                 ~(isNew /\ q = p /\ k = "next")
          PROVE  plane'[q][k].fb[2] <= g.fb[2]
      <4>1. plane'[q][k] = plane[q][k]
        BY <2>4, <2>9, <3>2
      <4>2. QED
        BY <2>1, <3>2, <4>1 DEF InOrder
    <3>3. ASSUME plane'[q].next # NoFrame PROVE Older(plane'[q].curr, plane'[q].next)
      <4>1. CASE isNew /\ q = p
        <5>1. plane'[q].next = f /\ plane'[q].curr = s.curr
          BY <1>2, <2>9, <4>1
        <5>2. ASSUME Real(s.curr) PROVE s.curr.fb[2] < f.fb[2]
          <6>1. f \in Queued(p) /\ s.curr.fb[2] <= f.fb[2]
            BY <1>2, <2>1, <2>4, <2>7, <4>1, <5>2 DEF InOrder
          <6>2. s.curr.fb \in Fbs /\ s.curr.fb[1] = s.conn
            BY <1>2, <2>1, <2>4, <5>2 DEF SlotsBelong
          <6>3. f.fb \in Fbs /\ f.fb[1] = s.conn /\ f.fb # s.curr.fb
            BY <2>2, <2>6, <4>1, FrameFields
          <6>4. s.curr.fb[2] # f.fb[2]
            BY <6>2, <6>3 DEF Fbs
          <6>5. s.curr.fb[2] \in Nat /\ f.fb[2] \in Nat
            BY <6>2, <6>3 DEF Fbs
          <6>6. QED
            BY <6>1, <6>4, <6>5
        <5>3. QED
          BY <5>1, <5>2 DEF Older
      <4>2. CASE ~(isNew /\ q = p)
        <5>1. plane'[q].next = plane[q].next /\ plane'[q].curr = plane[q].curr
          BY <2>9, <4>2
        <5>2. QED
          BY <2>1, <3>3, <5>1 DEF InOrder
      <4>3. QED
        BY <4>1, <4>2
    <3>4. QED
      BY <3>1, <3>2, <3>3
  <2>20. FrameInv'
    BY <2>12, <2>13, <2>15, <2>16, <2>17, <2>18, <2>19 DEF FrameInv, Apart
  <2>21. QED
    BY <1>4, <1>7, <2>20 DEF PlacesInv
<1>11. QED
  BY <1>9, <1>10

\* A frame is sent.
LEMMA SendingKeeps ==
  ASSUME VideoInv, TypeOK', NEW c \in Conns, NEW b \in Buffers, HandleFrame(c, b)
  PROVE  PlacesInv'
<1> DEFINE n == sent[c] + 1
           f == [fb |-> <<c, n>>, bufferId |-> b]
<1>1. PICK p \in Planes : p = planeOf[c] /\ plane[p].conn = c
  BY PlaneOfConn DEF HandleFrame, Serving, OnPlane, VideoInv
<1>2. /\ UNCHANGED <<step, plane, messages, offload, refused, freed, freedTwice, kept>>
      /\ Serving(c) /\ b \notin lent[c]
      /\ lent' = [lent EXCEPT ![c] = @ \cup {b}]
      /\ sent' = [sent EXCEPT ![c] = @ + 1]
      /\ vfm' = [vfm EXCEPT ![p].queue = Append(@, f)]
  BY <1>1 DEF HandleFrame, MaySend, connVars, offloadVars, freeVars
<1>3. /\ lent \in [Conns -> SUBSET Buffers] /\ vfm \in [Planes -> Managers]
      /\ sent \in [Conns -> 0..MaxFrames] /\ sent' \in [Conns -> 0..MaxFrames] /\ MaxFrames \in Nat
  BY VideoAssumption DEF VideoInv, TypeOK
<1>4. /\ \A d \in Conns : sent'[d] = IF d = c THEN n ELSE sent[d]
      /\ \A d \in Conns : lent'[d] = IF d = c THEN lent[c] \cup {b} ELSE lent[d]
      /\ \A d \in Conns : sent[d] \in Nat /\ sent[d] <= sent'[d]
      /\ n \in 1..MaxFrames
  BY <1>2, <1>3
<1>5. f \in Frames /\ f.fb = <<c, n>> /\ f.fb[1] = c /\ f.fb[2] = n /\ f.bufferId = b /\ Real(f)
  <2>1. f.fb = <<c, n>> /\ f.bufferId = b /\ <<c, n>> \in Fbs
    BY <1>4 DEF Fbs
  <2>2. f \in Frames
    BY <2>1 DEF Frames
  <2>3. QED
    BY <2>1, <2>2, FrameFields
<1> HIDE DEF f
<1>6. /\ Belong /\ QueuesBelong /\ SlotsBelong /\ ReleasesBelong /\ KeptAreOld /\ FreedWereSent
      /\ SlotsApart /\ QueuesApart /\ ReleasesApart /\ CurrentIsNewest /\ Unique /\ InOrder
      /\ AllLent /\ NotYetFreed /\ FreedOnce /\ NoLeak /\ NoBufferLost /\ QueuesIncrease
  BY DEF VideoInv, PlacesInv, FrameInv, Belong, Apart
<1>7. \A q \in Planes :
        /\ vfm'[q].queue = IF q = p THEN Append(vfm[p].queue, f) ELSE vfm[q].queue
        /\ vfm'[q].bufferIdCurrent = vfm[q].bufferIdCurrent
  BY <1>2, <1>3 DEF Managers
<1>8. \A q \in Planes : Queued(q)' = IF q = p THEN Queued(p) \cup {f} ELSE Queued(q)
  <2>1. vfm[p].queue \in Seq(Frames)
    BY QueueType DEF VideoInv
  <2>2. ToSet(Append(vfm[p].queue, f)) = ToSet(vfm[p].queue) \cup {f}
    BY <1>5, <2>1, AppendSet
  <2>3. QED
    BY <1>7, <2>2 DEF Queued
<1>9. (\A g : g \in ToRelease' <=> g \in ToRelease) /\ MessagesApart'
  BY <1>2, InRelease, InReleaseNext DEF VideoInv, PlacesInv, MessagesApart, IsRelease
<1>10. \A g : g \in Present' <=> g \in Present \/ g = f
  <2> TAKE g
  <2>1. (\E q \in Planes : g \in Queued(q)') <=> (\E q \in Planes : g \in Queued(q)) \/ g = f
    BY <1>8
  <2>2. QED
    BY <1>2, <1>9, <2>1, InPresent, InPresentNext
<1>11. \A fb \in kept \cup freed : fb # <<c, n>>
  <2>1. \A fb \in kept \cup freed : fb[2] <= sent[fb[1]]
    BY <1>6 DEF KeptAreOld, FreedWereSent
  <2>2. <<c, n>>[1] = c /\ <<c, n>>[2] = n /\ ~(n <= sent[c])
    BY <1>4
  <2>3. QED
    BY <2>1, <2>2
<1>12. \A g \in Present : g.fb # f.fb
  <2>1. \A g \in Present : Real(g) => g.fb[2] <= sent[g.fb[1]]
    BY <1>6, PresentSent DEF VideoInv
  <2>2. \A g \in Present : ~Real(g) => g.fb \in kept
    BY <1>6, PresentKinds DEF VideoInv
  <2>3. ~(n <= sent[c])
    BY <1>4
  <2>4. QED
    BY <1>5, <1>11, <2>1, <2>2, <2>3
<1>13. \A q \in Planes, k \in Kinds : plane[q][k].fb # f.fb
  <2>1. NoFrame.fb # f.fb
    BY <1>5, FrameFields DEF NoFrame
  <2>2. QED
    BY <1>12, <2>1, InPresent
<1>14. Belong'
  <2>1. QueuesBelong'
    <3> SUFFICES ASSUME NEW q \in Planes, NEW g \in Queued(q)'
                 PROVE  g.fb[1] = plane[q].conn /\ g.fb[2] <= sent'[g.fb[1]]
      BY <1>2 DEF QueuesBelong
    <3>1. CASE q = p /\ g = f
      BY <1>1, <1>4, <1>5, <3>1
    <3>2. CASE g \in Queued(q)
      <4>1. g \in Frames /\ g.fb[1] = plane[q].conn /\ g.fb[2] <= sent[g.fb[1]]
        BY <1>6, <3>2, QueueType DEF QueuesBelong, VideoInv
      <4>2. g.fb[1] \in Conns /\ g.fb[2] \in Nat
        BY <4>1, FrameFields
      <4>3. QED
        BY <1>3, <1>4, <4>1, <4>2
    <3>3. QED
      BY <1>8, <3>1, <3>2
  <2>2. SlotsBelong'
    <3> SUFFICES ASSUME NEW q \in Planes, NEW k \in Kinds, Real(plane[q][k])
                 PROVE  /\ plane[q][k].fb \in Fbs
                        /\ plane[q][k].fb[1] = plane[q].conn
                        /\ plane[q][k].fb[2] <= sent'[plane[q][k].fb[1]]
      BY <1>2, <1>6 DEF SlotsBelong, Real
    <3>1. /\ plane[q][k].fb \in Fbs /\ plane[q][k].fb[1] = plane[q].conn
          /\ plane[q][k].fb[2] <= sent[plane[q][k].fb[1]]
      BY <1>6 DEF SlotsBelong
    <3>2. plane[q][k].fb[1] \in Conns /\ plane[q][k].fb[2] \in Nat
      BY <3>1 DEF Fbs
    <3>3. QED
      BY <1>3, <1>4, <3>1, <3>2
  <2>3. ReleasesBelong'
    <3> SUFFICES ASSUME NEW g \in ToRelease PROVE g.fb[2] <= sent'[g.fb[1]] /\ g.fb \notin kept
      BY <1>2, <1>9 DEF ReleasesBelong
    <3>1. g \in Frames /\ g.fb[2] <= sent[g.fb[1]] /\ g.fb \notin kept
      BY <1>6, InRelease DEF ReleasesBelong, VideoInv
    <3>2. g.fb[1] \in Conns /\ g.fb[2] \in Nat
      BY <3>1, FrameFields
    <3>3. QED
      BY <1>3, <1>4, <3>1, <3>2
  <2>4. ASSUME NEW fb \in kept \cup freed PROVE fb[2] <= sent'[fb[1]]
    <3>1. fb[2] <= sent[fb[1]] /\ fb \in Fbs
      BY <1>6 DEF KeptAreOld, FreedWereSent, VideoInv, TypeOK
    <3>2. fb[1] \in Conns /\ fb[2] \in Nat
      BY <3>1 DEF Fbs
    <3>3. QED
      BY <1>3, <1>4, <3>1, <3>2
  <2>5. KeptAreOld' /\ FreedWereSent'
    BY <1>2, <1>6, <2>4 DEF KeptAreOld, FreedWereSent, OnPlane
  <2>6. QED
    BY <2>1, <2>2, <2>3, <2>5 DEF Belong
<1>15. Apart'
  <2>1. SlotsApart'
    BY <1>2, <1>6 DEF SlotsApart
  <2>2. QueuesApart'
    <3> SUFFICES ASSUME NEW q \in Planes, NEW k \in Kinds, NEW g \in Queued(q)',
                        g.fb = plane[q][k].fb
                 PROVE  /\ k \in {"next", "curr"} /\ plane[q][k] = g
                        /\ g.bufferId = vfm[q].bufferIdCurrent
      BY <1>2, <1>7 DEF QueuesApart
    <3>1. g \in Queued(q)
      BY <1>8, <1>13
    <3>2. QED
      BY <1>6, <3>1 DEF QueuesApart
  <2>3. ReleasesApart'
    <3> SUFFICES ASSUME NEW g \in ToRelease, NEW q \in Planes
                 PROVE  /\ \A h \in Queued(q)' : h.fb # g.fb
                        /\ \A k \in Kinds : plane[q][k].fb # g.fb
      BY <1>2, <1>9 DEF ReleasesApart
    <3>1. g.fb # f.fb
      BY <1>12, InPresent
    <3>2. QED
      BY <1>6, <1>8, <3>1 DEF ReleasesApart
  <2>4. QED
    BY <2>1, <2>2, <2>3 DEF Apart
<1>16. CurrentIsNewest'
  BY <1>2, <1>6, <1>7 DEF CurrentIsNewest, Newest
<1>17. Unique'
  <2>1. \A g \in Present : Real(g) /\ g.fb[1] = c => g.bufferId # b
    BY <1>2, <1>6 DEF AllLent
  <2>2. ASSUME NEW g \in Present', NEW h \in Present', Real(g), g.bufferId = h.bufferId,
               g.fb[1] = h.fb[1]
        PROVE  g = h
    <3>1. Real(h)
      BY <2>2 DEF Real
    <3>2. CASE g \in Present /\ h \in Present
      BY <1>6, <2>2, <3>2 DEF Unique
    <3>3. CASE g = f \/ h = f
      BY <1>5, <1>10, <2>1, <2>2, <3>1, <3>3
    <3>4. QED
      BY <1>10, <3>2, <3>3
  <2>3. QED
    BY <2>2 DEF Unique, Real
<1>18. AllLent'
  <2> SUFFICES ASSUME NEW g \in Present', Real(g) PROVE g.bufferId \in lent'[g.fb[1]]
    BY DEF AllLent, Real
  <2>1. CASE g = f
    BY <1>4, <1>5, <2>1
  <2>2. CASE g \in Present
    <3>1. g.fb[1] \in Conns /\ g.bufferId \in lent[g.fb[1]]
      BY <1>6, <2>2, PresentKinds, FrameFields DEF AllLent, VideoInv
    <3>2. QED
      BY <1>4, <3>1
  <2>3. QED
    BY <1>10, <2>1, <2>2
<1>19. NotYetFreed' /\ FreedOnce'
  BY <1>2, <1>5, <1>6, <1>10, <1>11 DEF NotYetFreed, FreedOnce
<1>20. InOrder'
  <2> SUFFICES ASSUME NEW q \in Planes
               PROVE  /\ plane[q].next # NoFrame => Older(plane[q].curr, plane[q].next)
                      /\ \A g \in Queued(q)', k \in {"next", "curr"} :
                           Real(plane[q][k]) => plane[q][k].fb[2] <= g.fb[2]
    BY <1>2 DEF InOrder, Older, Real
  <2>1. ASSUME NEW g \in Queued(q)', NEW k \in {"next", "curr"}, Real(plane[q][k])
        PROVE  plane[q][k].fb[2] <= g.fb[2]
    <3>1. CASE g \in Queued(q)
      BY <1>6, <2>1, <3>1 DEF InOrder
    <3>2. CASE q = p /\ g = f
      <4>1. k \in Kinds
        BY DEF Kinds
      <4>2. /\ plane[p][k].fb \in Fbs /\ plane[p][k].fb[1] = c
            /\ plane[p][k].fb[2] <= sent[plane[p][k].fb[1]]
        BY <1>1, <1>6, <2>1, <3>2, <4>1 DEF SlotsBelong
      <4>3. plane[p][k].fb[2] \in Nat
        BY <4>2 DEF Fbs
      <4>4. QED
        BY <1>4, <1>5, <3>2, <4>2, <4>3
    <3>3. QED
      BY <1>8, <3>1, <3>2
  <2>2. QED
    BY <1>6, <2>1 DEF InOrder
<1>21. NoLeak'
  <2> SUFFICES ASSUME NEW d \in Conns, NEW m \in 1..sent'[d]
               PROVE  <<d, m>> \in freed' \cup kept' \cup {g.fb : g \in Present'}
    BY NoLeakNext
  <2>1. CASE d = c /\ m = n
    BY <1>5, <1>10, <2>1
  <2>2. CASE ~(d = c /\ m = n)
    <3>1. m \in 1..sent[d]
      BY <1>4, <2>2
    <3>2. QED
      BY <1>2, <1>6, <1>10, <3>1 DEF NoLeak
  <2>3. QED
    BY <2>1, <2>2
<1>22. NoBufferLost'
  <2> SUFFICES ASSUME NEW d \in Conns, Serving(d), NEW a \in lent'[d] \ refused[d]
               PROVE  \E g \in Present' : g.fb[1] = d /\ g.bufferId = a
    BY <1>2 DEF NoBufferLost, Serving
  <2>1. CASE d = c /\ a = b
    BY <1>5, <1>10, <2>1
  <2>2. CASE ~(d = c /\ a = b)
    <3>1. a \in lent[d] \ refused[d]
      BY <1>4, <2>2
    <3>2. QED
      BY <1>6, <1>10, <3>1 DEF NoBufferLost
  <2>3. QED
    BY <2>1, <2>2
<1>23. QueuesIncrease'
  <2> SUFFICES ASSUME NEW q \in Planes PROVE Increasing(vfm'[q].queue)
    BY DEF QueuesIncrease, Increasing
  <2>1. CASE q # p
    BY <1>6, <1>7, <2>1 DEF QueuesIncrease
  <2>2. CASE q = p
    <3>1. vfm[p].queue \in Seq(Frames) /\ Increasing(vfm[p].queue)
      BY <1>6, QueueType DEF QueuesIncrease, VideoInv
    <3>2. ASSUME NEW g \in ToSet(vfm[p].queue) PROVE g.fb[2] < f.fb[2]
      <4>1. g \in Frames /\ g.fb[1] = c /\ g.fb[2] <= sent[g.fb[1]]
        BY <1>1, <1>6, QueueType DEF QueuesBelong, Queued, VideoInv
      <4>2. g.fb[2] \in Nat
        BY <4>1, FrameFields
      <4>3. QED
        BY <1>4, <1>5, <4>1, <4>2
    <3>3. Increasing(Append(vfm[p].queue, f))
      BY <1>5, <3>1, <3>2, AppendIncreases
    <3>4. QED
      BY <1>7, <2>2, <3>3
  <2>3. QED
    BY <2>1, <2>2
<1>24. QED
  BY <1>9, <1>14, <1>15, <1>16, <1>17, <1>18, <1>19, <1>20, <1>21, <1>22, <1>23
     DEF PlacesInv, FrameInv

\* A plane is given up: its queue goes back, its slots are freed, and the picture
\* shown stays if it was to be kept.
LEMMA EndingKeeps ==
  ASSUME VideoInv, TypeOK', NEW c \in Conns, OnPlane(c), EndPlane(c)
  PROVE  PlacesInv'
<1>1. PICK p \in Planes : p = planeOf[c] /\ plane[p].conn = c
  BY PlaneOfConn DEF VideoInv
<1> DEFINE s == plane[p]
           slots == FreedByExit(s)
           queue == Discarded(vfm[p])
           both == {f.fb : f \in slots} \cap {f.fb : f \in queue}
           fbs == {f.fb : f \in slots \cup queue} \ {NoFb}
           left == IF s.keepLastFrame THEN [s.curr EXCEPT !.bufferId = NoBuffer] ELSE NoFrame
<1>2. /\ freed' = freed \cup fbs
      /\ freedTwice' = freedTwice \cup both \cup (fbs \cap freed)
      /\ lent' = [lent EXCEPT ![c] = @ \ {f.bufferId : f \in queue}]
      /\ plane' = [plane EXCEPT ![p] = [Unused EXCEPT !.curr = left]]
      /\ kept' = IF s.keepLastFrame THEN kept \cup ({s.curr.fb} \ {NoFb}) ELSE kept
      /\ vfm' = [vfm EXCEPT ![p] = Fresh]
      /\ step' = [step EXCEPT ![c] = "left"]
      /\ UNCHANGED <<messages, offload, sent, refused>>
  BY <1>1 DEF EndPlane, offloadVars
<1>3. /\ lent \in [Conns -> SUBSET Buffers] /\ vfm \in [Planes -> Managers]
      /\ plane \in [Planes -> PlaneStates] /\ s \in PlaneStates /\ step \in [Conns -> Steps]
      /\ kept \subseteq Fbs
  BY DEF VideoInv, TypeOK
<1>4. /\ Belong /\ QueuesBelong /\ SlotsBelong /\ ReleasesBelong /\ KeptAreOld /\ FreedWereSent
      /\ SlotsApart /\ QueuesApart /\ ReleasesApart /\ CurrentIsNewest /\ Unique /\ InOrder
      /\ AllLent /\ NotYetFreed /\ FreedOnce /\ NoLeak /\ NoBufferLost /\ QueuesIncrease
  BY DEF VideoInv, PlacesInv, FrameInv, Belong, Apart
<1>5. /\ s.curr \in Slots /\ left.fb = (IF s.keepLastFrame THEN s.curr.fb ELSE NoFb)
      /\ left.bufferId = NoBuffer /\ left \in Slots
      /\ left.fb = NoFb => left = NoFrame
  BY <1>3 DEF PlaneStates, Slots, NoFrame
<1> HIDE DEF left
<1>6. \A q \in Planes :
        /\ vfm'[q] = IF q = p THEN Fresh ELSE vfm[q]
        /\ q # p => plane'[q] = plane[q]
        /\ q = p => \A k \in Kinds : plane'[p][k] = IF k = "curr" THEN left ELSE NoFrame
        /\ q = p => plane'[p].next = NoFrame
  BY <1>2, <1>3 DEF Unused, Kinds
<1>7. \A q \in Planes : Queued(q)' = IF q = p THEN {} ELSE Queued(q)
  BY <1>6 DEF Queued, Fresh, ToSet
<1>8. (\A f : f \in ToRelease' <=> f \in ToRelease) /\ MessagesApart'
  BY <1>2, InRelease, InReleaseNext DEF VideoInv, PlacesInv, MessagesApart, IsRelease
\* Which frames are freed.
<1>9. \A f : f \in slots <=> \E k \in Kinds : f = plane[p][k] /\ (k = "curr" => ~s.keepLastFrame)
  BY DEF FreedByExit, Kinds
<1>10. \A f : f \in queue <=> f \in Queued(p) /\ f.bufferId # vfm[p].bufferIdCurrent
  BY DEF Discarded, Queued
<1>11. \A f \in Queued(p) : f \in Frames /\ Real(f) /\ f.fb[1] = c /\ f \in Present /\ f.fb # NoFb
  BY <1>1, <1>4, QueueType, FrameFields, InPresent DEF QueuesBelong, VideoInv
<1>12. \A f \in slots \cup queue : f.fb = NoFb \/ (f \in Present /\ f.fb \in fbs)
  BY <1>9, <1>10, <1>11, InPresent DEF NoFrame
<1>13. \A fb \in fbs : \/ \E f \in queue : fb = f.fb
                       \/ \E k \in Kinds : fb = plane[p][k].fb /\ (k = "curr" => ~s.keepLastFrame)
  BY <1>9
<1> HIDE DEF slots, queue
<1>14. both = {} /\ fbs \cap freed = {}
  <2>1. ASSUME NEW f \in slots, NEW g \in queue PROVE f.fb # g.fb
    BY <1>4, <1>9, <1>10 DEF QueuesApart
  <2>2. fbs \cap freed = {}
    BY <1>4, <1>12 DEF NotYetFreed
  <2>3. QED
    BY <2>1, <2>2
<1>15. FreedOnce' /\ freed' = freed \cup fbs
  BY <1>2, <1>4, <1>14 DEF FreedOnce
\* Where the frames are that remain.
<1>16. ASSUME NEW f \in Present'
       PROVE  \/ f \in ToRelease
              \/ \E q \in Planes \ {p} : f \in Queued(q)
              \/ \E q \in Planes \ {p}, k \in Kinds : f = plane[q][k] /\ f # NoFrame
              \/ f = left /\ left # NoFrame
  BY <1>6, <1>7, <1>8, InPresentNext
<1>17. \A f \in Present' : Real(f) => f \in Present /\ (f \in ToRelease \/ f.fb[1] # c)
  <2> SUFFICES ASSUME NEW f \in Present', Real(f) PROVE f \in Present /\ (f \in ToRelease \/ f.fb[1] # c)
    OBVIOUS
  <2>1. ASSUME NEW q \in Planes \ {p}, Owned(q) PROVE plane[q].conn # c
    BY <1>1, <2>1 DEF VideoInv, Ownership
  <2>2. f \notin ToRelease => f.fb[1] # c
    <3>1. f # left
      BY <1>5 DEF Real
    <3>2. ASSUME NEW q \in Planes \ {p}, f \in Queued(q) \/ \E k \in Kinds : f = plane[q][k]
          PROVE  f.fb[1] = plane[q].conn
      BY <1>4, <3>2 DEF QueuesBelong, SlotsBelong
    <3>3. c # NoConn
      BY VideoAssumption
    <3>4. QED
      BY <1>16, <2>1, <3>1, <3>2, <3>3 DEF Owned
  <2>3. f \in Present
    <3>1. f # left
      BY <1>5 DEF Real
    <3>2. QED
      BY <1>16, <3>1, InPresent
  <2>4. QED
    BY <2>2, <2>3
<1>18. \A f \in Present : Real(f) /\ f.fb[1] # c => f \in Present'
  <2> SUFFICES ASSUME NEW f \in Present, Real(f), f.fb[1] # c PROVE f \in Present'
    OBVIOUS
  <2>1. ASSUME NEW q \in Planes, f \in Queued(q) PROVE f \in Present'
    <3>1. q # p
      BY <1>11, <2>1
    <3>2. QED
      BY <1>7, <2>1, <3>1, InPresentNext
  <2>2. ASSUME NEW q \in Planes, NEW k \in Kinds, f = plane[q][k], f # NoFrame PROVE f \in Present'
    <3>1. q # p
      BY <1>1, <1>4, <2>2 DEF SlotsBelong
    <3>2. f = plane'[q][k]
      BY <1>6, <2>2, <3>1
    <3>3. QED
      BY <2>2, <3>2, InPresentNext
  <2>3. QED
    BY <1>8, <2>1, <2>2, InPresent, InPresentNext
<1>19. kept \subseteq kept' /\ kept' \subseteq kept \cup {left.fb}
       /\ (left.fb # NoFb => left.fb \in kept' /\ s.keepLastFrame /\ left.fb = s.curr.fb)
  BY <1>2, <1>5
<1>20. "curr" \in Kinds /\ plane[p]["curr"] = s.curr /\ (left # NoFrame => s.curr.fb \in Fbs)
  <2>1. left # NoFrame => s.curr.fb # NoFb
    BY <1>5
  <2>2. QED
    BY <1>5, <2>1 DEF Kinds, Slots
<1>21. Belong'
  <2>1. QueuesBelong'
    BY <1>2, <1>4, <1>6, <1>7 DEF QueuesBelong
  <2>2. SlotsBelong'
    <3> SUFFICES ASSUME NEW q \in Planes, NEW k \in Kinds
                 PROVE  /\ Real(plane'[q][k]) =>
                             /\ plane'[q][k].fb \in Fbs
                             /\ plane'[q][k].fb[1] = plane'[q].conn
                             /\ plane'[q][k].fb[2] <= sent[plane'[q][k].fb[1]]
                        /\ ~Real(plane'[q][k]) =>
                             plane'[q][k] = NoFrame \/ (k # "next" /\ plane'[q][k].fb \in kept')
      BY <1>2 DEF SlotsBelong, Real
    <3>1. CASE q # p
      BY <1>4, <1>6, <1>19, <3>1 DEF SlotsBelong
    <3>2. CASE q = p
      <4>1. plane'[p][k] = left \/ plane'[p][k] = NoFrame
        BY <1>6
      <4>2. ~Real(left) /\ ~Real(NoFrame)
        BY <1>5, FrameFields DEF Real
      <4>3. k = "next" => plane'[p][k] = NoFrame
        BY <1>6
      <4>4. QED
        BY <1>5, <1>19, <3>2, <4>1, <4>2, <4>3
    <3>3. QED
      BY <3>1, <3>2
  <2>3. ReleasesBelong'
    <3> SUFFICES ASSUME NEW f \in ToRelease PROVE f.fb[2] <= sent[f.fb[1]] /\ f.fb \notin kept'
      BY <1>2, <1>8 DEF ReleasesBelong
    <3>1. f.fb # s.curr.fb
      BY <1>4, <1>20 DEF ReleasesApart
    <3>2. f.fb # NoFb
      BY InRelease, FrameFields DEF VideoInv
    <3>3. QED
      BY <1>4, <1>5, <1>19, <3>1, <3>2 DEF ReleasesBelong
  <2>4. KeptAreOld'
    <3> SUFFICES ASSUME NEW fb \in kept'
                 PROVE  fb[2] <= sent[fb[1]] /\ ~OnPlane(fb[1])' /\ step'[fb[1]] # "new"
      BY <1>2 DEF KeptAreOld, OnPlane
    <3>1. CASE fb \in kept
      <4>1. fb[2] <= sent[fb[1]] /\ ~OnPlane(fb[1]) /\ step[fb[1]] # "new" /\ fb[1] \in Conns
        BY <1>3, <1>4, <3>1 DEF KeptAreOld, Fbs
      <4>2. fb[1] # c
        BY <4>1
      <4>3. QED
        BY <1>2, <1>3, <4>1, <4>2 DEF OnPlane
    <3>2. CASE fb \notin kept
      <4>1. fb = s.curr.fb /\ fb # NoFb
        BY <1>2, <3>2
      <4>2. Real(s.curr)
        BY <1>4, <1>20, <3>2, <4>1 DEF SlotsBelong, NoFrame
      <4>3. fb[1] = c /\ fb[2] <= sent[fb[1]]
        BY <1>1, <1>4, <1>20, <4>1, <4>2 DEF SlotsBelong
      <4>4. step'[c] = "left"
        BY <1>2, <1>3
      <4>5. QED
        BY <4>3, <4>4 DEF OnPlane
    <3>3. QED
      BY <3>1, <3>2
  <2>5. FreedWereSent'
    <3> SUFFICES ASSUME NEW fb \in fbs PROVE fb[2] <= sent[fb[1]]
      BY <1>2, <1>4 DEF FreedWereSent
    <3>1. CASE \E f \in queue : fb = f.fb
      BY <1>4, <1>10, <3>1 DEF QueuesBelong
    <3>2. ASSUME NEW k \in Kinds, fb = plane[p][k].fb PROVE fb[2] <= sent[fb[1]]
      <4>1. CASE Real(plane[p][k])
        BY <1>4, <3>2, <4>1 DEF SlotsBelong
      <4>2. CASE ~Real(plane[p][k])
        <5>1. fb # NoFb
          OBVIOUS
        <5>2. fb \in kept
          BY <1>4, <3>2, <4>2, <5>1 DEF SlotsBelong, NoFrame
        <5>3. QED
          BY <1>4, <5>2 DEF KeptAreOld
      <4>3. QED
        BY <4>1, <4>2
    <3>3. QED
      BY <1>13, <3>1, <3>2
  <2>6. QED
    BY <2>1, <2>2, <2>3, <2>4, <2>5 DEF Belong
<1>22. Apart'
  <2>1. SlotsApart'
    <3> SUFFICES ASSUME NEW q \in Planes, NEW r \in Planes, NEW k \in Kinds, NEW l \in Kinds,
                        plane'[q][k].fb = plane'[r][l].fb, plane'[q][k] # NoFrame
                 PROVE  q = r /\ k = l
      BY DEF SlotsApart
    <3>1. ASSUME NEW x \in Planes, NEW m \in Kinds, plane'[x][m] # NoFrame
          PROVE  plane'[x][m].fb = plane[x][m].fb /\ plane[x][m] # NoFrame /\ plane[x][m].fb \in Fbs
      <4>1. CASE x # p
        BY <1>4, <1>6, <3>1, <4>1, SlotFb DEF VideoInv
      <4>2. CASE x = p
        <5>1. m = "curr" /\ plane'[x][m] = left
          BY <1>6, <3>1, <4>2
        <5>2. left.fb = s.curr.fb /\ s.curr.fb \in Fbs
          BY <1>5, <1>19, <1>20, <3>1, <5>1
        <5>3. QED
          BY <1>20, <4>2, <5>1, <5>2, FrameFields DEF NoFrame
      <4>3. QED
        BY <4>1, <4>2
    <3>2. plane'[r][l] # NoFrame
      BY <3>1, FrameFields DEF NoFrame
    <3>3. QED
      BY <1>4, <3>1, <3>2 DEF SlotsApart
  <2>2. QueuesApart'
    <3> SUFFICES ASSUME NEW q \in Planes, NEW k \in Kinds, NEW f \in Queued(q)',
                        f.fb = plane'[q][k].fb
                 PROVE  /\ k \in {"next", "curr"} /\ plane'[q][k] = f
                        /\ f.bufferId = vfm'[q].bufferIdCurrent
      BY DEF QueuesApart
    <3>1. q # p /\ f \in Queued(q)
      BY <1>7
    <3>2. QED
      BY <1>4, <1>6, <3>1 DEF QueuesApart
  <2>3. ReleasesApart'
    <3> SUFFICES ASSUME NEW f \in ToRelease, NEW q \in Planes
                 PROVE  /\ \A g \in Queued(q)' : g.fb # f.fb
                        /\ \A k \in Kinds : plane'[q][k].fb # f.fb
      BY <1>8 DEF ReleasesApart
    <3>1. NoFrame.fb # f.fb /\ f.fb # NoFb
      BY InRelease, FrameFields DEF VideoInv, NoFrame
    <3>2. left.fb # f.fb
      BY <1>4, <1>19, <1>20, <3>1 DEF ReleasesApart
    <3>3. QED
      BY <1>4, <1>6, <1>7, <3>1, <3>2 DEF ReleasesApart
  <2>4. QED
    BY <2>1, <2>2, <2>3 DEF Apart
<1>23. CurrentIsNewest'
  <2> SUFFICES ASSUME NEW q \in Planes, vfm'[q].bufferIdCurrent # NoBuffer
               PROVE  Newest(q)'.bufferId = vfm'[q].bufferIdCurrent
    BY DEF CurrentIsNewest
  <2>1. q # p
    BY <1>6 DEF Fresh
  <2>2. QED
    BY <1>4, <1>6, <2>1 DEF CurrentIsNewest, Newest
<1>24. Unique'
  <2> SUFFICES ASSUME NEW f \in Present', NEW g \in Present', Real(f), f.bufferId = g.bufferId,
                      f.fb[1] = g.fb[1]
               PROVE  f = g
    BY DEF Unique, Real
  <2>1. Real(g)
    BY DEF Real
  <2>2. QED
    BY <1>4, <1>17, <2>1 DEF Unique
<1>25. AllLent'
  <2> SUFFICES ASSUME NEW f \in Present', Real(f) PROVE f.bufferId \in lent'[f.fb[1]]
    BY DEF AllLent, Real
  <2>1. f \in Present /\ (f \in ToRelease \/ f.fb[1] # c)
    BY <1>17
  <2>2. f.fb[1] \in Conns /\ f.bufferId \in lent[f.fb[1]]
    BY <1>4, <2>1, PresentKinds, FrameFields DEF AllLent, VideoInv
  <2>3. CASE f.fb[1] # c
    BY <1>2, <1>3, <2>2, <2>3
  <2>4. CASE f.fb[1] = c
    <3>1. f \in ToRelease
      BY <2>1, <2>4
    <3>2. ASSUME NEW g \in queue, g.bufferId = f.bufferId PROVE FALSE
      <4>1. g \in Queued(p) /\ g \in Present /\ g.fb[1] = c
        BY <1>10, <1>11
      <4>2. g = f
        BY <1>4, <2>1, <2>4, <3>2, <4>1 DEF Unique
      <4>3. QED
        BY <1>4, <3>1, <4>1, <4>2 DEF ReleasesApart
    <3>3. QED
      BY <1>2, <1>3, <2>2, <2>4, <3>2
  <2>5. QED
    BY <2>3, <2>4
<1>26. NotYetFreed'
  <2> SUFFICES ASSUME NEW f \in Present' PROVE f.fb \notin freed \cup fbs
    BY <1>15 DEF NotYetFreed
  <2>1. f.fb \notin freed
    <3>1. CASE f = left /\ left # NoFrame
      <4>1. s.curr # NoFrame /\ f.fb = s.curr.fb
        BY <1>5, <1>19, <1>20, <3>1, FrameFields DEF NoFrame
      <4>2. s.curr \in Present
        BY <1>20, <4>1, InPresent
      <4>3. QED
        BY <1>4, <4>1, <4>2 DEF NotYetFreed
    <3>2. CASE f \in Present
      BY <1>4, <3>2 DEF NotYetFreed
    <3>3. QED
      BY <1>16, <3>1, <3>2, InPresent
  <2>2. ASSUME NEW g \in queue PROVE f.fb # g.fb
    <3>1. g \in Queued(p) /\ g \in Frames /\ g.fb[1] = plane[p].conn
          /\ g.bufferId # vfm[p].bufferIdCurrent
      BY <1>1, <1>10, <1>11
    <3>2. CASE f \in ToRelease
      BY <1>4, <3>1, <3>2 DEF ReleasesApart
    <3>3. ASSUME NEW q \in Planes \ {p}, f \in Queued(q) \/ \E k \in Kinds : f = plane[q][k]
          PROVE  f.fb # g.fb
      BY <1>4, <3>1, <3>3, PlanesApart DEF VideoInv
    <3>4. CASE f = left /\ left # NoFrame
      <4>1. f.fb = s.curr.fb
        BY <1>5, <1>19, <3>4
      <4>2. QED
        BY <1>4, <1>20, <3>1, <4>1 DEF QueuesApart
    <3>5. QED
      BY <1>16, <3>2, <3>3, <3>4
  <2>3. ASSUME NEW k \in Kinds, k = "curr" => ~s.keepLastFrame, plane[p][k].fb # NoFb
        PROVE  f.fb # plane[p][k].fb
    <3>1. plane[p][k] # NoFrame
      BY <2>3 DEF NoFrame
    <3>2. CASE f \in ToRelease
      BY <1>4, <3>2 DEF ReleasesApart
    <3>3. ASSUME NEW q \in Planes \ {p}, f \in Queued(q) PROVE f.fb # plane[p][k].fb
      <4>1. f \in Frames /\ f.fb[1] = plane[q].conn
        BY <1>4, <3>3, QueueType DEF QueuesBelong, VideoInv
      <4>2. QED
        BY <1>4, <4>1, PlanesApart DEF VideoInv
    <3>4. ASSUME NEW q \in Planes \ {p}, NEW l \in Kinds, f = plane[q][l]
          PROVE  f.fb # plane[p][k].fb
      BY <1>4, <3>1, <3>4 DEF SlotsApart
    <3>5. CASE f = left /\ left # NoFrame
      <4>1. f.fb = s.curr.fb /\ s.keepLastFrame
        BY <1>5, <1>19, <3>5
      <4>2. k # "curr"
        BY <2>3, <4>1
      <4>3. QED
        BY <1>4, <1>20, <3>1, <4>1, <4>2 DEF SlotsApart
    <3>6. QED
      BY <1>16, <3>2, <3>3, <3>4, <3>5
  <2>4. f.fb \notin fbs
    <3> SUFFICES ASSUME f.fb \in fbs PROVE FALSE
      OBVIOUS
    <3>1. f.fb # NoFb
      OBVIOUS
    <3>2. QED
      BY <1>13, <2>2, <2>3, <3>1
  <2>5. QED
    BY <2>1, <2>4
<1>27. InOrder'
  <2> SUFFICES ASSUME NEW q \in Planes
               PROVE  /\ plane'[q].next # NoFrame => Older(plane'[q].curr, plane'[q].next)
                      /\ \A f \in Queued(q)', k \in {"next", "curr"} :
                           Real(plane'[q][k]) => plane'[q][k].fb[2] <= f.fb[2]
    BY DEF InOrder, Older, Real
  <2>1. CASE q = p
    BY <1>6, <1>7, <2>1
  <2>2. CASE q # p
    BY <1>4, <1>6, <1>7, <2>2 DEF InOrder
  <2>3. QED
    BY <2>1, <2>2
<1>28. NoLeak'
  <2> SUFFICES ASSUME NEW d \in Conns, NEW n \in 1..sent[d]
               PROVE  <<d, n>> \in freed' \cup kept' \cup {f.fb : f \in Present'}
    BY <1>2, NoLeakNext
  <2>0. <<d, n>> # NoFb
    BY DEF NoFb
  <2>1. CASE <<d, n>> \in freed \cup kept
    BY <1>15, <1>19, <2>1
  <2>2. ASSUME NEW k \in Kinds, <<d, n>> = plane[p][k].fb
        PROVE  <<d, n>> \in freed' \cup kept'
    <3>1. CASE k = "curr" /\ s.keepLastFrame
      BY <1>2, <1>20, <2>0, <2>2, <3>1
    <3>2. CASE ~(k = "curr" /\ s.keepLastFrame)
      <4>1. plane[p][k] \in slots
        BY <1>9, <3>2
      <4>2. QED
        BY <1>12, <1>15, <2>0, <2>2, <4>1
    <3>3. QED
      BY <3>1, <3>2
  <2>3. ASSUME NEW f \in Queued(p), <<d, n>> = f.fb PROVE <<d, n>> \in freed' \cup kept'
    <3>1. CASE f.bufferId # vfm[p].bufferIdCurrent
      BY <1>10, <1>12, <1>15, <2>0, <2>3, <3>1
    <3>2. CASE f.bufferId = vfm[p].bufferIdCurrent
      <4>1. \E k \in {"next", "curr"} : plane[p][k] = f
        BY <3>2, CurrentHeld DEF VideoInv, PlacesInv
      <4>2. QED
        BY <2>2, <2>3, <4>1 DEF Kinds
    <3>3. QED
      BY <3>1, <3>2
  <2>4. ASSUME NEW f \in Present, <<d, n>> = f.fb
        PROVE  <<d, n>> \in freed' \cup kept' \cup {g.fb : g \in Present'}
    <3>1. CASE ~Real(f)
      BY <1>4, <1>19, <2>4, <3>1, PresentKinds DEF VideoInv
    <3>2. ASSUME NEW q \in Planes \ {p}, f \in Queued(q) PROVE f \in Present'
      BY <1>7, <3>2, InPresentNext
    <3>3. ASSUME NEW q \in Planes \ {p}, NEW k \in Kinds, f = plane[q][k], f # NoFrame
          PROVE  f \in Present'
      BY <1>6, <3>3, InPresentNext
    <3>4. f \in ToRelease => f \in Present'
      BY <1>8, InPresentNext
    <3>5. QED
      BY <2>2, <2>3, <2>4, <3>2, <3>3, <3>4, InPresent
  <2>5. QED
    BY <1>4, <2>1, <2>4 DEF NoLeak
<1>29. NoBufferLost'
  <2> SUFFICES ASSUME NEW d \in Conns, Serving(d)', NEW b \in lent'[d] \ refused[d]
               PROVE  \E f \in Present' : f.fb[1] = d /\ f.bufferId = b
    BY <1>2 DEF NoBufferLost
  <2>1. d # c
    BY <1>2, <1>3 DEF Serving
  <2>2. Serving(d) /\ b \in lent[d] \ refused[d] /\ b \in Buffers
    BY <1>2, <1>3, <2>1 DEF Serving
  <2>3. PICK f \in Present : f.fb[1] = d /\ f.bufferId = b
    BY <1>4, <2>2 DEF NoBufferLost
  <2>4. Real(f)
    BY <2>2, <2>3, VideoAssumption DEF Real
  <2>5. QED
    BY <1>18, <2>1, <2>3, <2>4
<1>30. QueuesIncrease'
  <2> SUFFICES ASSUME NEW q \in Planes PROVE Increasing(vfm'[q].queue)
    BY DEF QueuesIncrease, Increasing
  <2>1. QED
    BY <1>4, <1>6 DEF QueuesIncrease, Increasing, Fresh
<1>31. QED
  BY <1>8, <1>15, <1>21, <1>22, <1>23, <1>24, <1>25, <1>26, <1>27, <1>28, <1>29, <1>30
     DEF PlacesInv, FrameInv

\* Every step keeps what is said of frames.
LEMMA PlacesStep ==
  ASSUME VideoInv, TypeOK', [Next]_vars
  PROVE  PlacesInv'
<1>1. CASE UNCHANGED vars
  <2>1. StepsOn
    BY <1>1 DEF vars, connVars, StepsOn, OnPlane, Serving
  <2>2. UNCHANGED <<messages, offload, clientVars, freeVars, kept, plane, vfm>>
    BY <1>1 DEF vars, offloadVars
  <2>3. QED
    BY <2>1, <2>2, NothingMoves
<1>2. CASE Tick
  BY <1>2, LookingMovesNothing, ReleasingKeeps, DroppingKeeps, TakingKeeps, SwappingKeeps DEF Tick
<1>3. CASE Offload
  BY <1>3, OffloadKeeps
<1>4. ASSUME NEW c \in Conns, Handle(c) PROVE PlacesInv'
  <2>1. CASE \E b \in Buffers : HandleFrame(c, b) \/ HandleBadFrame(c, b)
    BY <2>1, SendingKeeps, BadFrameMovesNothing
  <2>2. CASE HandleVideoResource(c) \/ HandleFlush(c) \/ HandleSession(c)
    BY <2>2, TakingMovesNothing, FlushingKeeps
  <2>3. CASE \/ \E pause \in BOOLEAN : HandlePause(c, pause)
             \/ HandleFrameAdvance(c)
             \/ \E keep \in BOOLEAN : HandleKeepLastFrame(c, keep)
    BY <2>3, SettingMovesNothing
  <2>4. QED
    BY <1>4, <2>1, <2>2, <2>3 DEF Handle
<1>5. ASSUME NEW c \in Conns, Leave(c) \/ LeaveFrame(c) \/ Ending(c) PROVE PlacesInv'
  <2>1. CASE Leave(c) \/ Destroy(c) \/ DestroyImpatiently(c)
    BY <2>1, LeavingMovesNothing
  <2>2. CASE FlushOffload(c)
    BY <2>2, FlushingKeeps
  <2>3. CASE LeaveFrame(c) \/ FreePlane(c)
    BY <2>3, EndingKeeps DEF LeaveFrame, FreePlane, Serving, OnPlane
  <2>4. QED
    BY <1>5, <2>1, <2>2, <2>3 DEF Ending
<1>6. QED
  BY <1>1, <1>2, <1>3, <1>4, <1>5 DEF Next

(***************************************************************************)
(* Who owns which plane.                                                   *)
(***************************************************************************)

\* Giving buffers back takes from what is lent.
LEMMA LentShrinks ==
  ASSUME TypeOK
  PROVE  /\ \A c, S : FreeAndReturn(c, S) => \A d \in Conns : lent'[d] \subseteq lent[d]
         /\ \A m : Execute(m) => \A d \in Conns : lent'[d] \subseteq lent[d]
         /\ \A c, f : SendBufferRelease(c, f) \/ NoPush => \A d \in Conns : lent'[d] \subseteq lent[d]
<1>1. lent \in [Conns -> SUBSET Buffers]
  BY DEF TypeOK
<1>2. ASSUME NEW c, NEW S, FreeAndReturn(c, S) PROVE \A d \in Conns : lent'[d] \subseteq lent[d]
  <2>1. lent' = [lent EXCEPT ![c] = @ \ {f.bufferId : f \in S}]
    BY <1>2 DEF FreeAndReturn
  <2>2. QED
    BY <1>1, <2>1
<1>3. ASSUME NEW m, Execute(m) PROVE \A d \in Conns : lent'[d] \subseteq lent[d]
  BY <1>2, <1>3 DEF Execute
<1>4. ASSUME NEW c, NEW f, SendBufferRelease(c, f) \/ NoPush
      PROVE  \A d \in Conns : lent'[d] \subseteq lent[d]
  BY <1>3, <1>4 DEF SendBufferRelease, NoPush, OffloadMsgPush
<1>5. QED
  BY <1>2, <1>3, <1>4

\* Planes keep their owners.
LEMMA OwnersStay ==
  ASSUME VideoInv, TypeOK', UNCHANGED <<used, planeOf>>,
         \A c \in Conns :
           /\ OnPlane(c)' <=> OnPlane(c)
           /\ Serving(c)' <=> Serving(c)
           /\ step'[c] = "new" => step[c] = "new" /\ lent'[c] \subseteq lent[c]
           /\ step[c] = "dark" /\ refresh' # Idle => naps'[c] >= 1,
         \A p \in Planes :
           /\ plane'[p].conn = plane[p].conn /\ plane'[p].inUse = plane[p].inUse
           /\ plane'[p].keepLastFrame = plane[p].keepLastFrame \/ Serving(plane[p].conn)
           /\ ~Owned(p) => plane'[p] = plane[p] /\ vfm'[p] = vfm[p]
  PROVE  Ownership'
<1>1. Ownership /\ TypeOK
  BY DEF VideoInv
<1>2. \A c \in Conns : step'[c] = "dark" => step[c] = "dark"
  BY DEF OnPlane, Serving
<1>3. \A p \in Planes : Owned(p)' <=> Owned(p)
  BY DEF Owned
<1>4. \A p \in Planes : Owned(p)' =>
         /\ planeOf'[plane'[p].conn] = p
         /\ plane'[p].inUse <=> Serving(plane[p].conn)'
  <2> SUFFICES ASSUME NEW p \in Planes, Owned(p)
               PROVE  /\ planeOf'[plane'[p].conn] = p
                      /\ plane'[p].inUse <=> Serving(plane[p].conn)'
    BY <1>3
  <2>1. PICK d \in Conns : d = plane[p].conn
    BY <1>1, QueueType DEF Owned
  <2>2. Serving(d)' <=> Serving(d)
    BY <2>1
  <2>3. planeOf[d] = p /\ (plane[p].inUse <=> Serving(d))
    BY <1>1, <2>1 DEF Ownership
  <2>4. plane'[p].conn = d /\ plane'[p].inUse = plane[p].inUse /\ planeOf' = planeOf
    BY <2>1
  <2>5. plane'[p].inUse <=> Serving(d)'
    BY <2>2, <2>3, <2>4
  <2>6. planeOf'[plane'[p].conn] = p
    BY <2>3, <2>4
  <2>7. QED
    BY <2>4, <2>5, <2>6 DEF Serving
<1>5. \A p \in Planes : ~Owned(p)' =>
         /\ plane'[p].next = NoFrame /\ plane'[p].prev = NoFrame /\ plane'[p].free = NoFrame
         /\ ~Real(plane'[p].curr)
         /\ vfm'[p] = Fresh
         /\ ~plane'[p].inUse /\ ~plane'[p].keepLastFrame
  BY <1>1, <1>3 DEF Ownership
<1>6. \A c \in Conns :
         /\ OnPlane(c)' => planeOf'[c] \in Planes /\ plane'[planeOf'[c]].conn = c
         /\ ~OnPlane(c)' => planeOf'[c] = NoPlane
         /\ step'[c] = "dark" => ~plane'[planeOf'[c]].keepLastFrame
         /\ step'[c] = "dark" /\ refresh' # Idle => naps'[c] >= 1
         /\ step'[c] = "new" => lent'[c] = {}
  <2> TAKE c \in Conns
  <2>1. OnPlane(c)' => planeOf'[c] \in Planes /\ plane'[planeOf'[c]].conn = c
    BY <1>1 DEF Ownership
  <2>2. ~OnPlane(c)' => planeOf'[c] = NoPlane
    BY <1>1 DEF Ownership
  <2>3. step'[c] = "dark" => ~plane'[planeOf'[c]].keepLastFrame
    BY <1>1, <1>2 DEF Ownership, OnPlane, Serving
  <2>4. step'[c] = "new" => lent'[c] = {}
    BY <1>1 DEF Ownership
  <2>5. QED
    BY <1>2, <2>1, <2>2, <2>3, <2>4
<1>7. IsInjective(used) /\ \A p \in Planes : Owned(p) <=> p \in ToSet(used)
  BY <1>1 DEF Ownership
<1>8. IsInjective(used') /\ \A p \in Planes : Owned(p)' <=> p \in ToSet(used')
  BY <1>3, <1>7
<1>9. QED
  BY <1>4, <1>5, <1>6, <1>8 DEF Ownership

\* A plane that is worked on has an owner.
LEMMA WorkedOn ==
  ASSUME TypeOK, Ownership
  PROVE  /\ refresh # Idle => used[refresh.at] \in Planes /\ Owned(used[refresh.at])
         /\ \A c \in Conns : OnPlane(c) => planeOf[c] \in Planes /\ Owned(planeOf[c])
<1>1. refresh # Idle => used[refresh.at] \in Planes /\ Owned(used[refresh.at])
  BY RefreshAt, UsedPlane
<1>2. QED
  BY <1>1, PlaneOfConn

\* A tick does not change who owns what.
LEMMA TickOwners ==
  ASSUME VideoInv, TypeOK', Tick
  PROVE  Ownership'
<1> DEFINE p == used[refresh.at]
<1>1. TypeOK /\ Ownership /\ plane \in [Planes -> PlaneStates] /\ vfm \in [Planes -> Managers]
  BY DEF VideoInv, TypeOK
<1>2. CASE StartTick
  <2>1. UNCHANGED <<used, planeOf, step, plane, vfm, lent>>
    BY <1>2 DEF StartTick, clientVars
  <2>2. \A c \in Conns : step[c] = "dark" => naps'[c] >= 1
    <3>1. \A c \in Conns : step[c] = "dark" => naps'[c] = naps[c] + 1 /\ naps[c] \in Nat
      BY <1>1, <1>2 DEF StartTick, Asleep, TypeOK
    <3>2. QED
      BY <3>1
  <2>3. \A c \in Conns : (OnPlane(c)' <=> OnPlane(c)) /\ (Serving(c)' <=> Serving(c))
    BY <2>1 DEF OnPlane, Serving
  <2>4. QED
    BY <2>1, <2>2, <2>3, OwnersStay
<1>3. CASE Tick /\ ~StartTick
  <2>1. UNCHANGED <<used, planeOf, step, naps>>
    BY <1>3 DEF Tick, ReleasePrevious, CheckPlane, Drain, DropExpired, FirstDue, DropEarly, SecondDue,
                NoneDue, TakeFrame, SwapBuffers, connVars
  <2>2. refresh # Idle
    <3>1. refresh.step \in Pops \cup {"release", "check", "swap"}
      BY <1>3 DEF Tick, ReleasePrevious, CheckPlane, Drain, DropExpired, FirstDue, DropEarly, SecondDue,
                  NoneDue, TakeFrame, SwapBuffers, Pops
    <3>2. QED
      BY <1>1, <3>1, RefreshAt
  <2>3. p \in Planes /\ Owned(p)
    BY <1>1, <2>2, WorkedOn
  <2>4. \A c \in Conns : lent'[c] \subseteq lent[c]
    <3>1. CASE ReleasePrevious
      BY <1>1, <3>1, LentShrinks DEF ReleasePrevious
    <3>2. CASE Drain \/ DropExpired \/ DropEarly
      <4>1. NoPush \/ \E c, f : SendBufferRelease(c, f)
        BY <3>2 DEF Drain, DropExpired, DropEarly, Drop
      <4>2. QED
        BY <1>1, <4>1, LentShrinks
    <3>3. CASE lent' = lent
      BY <3>3
    <3>4. QED
      BY <1>3, <3>1, <3>2, <3>3
         DEF Tick, CheckPlane, FirstDue, SecondDue, NoneDue, TakeFrame, SwapBuffers, clientVars
  <2>5. \A q \in Planes :
          /\ plane'[q].conn = plane[q].conn /\ plane'[q].inUse = plane[q].inUse
          /\ plane'[q].keepLastFrame = plane[q].keepLastFrame
          /\ q # p => plane'[q] = plane[q]
    <3>1. \/ plane' = plane
          \/ plane' = [plane EXCEPT ![p].free = NoFrame]
          \/ plane' = [plane EXCEPT ![p].next = refresh.frame]
          \/ plane' = [plane EXCEPT ![p] = Rotated(plane[p])]
      BY <1>3 DEF Tick, ReleasePrevious, CheckPlane, Drain, DropExpired, FirstDue, DropEarly, SecondDue,
                  NoneDue, TakeFrame, SwapBuffers
    <3>2. plane[p] \in PlaneStates
      BY <1>1, <2>3
    <3>3. /\ Rotated(plane[p]).conn = plane[p].conn /\ Rotated(plane[p]).inUse = plane[p].inUse
          /\ Rotated(plane[p]).keepLastFrame = plane[p].keepLastFrame
      BY <3>2, Zenon DEF Rotated, PlaneStates
    <3>4. QED
      BY <1>1, <2>3, <3>1, <3>2, <3>3 DEF PlaneStates
  <2>6. \A q \in Planes : q # p => vfm'[q] = vfm[q]
    <3>1. \/ vfm' = vfm
          \/ \E a, b : vfm' = [vfm EXCEPT ![p].resetBaseTime = a, ![p].started = b]
          \/ \E v : vfm' = [vfm EXCEPT ![p] = v]
          \/ \E r : vfm' = [vfm EXCEPT ![p].queue = r]
          \/ \E r, b : vfm' = [vfm EXCEPT ![p].queue = r, ![p].frameAdvance = b]
          \/ \E b : vfm' = [vfm EXCEPT ![p].frameAdvance = b]
      BY <1>3 DEF Tick, ReleasePrevious, CheckPlane, Drain, DropExpired, FirstDue, DropEarly, SecondDue,
                  NoneDue, TakeFrame, SwapBuffers
    <3>2. QED
      BY <1>1, <3>1
  <2>7. \A c \in Conns : step[c] = "dark" => naps'[c] >= 1
    BY <1>1, <2>1, <2>2 DEF Ownership
  <2>8. \A c \in Conns : (OnPlane(c)' <=> OnPlane(c)) /\ (Serving(c)' <=> Serving(c))
    BY <2>1 DEF OnPlane, Serving
  <2>9. QED
    BY <2>1, <2>3, <2>4, <2>5, <2>6, <2>7, <2>8, OwnersStay
<1>4. QED
  BY <1>2, <1>3

\* A message of a serving client does not change who owns what.
LEMMA HandleOwners ==
  ASSUME VideoInv, TypeOK', NEW c \in Conns, Handle(c), ~HandleVideoResource(c)
  PROVE  Ownership'
<1> DEFINE p == planeOf[c]
<1>1. TypeOK /\ Ownership
  BY DEF VideoInv
<1>2. Serving(c) /\ OnPlane(c) /\ UNCHANGED <<step, planeOf, naps, used, refresh>>
  BY DEF Handle, HandleFrame, HandleBadFrame, HandleFlush, HandleSession, HandlePause,
         HandleFrameAdvance, HandleKeepLastFrame, connVars, OnPlane, Serving
<1>3. p \in Planes /\ Owned(p) /\ plane[p].conn = c
  BY <1>1, <1>2, PlaneOfConn
<1>4. \A d \in Conns : step'[d] = "new" => step[d] = "new" /\ lent'[d] \subseteq lent[d]
  <2>1. \A d \in Conns \ {c} : lent'[d] \subseteq lent[d]
    <3>1. CASE lent' = lent
      BY <3>1
    <3>2. CASE \E b \in Buffers : lent' = [lent EXCEPT ![c] = @ \cup {b}]
      BY <1>1, <3>2 DEF TypeOK
    <3>3. CASE \E S : FreeAndReturn(c, S)
      BY <1>1, <3>3, LentShrinks
    <3>4. QED
      BY <3>1, <3>2, <3>3
         DEF Handle, HandleFrame, HandleBadFrame, HandleFlush, HandleSession, HandlePause,
             HandleFrameAdvance, HandleKeepLastFrame, clientVars
  <2>2. QED
    BY <1>2, <2>1 DEF Serving
<1>5. \A q \in Planes :
        /\ plane'[q].conn = plane[q].conn /\ plane'[q].inUse = plane[q].inUse
        /\ q # p => plane'[q] = plane[q]
  <2>1. plane' = plane \/ \E keep \in BOOLEAN : plane' = [plane EXCEPT ![p].keepLastFrame = keep]
    BY DEF Handle, HandleFrame, HandleBadFrame, HandleFlush, HandleSession, HandlePause,
           HandleFrameAdvance, HandleKeepLastFrame
  <2>2. QED
    BY <1>1, <1>3, <2>1 DEF TypeOK, PlaneStates
<1>6. \A q \in Planes : q # p => vfm'[q] = vfm[q]
  <2>1. \/ vfm' = vfm
        \/ \E v : vfm' = [vfm EXCEPT ![p] = v]
        \/ \E r : vfm' = [vfm EXCEPT ![p].queue = r]
        \/ vfm' = [vfm EXCEPT ![p].frameAdvance = TRUE]
    BY DEF Handle, HandleFrame, HandleBadFrame, HandleFlush, HandleSession, HandlePause,
           HandleFrameAdvance, HandleKeepLastFrame
  <2>2. QED
    BY <1>1, <2>1 DEF TypeOK
<1>7. \A d \in Conns : step[d] = "dark" /\ refresh' # Idle => naps'[d] >= 1
  BY <1>1, <1>2 DEF Ownership
<1>8. \A d \in Conns : (OnPlane(d)' <=> OnPlane(d)) /\ (Serving(d)' <=> Serving(d))
  BY <1>2 DEF OnPlane, Serving
<1>9. \A q \in Planes :
        /\ plane'[q].keepLastFrame = plane[q].keepLastFrame \/ Serving(plane[q].conn)
        /\ ~Owned(q) => plane'[q] = plane[q] /\ vfm'[q] = vfm[q]
  BY <1>2, <1>3, <1>5, <1>6
<1>10. QED
  BY <1>2, <1>4, <1>5, <1>7, <1>8, <1>9, OwnersStay

\* A plane that is allocated and its connection know each other.
LEMMA AllocationOwners ==
  ASSUME VideoInv, TypeOK', NEW c \in Conns, HandleVideoResource(c)
  PROVE  Ownership'
<1>1. TypeOK /\ Ownership /\ step \in [Conns -> Steps] /\ planeOf \in [Conns -> Planes \cup {NoPlane}]
      /\ plane \in [Planes -> PlaneStates] /\ vfm \in [Planes -> Managers] /\ used \in Seq(Planes)
  BY DEF VideoInv, TypeOK
<1>2. step[c] = "new" /\ refresh = Idle /\ UNCHANGED <<naps, refresh, lent>>
  BY DEF HandleVideoResource, Unlocked, clientVars
<1>3. lent[c] = {} /\ planeOf[c] = NoPlane
  BY <1>1, <1>2 DEF Ownership, OnPlane
<1>4. CASE step' = [step EXCEPT ![c] = "left"] /\ UNCHANGED <<planeOf, used, plane, vfm>>
  <2>1. \A d \in Conns : (OnPlane(d)' <=> OnPlane(d)) /\ (Serving(d)' <=> Serving(d))
    BY <1>1, <1>2, <1>4 DEF OnPlane, Serving
  <2>2. \A d \in Conns : step'[d] = "new" => step[d] = "new"
    BY <1>1, <1>4
  <2>3. QED
    BY <1>2, <1>4, <2>1, <2>2, OwnersStay
<1>5. ASSUME NEW p \in Planes \ ToSet(used),
             step' = [step EXCEPT ![c] = "serving"], planeOf' = [planeOf EXCEPT ![c] = p],
             used' = Append(used, p), plane' = [plane EXCEPT ![p].conn = c, ![p].inUse = TRUE],
             vfm' = [vfm EXCEPT ![p] = Fresh]
      PROVE  Ownership'
  <2>1. ~Owned(p)
    BY <1>1 DEF Ownership
  <2>2. plane[p] \in PlaneStates
    BY <1>1
  <2>3. /\ plane'[p].conn = c /\ plane'[p].inUse = TRUE
        /\ plane'[p].keepLastFrame = plane[p].keepLastFrame
    BY <1>1, <1>5, <2>2 DEF PlaneStates
  <2>4. \A q \in Planes : q # p => plane'[q] = plane[q] /\ vfm'[q] = vfm[q]
    BY <1>1, <1>5
  <2>5. ToSet(used') = ToSet(used) \cup {p}
    BY <1>1, <1>5, AppendSet
  <2>6. IsInjective(used')
    <3>1. /\ Len(used') = Len(used) + 1 /\ Len(used) \in Nat /\ used'[Len(used) + 1] = p
          /\ \A i \in 1..Len(used) : used'[i] = used[i] /\ used[i] # p
      BY <1>1, <1>5 DEF ToSet
    <3>2. \A i, j \in 1..Len(used) : used[i] = used[j] => i = j
      BY <1>1 DEF Ownership, IsInjective
    <3>3. \A i, j \in 1..Len(used') : used'[i] = used'[j] => i = j
      <4> SUFFICES ASSUME NEW i \in 1..Len(used'), NEW j \in 1..Len(used'), used'[i] = used'[j]
                   PROVE  i = j
        OBVIOUS
      <4>1. i \in 1..Len(used) \/ i = Len(used) + 1
        BY <3>1
      <4>2. j \in 1..Len(used) \/ j = Len(used) + 1
        BY <3>1
      <4>3. QED
        BY <3>1, <3>2, <4>1, <4>2
    <3>4. DOMAIN used' = 1..Len(used')
      BY DEF TypeOK
    <3>5. QED
      BY <3>3, <3>4 DEF IsInjective
  <2>7. \A q \in Planes : Owned(q)' <=> q = p \/ Owned(q)
    BY <2>3, <2>4, VideoAssumption DEF Owned
  <2>8. \A q \in Planes : Owned(q)' <=> q \in ToSet(used')
    BY <1>1, <2>5, <2>7 DEF Ownership
  <2>9. \A d \in Conns : d # c => step'[d] = step[d] /\ planeOf'[d] = planeOf[d]
    BY <1>1, <1>5
  <2>10. step'[c] = "serving" /\ planeOf'[c] = p
    BY <1>1, <1>5
  <2>11. \A q \in Planes : Owned(q)' =>
           /\ planeOf'[plane'[q].conn] = q
           /\ plane'[q].inUse <=> Serving(plane[q].conn)'
    <3> SUFFICES ASSUME NEW q \in Planes, Owned(q)'
                 PROVE  planeOf'[plane'[q].conn] = q /\ (plane'[q].inUse <=> Serving(plane[q].conn)')
      OBVIOUS
    <3>1. CASE q = p
      BY <2>3, <2>10, <3>1 DEF Serving
    <3>2. CASE q # p
      <4>1. Owned(q) /\ plane'[q] = plane[q]
        BY <2>4, <2>7, <3>2
      <4>2. PICK d \in Conns : d = plane[q].conn
        BY <1>1, <4>1, QueueType DEF Owned
      <4>3. planeOf[d] = q /\ (plane[q].inUse <=> Serving(d))
        BY <1>1, <4>1, <4>2 DEF Ownership
      <4>4. d # c
        BY <1>3, <4>3, VideoAssumption
      <4>5. step'[d] = step[d] /\ planeOf'[d] = q
        BY <2>9, <4>3, <4>4
      <4>6. QED
        BY <4>1, <4>2, <4>3, <4>5 DEF Serving
    <3>3. QED
      BY <3>1, <3>2
  <2>12. \A q \in Planes : ~Owned(q)' =>
           /\ plane'[q].next = NoFrame /\ plane'[q].prev = NoFrame /\ plane'[q].free = NoFrame
           /\ ~Real(plane'[q].curr)
           /\ vfm'[q] = Fresh
           /\ ~plane'[q].inUse /\ ~plane'[q].keepLastFrame
    BY <1>1, <2>4, <2>7 DEF Ownership
  <2>13. \A d \in Conns :
           /\ OnPlane(d)' => planeOf'[d] \in Planes /\ plane'[planeOf'[d]].conn = d
           /\ ~OnPlane(d)' => planeOf'[d] = NoPlane
           /\ step'[d] = "dark" => ~plane'[planeOf'[d]].keepLastFrame
           /\ step'[d] = "dark" /\ refresh' # Idle => naps'[d] >= 1
           /\ step'[d] = "new" => lent'[d] = {}
    <3> TAKE d \in Conns
    <3>1. CASE d = c
      BY <2>3, <2>10, <3>1 DEF OnPlane
    <3>2. CASE d # c
      <4>1. step'[d] = step[d] /\ planeOf'[d] = planeOf[d]
        BY <2>9, <3>2
      <4>2. OnPlane(d) => planeOf[d] \in Planes /\ plane[planeOf[d]].conn = d
                          /\ plane'[planeOf[d]] = plane[planeOf[d]]
        BY <1>1, <2>1, <2>4, PlaneOfConn
      <4>3. step[d] = "dark" => ~plane[planeOf[d]].keepLastFrame
        BY <1>1 DEF Ownership
      <4>4. (~OnPlane(d) => planeOf[d] = NoPlane) /\ (step[d] = "new" => lent[d] = {})
        BY <1>1 DEF Ownership
      <4>5. OnPlane(d)' <=> OnPlane(d)
        BY <4>1 DEF OnPlane
      <4>6. step[d] = "dark" => OnPlane(d)
        BY DEF OnPlane
      <4>7. QED
        BY <1>2, <4>1, <4>2, <4>3, <4>4, <4>5, <4>6
    <3>3. QED
      BY <3>1, <3>2
  <2>14. QED
    BY <2>6, <2>8, <2>11, <2>12, <2>13 DEF Ownership
<1>6. QED
  BY <1>4, <1>5 DEF HandleVideoResource

\* A connection that ends without a plane changes nothing of it.
LEMMA LeftOwners ==
  ASSUME VideoInv, TypeOK', NEW c \in Conns,
         \/ step[c] = "new" /\ Leave(c)
         \/ FlushOffload(c) \/ Destroy(c) \/ DestroyImpatiently(c)
  PROVE  Ownership'
<1>1. TypeOK /\ Ownership /\ step \in [Conns -> Steps]
  BY DEF VideoInv, TypeOK
<1>2. /\ \E s \in {"left", "drained", "destroyed"} : step' = [step EXCEPT ![c] = s]
      /\ ~OnPlane(c)
      /\ UNCHANGED <<planeOf, naps, used, refresh, plane, vfm>>
  BY DEF Leave, FlushOffload, Destroy, DestroyImpatiently, OnPlane, Serving
<1>3. \A d \in Conns : lent'[d] \subseteq lent[d]
  <2>1. lent' = lent \/ \E S : FreeAndReturn(c, S)
    BY DEF Leave, FlushOffload, Destroy, DestroyImpatiently, clientVars
  <2>2. QED
    BY <1>1, <2>1, LentShrinks
<1>4. \A d \in Conns : /\ (OnPlane(d)' <=> OnPlane(d)) /\ (Serving(d)' <=> Serving(d))
                       /\ step'[d] = "new" => step[d] = "new"
  BY <1>1, <1>2 DEF OnPlane, Serving
<1>5. \A d \in Conns : step[d] = "dark" /\ refresh' # Idle => naps'[d] >= 1
  BY <1>1, <1>2 DEF Ownership
<1>6. QED
  BY <1>2, <1>3, <1>4, <1>5, OwnersStay

\* A connection whose plane is turned off keeps it.
LEMMA DarkOwners ==
  ASSUME VideoInv, TypeOK', NEW c \in Conns, Serving(c), Leave(c)
  PROVE  Ownership'
<1> DEFINE p == planeOf[c]
<1>1. TypeOK /\ Ownership /\ step \in [Conns -> Steps] /\ plane \in [Planes -> PlaneStates]
  BY DEF VideoInv, TypeOK
<1>2. /\ step' = [step EXCEPT ![c] = "dark"] /\ plane' = [plane EXCEPT ![p].inUse = FALSE]
      /\ ~plane[p].keepLastFrame /\ refresh = Idle
      /\ UNCHANGED <<planeOf, naps, used, refresh, vfm, lent>>
  BY DEF Leave, Serving, Unlocked, clientVars
<1>3. OnPlane(c)
  BY DEF OnPlane, Serving
<1>4. p \in Planes /\ plane[p].conn = c /\ Owned(p)
  BY <1>1, <1>3, PlaneOfConn
<1>5. step'[c] = "dark" /\ \A d \in Conns : d # c => step'[d] = step[d]
  BY <1>1, <1>2
<1>6. /\ \A q \in Planes : q # p => plane'[q] = plane[q]
      /\ plane'[p].conn = c /\ plane'[p].inUse = FALSE
      /\ plane'[p].keepLastFrame = plane[p].keepLastFrame
  BY <1>1, <1>2, <1>4 DEF PlaneStates
<1>7. \A q \in Planes : Owned(q)' <=> Owned(q)
  BY <1>4, <1>6 DEF Owned
<1>8. \A q \in Planes : Owned(q)' =>
        /\ planeOf'[plane'[q].conn] = q
        /\ plane'[q].inUse <=> Serving(plane[q].conn)'
  <2> SUFFICES ASSUME NEW q \in Planes, Owned(q)'
               PROVE  planeOf'[plane'[q].conn] = q /\ (plane'[q].inUse <=> Serving(plane[q].conn)')
    OBVIOUS
  <2>1. CASE q = p
    BY <1>2, <1>5, <1>6, <2>1 DEF Serving
  <2>2. CASE q # p
    <3>1. Owned(q) /\ plane'[q] = plane[q]
      BY <1>6, <1>7, <2>2
    <3>2. PICK d \in Conns : d = plane[q].conn
      BY <1>1, <3>1, QueueType DEF Owned
    <3>3. planeOf[d] = q /\ (plane[q].inUse <=> Serving(d))
      BY <1>1, <3>1, <3>2 DEF Ownership
    <3>4. step'[d] = step[d]
      BY <1>5, <2>2, <3>3
    <3>5. QED
      BY <1>2, <3>1, <3>2, <3>3, <3>4 DEF Serving
  <2>3. QED
    BY <2>1, <2>2
<1>9. \A q \in Planes : ~Owned(q)' =>
        /\ plane'[q].next = NoFrame /\ plane'[q].prev = NoFrame /\ plane'[q].free = NoFrame
        /\ ~Real(plane'[q].curr)
        /\ vfm'[q] = Fresh
        /\ ~plane'[q].inUse /\ ~plane'[q].keepLastFrame
  <2>1. \A q \in Planes : ~Owned(q)' => ~Owned(q) /\ plane'[q] = plane[q] /\ vfm'[q] = vfm[q]
    BY <1>2, <1>4, <1>6, <1>7
  <2>2. QED
    BY <1>1, <2>1 DEF Ownership
<1>10. \A d \in Conns :
         /\ OnPlane(d)' => planeOf'[d] \in Planes /\ plane'[planeOf'[d]].conn = d
         /\ ~OnPlane(d)' => planeOf'[d] = NoPlane
         /\ step'[d] = "dark" => ~plane'[planeOf'[d]].keepLastFrame
         /\ step'[d] = "dark" /\ refresh' # Idle => naps'[d] >= 1
         /\ step'[d] = "new" => lent'[d] = {}
  <2> TAKE d \in Conns
  <2>1. CASE d = c
    BY <1>2, <1>4, <1>5, <1>6, <2>1 DEF OnPlane
  <2>2. CASE d # c
    <3>1. step'[d] = step[d] /\ planeOf'[d] = planeOf[d] /\ lent'[d] = lent[d]
      BY <1>2, <1>5, <2>2
    <3>2. OnPlane(d) => planeOf[d] \in Planes /\ plane[planeOf[d]].conn = d
      BY <1>1, PlaneOfConn
    <3>3. OnPlane(d) => plane'[planeOf[d]] = plane[planeOf[d]]
      BY <1>4, <1>6, <2>2, <3>2
    <3>4. /\ step[d] = "dark" => ~plane[planeOf[d]].keepLastFrame
          /\ ~OnPlane(d) => planeOf[d] = NoPlane
          /\ step[d] = "new" => lent[d] = {}
      BY <1>1 DEF Ownership
    <3>5. (OnPlane(d)' <=> OnPlane(d)) /\ (step[d] = "dark" => OnPlane(d))
      BY <3>1 DEF OnPlane
    <3>6. QED
      BY <1>2, <3>1, <3>2, <3>3, <3>4, <3>5
  <2>3. QED
    BY <2>1, <2>2
<1>11. IsInjective(used)' /\ \A q \in Planes : Owned(q)' <=> q \in ToSet(used)'
  BY <1>1, <1>2, <1>7 DEF Ownership
<1>12. QED
  BY <1>8, <1>9, <1>10, <1>11 DEF Ownership

\* A plane that is freed has no owner.
LEMMA FreedOwners ==
  ASSUME VideoInv, TypeOK', NEW c \in Conns, OnPlane(c), EndPlane(c)
  PROVE  Ownership'
<1> DEFINE p == planeOf[c]
<1>1. /\ TypeOK /\ Ownership /\ step \in [Conns -> Steps] /\ plane \in [Planes -> PlaneStates]
      /\ vfm \in [Planes -> Managers] /\ planeOf \in [Conns -> Planes \cup {NoPlane}]
      /\ used \in Seq(Planes)
  BY DEF VideoInv, TypeOK
<1>2. /\ step' = [step EXCEPT ![c] = "left"] /\ planeOf' = [planeOf EXCEPT ![c] = NoPlane]
      /\ refresh = Idle /\ refresh' = refresh
      /\ vfm' = [vfm EXCEPT ![p] = Fresh] /\ used' = RemoveFirst(used, p)
      /\ \E f : /\ plane' = [plane EXCEPT ![p] = [Unused EXCEPT !.curr = f]]
                /\ ~Real(f)
  <2>1. /\ step' = [step EXCEPT ![c] = "left"] /\ planeOf' = [planeOf EXCEPT ![c] = NoPlane]
        /\ refresh = Idle /\ refresh' = refresh
        /\ vfm' = [vfm EXCEPT ![p] = Fresh] /\ used' = RemoveFirst(used, p)
        /\ plane' = [plane EXCEPT ![p] = [Unused EXCEPT !.curr =
                       IF plane[p].keepLastFrame THEN [plane[p].curr EXCEPT !.bufferId = NoBuffer]
                       ELSE NoFrame]]
    BY DEF EndPlane, Unlocked
  <2>2. p \in Planes
    BY <1>1, PlaneOfConn
  <2>3. plane[p].curr \in Slots
    BY <1>1, <2>2 DEF PlaneStates
  <2>4. ~Real(IF plane[p].keepLastFrame THEN [plane[p].curr EXCEPT !.bufferId = NoBuffer]
              ELSE NoFrame)
    BY <2>3 DEF Slots, NoFrame, Real
  <2>5. QED
    BY <2>1, <2>4
<1>3. PICK f : plane' = [plane EXCEPT ![p] = [Unused EXCEPT !.curr = f]] /\ ~Real(f)
  BY <1>2
<1>4. p \in Planes /\ plane[p].conn = c /\ Owned(p) /\ p \in ToSet(used)
  BY <1>1, PlaneOfConn
<1>5. /\ plane'[p].conn = NoConn /\ plane'[p].next = NoFrame /\ plane'[p].prev = NoFrame
      /\ plane'[p].free = NoFrame /\ plane'[p].curr = f
      /\ plane'[p].inUse = FALSE /\ plane'[p].keepLastFrame = FALSE
  BY <1>1, <1>3, <1>4 DEF Unused
<1>6. \A q \in Planes : q # p => plane'[q] = plane[q] /\ vfm'[q] = vfm[q]
  BY <1>1, <1>2, <1>3
<1>7. vfm'[p] = Fresh
  BY <1>1, <1>2, <1>4
<1>8. IsInjective(used') /\ ToSet(used') = ToSet(used) \ {p}
  BY <1>1, <1>2, <1>4, RemoveFirstSet DEF Ownership
<1>9. \A q \in Planes : Owned(q)' <=> Owned(q) /\ q # p
  BY <1>5, <1>6 DEF Owned
<1>10. \A q \in Planes : Owned(q)' <=> q \in ToSet(used')
  BY <1>1, <1>8, <1>9 DEF Ownership
<1>11. /\ step'[c] = "left" /\ planeOf'[c] = NoPlane
       /\ \A d \in Conns : d # c => step'[d] = step[d] /\ planeOf'[d] = planeOf[d]
  BY <1>1, <1>2
<1>12. \A q \in Planes : Owned(q)' =>
         /\ planeOf'[plane'[q].conn] = q
         /\ plane'[q].inUse <=> Serving(plane[q].conn)'
  <2> SUFFICES ASSUME NEW q \in Planes, Owned(q)'
               PROVE  planeOf'[plane'[q].conn] = q /\ (plane'[q].inUse <=> Serving(plane[q].conn)')
    OBVIOUS
  <2>1. Owned(q) /\ plane'[q] = plane[q] /\ q # p
    BY <1>6, <1>9
  <2>2. PICK d \in Conns : d = plane[q].conn
    BY <1>1, <2>1, QueueType DEF Owned
  <2>3. planeOf[d] = q /\ (plane[q].inUse <=> Serving(d))
    BY <1>1, <2>1, <2>2 DEF Ownership
  <2>4. step'[d] = step[d] /\ planeOf'[d] = q
    BY <1>11, <2>1, <2>3
  <2>5. QED
    BY <2>1, <2>2, <2>3, <2>4 DEF Serving
<1>13. \A q \in Planes : ~Owned(q)' =>
         /\ plane'[q].next = NoFrame /\ plane'[q].prev = NoFrame /\ plane'[q].free = NoFrame
         /\ ~Real(plane'[q].curr)
         /\ vfm'[q] = Fresh
         /\ ~plane'[q].inUse /\ ~plane'[q].keepLastFrame
  <2> TAKE q \in Planes
  <2>1. CASE q = p
    BY <1>3, <1>5, <1>7, <2>1
  <2>2. CASE q # p
    BY <1>1, <1>6, <1>9, <2>2 DEF Ownership
  <2>3. QED
    BY <2>1, <2>2
<1>14. \A d \in Conns :
         /\ OnPlane(d)' => planeOf'[d] \in Planes /\ plane'[planeOf'[d]].conn = d
         /\ ~OnPlane(d)' => planeOf'[d] = NoPlane
         /\ step'[d] = "dark" => ~plane'[planeOf'[d]].keepLastFrame
         /\ step'[d] = "dark" /\ refresh' # Idle => naps'[d] >= 1
         /\ step'[d] = "new" => lent'[d] = {}
  <2> TAKE d \in Conns
  <2>1. CASE d = c
    BY <1>11, <2>1 DEF OnPlane
  <2>2. CASE d # c
    <3>1. step'[d] = step[d] /\ planeOf'[d] = planeOf[d]
      BY <1>11, <2>2
    <3>2. OnPlane(d) => planeOf[d] \in Planes /\ plane[planeOf[d]].conn = d
      BY <1>1, PlaneOfConn
    <3>3. OnPlane(d) => plane'[planeOf[d]] = plane[planeOf[d]]
      BY <1>4, <1>6, <2>2, <3>2
    <3>4. /\ step[d] = "dark" => ~plane[planeOf[d]].keepLastFrame
          /\ ~OnPlane(d) => planeOf[d] = NoPlane
          /\ step[d] = "new" => lent[d] = {}
      BY <1>1 DEF Ownership
    <3>5. (OnPlane(d)' <=> OnPlane(d)) /\ (step[d] = "dark" => OnPlane(d))
      BY <3>1 DEF OnPlane
    <3>6. lent'[d] = lent[d]
      BY <1>1, <2>2 DEF EndPlane, TypeOK
    <3>7. QED
      BY <1>2, <3>1, <3>2, <3>3, <3>4, <3>5, <3>6
  <2>3. QED
    BY <2>1, <2>2
<1>15. QED
  BY <1>8, <1>10, <1>12, <1>13, <1>14 DEF Ownership

\* Every step keeps planes and connections together.
LEMMA OwnersStep ==
  ASSUME VideoInv, TypeOK', [Next]_vars
  PROVE  Ownership'
<1>1. Ownership
  BY DEF VideoInv
<1>2. CASE UNCHANGED vars
  BY <1>1, <1>2
     DEF vars, connVars, clientVars, Ownership, Owned, OnPlane, Serving, Real
<1>3. CASE Offload
  <2>1. UNCHANGED <<used, planeOf, plane, vfm, refresh, step, naps>>
    BY <1>3 DEF Offload, Wake, PopMessage, WorkOff, connVars
  <2>2. \A d \in Conns : lent'[d] \subseteq lent[d]
    <3>1. lent' = lent \/ \E m : Execute(m)
      BY <1>3 DEF Offload, Wake, PopMessage, WorkOff, clientVars
    <3>2. QED
      BY <3>1, LentShrinks DEF VideoInv
  <2>3. \A d \in Conns : (OnPlane(d)' <=> OnPlane(d)) /\ (Serving(d)' <=> Serving(d))
    BY <2>1 DEF OnPlane, Serving
  <2>4. \A d \in Conns : step[d] = "dark" /\ refresh' # Idle => naps'[d] >= 1
    BY <1>1, <2>1 DEF Ownership
  <2>5. QED
    BY <2>1, <2>2, <2>3, <2>4, OwnersStay
<1>4. ASSUME NEW c \in Conns, Leave(c) \/ LeaveFrame(c) \/ Ending(c) PROVE Ownership'
  <2>1. CASE Leave(c)
    <3>1. step[c] = "new" \/ Serving(c)
      BY <2>1 DEF Leave
    <3>2. QED
      BY <2>1, <3>1, LeftOwners, DarkOwners
  <2>2. CASE FlushOffload(c) \/ Destroy(c) \/ DestroyImpatiently(c)
    BY <2>2, LeftOwners
  <2>3. CASE LeaveFrame(c) \/ FreePlane(c)
    BY <2>3, FreedOwners DEF LeaveFrame, FreePlane, Serving, OnPlane
  <2>4. QED
    BY <1>4, <2>1, <2>2, <2>3 DEF Ending
<1>5. QED
  BY <1>2, <1>3, <1>4, TickOwners, HandleOwners, AllocationOwners DEF Next

(***************************************************************************)
(* What the refresh thread may find.                                       *)
(***************************************************************************)

\* Between ticks only a plane that was turned off has a frame waiting.
LEMMA IdleStays ==
  ASSUME VideoInv, TypeOK', refresh = Idle, UNCHANGED <<refresh, naps>>,
         \A q \in ToSet(used') : plane'[q].next # NoFrame =>
           /\ q \in ToSet(used) /\ plane[q].next # NoFrame
           /\ plane'[q].conn = plane[q].conn
           /\ step[plane[q].conn] = "dark" => step'[plane[q].conn] = "dark"
  PROVE  TickInv'
<1>1. refresh'.step = "idle" /\ refresh' = Idle
  BY DEF Idle
<1>2. NextWaits'
  <2>0. DOMAIN used = 1..Len(used)
    BY DEF VideoInv, TypeOK
  <2>1. ASSUME NEW n \in 1..Len(used'), plane'[used'[n]].next # NoFrame
        PROVE  step'[plane'[used'[n]].conn] = "dark" /\ naps'[plane'[used'[n]].conn] >= 1
    <3> DEFINE q == used'[n]
    <3>1. q \in ToSet(used')
      BY DEF ToSet, TypeOK
    <3>2. q \in ToSet(used) /\ plane[q].next # NoFrame
      BY <2>1, <3>1
    <3>3. PICK i \in 1..Len(used) : used[i] = q
      BY <2>0, <3>2, Zenon DEF ToSet
    <3>4. plane[used[i]].next # NoFrame
      BY <3>2, <3>3
    <3>5. step[plane[q].conn] = "dark" /\ naps[plane[q].conn] >= 1
      BY <1>1, <3>3, <3>4 DEF VideoInv, TickInv, NextWaits, Pops
    <3>6. QED
      BY <2>1, <3>1, <3>5
  <2>2. QED
    BY <1>1, <2>1 DEF NextWaits
<1>3. FreeWaits' /\ FoundSoFar'
  BY <1>1 DEF FreeWaits, FoundSoFar, Pops
<1>4. QED
  BY <1>2, <1>3 DEF TickInv

\* What other threads do beside the refresh thread changes none of it.
LEMMA TickStays ==
  ASSUME VideoInv, TypeOK', UNCHANGED <<used, plane, refresh, naps>>,
         \A c \in Conns : step[c] = "dark" => step'[c] = "dark",
         \A q \in Planes : vfm[q].queue # <<>> =>
           vfm'[q].queue # <<>> /\ Head(vfm'[q].queue) = Head(vfm[q].queue)
  PROVE  TickInv'
<1>1. TypeOK /\ Ownership /\ TickInv
  BY DEF VideoInv
<1>2. \A n \in 1..Len(used) : step[plane[used[n]].conn] = "dark" => step'[plane[used[n]].conn] = "dark"
  BY <1>1, UsedPlane
<1>3. NextWaits'
  BY <1>1, <1>2 DEF TickInv, NextWaits
<1>4. FreeWaits'
  BY <1>1 DEF TickInv, FreeWaits
<1>5. FoundSoFar'
  <2> SUFFICES ASSUME refresh'.step \in Pops PROVE FoundSoFar'
    BY DEF FoundSoFar
  <2> DEFINE p == used[refresh.at]
  <2>1. p \in Planes
    BY <1>1, RefreshAt
  <2>2. vfm[p].queue # <<>> => vfm'[p].queue # <<>> /\ Head(vfm'[p].queue) = Head(vfm[p].queue)
    BY <2>1
  <2>3. /\ refresh.step = "drain" => refresh.frame = NoFrame
        /\ refresh.step \in {"base", "first", "second"} => refresh.frame = Held(p)
        /\ refresh.step = "second" =>
             vfm[p].queue # <<>> /\ Head(vfm[p].queue) = plane[p].curr /\ Real(plane[p].curr)
        /\ refresh.step = "take" =>
             \/ refresh.frame \in {NoFrame, Held(p)}
             \/ vfm[p].queue # <<>> /\ refresh.frame = Head(vfm[p].queue)
    BY <1>1 DEF TickInv, FoundSoFar
  <2>4. QED
    BY <2>2, <2>3 DEF FoundSoFar, Held, Real
<1>6. QED
  BY <1>3, <1>4, <1>5 DEF TickInv

\* A message of a client leaves the refresh thread what it has found.
LEMMA HandleTick ==
  ASSUME VideoInv, TypeOK', NEW c \in Conns, Handle(c)
  PROVE  TickInv'
<1> DEFINE p == planeOf[c]
<1>1. /\ TypeOK /\ Ownership /\ step \in [Conns -> Steps] /\ plane \in [Planes -> PlaneStates]
      /\ vfm \in [Planes -> Managers] /\ used \in Seq(Planes)
  BY DEF VideoInv, TypeOK
<1>2. CASE HandleVideoResource(c)
  <2>1. refresh = Idle /\ UNCHANGED <<refresh, naps>> /\ step[c] = "new"
    BY <1>2 DEF HandleVideoResource, Unlocked
  <2>2. \A d \in Conns : step[d] = "dark" => step'[d] = "dark"
    BY <1>1, <1>2 DEF HandleVideoResource
  <2>3. \A q \in ToSet(used) : q \in Planes /\ plane[q].conn \in Conns
    BY <1>1, UsedPlane DEF ToSet
  <2>4. \A q \in ToSet(used') : plane'[q].next # NoFrame =>
          q \in ToSet(used) /\ plane'[q] = plane[q]
    <3>1. CASE UNCHANGED <<used, plane>>
      BY <3>1
    <3>2. ASSUME NEW r \in Planes \ ToSet(used), used' = Append(used, r),
                 plane' = [plane EXCEPT ![r].conn = c, ![r].inUse = TRUE]
          PROVE  \A q \in ToSet(used') : plane'[q].next # NoFrame =>
                   q \in ToSet(used) /\ plane'[q] = plane[q]
      <4>1. ToSet(used') = ToSet(used) \cup {r}
        BY <1>1, <3>2, AppendSet
      <4>2. plane[r].next = NoFrame
        BY <1>1 DEF Ownership
      <4>3. plane'[r].next = NoFrame
        BY <1>1, <3>2, <4>2 DEF PlaneStates
      <4>4. \A q \in Planes : q # r => plane'[q] = plane[q]
        BY <1>1, <3>2
      <4>5. QED
        BY <2>3, <4>1, <4>3, <4>4
    <3>3. QED
      BY <1>2, <3>1, <3>2 DEF HandleVideoResource
  <2>5. QED
    BY <2>1, <2>2, <2>3, <2>4, IdleStays
<1>3. CASE \E b \in Buffers : HandleFrame(c, b) \/ HandleBadFrame(c, b)
  <2>1. UNCHANGED <<used, plane, refresh, naps, step>>
    BY <1>3 DEF HandleFrame, HandleBadFrame, connVars
  <2>2. \A q \in Planes : vfm[q].queue # <<>> =>
          vfm'[q].queue # <<>> /\ Head(vfm'[q].queue) = Head(vfm[q].queue)
    <3>1. CASE vfm' = vfm
      BY <3>1
    <3>2. ASSUME NEW b \in Buffers,
                 vfm' = [vfm EXCEPT ![p].queue = Append(@, [fb |-> <<c, sent[c] + 1>>, bufferId |-> b])]
          PROVE  \A q \in Planes : vfm[q].queue # <<>> =>
                   vfm'[q].queue # <<>> /\ Head(vfm'[q].queue) = Head(vfm[q].queue)
      <4> TAKE q \in Planes
      <4>1. CASE q # p
        BY <1>1, <3>2, <4>1
      <4>2. CASE q = p
        <5>1. PICK f : f = [fb |-> <<c, sent[c] + 1>>, bufferId |-> b]
          OBVIOUS
        <5>2. vfm'[q].queue = Append(vfm[q].queue, f)
          BY <1>1, <3>2, <4>2, <5>1 DEF Managers
        <5>3. vfm[q].queue \in Seq(Frames) /\ vfm'[q].queue \in Seq(Frames)
          BY <1>1 DEF Managers, TypeOK
        <5>4. QED
          BY <5>2, <5>3
      <4>3. QED
        BY <4>1, <4>2
    <3>3. QED
      BY <1>3, <3>1, <3>2 DEF HandleFrame, HandleBadFrame
  <2>3. QED
    BY <2>1, <2>2, TickStays
<1>4. CASE \/ HandleFlush(c) \/ HandleSession(c) \/ HandleFrameAdvance(c)
           \/ \E pause \in BOOLEAN : HandlePause(c, pause)
           \/ \E keep \in BOOLEAN : HandleKeepLastFrame(c, keep)
  <2>1. refresh = Idle /\ UNCHANGED <<refresh, naps, used, step>>
    BY <1>4 DEF HandleFlush, HandleSession, HandlePause, HandleFrameAdvance, HandleKeepLastFrame,
                Unlocked, connVars
  <2>2. \A q \in Planes : plane'[q].next = plane[q].next /\ plane'[q].conn = plane[q].conn
    <3>1. plane' = plane \/ \E keep \in BOOLEAN : plane' = [plane EXCEPT ![p].keepLastFrame = keep]
      BY <1>4 DEF HandleFlush, HandleSession, HandlePause, HandleFrameAdvance, HandleKeepLastFrame
    <3>2. p \in Planes /\ plane[p] \in PlaneStates
      <4>1. OnPlane(c)
        BY <1>4 DEF HandleFlush, HandleSession, HandlePause, HandleFrameAdvance,
                    HandleKeepLastFrame, OnPlane, Serving
      <4>2. QED
        BY <1>1, <4>1, PlaneOfConn
    <3>3. plane'[p].next = plane[p].next /\ plane'[p].conn = plane[p].conn
      BY <1>1, <3>1, <3>2 DEF PlaneStates
    <3>4. \A q \in Planes : q # p => plane'[q] = plane[q]
      BY <1>1, <3>1
    <3>5. QED
      BY <3>3, <3>4
  <2>3. \A q \in ToSet(used) : q \in Planes
    BY <1>1, UsedPlane DEF ToSet
  <2>4. QED
    BY <2>1, <2>2, <2>3, IdleStays
<1>5. QED
  BY <1>2, <1>3, <1>4 DEF Handle

\* The end of a connection leaves the refresh thread what it has found.
LEMMA EndTick ==
  ASSUME VideoInv, TypeOK', NEW c \in Conns, Leave(c) \/ LeaveFrame(c) \/ Ending(c)
  PROVE  TickInv'
<1> DEFINE p == planeOf[c]
<1>1. /\ TypeOK /\ Ownership /\ step \in [Conns -> Steps] /\ plane \in [Planes -> PlaneStates]
      /\ used \in Seq(Planes)
  BY DEF VideoInv, TypeOK
<1>2. \A q \in ToSet(used) : q \in Planes /\ plane[q].conn \in Conns /\ planeOf[plane[q].conn] = q
  BY <1>1, UsedPlane DEF ToSet
<1>3. CASE FlushOffload(c) \/ Destroy(c) \/ DestroyImpatiently(c) \/ (step[c] = "new" /\ Leave(c))
  <2>1. /\ UNCHANGED <<used, plane, refresh, naps, vfm>>
        /\ \E s : step' = [step EXCEPT ![c] = s]
        /\ step[c] # "dark"
    BY <1>3 DEF FlushOffload, Destroy, DestroyImpatiently, Leave, Serving
  <2>2. \A d \in Conns : step[d] = "dark" => step'[d] = "dark"
    BY <1>1, <2>1
  <2>3. QED
    BY <2>1, <2>2, TickStays
<1>4. CASE Serving(c) /\ Leave(c)
  <2>1. /\ refresh = Idle /\ UNCHANGED <<refresh, naps, used>>
        /\ step' = [step EXCEPT ![c] = "dark"] /\ plane' = [plane EXCEPT ![p].inUse = FALSE]
    BY <1>4 DEF Leave, Serving, Unlocked
  <2>2. \A d \in Conns : step[d] = "dark" => step'[d] = "dark"
    BY <1>1, <2>1
  <2>3. \A q \in Planes : plane'[q].next = plane[q].next /\ plane'[q].conn = plane[q].conn
    BY <1>1, <2>1 DEF PlaneStates
  <2>4. QED
    BY <1>2, <2>1, <2>2, <2>3, IdleStays
<1>5. CASE OnPlane(c) /\ EndPlane(c)
  <2>1. /\ refresh = Idle /\ UNCHANGED <<refresh, naps>>
        /\ step' = [step EXCEPT ![c] = "left"] /\ used' = RemoveFirst(used, p)
        /\ \E s : plane' = [plane EXCEPT ![p] = s]
    BY <1>5 DEF EndPlane, Unlocked
  <2>2. p \in ToSet(used) /\ p \in Planes
    BY <1>1, <1>5, PlaneOfConn
  <2>3. ToSet(used') = ToSet(used) \ {p}
    BY <1>1, <2>1, <2>2, RemoveFirstSet DEF Ownership
  <2>4. \A q \in ToSet(used') : q \in ToSet(used) /\ plane'[q] = plane[q]
    BY <1>1, <1>2, <2>1, <2>3
  <2>5. \A q \in ToSet(used') : plane[q].conn # c
    BY <1>2, <2>3
  <2>6. \A d \in Conns : d # c => step'[d] = step[d]
    BY <1>1, <2>1
  <2>7. QED
    BY <1>2, <2>1, <2>4, <2>5, <2>6, IdleStays
<1>6. QED
  BY <1>3, <1>4, <1>5 DEF Leave, LeaveFrame, Ending, FreePlane, Serving, OnPlane

\* A tick begins with nothing on its way to the screen.
LEMMA StartingTick ==
  ASSUME VideoInv, TypeOK', StartTick, ExitTicks <= 1
  PROVE  TickInv'
<1>1. /\ TypeOK /\ Ownership /\ TickInv /\ used \in Seq(Planes) /\ naps \in [Conns -> 0..ExitTicks]
      /\ ExitTicks \in Nat
  BY VideoAssumption DEF VideoInv, TypeOK
<1>2. refresh = Idle /\ refresh.step = "idle" /\ UNCHANGED <<used, plane, vfm, step>>
  BY DEF StartTick, Unlocked, Idle
<1>3. \A n \in 1..Len(used) : plane[used[n]].next = NoFrame
  <2> SUFFICES ASSUME NEW n \in 1..Len(used), plane[used[n]].next # NoFrame PROVE FALSE
    OBVIOUS
  <2>1. step[plane[used[n]].conn] = "dark" /\ naps[plane[used[n]].conn] >= 1
    BY <1>1, <1>2 DEF TickInv, NextWaits, Pops
  <2>2. PICK c \in Conns : c = plane[used[n]].conn
    BY <1>1, UsedPlane
  <2>3. naps[c] < ExitTicks
    BY <2>1, <2>2 DEF StartTick, Asleep
  <2>4. QED
    BY <1>1, <2>1, <2>2, <2>3
<1>4. CASE used = <<>>
  <2>1. refresh' = Idle /\ 1..Len(used') = {}
    BY <1>2, <1>4 DEF StartTick
  <2>2. QED
    BY <1>2, <2>1 DEF TickInv, NextWaits, FreeWaits, FoundSoFar, Pops
<1>5. CASE used # <<>>
  <2>1. refresh'.step = "release" /\ refresh'.at = 1
    BY <1>5 DEF StartTick, Releasing
  <2>2. QED
    BY <1>2, <1>3, <2>1 DEF TickInv, NextWaits, FreeWaits, FoundSoFar, Pops
<1>6. QED
  BY <1>4, <1>5

\* The frames that left the screen are gone after the first round.
LEMMA ReleasingTick ==
  ASSUME VideoInv, TypeOK', ReleasePrevious
  PROVE  TickInv'
<1> DEFINE m == refresh.at
           p == used[m]
<1>1. /\ TypeOK /\ Ownership /\ TickInv /\ Len(used) \in Nat /\ plane \in [Planes -> PlaneStates]
  BY DEF VideoInv, TypeOK
<1>2. refresh.step = "release" /\ used' = used /\ refresh # Idle
  BY DEF ReleasePrevious, Idle
<1>3. m \in 1..Len(used) /\ p \in Planes
  BY <1>1, <1>2, RefreshAt
<1>4. \A n \in 1..Len(used) : plane[used[n]].next = NoFrame
  BY <1>1, <1>2 DEF TickInv, NextWaits, Pops
<1>5. \A n \in 1..Len(used) : Real(plane[used[n]].free) => n >= m
  BY <1>1, <1>2 DEF TickInv, FreeWaits
<1>6. /\ \A q \in Planes : plane'[q].next = plane[q].next /\ (q # p => plane'[q] = plane[q])
      /\ ~Real(plane'[p].free)
  <2>1. CASE ~Real(plane[p].free)
    BY <2>1 DEF ReleasePrevious, Real
  <2>2. CASE Real(plane[p].free)
    <3>1. plane' = [plane EXCEPT ![p].free = NoFrame]
      BY <2>2 DEF ReleasePrevious, Real
    <3>2. plane[p] \in PlaneStates
      BY <1>1, <1>3
    <3>3. plane'[p].free = NoFrame /\ plane'[p].next = plane[p].next
      BY <1>1, <1>3, <3>1, <3>2 DEF PlaneStates
    <3>4. QED
      BY <1>1, <3>1, <3>3, FrameFields
  <2>3. QED
    BY <2>1, <2>2
<1>7. \A n \in 1..Len(used) : used[n] \in Planes
  BY <1>1, UsedPlane
<1>8. NextWaits'
  <2>1. \A n \in 1..Len(used) : plane'[used[n]].next = NoFrame
    BY <1>4, <1>6, <1>7
  <2>2. QED
    BY <1>2, <2>1 DEF NextWaits
<1>9. \A n \in 1..Len(used) : Real(plane'[used[n]].free) => n >= m + 1
  <2> SUFFICES ASSUME NEW n \in 1..Len(used), Real(plane'[used[n]].free) PROVE n >= m + 1
    OBVIOUS
  <2>1. used[n] # p /\ plane'[used[n]] = plane[used[n]]
    BY <1>6, <1>7
  <2>2. n >= m /\ n # m
    BY <1>5, <2>1
  <2>3. QED
    BY <1>3, <2>2
<1>10. CASE m < Len(used)
  <2>1. refresh'.step = "release" /\ refresh'.at = m + 1
    BY <1>10 DEF ReleasePrevious, Onward, Releasing
  <2>2. FreeWaits' /\ FoundSoFar'
    BY <1>2, <1>9, <2>1 DEF FreeWaits, FoundSoFar, Pops
  <2>3. QED
    BY <1>8, <2>2 DEF TickInv
<1>11. CASE ~(m < Len(used))
  <2>1. refresh'.step = "check"
    BY <1>11 DEF ReleasePrevious, Onward, Checking
  <2>2. \A n \in 1..Len(used) : ~Real(plane'[used[n]].free)
    BY <1>1, <1>3, <1>9, <1>11
  <2>3. FreeWaits' /\ FoundSoFar'
    BY <1>2, <2>1, <2>2 DEF FreeWaits, FoundSoFar, Pops
  <2>4. QED
    BY <1>8, <2>3 DEF TickInv
<1>12. QED
  BY <1>10, <1>11

\* While a frame is looked for the slots of the planes stay as they are.
LEMMA LookingTick ==
  ASSUME VideoInv, TypeOK', UNCHANGED <<used, plane>>,
         refresh.step \in Pops \cup {"check"}, refresh'.step \in Pops, refresh'.at = refresh.at,
         FoundSoFar'
  PROVE  TickInv'
<1>1. TickInv
  BY DEF VideoInv
<1>2. refresh # Idle /\ refresh.step # "swap" /\ refresh.step # "release"
  BY DEF Idle, Pops
<1>3. \A n \in 1..Len(used) : plane[used[n]].next # NoFrame => n < refresh.at
  BY <1>1, <1>2 DEF TickInv, NextWaits
<1>4. NextWaits'
  BY <1>3 DEF NextWaits
<1>5. FreeWaits'
  BY <1>1, <1>2 DEF TickInv, FreeWaits
<1>6. QED
  BY <1>4, <1>5 DEF TickInv

\* A frame that is found is the current one or the head of the queue.
LEMMA FoundNext ==
  ASSUME VideoInv, TypeOK', UNCHANGED <<used, plane>>, NEW r,
         refresh.step \in Pops \cup {"check"}, refresh'.step \in Pops, refresh'.at = refresh.at,
         r = used[refresh.at],
         refresh'.step = "drain" => refresh'.frame = NoFrame,
         refresh'.step \in {"base", "first", "second"} => refresh'.frame = Held(r),
         refresh'.step = "second" =>
           vfm'[r].queue # <<>> /\ Head(vfm'[r].queue) = plane[r].curr /\ Real(plane[r].curr),
         refresh'.step = "take" =>
           \/ refresh'.frame \in {NoFrame, Held(r)}
           \/ vfm'[r].queue # <<>> /\ refresh'.frame = Head(vfm'[r].queue)
  PROVE  TickInv'
<1>1. Held(r)' = Held(r)
  BY DEF Held
<1>2. used'[refresh'.at] = r
  OBVIOUS
<1>3. FoundSoFar'
  BY <1>1, <1>2 DEF FoundSoFar, Held, Real
<1>4. QED
  BY <1>3, LookingTick

\* What the steps of the search find.
LEMMA FindingTick ==
  ASSUME VideoInv, TypeOK',
         CheckPlane \/ Drain \/ DropExpired \/ FirstDue \/ DropEarly \/ SecondDue \/ NoneDue
  PROVE  TickInv'
<1> DEFINE m == refresh.at
           p == used[m]
           v == vfm[p]
           q == v.queue
<1>1. /\ TypeOK /\ Ownership /\ TickInv /\ FrameInv /\ QueuesIncrease /\ vfm \in [Planes -> Managers]
  BY DEF VideoInv, PlacesInv, TypeOK
<1>2. UNCHANGED <<used, plane>> /\ refresh.step \in Pops \cup {"check"}
  BY DEF CheckPlane, Drain, DropExpired, FirstDue, DropEarly, SecondDue, NoneDue, Pops
<1>3. refresh # Idle
  BY <1>2 DEF Pops, Idle
<1>4. m \in 1..Len(used) /\ p \in Planes /\ v \in Managers /\ q \in Seq(Frames)
  BY <1>1, <1>3, RefreshAt DEF Managers
<1>5. Increasing(q)
  BY <1>1, <1>4 DEF QueuesIncrease
<1>6. Held(p) \in Frames \cup {NoFrame}
  BY <1>1, <1>4, HeldType DEF FrameInv, Belong
<1>7. plane[p].next = NoFrame
  BY <1>1, <1>2, <1>3, <1>4 DEF TickInv, NextWaits, Pops
<1>8. \A f \in Queued(p) : f.bufferId = v.bufferIdCurrent => f = plane[p].curr /\ Real(f) /\ f = Held(p)
  <2> SUFFICES ASSUME NEW f \in Queued(p), f.bufferId = v.bufferIdCurrent
               PROVE  f = plane[p].curr /\ Real(f) /\ f = Held(p)
    OBVIOUS
  <2>1. f = Newest(p)
    BY <1>1, <1>4, CurrentHeld
  <2>2. f = plane[p].curr
    BY <1>7, <2>1 DEF Newest
  <2>3. Real(f)
    BY <1>1, <1>4, QueueType, FrameFields
  <2>4. QED
    BY <2>2, <2>3 DEF Held, Real
<1>9. q # <<>> => Head(q) \in Queued(p)
  BY <1>4, <1>5, QueueFacts DEF Queued
<1>10. Len(q) > 1 => q[2] \in Queued(p) /\ q[2] # Head(q)
  BY <1>4, <1>5, QueueFacts DEF Queued
<1>11. refresh.step \in Pops =>
         /\ refresh.step \in {"base", "first", "second"} => refresh.frame = Held(p)
         /\ refresh.step = "second" => q # <<>> /\ Head(q) = plane[p].curr /\ Real(plane[p].curr)
  BY <1>1 DEF TickInv, FoundSoFar
<1>12. CASE CheckPlane
  <2>1. /\ refresh'.at = m
        /\ \/ refresh'.step \in {"take", "drain"} /\ refresh'.frame = NoFrame
           \/ refresh'.step \in {"first", "base"} /\ refresh'.frame = Held(p)
    BY <1>12 DEF CheckPlane, Popping
  <2>2. QED
    BY <1>2, <2>1, FoundNext DEF Pops
<1>13. CASE Drain
  <2>1. refresh.step = "drain" /\ refresh.step \in Pops
    BY <1>13 DEF Drain, Pops
  <2>2. CASE Len(q) > 1
    <3>1. refresh'.at = m /\ refresh'.step = "drain" /\ refresh'.frame = NoFrame
      BY <1>13, <2>2 DEF Drain, Drop, Popping
    <3>2. QED
      BY <1>2, <3>1, FoundNext DEF Pops
  <2>3. CASE ~(Len(q) > 1)
    <3> DEFINE f == IF q = <<>> THEN NoFrame ELSE Head(q)
    <3>1. refresh' = [refresh EXCEPT !.step = "take", !.frame = f] /\ vfm' = vfm
      BY <1>13, <2>3 DEF Drain
    <3>2. f \in Frames \cup {NoFrame}
      BY <1>1, <1>4, <1>9, QueueType
    <3>3. refresh' = Popping("take", m, f, refresh.dropped)
      BY <1>1, <2>1, <3>1, <3>2, RefreshMoves DEF Pops
    <3>4. refresh'.at = m /\ refresh'.step = "take" /\ refresh'.frame = f
      BY <3>3 DEF Popping
    <3>5. QED
      BY <1>2, <3>1, <3>4, FoundNext DEF Pops
  <2>4. QED
    BY <2>2, <2>3
<1>14. CASE DropExpired
  <2>1. refresh'.at = m /\ refresh'.step = "first" /\ refresh'.frame = Held(p)
    BY <1>14 DEF DropExpired, Drop, Popping
  <2>2. QED
    BY <1>2, <2>1, FoundNext DEF Pops
<1>15. CASE FirstDue
  <2> DEFINE f == Head(q)
  <2>1. refresh.step \in Pops /\ q # <<>> /\ f \in Queued(p) /\ f \in Frames
    BY <1>1, <1>4, <1>9, <1>15, QueueType DEF FirstDue, Pops
  <2>2. CASE f.bufferId = v.bufferIdCurrent
    <3>1. refresh' = [refresh EXCEPT !.step = "second", !.frame = f] /\ vfm' = vfm
      BY <1>15, <2>2 DEF FirstDue
    <3>2. refresh' = Popping("second", m, f, refresh.dropped)
      BY <1>1, <2>1, <3>1, RefreshMoves DEF Pops
    <3>3. refresh'.at = m /\ refresh'.step = "second" /\ refresh'.frame = f
      BY <3>2 DEF Popping
    <3>4. f = plane[p].curr /\ Real(f) /\ f = Held(p)
      BY <1>8, <2>1, <2>2
    <3>5. QED
      BY <1>2, <2>1, <3>1, <3>3, <3>4, FoundNext DEF Pops
  <2>3. CASE f.bufferId # v.bufferIdCurrent
    <3>1. refresh' = [refresh EXCEPT !.step = "take", !.frame = f]
          /\ vfm' = [vfm EXCEPT ![p].frameAdvance = FALSE]
      BY <1>15, <2>3 DEF FirstDue
    <3>2. refresh' = Popping("take", m, f, refresh.dropped)
      BY <1>1, <2>1, <3>1, RefreshMoves DEF Pops
    <3>3. refresh'.at = m /\ refresh'.step = "take" /\ refresh'.frame = f
      BY <3>2 DEF Popping
    <3>4. vfm'[p].queue = q
      BY <1>1, <1>4, <3>1 DEF Managers
    <3>5. QED
      BY <1>2, <2>1, <3>3, <3>4, FoundNext DEF Pops
  <2>4. QED
    BY <2>2, <2>3
<1>16. CASE DropEarly
  <2>1. refresh.step \in Pops /\ refresh.step = "second" /\ Len(q) > 1
    BY <1>16 DEF DropEarly, Pops
  <2>2. refresh'.at = m /\ refresh'.step = "second" /\ refresh'.frame = Held(p)
    BY <1>16 DEF DropEarly, Drop, Popping
  <2>3. vfm'[p].queue = RemoveAt(q, 2)
    BY <1>1, <1>4, <1>16 DEF DropEarly, Managers
  <2>4. vfm'[p].queue # <<>> /\ Head(vfm'[p].queue) = Head(q)
    BY <1>4, <1>5, <2>1, <2>3, SecondLeaves
  <2>5. QED
    BY <1>2, <1>11, <2>1, <2>2, <2>4, FoundNext DEF Pops
<1>17. CASE SecondDue
  <2> DEFINE f == q[2]
  <2>1. refresh.step \in Pops /\ refresh.step = "second" /\ Len(q) > 1
    BY <1>17 DEF SecondDue, Pops
  <2>2. f \in Queued(p) /\ f # Head(q) /\ f \in Frames
    BY <1>1, <1>4, <1>10, <2>1, QueueType
  <2>3. f.bufferId # v.bufferIdCurrent
    BY <1>8, <1>11, <2>1, <2>2
  <2>4. refresh' = [refresh EXCEPT !.step = "take", !.frame = f]
    BY <1>17, <2>3 DEF SecondDue
  <2>5. refresh' = Popping("take", m, f, refresh.dropped)
    BY <1>1, <2>1, <2>2, <2>4, RefreshMoves DEF Pops
  <2>6. refresh'.at = m /\ refresh'.step = "take" /\ refresh'.frame = f
    BY <2>5 DEF Popping
  <2>7. vfm'[p].queue = Tail(q)
    BY <1>1, <1>4, <1>17 DEF SecondDue, Managers
  <2>8. vfm'[p].queue # <<>> /\ Head(vfm'[p].queue) = f
    <3>1. q # <<>>
      BY <1>4, <2>1
    <3>2. QED
      BY <1>4, <1>5, <2>1, <2>7, <3>1, TailIncreases
  <2>9. QED
    BY <1>2, <2>6, <2>8, FoundNext DEF Pops
<1>18. CASE NoneDue
  <2>1. refresh.step \in Pops /\ refresh.step \in {"first", "second"} /\ refresh.frame = Held(p)
    BY <1>11, <1>18 DEF NoneDue, Pops
  <2>2. refresh' = [refresh EXCEPT !.step = "take"]
    BY <1>18 DEF NoneDue
  <2>3. refresh' = Popping("take", m, refresh.frame, refresh.dropped)
    BY <1>1, <1>6, <2>1, <2>2, RefreshMoves DEF Pops
  <2>4. refresh'.at = m /\ refresh'.step = "take" /\ refresh'.frame = Held(p)
    BY <2>1, <2>3 DEF Popping
  <2>5. QED
    BY <1>2, <2>4, FoundNext DEF Pops
<1>19. QED
  BY <1>12, <1>13, <1>14, <1>15, <1>16, <1>17, <1>18

\* The frame that was found waits for the screen.
LEMMA TakingTick ==
  ASSUME VideoInv, TypeOK', TakeFrame
  PROVE  TickInv'
<1> DEFINE m == refresh.at
           p == used[m]
<1>1. /\ TypeOK /\ Ownership /\ TickInv /\ Len(used) \in Nat /\ plane \in [Planes -> PlaneStates]
      /\ used \in Seq(Planes)
  BY DEF VideoInv, TypeOK
<1>2. refresh.step = "take" /\ used' = used /\ refresh # Idle
  BY DEF TakeFrame, Idle
<1>3. m \in 1..Len(used) /\ p \in Planes
  BY <1>1, <1>2, RefreshAt
<1>4. \A n \in 1..Len(used) : plane[used[n]].next # NoFrame => n < m
  BY <1>1, <1>2 DEF TickInv, NextWaits, Pops
<1>5. \A n \in 1..Len(used) : ~Real(plane[used[n]].free)
  BY <1>1, <1>2 DEF TickInv, FreeWaits, Pops
<1>6. \A q \in Planes : plane'[q].free = plane[q].free /\ (q # p => plane'[q] = plane[q])
  <2>1. plane' = plane \/ plane' = [plane EXCEPT ![p].next = refresh.frame]
    BY DEF TakeFrame
  <2>2. plane[p] \in PlaneStates
    BY <1>1, <1>3
  <2>3. plane'[p].free = plane[p].free
    BY <1>1, <1>3, <2>1, <2>2 DEF PlaneStates
  <2>4. \A q \in Planes : q # p => plane'[q] = plane[q]
    BY <1>1, <2>1
  <2>5. QED
    BY <2>3, <2>4
<1>7. \A n \in 1..Len(used) : used[n] \in Planes /\ (used[n] = p => n = m)
  <2>1. \A i, j \in 1..Len(used) : used[i] = used[j] => i = j
    BY <1>1 DEF Ownership, IsInjective
  <2>2. QED
    BY <1>1, <1>3, <2>1
<1>8. \A n \in 1..Len(used) : plane'[used[n]].next # NoFrame => n < m + 1
  <2> SUFFICES ASSUME NEW n \in 1..Len(used), plane'[used[n]].next # NoFrame PROVE n < m + 1
    OBVIOUS
  <2>1. n = m \/ plane'[used[n]] = plane[used[n]]
    BY <1>6, <1>7
  <2>2. n = m \/ n < m
    BY <1>4, <2>1
  <2>3. QED
    BY <1>3, <2>2
<1>9. \A n \in 1..Len(used) : ~Real(plane'[used[n]].free)
  BY <1>5, <1>6, <1>7
<1>10. FreeWaits'
  BY <1>2, <1>9 DEF FreeWaits
<1>11. \/ refresh'.step = "check" /\ refresh'.at = m + 1
       \/ refresh'.step = "swap" /\ refresh'.at = 1
  BY DEF TakeFrame, Onward, Checking, Swapping
<1>12. FoundSoFar'
  BY <1>11 DEF FoundSoFar, Pops
<1>13. NextWaits'
  BY <1>2, <1>8, <1>11 DEF NextWaits
<1>14. QED
  BY <1>10, <1>12, <1>13 DEF TickInv

\* The swap leaves a frame waiting only on a plane that was turned off.
LEMMA SwappingTick ==
  ASSUME VideoInv, TypeOK', SwapBuffers
  PROVE  TickInv'
<1> DEFINE m == refresh.at
           p == used[m]
           Dark(n) == step[plane[used[n]].conn] = "dark"
<1>1. /\ TypeOK /\ Ownership /\ TickInv /\ Len(used) \in Nat /\ plane \in [Planes -> PlaneStates]
      /\ used \in Seq(Planes)
  BY DEF VideoInv, TypeOK
<1>2. refresh.step = "swap" /\ UNCHANGED <<used, step, naps>> /\ refresh # Idle
  BY DEF SwapBuffers, Idle, connVars
<1>3. m \in 1..Len(used) /\ p \in Planes /\ plane[p] \in PlaneStates
  BY <1>1, <1>2, RefreshAt
<1>4. \A n \in 1..Len(used) : plane[used[n]].next # NoFrame => n >= m \/ Dark(n)
  BY <1>1, <1>2 DEF TickInv, NextWaits, Pops
<1>5. \A n \in 1..Len(used) : Real(plane[used[n]].free) => n < m
  BY <1>1, <1>2 DEF TickInv, FreeWaits
<1>6. /\ \A q \in Planes : plane'[q].conn = plane[q].conn /\ (q # p => plane'[q] = plane[q])
      /\ plane'[p].next # NoFrame => ~plane[p].inUse
  <2>1. CASE plane[p].inUse /\ plane[p].next # NoFrame
    <3>1. plane' = [plane EXCEPT ![p] = Rotated(plane[p])]
      BY <2>1 DEF SwapBuffers
    <3>2. Rotated(plane[p]).conn = plane[p].conn /\ Rotated(plane[p]).next = NoFrame
      BY <1>3, Zenon DEF Rotated, PlaneStates
    <3>3. QED
      BY <1>1, <1>3, <3>1, <3>2
  <2>2. CASE ~(plane[p].inUse /\ plane[p].next # NoFrame)
    BY <2>2 DEF SwapBuffers
  <2>3. QED
    BY <2>1, <2>2
<1>7. \A n \in 1..Len(used) : /\ used[n] \in Planes /\ (used[n] = p <=> n = m)
                              /\ plane[used[n]].conn \in Conns
                              /\ plane[used[n]].inUse \/ Dark(n)
                              /\ Dark(n) => naps[plane[used[n]].conn] >= 1
  <2>1. \A i, j \in 1..Len(used) : used[i] = used[j] => i = j
    BY <1>1 DEF Ownership, IsInjective
  <2>2. \A n \in 1..Len(used) : /\ used[n] \in Planes /\ plane[used[n]].conn \in Conns
                                /\ plane[used[n]].inUse \/ Dark(n)
    BY <1>1, UsedPlane DEF OnPlane, Serving
  <2>3. \A c \in Conns : step[c] = "dark" => naps[c] >= 1
    BY <1>1, <1>2 DEF Ownership
  <2>4. QED
    BY <1>3, <2>1, <2>2, <2>3
<1>8. \A n \in 1..Len(used) : plane'[used[n]].next # NoFrame => n >= m + 1 \/ Dark(n)
  <2> SUFFICES ASSUME NEW n \in 1..Len(used), plane'[used[n]].next # NoFrame
               PROVE  n >= m + 1 \/ Dark(n)
    OBVIOUS
  <2>1. CASE n = m
    BY <1>6, <1>7, <2>1
  <2>2. CASE n # m
    <3>1. plane'[used[n]] = plane[used[n]]
      BY <1>6, <1>7, <2>2
    <3>2. n >= m \/ Dark(n)
      BY <1>4, <3>1
    <3>3. QED
      BY <1>3, <2>2, <3>2
  <2>3. QED
    BY <2>1, <2>2
<1>9. \A n \in 1..Len(used) : Real(plane'[used[n]].free) => n < m + 1
  <2> SUFFICES ASSUME NEW n \in 1..Len(used), Real(plane'[used[n]].free) PROVE n < m + 1
    OBVIOUS
  <2>1. n = m \/ plane'[used[n]] = plane[used[n]]
    BY <1>6, <1>7
  <2>2. n = m \/ n < m
    BY <1>5, <2>1
  <2>3. QED
    BY <1>3, <2>2
<1>10. \A n \in 1..Len(used) : plane'[used[n]].conn = plane[used[n]].conn
  BY <1>6, <1>7
<1>11. CASE m < Len(used)
  <2>1. refresh'.step = "swap" /\ refresh'.at = m + 1
    BY <1>11 DEF SwapBuffers, Onward, Swapping
  <2>2. NextWaits'
    BY <1>2, <1>8, <1>10, <2>1 DEF NextWaits
  <2>3. FreeWaits' /\ FoundSoFar'
    BY <1>2, <1>9, <2>1 DEF FreeWaits, FoundSoFar, Pops
  <2>4. QED
    BY <2>2, <2>3 DEF TickInv
<1>12. CASE ~(m < Len(used))
  <2>1. refresh' = Idle /\ refresh'.step = "idle"
    BY <1>12 DEF SwapBuffers, Onward, Idle
  <2>2. \A n \in 1..Len(used) : plane'[used[n]].next # NoFrame =>
          Dark(n) /\ naps[plane[used[n]].conn] >= 1
    BY <1>1, <1>3, <1>7, <1>8, <1>12
  <2>3. NextWaits'
    BY <1>2, <1>10, <2>1, <2>2 DEF NextWaits
  <2>4. FreeWaits' /\ FoundSoFar'
    BY <2>1 DEF FreeWaits, FoundSoFar, Pops
  <2>5. QED
    BY <2>3, <2>4 DEF TickInv
<1>13. QED
  BY <1>11, <1>12

\* Every step keeps what the refresh thread may find.
LEMMA TickStep ==
  ASSUME VideoInv, TypeOK', [Next]_vars, ExitTicks <= 1
  PROVE  TickInv'
<1>1. CASE UNCHANGED vars
  BY <1>1, TickStays DEF vars, connVars
<1>2. CASE Tick
  BY <1>2, StartingTick, ReleasingTick, FindingTick, TakingTick, SwappingTick DEF Tick
<1>3. CASE Offload
  <2>1. UNCHANGED <<used, plane, refresh, naps, step, vfm>>
    BY <1>3 DEF Offload, Wake, PopMessage, WorkOff, connVars
  <2>2. QED
    BY <2>1, TickStays
<1>4. QED
  BY <1>1, <1>2, <1>3, HandleTick, EndTick DEF Next

(***************************************************************************)
(* The invariant holds.                                                    *)
(***************************************************************************)

\* A client that could not send a frame has sent one more.
LEMMA RefusedStep ==
  ASSUME VideoInv, [Next]_vars
  PROVE  RefusedFew'
<1>1. RefusedFew /\ refused \in [Conns -> SUBSET Buffers]
  BY DEF VideoInv, TypeOK
<1>2. \/ refused' = refused
      \/ \E c \in Conns, b \in Buffers : refused' = [refused EXCEPT ![c] = @ \cup {b}]
  <2>1. CASE UNCHANGED vars
    BY <2>1 DEF vars, clientVars
  <2>2. CASE Tick
    BY <2>2 DEF Tick, StartTick, ReleasePrevious, CheckPlane, Drain, DropExpired, FirstDue,
                DropEarly, SecondDue, NoneDue, TakeFrame, SwapBuffers, clientVars
  <2>3. CASE Offload
    BY <2>3 DEF Offload, Wake, PopMessage, WorkOff, clientVars
  <2>4. ASSUME NEW c \in Conns, Handle(c)
        PROVE  \/ refused' = refused
               \/ \E b \in Buffers : refused' = [refused EXCEPT ![c] = @ \cup {b}]
    BY <2>4 DEF Handle, HandleVideoResource, HandleFrame, HandleBadFrame, HandleFlush,
                HandleSession, HandlePause, HandleFrameAdvance, HandleKeepLastFrame, clientVars
  <2>5. ASSUME NEW c \in Conns, Leave(c) \/ LeaveFrame(c) \/ Ending(c)
        PROVE  refused' = refused
    BY <2>5 DEF Leave, LeaveFrame, Ending, FreePlane, EndPlane, FlushOffload, Destroy,
                DestroyImpatiently, clientVars
  <2>6. QED
    BY <2>1, <2>2, <2>3, <2>4, <2>5 DEF Next
<1>3. ASSUME NEW c \in Conns, NEW b \in Buffers, refused' = [refused EXCEPT ![c] = @ \cup {b}]
      PROVE  RefusedFew'
  <2> SUFFICES ASSUME NEW d \in Conns PROVE IsFiniteSet(refused'[d])
    BY DEF RefusedFew
  <2>1. IsFiniteSet(refused[d]) /\ IsFiniteSet(refused[d] \cup {b})
    BY <1>1, FS_AddElement DEF RefusedFew
  <2>2. refused'[d] = refused[d] \/ refused'[d] = refused[d] \cup {b}
    BY <1>1, <1>3
  <2>3. QED
    BY <2>1, <2>2
<1>4. QED
  BY <1>1, <1>2, <1>3 DEF RefusedFew

\* In the beginning there is no frame.
LEMMA InitHolds ==
  ASSUME Init
  PROVE  VideoInv
<1>1. Fresh \in Managers /\ Unused \in PlaneStates /\ NoFrame \in Slots /\ Fresh.queue = <<>>
      /\ Fresh.bufferIdCurrent = NoBuffer
  <2>1. NoFrame \in Slots
    BY FrameFields
  <2>2. QED
    BY <2>1 DEF Fresh, Managers, Unused, PlaneStates
<1>2. TypeOK
  BY <1>1, VideoAssumption DEF Init, TypeOK, Steps, RefreshSteps, Waiting
<1>3. /\ \A p \in Planes : /\ plane[p] = Unused /\ vfm[p] = Fresh /\ ~Owned(p) /\ Queued(p) = {}
                           /\ \A k \in Kinds : plane[p][k] = NoFrame
      /\ \A c \in Conns : step[c] = "new" /\ planeOf[c] = NoPlane /\ lent[c] = {} /\ sent[c] = 0
      /\ used = <<>> /\ refresh = Idle /\ refresh.step = "idle"
      /\ messages = <<>> /\ offload.step = "wait"
      /\ freed = {} /\ kept = {} /\ freedTwice = {}
  <2>1. \A p \in Planes : plane[p] = Unused /\ vfm[p] = Fresh
    BY DEF Init
  <2>2. \A p \in Planes : Queued(p) = {}
    BY <1>1, <2>1 DEF Queued, ToSet
  <2>3. \A p \in Planes : ~Owned(p) /\ \A k \in Kinds : plane[p][k] = NoFrame
    BY <2>1 DEF Owned, Unused, Kinds
  <2>4. QED
    BY <2>1, <2>2, <2>3 DEF Init, Idle, Waiting
<1>4. ToRelease = {} /\ Present = {}
  <2>1. ToRelease = {}
    BY <1>2, <1>3, InRelease
  <2>2. QED
    BY <1>3, <2>1, InPresent
<1>5. Ownership
  <2>1. IsInjective(used) /\ ToSet(used) = {}
    BY <1>3 DEF IsInjective, ToSet
  <2>2. \A p \in Planes : ~plane[p].inUse /\ ~plane[p].keepLastFrame /\ ~Real(plane[p].curr)
                          /\ plane[p].next = NoFrame /\ plane[p].prev = NoFrame
                          /\ plane[p].free = NoFrame
    BY <1>3, FrameFields DEF Unused
  <2>3. \A c \in Conns : ~OnPlane(c) /\ step[c] # "dark"
    BY <1>3 DEF OnPlane
  <2>4. QED
    BY <1>3, <2>1, <2>2, <2>3 DEF Ownership
<1>6. TickInv
  BY <1>3 DEF TickInv, NextWaits, FreeWaits, FoundSoFar, Pops
<1>7. RefusedFew
  BY FS_EmptySet DEF Init, RefusedFew
<1>8. QueuesIncrease /\ MessagesApart
  BY <1>1, <1>3 DEF QueuesIncrease, Increasing, MessagesApart
<1>9. Belong
  BY <1>3, <1>4, FrameFields
     DEF Belong, QueuesBelong, SlotsBelong, ReleasesBelong, KeptAreOld, FreedWereSent
<1>10. Apart
  BY <1>3, <1>4 DEF Apart, SlotsApart, QueuesApart, ReleasesApart
<1>11. CurrentIsNewest /\ InOrder
  <2>1. \A p \in Planes : vfm[p].bufferIdCurrent = NoBuffer /\ plane[p].next = NoFrame
    BY <1>1, <1>3 DEF Unused
  <2>2. QED
    BY <1>3, <2>1 DEF CurrentIsNewest, InOrder
<1>12. Unique /\ AllLent /\ NotYetFreed /\ FreedOnce /\ NoLeak /\ NoBufferLost
  BY <1>3, <1>4 DEF Unique, AllLent, NotYetFreed, FreedOnce, NoLeak, NoBufferLost
<1>13. QED
  BY <1>2, <1>5, <1>6, <1>7, <1>8, <1>9, <1>10, <1>11, <1>12 DEF VideoInv, PlacesInv, FrameInv

\* The invariant holds if a connection that ends sleeps through at most one vertical
\* blank: in a longer sleep a second tick would put another frame in the place of the one
\* that waits for a plane that has been turned off.
THEOREM Invariant == ExitTicks <= 1 => (Spec => []VideoInv)
<1> SUFFICES ASSUME ExitTicks <= 1 PROVE Spec => []VideoInv
  OBVIOUS
<1>1. Init => VideoInv
  BY InitHolds
<1>2. VideoInv /\ [Next]_vars => VideoInv'
  <2> SUFFICES ASSUME VideoInv, [Next]_vars PROVE VideoInv'
    OBVIOUS
  <2>1. TypeOK'
    BY TypeStep DEF VideoInv, PlacesInv, FrameInv, Belong
  <2>2. Ownership'
    BY <2>1, OwnersStep
  <2>3. TickInv'
    BY <2>1, TickStep
  <2>4. RefusedFew'
    BY RefusedStep
  <2>5. PlacesInv'
    BY <2>1, PlacesStep
  <2>6. QED
    BY <2>1, <2>2, <2>3, <2>4, <2>5 DEF VideoInv
<1>3. QED
  BY <1>1, <1>2, PTL DEF Spec

\* Planes, frame queues, messages and the steps of a tick keep their types.
THEOREM TypeCorrect == ExitTicks <= 1 => (Spec => []TypeOK)
<1>1. VideoInv => TypeOK
  BY DEF VideoInv
<1>2. QED
  BY <1>1, Invariant, PTL

\* The server has forgotten a buffer when the client gets it back.
THEOREM BuffersAreForgotten == ExitTicks <= 1 => (Spec => []ReturnedIsForgotten)
<1>1. VideoInv => ReturnedIsForgotten
  BY DEF VideoInv, PlacesInv, FrameInv, AllLent, ReturnedIsForgotten, Real
<1>2. QED
  BY <1>1, Invariant, PTL

\* No buffer of a client is lost while its connection lasts.
THEOREM BuffersAreKept == ExitTicks <= 1 => (Spec => []NoBufferLost)
<1>1. VideoInv => NoBufferLost
  BY DEF VideoInv, PlacesInv, FrameInv
<1>2. QED
  BY <1>1, Invariant, PTL

\* No frame buffer is removed twice, whichever threads free it.
THEOREM EachFreedOnce == ExitTicks <= 1 => (Spec => []FreedOnce)
<1>1. VideoInv => FreedOnce
  BY DEF VideoInv, PlacesInv, FrameInv
<1>2. QED
  BY <1>1, Invariant, PTL

\* A frame buffer that is not freed is still held by a queue, a plane or a message.
THEOREM NoneLeaks == ExitTicks <= 1 => (Spec => []NoLeak)
<1>1. VideoInv => NoLeak
  BY DEF VideoInv, PlacesInv, FrameInv
<1>2. QED
  BY <1>1, Invariant, PTL

\* What is on the screen or next for it has not been freed.
THEOREM ScreenStaysLive == ExitTicks <= 1 => (Spec => []ScreenIsLive)
<1>1. ASSUME VideoInv PROVE ScreenIsLive
  <2>1. TypeOK /\ NotYetFreed
    BY <1>1 DEF VideoInv, PlacesInv, FrameInv
  <2>2. \A p \in Planes, k \in Kinds : plane[p][k].fb \notin freed
    <3> SUFFICES ASSUME NEW p \in Planes, NEW k \in Kinds PROVE plane[p][k].fb \notin freed
      OBVIOUS
    <3>1. CASE plane[p][k] = NoFrame
      BY <2>1, <3>1, FrameFields DEF TypeOK, NoFrame
    <3>2. CASE plane[p][k] # NoFrame
      <4>1. plane[p][k] \in Present
        BY <3>2, InPresent
      <4>2. QED
        BY <2>1, <4>1 DEF NotYetFreed
    <3>3. QED
      BY <3>1, <3>2
  <2>3. "curr" \in Kinds /\ "next" \in Kinds
    BY DEF Kinds
  <2>4. \A p \in Planes : plane[p].curr.fb \notin freed /\ plane[p].next.fb \notin freed
    BY <2>2, <2>3
  <2>5. QED
    BY <2>4 DEF ScreenIsLive
<1>2. QED
  BY <1>1, Invariant, PTL

\* A frame queue holds each buffer of its client once.
THEOREM QueueStaysBounded ==
  ExitTicks <= 1 /\ IsFiniteSet(Buffers) => (Spec => []QueueIsBounded)
<1> SUFFICES ASSUME ExitTicks <= 1, IsFiniteSet(Buffers) PROVE Spec => []QueueIsBounded
  OBVIOUS
<1>1. ASSUME VideoInv PROVE QueueIsBounded
  <2> SUFFICES ASSUME NEW p \in Planes PROVE Len(vfm[p].queue) <= Cardinality(Buffers)
    BY DEF QueueIsBounded
  <2> DEFINE q == vfm[p].queue
             b == [i \in 1..Len(q) |-> q[i].bufferId]
  <2>1. TypeOK /\ QueuesIncrease /\ QueuesBelong /\ Unique
    BY <1>1 DEF VideoInv, PlacesInv, FrameInv, Belong
  <2>2. q \in Seq(Frames) /\ Len(q) \in Nat
    BY <2>1, QueueType
  <2>3. IsInjective(q)
    BY <2>1, <2>2, QueueFacts DEF QueuesIncrease
  <2>4. \A i \in 1..Len(q) : q[i] \in Frames /\ q[i] \in Queued(p)
    BY <2>2 DEF Queued, ToSet
  <2>5. \A i \in 1..Len(q) : q[i] \in Present /\ Real(q[i]) /\ q[i].fb[1] = plane[p].conn
                             /\ q[i].bufferId \in Buffers
    BY <2>1, <2>4, InPresent, FrameFields DEF QueuesBelong
  <2>6. \A i, j \in 1..Len(q) : q[i].bufferId = q[j].bufferId => i = j
    <3> SUFFICES ASSUME NEW i \in 1..Len(q), NEW j \in 1..Len(q), q[i].bufferId = q[j].bufferId
                 PROVE  i = j
      OBVIOUS
    <3>1. q[i] = q[j]
      BY <2>1, <2>5 DEF Unique
    <3>2. QED
      BY <2>2, <2>3, <3>1 DEF IsInjective
  <2>7. b \in Injection(1..Len(q), Buffers)
    <3>1. b \in [1..Len(q) -> Buffers]
      BY <2>5
    <3>2. IsInjective(b)
      BY <2>6 DEF IsInjective
    <3>3. QED
      BY <3>1, <3>2 DEF Injection
  <2>8. Cardinality(1..Len(q)) <= Cardinality(Buffers)
    BY <2>7, FS_Injection
  <2>9. Cardinality(1..Len(q)) = Len(q)
    BY <2>2, FS_Interval
  <2>10. QED
    BY <2>8, <2>9
<1>2. QED
  BY <1>1, Invariant, PTL

(***************************************************************************)
(* What comes on the screen.                                               *)
(***************************************************************************)

\* Nothing but a swap and the end of a connection changes what its plane shows.
LEMMA PicturesStay ==
  ASSUME VideoInv, [Next]_vars, ~SwapBuffers, \A c \in Conns : ~(OnPlane(c) /\ EndPlane(c)),
         NEW q \in Planes
  PROVE  plane'[q].curr = plane[q].curr /\ plane'[q].prev = plane[q].prev
<1>1. plane \in [Planes -> PlaneStates] /\ plane[q] \in PlaneStates
  BY DEF VideoInv, TypeOK
<1>2. ASSUME NEW p, \/ \E keep \in BOOLEAN : plane' = [plane EXCEPT ![p].keepLastFrame = keep]
                    \/ plane' = [plane EXCEPT ![p].inUse = FALSE]
                    \/ plane' = [plane EXCEPT ![p].free = NoFrame]
                    \/ plane' = [plane EXCEPT ![p].next = refresh.frame]
                    \/ \E c \in Conns : plane' = [plane EXCEPT ![p].conn = c, ![p].inUse = TRUE]
      PROVE  plane'[q].curr = plane[q].curr /\ plane'[q].prev = plane[q].prev
  <2>1. CASE q # p
    BY <1>1, <1>2, <2>1
  <2>2. CASE q = p
    <3>1. ASSUME NEW keep \in BOOLEAN, plane' = [plane EXCEPT ![p].keepLastFrame = keep]
          PROVE  plane'[q].curr = plane[q].curr /\ plane'[q].prev = plane[q].prev
      BY <1>1, <2>2, <3>1 DEF PlaneStates
    <3>2. CASE plane' = [plane EXCEPT ![p].inUse = FALSE]
      BY <1>1, <2>2, <3>2 DEF PlaneStates
    <3>3. CASE plane' = [plane EXCEPT ![p].free = NoFrame]
      BY <1>1, <2>2, <3>3 DEF PlaneStates
    <3>4. CASE plane' = [plane EXCEPT ![p].next = refresh.frame]
      BY <1>1, <2>2, <3>4 DEF PlaneStates
    <3>5. ASSUME NEW c \in Conns, plane' = [plane EXCEPT ![p].conn = c, ![p].inUse = TRUE]
          PROVE  plane'[q].curr = plane[q].curr /\ plane'[q].prev = plane[q].prev
      BY <1>1, <2>2, <3>5 DEF PlaneStates
    <3>6. QED
      BY <1>2, <3>1, <3>2, <3>3, <3>4, <3>5
  <2>3. QED
    BY <2>1, <2>2
<1>3. CASE Tick
  BY <1>2, <1>3
     DEF Tick, StartTick, ReleasePrevious, CheckPlane, Drain, DropExpired, FirstDue,
         DropEarly, SecondDue, NoneDue, TakeFrame
<1>4. CASE Offload
  BY <1>4 DEF Offload, Wake, PopMessage, WorkOff
<1>5. ASSUME NEW c \in Conns, Handle(c)
      PROVE  plane'[q].curr = plane[q].curr /\ plane'[q].prev = plane[q].prev
  BY <1>2, <1>5
     DEF Handle, HandleVideoResource, HandleFrame, HandleBadFrame, HandleFlush, HandleSession,
         HandlePause, HandleFrameAdvance, HandleKeepLastFrame
<1>6. ASSUME NEW c \in Conns, Leave(c) \/ LeaveFrame(c) \/ Ending(c)
      PROVE  plane'[q].curr = plane[q].curr /\ plane'[q].prev = plane[q].prev
  <2>1. Leave(c) \/ FlushOffload(c) \/ Destroy(c) \/ DestroyImpatiently(c)
    BY <1>6 DEF LeaveFrame, Ending, FreePlane, Serving, OnPlane
  <2>2. QED
    BY <1>2, <2>1 DEF Leave, FlushOffload, Destroy, DestroyImpatiently
<1>7. CASE UNCHANGED vars
  BY <1>7 DEF vars
<1>8. QED
  BY <1>3, <1>4, <1>5, <1>6, <1>7 DEF Next

\* Only a swap changes the picture of a plane, to the frame that waits for it, and the
\* end of its connection, which leaves nothing that has a buffer.
LEMMA PictureChanges ==
  ASSUME VideoInv, [Next]_vars, NEW q \in Planes
  PROVE  \/ plane'[q].curr = plane[q].curr
         \/ ~Real(plane'[q].curr)
         \/ plane[q].next # NoFrame /\ plane'[q].curr = plane[q].next
<1>1. plane \in [Planes -> PlaneStates] /\ plane[q] \in PlaneStates
  BY DEF VideoInv, TypeOK
<1>2. CASE SwapBuffers
  <2> DEFINE p == used[refresh.at]
  <2>1. CASE plane[p].next # NoFrame /\ plane' = [plane EXCEPT ![p] = Rotated(plane[p])]
    <3>1. CASE q # p
      BY <1>1, <2>1, <3>1
    <3>2. CASE q = p
      <4>1. Rotated(plane[p]).curr = plane[p].next
        BY <1>1, <3>2, Zenon DEF Rotated, PlaneStates
      <4>2. QED
        BY <1>1, <2>1, <3>2, <4>1
    <3>3. QED
      BY <3>1, <3>2
  <2>2. QED
    BY <1>2, <2>1 DEF SwapBuffers
<1>3. ASSUME NEW c \in Conns, OnPlane(c), EndPlane(c)
      PROVE  plane'[q].curr = plane[q].curr \/ ~Real(plane'[q].curr)
  <2> DEFINE p == planeOf[c]
  <2>1. PICK f : /\ plane' = [plane EXCEPT ![p] = [Unused EXCEPT !.curr = f]]
                 /\ f = IF plane[p].keepLastFrame THEN [plane[p].curr EXCEPT !.bufferId = NoBuffer]
                        ELSE NoFrame
    BY <1>3 DEF EndPlane
  <2>2. CASE q # p
    BY <1>1, <2>1, <2>2
  <2>3. CASE q = p
    <3>1. plane'[q].curr = f
      BY <1>1, <2>1, <2>3 DEF Unused
    <3>2. plane[p].curr \in Slots
      BY <1>1, <2>3 DEF PlaneStates
    <3>3. ~Real(f)
      BY <2>1, <3>2 DEF Slots, NoFrame, Real
    <3>4. QED
      BY <3>1, <3>3
  <2>4. QED
    BY <2>2, <2>3
<1>4. QED
  BY <1>2, <1>3, PicturesStay

\* The frames of a client come on the screen in the order in which it sent them.
THEOREM FramesInOrder == ExitTicks <= 1 => (Spec => ShownInOrder)
<1>1. ASSUME VideoInv, [Next]_vars
      PROVE  [\A p \in Planes :
                LET old == plane[p].curr
                    new == plane'[p].curr
                IN  old.fb # new.fb /\ old.bufferId # NoBuffer /\ new.bufferId # NoBuffer
                      => new.fb[2] > old.fb[2]]_vars
  <2> SUFFICES ASSUME NEW p \in Planes, plane[p].curr.fb # plane'[p].curr.fb,
                      Real(plane[p].curr), Real(plane'[p].curr)
               PROVE  plane'[p].curr.fb[2] > plane[p].curr.fb[2]
    BY DEF Real
  <2>1. TypeOK /\ SlotsBelong /\ InOrder
    BY <1>1 DEF VideoInv, PlacesInv, FrameInv, Belong
  <2>2. plane[p].next # NoFrame /\ plane'[p].curr = plane[p].next
    BY <1>1, PictureChanges
  <2>3. plane[p].curr.fb[2] < plane[p].next.fb[2]
    BY <2>1, <2>2 DEF InOrder, Older
  <2>4. plane[p].next \in Frames /\ plane[p].curr \in Frames
    <3>1. plane[p]["next"] = plane[p].next /\ plane[p]["curr"] = plane[p].curr
          /\ "next" \in Kinds /\ "curr" \in Kinds
      BY DEF Kinds
    <3>2. QED
      BY <2>1, <2>2, <3>1, HeldType
  <2>5. plane[p].next.fb[2] \in Nat /\ plane[p].curr.fb[2] \in Nat
    BY <2>4, FrameFields
  <2>6. QED
    BY <2>2, <2>3, <2>5
<1>2. QED
  BY <1>1, Invariant, PTL DEF Spec, ShownInOrder

(***************************************************************************)
(* The server lends and gives back buffers as VideoLoan says.              *)
(***************************************************************************)

\* What is on the screen of a connection, and what was there before it.
Current(c) == IF OnPlane(c) THEN plane[planeOf[c]].curr.bufferId ELSE NoBuffer
Previous(c) == IF OnPlane(c) THEN plane[planeOf[c]].prev.bufferId ELSE NoBuffer
SamePictures == \A c \in Conns : Current(c)' = Current(c) /\ Previous(c)' = Previous(c)

\* The steps of VideoLoan in terms of the server.
LEMMA LoanSteps ==
  ASSUME TypeOK, NEW c \in Conns
  PROVE  /\ SamePictures /\ lent' = lent => UNCHANGED Loan!vars
         /\ \A b \in Buffers :
              SamePictures /\ b \notin lent[c] /\ lent' = [lent EXCEPT ![c] = @ \cup {b}] => Loan!Next
         /\ \A S \in SUBSET Buffers :
              SamePictures /\ Current(c) \notin S /\ Previous(c) \notin S
                /\ lent' = [lent EXCEPT ![c] = @ \ S] => Loan!Next
<1>1. SamePictures => UNCHANGED <<[d \in Conns |-> OnScreen(d, CurrOf)],
                                  [d \in Conns |-> OnScreen(d, PrevOf)]>>
  BY DEF SamePictures, Current, Previous, OnPlane, OnScreen, CurrOf, PrevOf
<1>2. ASSUME SamePictures, lent' = lent PROVE UNCHANGED Loan!vars
  BY <1>1, <1>2 DEF Loan!vars
<1>3. ASSUME NEW b \in Buffers, SamePictures, b \notin lent[c],
             lent' = [lent EXCEPT ![c] = @ \cup {b}]
      PROVE  Loan!Next
  BY <1>1, <1>3 DEF Loan!Next, Loan!Lend
<1>4. ASSUME NEW S \in SUBSET Buffers, SamePictures, Current(c) \notin S, Previous(c) \notin S,
             lent' = [lent EXCEPT ![c] = @ \ S]
      PROVE  Loan!Next
  <2>1. S \cap {OnScreen(c, CurrOf), OnScreen(c, PrevOf)} = {}
    BY <1>4 DEF Current, Previous, OnPlane, OnScreen, CurrOf, PrevOf
  <2>2. Loan!Return(c, S)
    BY <1>1, <1>4, <2>1 DEF Loan!Return, Loan!GiveBack
  <2>3. QED
    BY <2>2 DEF Loan!Next
<1>5. QED
  BY <1>2, <1>3, <1>4

\* A new picture, and the end of all pictures.
LEMMA LoanPictures ==
  ASSUME TypeOK, NEW c \in Conns,
         \A d \in Conns : d # c => Current(d)' = Current(d) /\ Previous(d)' = Previous(d)
  PROVE  /\ \A b \in Buffers :
              b \in lent[c] /\ Current(c)' = b /\ Previous(c)' = Current(c) /\ lent' = lent => Loan!Next
         /\ \A S \in SUBSET Buffers :
              Current(c) \notin S /\ Previous(c) \notin S
                /\ Current(c)' = NoBuffer /\ Previous(c)' = NoBuffer
                /\ lent' = [lent EXCEPT ![c] = @ \ S] => Loan!Next
<1> DEFINE curr == [d \in Conns |-> OnScreen(d, CurrOf)]
           prev == [d \in Conns |-> OnScreen(d, PrevOf)]
<1>1. \A d \in Conns : Current(d) = OnScreen(d, CurrOf) /\ Previous(d) = OnScreen(d, PrevOf)
  BY DEF Current, Previous, OnPlane, OnScreen, CurrOf, PrevOf
<1>2. \A d \in Conns : Current(d)' = OnScreen(d, CurrOf)' /\ Previous(d)' = OnScreen(d, PrevOf)'
  BY DEF Current, Previous, OnPlane, OnScreen, CurrOf, PrevOf
<1>3. curr' = [curr EXCEPT ![c] = Current(c)'] /\ prev' = [prev EXCEPT ![c] = Previous(c)']
  BY <1>1, <1>2
<1>4. ASSUME NEW b \in Buffers, b \in lent[c], Current(c)' = b, Previous(c)' = Current(c), lent' = lent
      PROVE  Loan!Next
  <2>1. Loan!Show(c, b)
    BY <1>1, <1>3, <1>4 DEF Loan!Show
  <2>2. QED
    BY <2>1 DEF Loan!Next
<1>5. ASSUME NEW S \in SUBSET Buffers, Current(c) \notin S, Previous(c) \notin S,
             Current(c)' = NoBuffer, Previous(c)' = NoBuffer, lent' = [lent EXCEPT ![c] = @ \ S]
      PROVE  Loan!Next
  <2>1. S \cap {OnScreen(c, CurrOf), OnScreen(c, PrevOf)} = {}
    BY <1>1, <1>5
  <2>2. Loan!Blank(c, S)
    BY <1>1, <1>3, <1>5, <2>1 DEF Loan!Blank, Loan!GiveBack
  <2>3. QED
    BY <2>2 DEF Loan!Next
<1>6. QED
  BY <1>4, <1>5

\* A connection sees the same pictures as long as its plane does not change them.
LEMMA PicturesSeen ==
  ASSUME VideoInv, [Next]_vars, ~SwapBuffers, \A c \in Conns : ~(OnPlane(c) /\ EndPlane(c))
  PROVE  SamePictures
<1>1. /\ TypeOK /\ Ownership /\ step \in [Conns -> Steps] /\ planeOf \in [Conns -> Planes \cup {NoPlane}]
  BY DEF VideoInv, TypeOK
<1>2. \A q \in Planes : plane'[q].curr = plane[q].curr /\ plane'[q].prev = plane[q].prev
  BY PicturesStay
<1>3. \A c \in Conns : \/ ~OnPlane(c) /\ ~OnPlane(c)'
                       \/ OnPlane(c) /\ OnPlane(c)' /\ planeOf'[c] = planeOf[c]
                       \/ ~OnPlane(c) /\ OnPlane(c)' /\ planeOf'[c] \in Planes \ ToSet(used)
  <2> TAKE c \in Conns
  <2>1. CASE UNCHANGED <<step, planeOf>>
    BY <2>1 DEF OnPlane
  <2>2. ASSUME NEW d \in Conns, HandleVideoResource(d)
        PROVE  \/ ~OnPlane(c) /\ ~OnPlane(c)'
               \/ OnPlane(c) /\ OnPlane(c)' /\ planeOf'[c] = planeOf[c]
               \/ ~OnPlane(c) /\ OnPlane(c)' /\ planeOf'[c] \in Planes \ ToSet(used)
    BY <1>1, <2>2 DEF HandleVideoResource, OnPlane
  <2>3. ASSUME NEW d \in Conns, Leave(d) \/ FlushOffload(d) \/ Destroy(d) \/ DestroyImpatiently(d)
        PROVE  (OnPlane(c)' <=> OnPlane(c)) /\ planeOf' = planeOf
    BY <1>1, <2>3 DEF Leave, FlushOffload, Destroy, DestroyImpatiently, OnPlane, Serving
  <2>4. CASE Tick \/ Offload
    <3>1. UNCHANGED <<step, planeOf>>
      BY <2>4 DEF Tick, StartTick, ReleasePrevious, CheckPlane, Drain, DropExpired, FirstDue,
                  DropEarly, SecondDue, NoneDue, TakeFrame, SwapBuffers, Offload, Wake, PopMessage,
                  WorkOff, connVars
    <3>2. QED
      BY <2>1, <3>1
  <2>5. ASSUME NEW d \in Conns, Handle(d), ~HandleVideoResource(d)
        PROVE  UNCHANGED <<step, planeOf>>
    BY <2>5 DEF Handle, HandleFrame, HandleBadFrame, HandleFlush, HandleSession, HandlePause,
                HandleFrameAdvance, HandleKeepLastFrame, connVars
  <2>6. ASSUME NEW d \in Conns, LeaveFrame(d) \/ FreePlane(d)
        PROVE  FALSE
    BY <2>6 DEF LeaveFrame, FreePlane, Serving, OnPlane
  <2>7. CASE UNCHANGED vars
    BY <2>1, <2>7 DEF vars, connVars
  <2>8. QED
    BY <2>1, <2>2, <2>3, <2>4, <2>5, <2>6, <2>7 DEF Next, Ending
<1>4. \A q \in Planes \ ToSet(used) : ~Real(plane[q].curr) /\ plane[q].prev = NoFrame
  BY <1>1 DEF Ownership
<1>5. SUFFICES ASSUME NEW c \in Conns
               PROVE  Current(c)' = Current(c) /\ Previous(c)' = Previous(c)
  BY DEF SamePictures
<1>6. CASE ~OnPlane(c) /\ ~OnPlane(c)'
  BY <1>6 DEF Current, Previous
<1>7. CASE OnPlane(c) /\ OnPlane(c)' /\ planeOf'[c] = planeOf[c]
  <2>1. planeOf[c] \in Planes
    BY <1>1, <1>7, PlaneOfConn
  <2>2. QED
    BY <1>2, <1>7, <2>1 DEF Current, Previous
<1>8. CASE ~OnPlane(c) /\ OnPlane(c)' /\ planeOf'[c] \in Planes \ ToSet(used)
  <2>1. PICK q \in Planes \ ToSet(used) : q = planeOf'[c]
    BY <1>8
  <2>2. plane'[q].curr.bufferId = NoBuffer /\ plane'[q].prev.bufferId = NoBuffer
    BY <1>2, <1>4, FrameFields DEF Real
  <2>3. QED
    BY <1>8, <2>1, <2>2 DEF Current, Previous
<1>9. QED
  BY <1>3, <1>6, <1>7, <1>8

\* A frame that is in another place than the pictures has another buffer.
LEMMA NotShown ==
  ASSUME VideoInv, NEW f \in Frames, f \in Present,
         OnPlane(f.fb[1]) => /\ plane[planeOf[f.fb[1]]].curr # f
                             /\ plane[planeOf[f.fb[1]]].prev # f
  PROVE  Current(f.fb[1]) # f.bufferId /\ Previous(f.fb[1]) # f.bufferId
<1>1. TypeOK /\ Ownership /\ SlotsBelong /\ Unique
  BY DEF VideoInv, PlacesInv, FrameInv, Belong
<1>2. PICK c \in Conns : c = f.fb[1]
  BY FrameFields
<1>3. Real(f) /\ f.bufferId # NoBuffer
  BY FrameFields DEF Real
<1>4. CASE ~OnPlane(c)
  BY <1>2, <1>3, <1>4 DEF Current, Previous
<1>5. CASE OnPlane(c)
  <2> DEFINE p == planeOf[c]
  <2>1. p \in Planes /\ plane[p].conn = c
    BY <1>1, <1>5, PlaneOfConn
  <2>2. \A k \in Kinds : plane[p][k].bufferId = f.bufferId => plane[p][k] = f
    <3> SUFFICES ASSUME NEW k \in Kinds, plane[p][k].bufferId = f.bufferId PROVE plane[p][k] = f
      OBVIOUS
    <3>1. Real(plane[p][k])
      BY <1>3 DEF Real
    <3>2. plane[p][k].fb[1] = c
      BY <1>1, <2>1, <3>1 DEF SlotsBelong
    <3>3. plane[p][k] \in Present
      BY <2>1, <3>1, InPresent, FrameFields
    <3>4. QED
      BY <1>1, <1>2, <1>3, <3>2, <3>3 DEF Unique
  <2>3. "curr" \in Kinds /\ "prev" \in Kinds
    BY DEF Kinds
  <2>4. plane[p].curr.bufferId # f.bufferId /\ plane[p].prev.bufferId # f.bufferId
    BY <1>2, <1>5, <2>2, <2>3
  <2>5. QED
    BY <1>2, <1>5, <2>4 DEF Current, Previous
<1>6. QED
  BY <1>4, <1>5

\* What is about to be returned is on no screen.
LEMMA ReleasedNotShown ==
  ASSUME VideoInv, NEW f \in ToRelease
  PROVE  f \in Frames /\ Current(f.fb[1]) # f.bufferId /\ Previous(f.fb[1]) # f.bufferId
<1>1. TypeOK /\ Ownership /\ ReleasesApart
  BY DEF VideoInv, PlacesInv, FrameInv, Apart
<1>2. f \in Frames /\ f \in Present
  BY <1>1, InRelease, InPresent
<1>3. PICK c \in Conns : c = f.fb[1]
  BY <1>2, FrameFields
<1>4. \A p \in Planes, k \in Kinds : plane[p][k] # f
  BY <1>1 DEF ReleasesApart
<1>5. OnPlane(c) => plane[planeOf[c]].curr # f /\ plane[planeOf[c]].prev # f
  <2>1. "curr" \in Kinds /\ "prev" \in Kinds
    BY DEF Kinds
  <2>2. OnPlane(c) => planeOf[c] \in Planes
    BY <1>1, PlaneOfConn
  <2>3. QED
    BY <1>4, <2>1, <2>2
<1>6. QED
  BY <1>2, <1>3, <1>5, NotShown

\* A frame in a queue that is not the current one is on no screen.
LEMMA QueuedNotShown ==
  ASSUME VideoInv, NEW p \in Planes, NEW f \in Queued(p), f.bufferId # vfm[p].bufferIdCurrent
  PROVE  /\ f \in Frames /\ f.fb[1] = plane[p].conn
         /\ Current(f.fb[1]) # f.bufferId /\ Previous(f.fb[1]) # f.bufferId
<1>1. TypeOK /\ Ownership /\ QueuesApart /\ QueuesBelong
  BY DEF VideoInv, PlacesInv, FrameInv, Apart, Belong
<1>2. f \in Frames /\ f \in Present /\ f.fb[1] = plane[p].conn
  BY <1>1, QueueType, InPresent DEF QueuesBelong
<1>3. PICK c \in Conns : c = f.fb[1]
  BY <1>2, FrameFields
<1>4. planeOf[c] = p
  BY <1>1, <1>2, <1>3, VideoAssumption DEF Ownership, Owned
<1>5. \A k \in Kinds : plane[p][k] # f
  BY <1>1 DEF QueuesApart
<1>6. plane[p].curr # f /\ plane[p].prev # f
  BY <1>5 DEF Kinds
<1>7. QED
  BY <1>2, <1>3, <1>4, <1>6, NotShown

\* Giving back frames that are on no screen is a step of the loan.
LEMMA ReturnIsLoan ==
  ASSUME VideoInv, SamePictures, NEW c \in Conns, NEW S \in SUBSET Frames,
         \A f \in S : Current(c) # f.bufferId /\ Previous(c) # f.bufferId,
         FreeAndReturn(c, S)
  PROVE  Loan!Next
<1> DEFINE B == {f.bufferId : f \in S}
<1>1. TypeOK
  BY DEF VideoInv
<1>2. B \in SUBSET Buffers
  BY FrameFields
<1>3. Current(c) \notin B /\ Previous(c) \notin B
  OBVIOUS
<1>4. lent' = [lent EXCEPT ![c] = @ \ B]
  BY DEF FreeAndReturn
<1>5. QED
  BY <1>1, <1>2, <1>3, <1>4, LoanSteps

\* The same, when one frame is handed to the offload thread.
LEMMA SendIsLoan ==
  ASSUME VideoInv, SamePictures, NEW c \in Conns,
         \/ NoPush
         \/ \E f : /\ SendBufferRelease(c, f)
                   /\ Real(f) => /\ f \in Frames
                                 /\ Current(c) # f.bufferId /\ Previous(c) # f.bufferId
  PROVE  Loan!Next \/ UNCHANGED Loan!vars
<1>1. TypeOK
  BY DEF VideoInv
<1>2. CASE lent' = lent
  BY <1>1, <1>2, LoanSteps
<1>3. ASSUME NEW f, SendBufferRelease(c, f), lent' # lent,
             Real(f) => f \in Frames /\ Current(c) # f.bufferId /\ Previous(c) # f.bufferId
      PROVE  Loan!Next
  <2>1. Real(f) /\ OffloadMsgPush(Release(c, f))
    BY <1>3 DEF SendBufferRelease, NoPush, Real
  <2>2. Execute(Release(c, f))
    BY <1>3, <2>1 DEF OffloadMsgPush
  <2>3. FreeAndReturn(c, {f})
    BY <2>2 DEF Execute, Release
  <2>4. QED
    BY <1>3, <2>1, <2>3, ReturnIsLoan
<1>4. QED
  BY <1>2, <1>3 DEF NoPush

\* A swap that rotates the frames of a plane shows a lent buffer.
LEMMA SwapIsLoan ==
  ASSUME VideoInv, SwapBuffers
  PROVE  Loan!Next \/ UNCHANGED Loan!vars
<1> DEFINE p == used[refresh.at]
           s == plane[p]
<1>1. /\ TypeOK /\ Ownership /\ SlotsBelong /\ AllLent /\ plane \in [Planes -> PlaneStates]
  BY DEF VideoInv, PlacesInv, FrameInv, Belong, TypeOK
<1>2. refresh # Idle /\ UNCHANGED <<step, planeOf, lent>>
  BY DEF SwapBuffers, Idle, connVars, clientVars
<1>3. refresh.at \in 1..Len(used) /\ p \in Planes
  BY <1>1, <1>2, RefreshAt
<1>4. PICK c \in Conns : c = s.conn /\ OnPlane(c) /\ planeOf[c] = p
  BY <1>1, <1>3, UsedPlane
<1>5. \A d \in Conns : OnPlane(d)' <=> OnPlane(d)
  BY <1>2 DEF OnPlane
<1>6. CASE plane' = plane
  <2>1. SamePictures
    BY <1>2, <1>6 DEF SamePictures, Current, Previous, OnPlane
  <2>2. QED
    BY <1>1, <1>2, <1>4, <2>1, LoanSteps
<1>7. CASE s.next # NoFrame /\ plane' = [plane EXCEPT ![p] = Rotated(s)]
  <2>1. Rotated(s).curr = s.next /\ Rotated(s).prev = s.curr
    BY <1>1, <1>3, Zenon DEF Rotated, PlaneStates
  <2>2. plane'[p].curr = s.next /\ plane'[p].prev = s.curr
    BY <1>1, <1>3, <1>7, <2>1
  <2>3. Current(c)' = s.next.bufferId /\ Previous(c)' = Current(c)
    BY <1>2, <1>4, <1>5, <2>2 DEF Current, Previous
  <2>4. ASSUME NEW d \in Conns, d # c
        PROVE  Current(d)' = Current(d) /\ Previous(d)' = Previous(d)
    <3>1. CASE OnPlane(d)
      <4>1. planeOf[d] \in Planes /\ planeOf[d] # p
        BY <1>1, <1>4, <2>4, <3>1, PlaneOfConn
      <4>2. plane'[planeOf[d]] = plane[planeOf[d]]
        BY <1>1, <1>7, <4>1
      <4>3. QED
        BY <1>2, <1>5, <4>2 DEF Current, Previous
    <3>2. CASE ~OnPlane(d)
      BY <1>5, <3>2 DEF Current, Previous
    <3>3. QED
      BY <3>1, <3>2
  <2>5. s.next.bufferId \in Buffers /\ s.next.bufferId \in lent[c]
    <3>1. s["next"] = s.next /\ "next" \in Kinds
      BY DEF Kinds
    <3>2. Real(s.next) /\ s.next.fb[1] = c
      BY <1>1, <1>3, <1>4, <1>7, <3>1 DEF SlotsBelong
    <3>3. s.next \in Present
      BY <1>3, <1>7, <3>1, InPresent
    <3>4. s.next \in Slots
      BY <1>1, <1>3, <3>1, QueueType
    <3>5. s.next.bufferId \in lent[c]
      BY <1>1, <3>2, <3>3 DEF AllLent
    <3>6. QED
      BY <3>2, <3>4, <3>5 DEF Slots, Real
  <2>6. QED
    BY <1>1, <1>2, <2>3, <2>4, <2>5, LoanPictures
<1>8. QED
  BY <1>6, <1>7 DEF SwapBuffers

\* The end of a connection takes its picture away and gives back what is queued.
LEMMA EndIsLoan ==
  ASSUME VideoInv, NEW c \in Conns, OnPlane(c), EndPlane(c)
  PROVE  Loan!Next
<1> DEFINE p == planeOf[c]
           S == {f.bufferId : f \in Discarded(vfm[p])}
<1>1. /\ TypeOK /\ Ownership /\ plane \in [Planes -> PlaneStates] /\ step \in [Conns -> Steps]
      /\ planeOf \in [Conns -> Planes \cup {NoPlane}]
  BY DEF VideoInv, TypeOK
<1>2. p \in Planes /\ plane[p].conn = c
  BY <1>1, PlaneOfConn
<1>3. /\ step' = [step EXCEPT ![c] = "left"] /\ planeOf' = [planeOf EXCEPT ![c] = NoPlane]
      /\ \E x : plane' = [plane EXCEPT ![p] = x]
      /\ lent' = [lent EXCEPT ![c] = @ \ S]
  BY DEF EndPlane
<1>4. ~OnPlane(c)'
  BY <1>1, <1>3 DEF OnPlane
<1>5. Current(c)' = NoBuffer /\ Previous(c)' = NoBuffer
  BY <1>4 DEF Current, Previous
<1>6. ASSUME NEW d \in Conns, d # c
      PROVE  Current(d)' = Current(d) /\ Previous(d)' = Previous(d)
  <2>1. planeOf'[d] = planeOf[d] /\ (OnPlane(d)' <=> OnPlane(d))
    BY <1>1, <1>3, <1>6 DEF OnPlane
  <2>2. CASE OnPlane(d)
    <3>1. planeOf[d] \in Planes /\ planeOf[d] # p
      BY <1>1, <1>2, <1>6, <2>2, PlaneOfConn
    <3>2. plane'[planeOf[d]] = plane[planeOf[d]]
      BY <1>1, <1>3, <3>1
    <3>3. QED
      BY <2>1, <3>2 DEF Current, Previous
  <2>3. CASE ~OnPlane(d)
    BY <2>1, <2>3 DEF Current, Previous
  <2>4. QED
    BY <2>2, <2>3
<1>7. \A f \in Discarded(vfm[p]) :
        f \in Frames /\ Current(c) # f.bufferId /\ Previous(c) # f.bufferId
  <2> SUFFICES ASSUME NEW f \in Discarded(vfm[p])
               PROVE  f \in Frames /\ Current(c) # f.bufferId /\ Previous(c) # f.bufferId
    OBVIOUS
  <2>1. f \in Queued(p) /\ f.bufferId # vfm[p].bufferIdCurrent
    BY DEF Discarded, Queued
  <2>2. QED
    BY <1>2, <2>1, QueuedNotShown
<1>8. S \in SUBSET Buffers /\ Current(c) \notin S /\ Previous(c) \notin S
  BY <1>7, FrameFields
<1>9. QED
  BY <1>1, <1>3, <1>5, <1>6, <1>8, LoanPictures

\* What the refresh thread and the offload thread give back is on no screen.
LEMMA ThreadsLoan ==
  ASSUME VideoInv, SamePictures,
         ReleasePrevious \/ Drain \/ DropExpired \/ DropEarly \/ WorkOff
  PROVE  Loan!Next \/ UNCHANGED Loan!vars
<1> DEFINE p == used[refresh.at]
           q == vfm[p].queue
<1>1. /\ TypeOK /\ Ownership /\ SlotsBelong /\ SlotsApart /\ QueuesBelong /\ QueuesIncrease
      /\ vfm \in [Planes -> Managers] /\ plane \in [Planes -> PlaneStates]
  BY DEF VideoInv, PlacesInv, FrameInv, Belong, Apart, TypeOK
<1>2. CASE WorkOff
  <2> DEFINE m == offload.msg
  <2>1. CASE ~IsRelease(m)
    <3>1. lent' = lent
      BY <1>2, <2>1 DEF WorkOff, Execute, IsRelease
    <3>2. CASE Conns = {}
      BY <1>1, <3>1, <3>2 DEF Loan!vars, TypeOK
    <3>3. QED
      BY <1>1, <3>1, <3>2, LoanSteps
  <2>2. CASE IsRelease(m)
    <3>1. offload.step = "work" /\ FreeAndReturn(m.conn, {m.frame})
      BY <1>2, <2>2 DEF WorkOff, Execute, IsRelease
    <3>2. m.frame \in ToRelease /\ m.frame.fb[1] = m.conn
      BY <1>1, <2>2, <3>1, InRelease DEF VideoInv, PlacesInv, MessagesApart
    <3>3. /\ m.frame \in Frames /\ m.conn \in Conns
          /\ Current(m.conn) # m.frame.bufferId /\ Previous(m.conn) # m.frame.bufferId
      BY <3>2, ReleasedNotShown, FrameFields
    <3>4. QED
      BY <3>1, <3>3, ReturnIsLoan
  <2>3. QED
    BY <2>1, <2>2
<1>3. CASE ~WorkOff
  <2>1. refresh.step \in {"release", "drain", "first", "second"}
    BY <1>3 DEF ReleasePrevious, Drain, DropExpired, DropEarly
  <2>2. refresh # Idle
    BY <2>1 DEF Idle
  <2>3. p \in Planes /\ q \in Seq(Frames)
    BY <1>1, <2>2, RefreshAt, QueueType
  <2>4. PICK c \in Conns : c = plane[p].conn /\ OnPlane(c) /\ planeOf[c] = p
    BY <1>1, <2>2, RefreshAt, UsedPlane
  <2>5. CASE ReleasePrevious
    <3> DEFINE f == plane[p].free
    <3>1. SendBufferRelease(c, f)
      BY <2>4, <2>5 DEF ReleasePrevious
    <3>2. ASSUME Real(f)
          PROVE  f \in Frames /\ Current(c) # f.bufferId /\ Previous(c) # f.bufferId
      <4>1. plane[p]["free"] = f /\ "free" \in Kinds /\ f # NoFrame
        BY <3>2, FrameFields DEF Kinds
      <4>2. f \in Frames /\ f.fb[1] = c
        BY <1>1, <2>3, <2>4, <3>2, <4>1, HeldType DEF SlotsBelong
      <4>3. f \in Present
        BY <2>3, <4>1, InPresent
      <4>4. plane[p]["curr"] # f /\ plane[p]["prev"] # f /\ {"curr", "prev"} \subseteq Kinds
        BY <1>1, <2>3, <4>1 DEF SlotsApart, Kinds
      <4>5. plane[p].curr # f /\ plane[p].prev # f
        BY <4>4
      <4>6. QED
        BY <2>4, <4>2, <4>3, <4>5, NotShown
    <3>3. QED
      BY <3>1, <3>2, SendIsLoan
  <2>6. CASE Drain \/ DropExpired \/ DropEarly
    <3>1. NoPush \/ \E f \in Queued(p) :
            f.bufferId # vfm[p].bufferIdCurrent /\ SendBufferRelease(c, f)
      <4>1. q # <<>> => Head(q) \in Queued(p)
        BY <1>1, <2>3, QueueFacts DEF Queued, QueuesIncrease
      <4>2. Len(q) > 1 => q[2] \in Queued(p) /\ q # <<>>
        BY <1>1, <2>3, QueueFacts DEF Queued, QueuesIncrease
      <4>3. \/ NoPush
            \/ Len(q) > 1 /\ \E s, x : Drop(p, Head(q), s, x) \/ Drop(p, q[2], s, x)
            \/ q # <<>> /\ \E s, x : Drop(p, Head(q), s, x)
        BY <2>6 DEF Drain, DropExpired, DropEarly
      <4>4. \A f, s, x : Drop(p, f, s, x) =>
              NoPush \/ (f.bufferId # vfm[p].bufferIdCurrent /\ SendBufferRelease(c, f))
        BY <2>4 DEF Drop
      <4>5. QED
        BY <4>1, <4>2, <4>3, <4>4
    <3>2. ASSUME NEW f \in Queued(p), f.bufferId # vfm[p].bufferIdCurrent
          PROVE  f \in Frames /\ Current(c) # f.bufferId /\ Previous(c) # f.bufferId
      BY <2>3, <2>4, <3>2, QueuedNotShown
    <3>3. QED
      BY <3>1, <3>2, SendIsLoan
  <2>7. QED
    BY <1>3, <2>5, <2>6
<1>4. QED
  BY <1>2, <1>3

\* What a client sends is lent, and what a flush gives back is on no screen.
LEMMA ClientLoan ==
  ASSUME VideoInv, SamePictures, NEW c \in Conns, Handle(c) \/ FlushOffload(c)
  PROVE  Loan!Next \/ UNCHANGED Loan!vars
<1>1. TypeOK /\ Ownership
  BY DEF VideoInv
<1>2. CASE lent' = lent
  BY <1>1, <1>2, LoanSteps
<1>3. ASSUME NEW b \in Buffers, HandleFrame(c, b) \/ HandleBadFrame(c, b)
      PROVE  Loan!Next
  <2>1. b \notin lent[c] /\ lent' = [lent EXCEPT ![c] = @ \cup {b}]
    BY <1>3 DEF HandleFrame, HandleBadFrame, MaySend
  <2>2. QED
    BY <1>1, <2>1, LoanSteps
<1>4. \A f \in PendingReleases(c) :
        f \in Frames /\ Current(c) # f.bufferId /\ Previous(c) # f.bufferId
  <2> SUFFICES ASSUME NEW f \in PendingReleases(c)
               PROVE  f \in Frames /\ Current(c) # f.bufferId /\ Previous(c) # f.bufferId
    OBVIOUS
  <2>1. PICK m \in ToSet(messages) : m.type = "release" /\ m.conn = c /\ m.frame = f
    BY DEF PendingReleases
  <2>2. PICK i \in 1..Len(messages) : messages[i] = m
    BY <1>1, <2>1 DEF TypeOK, ToSet
  <2>3. f \in ToRelease
    BY <1>1, <2>1, <2>2, InRelease DEF IsRelease
  <2>4. f.fb[1] = c
    BY <2>1, <2>2 DEF VideoInv, PlacesInv, MessagesApart, IsRelease
  <2>5. QED
    BY <2>3, <2>4, ReleasedNotShown
<1>5. CASE FlushOffload(c)
  <2>1. FreeAndReturn(c, PendingReleases(c)) /\ PendingReleases(c) \in SUBSET Frames
    BY <1>4, <1>5 DEF FlushOffload
  <2>2. QED
    BY <1>4, <2>1, ReturnIsLoan
<1>6. CASE HandleFlush(c) \/ HandleSession(c)
  <2> DEFINE p == planeOf[c]
  <2>1. OnPlane(c)
    BY <1>6 DEF HandleFlush, HandleSession, Serving, OnPlane
  <2>2. p \in Planes /\ plane[p].conn = c
    BY <1>1, <2>1, PlaneOfConn
  <2>3. \A f \in Discarded(vfm[p]) :
          f \in Frames /\ Current(c) # f.bufferId /\ Previous(c) # f.bufferId
    <3> SUFFICES ASSUME NEW f \in Discarded(vfm[p])
                 PROVE  f \in Frames /\ Current(c) # f.bufferId /\ Previous(c) # f.bufferId
      OBVIOUS
    <3>1. f \in Queued(p) /\ f.bufferId # vfm[p].bufferIdCurrent
      BY DEF Discarded, Queued
    <3>2. QED
      BY <2>2, <3>1, QueuedNotShown
  <2>4. PICK S : S \in SUBSET (PendingReleases(c) \cup Discarded(vfm[p])) /\ FreeAndReturn(c, S)
    BY <1>6 DEF HandleFlush, HandleSession
  <2>5. S \in SUBSET Frames /\ \A f \in S : Current(c) # f.bufferId /\ Previous(c) # f.bufferId
    BY <1>4, <2>3, <2>4
  <2>6. QED
    BY <2>4, <2>5, ReturnIsLoan
<1>7. QED
  BY <1>2, <1>3, <1>5, <1>6
     DEF Handle, HandleVideoResource, HandlePause, HandleFrameAdvance, HandleKeepLastFrame, clientVars

\* The server implements VideoLoan: whatever is dropped, flipped, flushed or left, a
\* buffer goes back only when it is neither the picture shown nor the one before it.
THEOREM LoanIsKept == ExitTicks <= 1 => (Spec => ImplementsLoan)
<1>1. Init => Loan!Init
  BY DEF Init, Loan!Init, OnScreen
<1>2. VideoInv /\ [Next]_vars => [Loan!Next]_(Loan!vars)
  <2> SUFFICES ASSUME VideoInv, [Next]_vars PROVE Loan!Next \/ UNCHANGED Loan!vars
    OBVIOUS
  <2>1. TypeOK /\ Ownership
    BY DEF VideoInv
  <2>2. CASE SwapBuffers
    BY <2>2, SwapIsLoan
  <2>3. CASE \E c \in Conns : OnPlane(c) /\ EndPlane(c)
    BY <2>3, EndIsLoan
  <2>4. CASE ~SwapBuffers /\ \A c \in Conns : ~(OnPlane(c) /\ EndPlane(c))
    <3>1. SamePictures
      BY <2>4, PicturesSeen
    <3>2. CASE lent' = lent
      <4>1. CASE Conns = {}
        BY <2>1, <3>2, <4>1 DEF Loan!vars, TypeOK
      <4>2. CASE Conns # {}
        BY <2>1, <3>1, <3>2, <4>2, LoanSteps
      <4>3. QED
        BY <4>1, <4>2
    <3>3. CASE ReleasePrevious \/ Drain \/ DropExpired \/ DropEarly \/ WorkOff
      BY <3>1, <3>3, ThreadsLoan
    <3>4. CASE \E c \in Conns : Handle(c) \/ FlushOffload(c)
      BY <3>1, <3>4, ClientLoan
    <3>5. QED
      <4>1. CASE Tick
        BY <2>4, <3>2, <3>3, <4>1
           DEF Tick, StartTick, CheckPlane, FirstDue, SecondDue, NoneDue, TakeFrame, clientVars
      <4>2. CASE Offload
        BY <3>2, <3>3, <4>2 DEF Offload, Wake, PopMessage, clientVars
      <4>3. ASSUME NEW c \in Conns, Leave(c) \/ LeaveFrame(c) \/ Ending(c), ~FlushOffload(c)
            PROVE  lent' = lent
        BY <2>4, <4>3 DEF Leave, LeaveFrame, Ending, FreePlane, Destroy, DestroyImpatiently,
                          clientVars, Serving, OnPlane
      <4>4. CASE UNCHANGED vars
        BY <3>2, <4>4 DEF vars, clientVars
      <4>5. QED
        BY <3>2, <3>4, <4>1, <4>2, <4>3, <4>4 DEF Next, Ending
  <2>5. QED
    BY <2>2, <2>3, <2>4
<1>3. QED
  BY <1>1, <1>2, Invariant, PTL DEF Spec, ImplementsLoan, Loan!Spec
=============================================================================
