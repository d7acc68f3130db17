--------------------------- MODULE SurfacesProofs ---------------------------
(***************************************************************************)
(* Proofs about Surfaces, for any surfaces, buffers and modes.  The        *)
(* variables fall into three groups with an inductive invariant each: the  *)
(* render mutexes, the video paths, and the buffers.                       *)
(***************************************************************************)
EXTENDS Surfaces, TLAPS, FiniteSetTheorems

(***************************************************************************)
(* Render mutexes: an attach that has locked the mutex of its surface and  *)
(* not marked the surface yet is the only reason for one held unmarked.    *)
(***************************************************************************)
RenderInv ==
    /\ thread \in Threads
    /\ needsRender \subseteq locked
    /\ locked \subseteq alive
    /\ thread.at # "idle" => thread.surface \in alive
    /\ thread.at = "trying" => thread.surface \in locked \ needsRender
    /\ RenderMutexHandedOver

(***************************************************************************)
(* Video paths: a path that was never decided has no change under way, and *)
(* only an embedded compositor decides any.                                *)
(***************************************************************************)
Vpcs == [set : BOOLEAN, hw : BOOLEAN, next : BOOLEAN, pending : BOOLEAN, bridge : BOOLEAN]

PathOK(v, s) ==
    /\ v.set => /\ told[s] = v.next
                /\ v.pending <=> v.hw # v.next
                /\ s \in answered => v.hw = told[s]
    /\ ~v.set => ~v.pending
    /\ ~twoStep => ~v.pending
    /\ mode # "embedded" => ~v.set

PathInv ==
    /\ mode \in Modes /\ twoStep \in BOOLEAN
    /\ vpc \in [Surfaces -> {None} \cup Vpcs]
    /\ told \in [Surfaces -> BOOLEAN]
    /\ answered \subseteq alive
    /\ appPath \in BOOLEAN
    /\ \A s \in Surfaces : vpc[s] # None => PathOK(vpc[s], s)

(***************************************************************************)
(* Buffers: each is in one place at most, and in one exactly while the     *)
(* compositor has it.  What is shown is attached unless the surface was    *)
(* attached to since; and the attach under way may still go on.            *)
(***************************************************************************)
BufferTypes ==
    /\ alive \subseteq Surfaces
    /\ attached \in [Surfaces -> Buffers \cup {None}]
    /\ detached \in [Surfaces -> Buffers \cup {None}]
    /\ shown \in [Surfaces -> Buffers \cup {None}]
    /\ redrawn \subseteq alive
    /\ signal \subseteq alive
    /\ owner \in [Buffers -> {"client", "compositor"}]
    /\ above \in [Buffers -> Surfaces \cup {None}]
    /\ toRelease \subseteq (Buffers \X Surfaces)
    /\ stranded \subseteq Buffers

IsAttached(b) == \E s \in Surfaces : attached[s] = b
IsDetached(b) == \E s \in Surfaces : detached[s] = b
IsQueued(b) == \E s \in Surfaces : <<b, s>> \in toRelease

InOnePlace ==
    /\ \A s, t \in Surfaces : attached[s] # None /\ attached[s] = attached[t] => s = t
    /\ \A s, t \in Surfaces : detached[s] # None /\ detached[s] = detached[t] => s = t
    /\ \A b \in Buffers, s, t \in Surfaces : <<b, s>> \in toRelease /\ <<b, t>> \in toRelease => s = t
    /\ \A b \in Buffers :
          /\ IsAttached(b) => ~IsDetached(b) /\ above[b] = None /\ ~IsQueued(b) /\ b \notin stranded
          /\ IsDetached(b) => above[b] = None /\ ~IsQueued(b) /\ b \notin stranded
          /\ above[b] # None => ~IsQueued(b) /\ b \notin stranded
          /\ IsQueued(b) => b \notin stranded

Owned ==
    \A b \in Buffers :
        owner[b] = "compositor" <=>
            IsAttached(b) \/ IsDetached(b) \/ above[b] # None \/ IsQueued(b) \/ b \in stranded

BufferInv ==
    /\ BufferTypes
    /\ InOnePlace
    /\ Owned
    /\ \A s \in Surfaces \ alive : attached[s] = None /\ detached[s] = None /\ shown[s] = None
    /\ \A s \in alive : shown[s] # None /\ s \notin redrawn => attached[s] = shown[s]
    /\ thread.at # "idle" => MayAttach(thread.surface, thread.buffer)

SurfacesInv ==
    /\ RenderInv /\ PathInv /\ BufferInv
    /\ frames \subseteq alive
    /\ needRepaint \in BOOLEAN
    /\ flips \in 0 .. MaxFlips

-----------------------------------------------------------------------------
(***************************************************************************)
(* The render mutexes.                                                     *)
(***************************************************************************)

LEMMA RenderInit ==
    ASSUME Init
    PROVE  RenderInv
BY DEF Init, RenderInv, Threads, RenderMutexHandedOver

(* A step that leaves the mutexes alone, and no surface of theirs out. *)
LEMMA RenderUnchanged ==
    ASSUME RenderInv, UNCHANGED renderVars, alive \subseteq alive'
    PROVE  RenderInv'
BY DEF RenderInv, renderVars, RenderMutexHandedOver

LEMMA RenderStep ==
    ASSUME RenderInv, [Next]_vars
    PROVE  RenderInv'
<1>1. ASSUME NEW s \in Surfaces,
             CreateSurface(s) \/ AttachNone(s, TRUE) \/ AttachNone(s, FALSE) \/ Commit(s) \/ Frame(s)
               \/ GetVpcSurface(s) \/ DestroyVpcSurface(s) \/ VideoPathChange(s)
      PROVE  RenderInv'
  <2>1. UNCHANGED renderVars /\ alive \subseteq alive'
    BY <1>1 DEF CreateSurface, AttachNone, Commit, Frame, GetVpcSurface, DestroyVpcSurface,
                VideoPathChange
  <2> QED BY <2>1, RenderUnchanged
<1>2. ASSUME NEW s \in Surfaces, NEW b \in Buffers, Attach(s, b) PROVE RenderInv'
  BY <1>2, RenderUnchanged DEF Attach
<1>3. ASSUME NEW s \in Surfaces, NEW b \in Buffers, TryRenderMutex(s, b) PROVE RenderInv'
  <2>1. /\ thread.at = "idle" /\ s \in alive /\ alive' = alive
        /\ locked' = locked \cup {s} /\ needsRender' = needsRender
        /\ thread' = [at |-> IF s \in locked THEN "missed" ELSE "trying",
                      surface |-> s, buffer |-> b]
    BY <1>3 DEF TryRenderMutex, Idle, MayAttach
  <2>2. thread' \in Threads
    BY <2>1 DEF Threads
  <2> QED BY <2>1, <2>2 DEF RenderInv, RenderMutexHandedOver
<1>4. CASE MarkNeedsRender
  <2>1. /\ thread.at = "trying" /\ locked' = locked /\ alive' = alive
        /\ needsRender' = needsRender \cup {thread.surface}
        /\ thread' = [thread EXCEPT !.at = "marked"]
    BY <1>4 DEF MarkNeedsRender
  <2>2. PICK s \in Surfaces, b \in Buffers : thread = [at |-> "trying", surface |-> s, buffer |-> b]
    BY <2>1 DEF RenderInv, Threads
  <2>3. thread' = [at |-> "marked", surface |-> s, buffer |-> b]
    BY <2>1, <2>2
  <2>4. thread' \in Threads
    BY <2>3 DEF Threads
  <2> QED BY <2>1, <2>2, <2>3, <2>4 DEF RenderInv, RenderMutexHandedOver
<1>5. CASE FinishAttach
  BY <1>5 DEF FinishAttach, RenderInv, RenderMutexHandedOver, Threads
<1>6. ASSUME NEW s \in Surfaces, DestroySurface(s) PROVE RenderInv'
  BY <1>6 DEF DestroySurface, Idle, ForgetRender, RenderInv, RenderMutexHandedOver
<1>7. ASSUME NEW hints \in BOOLEAN, ComposeEmbedded(hints) PROVE RenderInv'
  BY <1>7 DEF ComposeEmbedded, RenderInv, RenderMutexHandedOver
<1>8. ASSUME NEW b \in Buffers, DestroyBuffer(b) \/ NestedRelease(b) PROVE RenderInv'
  <2>1. UNCHANGED renderVars /\ alive' = alive
    BY <1>8 DEF DestroyBuffer, NestedRelease
  <2> QED BY <2>1, RenderUnchanged
<1>9. CASE DisplayTimeOut \/ InvalidateScene
  <2>1. UNCHANGED renderVars /\ alive' = alive
    BY <1>9 DEF DisplayTimeOut, InvalidateScene
  <2> QED BY <2>1, RenderUnchanged
<1>10. CASE UNCHANGED vars
  BY <1>10, RenderUnchanged DEF vars
<1> QED BY <1>1, <1>2, <1>3, <1>4, <1>5, <1>6, <1>7, <1>8, <1>9, <1>10 DEF Next

-----------------------------------------------------------------------------
(***************************************************************************)
(* The video paths.                                                        *)
(***************************************************************************)

LEMMA PathInit ==
    ASSUME Init
    PROVE  PathInv
BY DEF Init, PathInv, Modes

LEMMA PathUnchanged ==
    ASSUME PathInv, UNCHANGED <<mode, twoStep, vpc, told, answered, appPath>>, alive \subseteq alive'
    PROVE  PathInv'
BY DEF PathInv, PathOK

(* A surface without a path object is without one in every respect. *)
LEMMA WithoutVpcStep ==
    ASSUME PathInv, NEW s \in Surfaces, WithoutVpc(s), UNCHANGED config,
           alive \ {s} \subseteq alive'
    PROVE  PathInv'
<1>1. /\ vpc' = [vpc EXCEPT ![s] = None] /\ told' = [told EXCEPT ![s] = TRUE]
      /\ answered' = answered \ {s} /\ appPath' = appPath /\ mode' = mode /\ twoStep' = twoStep
  BY DEF WithoutVpc, config
<1>2. \A t \in Surfaces : vpc'[t] # None => PathOK(vpc[t], t)'
  BY <1>1 DEF PathInv, PathOK
<1> QED BY <1>1, <1>2 DEF PathInv, PathOK

LEMMA VpcCompleted ==
    ASSUME NEW v \in Vpcs
    PROVE  [[v EXCEPT !.hw = v.next] EXCEPT !.pending = FALSE]
             = [set |-> v.set, hw |-> v.next, next |-> v.next, pending |-> FALSE,
                bridge |-> v.bridge]
<1> DEFINE first == [v EXCEPT !.hw = v.next]
           second == [first EXCEPT !.pending = FALSE]
<1>1. /\ first \in Vpcs /\ first.hw = v.next /\ first.set = v.set /\ first.next = v.next
      /\ first.pending = v.pending /\ first.bridge = v.bridge
  BY DEF Vpcs
<1>2. /\ second \in Vpcs /\ second.hw = first.hw /\ second.set = first.set
      /\ second.next = first.next /\ second.pending = FALSE /\ second.bridge = first.bridge
  <2> HIDE DEF first
  <2> QED BY <1>1 DEF Vpcs
<1>3. second = [set |-> second.set, hw |-> second.hw, next |-> second.next,
                pending |-> second.pending, bridge |-> second.bridge]
  <2> HIDE DEF second
  <2> QED BY <1>2 DEF Vpcs
<1> HIDE DEF first, second
<1>4. second = [set |-> v.set, hw |-> v.next, next |-> v.next, pending |-> FALSE,
                bridge |-> v.bridge]
  BY <1>1, <1>2, <1>3
<1> QED BY <1>4 DEF first, second

(* A commit completes a change exactly when it brings what the client was told. *)
LEMMA CompleteTransitionStep ==
    ASSUME PathInv, NEW s \in Surfaces, s \in alive, CompleteTransition(s), UNCHANGED config,
           alive' = alive
    PROVE  PathInv'
<1> DEFINE v == vpc[s]
           completes == v # None /\ v.pending /\ CommitAnswers(s, v.next)
           done == [set |-> v.set, hw |-> v.next, next |-> v.next, pending |-> FALSE,
                    bridge |-> v.bridge]
<1>1. /\ vpc' = IF completes
                THEN [vpc EXCEPT ![s].hw = v.next, ![s].pending = FALSE] ELSE vpc
      /\ answered' = IF v # None /\ CommitAnswers(s, told[s]) THEN answered \cup {s} ELSE answered
      /\ told' = told /\ appPath' = appPath /\ mode' = mode /\ twoStep' = twoStep
  BY DEF CompleteTransition, config
<1>2. v # None => v \in Vpcs
  BY DEF PathInv
<1>3. completes => vpc' = [vpc EXCEPT ![s] = done]
  <2>1. ASSUME completes PROVE vpc' = [vpc EXCEPT ![s] = done]
    <3>1. [[v EXCEPT !.hw = v.next] EXCEPT !.pending = FALSE] = done
      BY <1>2, <2>1, VpcCompleted
    <3>2. vpc' = [vpc EXCEPT ![s] = [[v EXCEPT !.hw = v.next] EXCEPT !.pending = FALSE]]
      BY <1>1, <2>1 DEF PathInv
    <3> QED BY <3>1, <3>2
  <2> QED BY <2>1
<1>4. done \in Vpcs \/ v = None
  BY <1>2 DEF Vpcs
<1>5. vpc' \in [Surfaces -> {None} \cup Vpcs]
  BY <1>1, <1>3, <1>4 DEF PathInv
<1>6. ASSUME NEW t \in Surfaces, vpc'[t] # None PROVE PathOK(vpc[t], t)'
  <2>1. CASE t # s
    BY <1>1, <1>3, <1>6, <2>1 DEF PathInv, PathOK
  <2>2. CASE t = s /\ completes
    <3>1. vpc'[t] = done /\ PathOK(v, s) /\ v \in Vpcs
      BY <1>2, <1>3, <2>2 DEF PathInv
    <3> QED BY <1>1, <2>2, <3>1 DEF PathOK, Vpcs
  <2>3. CASE t = s /\ ~completes
    <3>1. vpc'[t] = v /\ PathOK(v, s) /\ v \in Vpcs
      BY <1>1, <1>2, <1>6, <2>3 DEF PathInv
    <3>2. told[s] \in BOOLEAN
      BY DEF PathInv
    <3> QED BY <1>1, <2>3, <3>1, <3>2 DEF PathOK, Vpcs
  <2> QED BY <2>1, <2>2, <2>3
<1> QED BY <1>1, <1>5, <1>6 DEF PathInv

(* What a decision makes of the path of a surface, field by field. *)
LEMMA UpdatedVpcFields ==
    ASSUME NEW s \in Surfaces, NEW hints \in BOOLEAN, vpc[s] \in Vpcs, twoStep \in BOOLEAN
    PROVE  LET v == UpdatedVpc(s, hints)
               waits == vpc[s].set /\ twoStep
           IN /\ v \in Vpcs /\ v.set = TRUE /\ v.next = Effective(s, hints)
              /\ v.pending = (vpc[s].pending \/ waits)
              /\ v.hw = IF waits THEN vpc[s].hw ELSE Effective(s, hints)
              /\ Effective(s, hints) \in BOOLEAN
<1> DEFINE old == vpc[s]
           path == Effective(s, hints)
           waits == old.set /\ twoStep
           v1 == [old EXCEPT !.set = TRUE]
           v2 == [v1 EXCEPT !.next = path]
           v3 == [v2 EXCEPT !.pending = @ \/ waits]
           v4 == [v3 EXCEPT !.hw = IF waits THEN @ ELSE path]
<1>1. UpdatedVpc(s, hints) = v4
  BY DEF UpdatedVpc
<1>2. path \in BOOLEAN /\ waits \in BOOLEAN
  BY DEF Effective, Vpcs
<1> HIDE DEF path, waits
<1>3. v1 \in Vpcs /\ v1.set = TRUE /\ v1.pending = old.pending /\ v1.hw = old.hw
  BY DEF Vpcs
<1>4. v2 \in Vpcs /\ v2.set = TRUE /\ v2.next = path /\ v2.pending = old.pending /\ v2.hw = old.hw
  <2> HIDE DEF v1
  <2> QED BY <1>2, <1>3 DEF Vpcs
<1>5. /\ v3 \in Vpcs /\ v3.set = TRUE /\ v3.next = path /\ v3.hw = old.hw
      /\ v3.pending = (old.pending \/ waits)
  <2> HIDE DEF v2
  <2> QED BY <1>2, <1>4 DEF Vpcs
<1>6. /\ v4 \in Vpcs /\ v4.set = TRUE /\ v4.next = path
      /\ v4.pending = (old.pending \/ waits) /\ v4.hw = IF waits THEN old.hw ELSE path
  <2> HIDE DEF v3
  <2> QED BY <1>2, <1>5 DEF Vpcs
<1> HIDE DEF v4
<1> QED BY <1>1, <1>2, <1>6 DEF path, waits

(* The paths are decided anew: a surface whose path changes is told, and the  *)
(* change waits for it when the context makes transitions.                    *)
LEMMA UpdateVPCSurfacesStep ==
    ASSUME PathInv, NEW hints \in BOOLEAN, UpdateVPCSurfaces(hints), appPath' = hints,
           UNCHANGED config, alive' = alive, mode = "embedded"
    PROVE  PathInv'
<1> DEFINE decided == {s \in alive : Decides(s, hints)}
<1>1. /\ vpc' = [s \in Surfaces |-> IF s \in decided THEN UpdatedVpc(s, hints) ELSE vpc[s]]
      /\ told' = [s \in Surfaces |-> IF s \in decided THEN Effective(s, hints) ELSE told[s]]
      /\ answered' = answered \ {s \in decided : told[s] # Effective(s, hints) \/ ~vpc[s].set}
      /\ mode' = mode /\ twoStep' = twoStep
  BY DEF UpdateVPCSurfaces, config
<1>2. ASSUME NEW s \in Surfaces, s \in decided
      PROVE  /\ UpdatedVpc(s, hints) \in Vpcs /\ Effective(s, hints) \in BOOLEAN
             /\ PathOK(vpc[s], s)'
  <2> DEFINE v == UpdatedVpc(s, hints)
             path == Effective(s, hints)
             waits == vpc[s].set /\ twoStep
  <2>1. vpc[s] \in Vpcs /\ PathOK(vpc[s], s) /\ Decides(s, hints)
    BY <1>2 DEF PathInv, Decides
  <2>2. /\ v \in Vpcs /\ v.set = TRUE /\ v.next = path
        /\ v.pending = (vpc[s].pending \/ waits)
        /\ v.hw = IF waits THEN vpc[s].hw ELSE path
        /\ path \in BOOLEAN
    BY <2>1, UpdatedVpcFields DEF PathInv
  <2>3. ~vpc[s].set \/ path # vpc[s].hw
    BY <2>1 DEF Decides
  <2>4. vpc'[s] = v /\ told'[s] = path
    BY <1>1, <1>2
  <2>5. s \in answered' => s \in answered /\ told[s] = path /\ vpc[s].set
    BY <1>1, <1>2
  <2>6. twoStep \in BOOLEAN /\ told[s] \in BOOLEAN
    BY DEF PathInv
  <2> HIDE DEF v, path, decided
  <2>7. v.set => /\ told'[s] = v.next
                 /\ v.pending <=> v.hw # v.next
                 /\ s \in answered' => v.hw = told'[s]
    BY <2>1, <2>2, <2>3, <2>4, <2>5, <2>6 DEF PathOK, Vpcs
  <2>8. ~twoStep => ~v.pending
    BY <2>1, <2>2 DEF PathOK, Vpcs
  <2>9. PathOK(vpc[s], s)'
    BY <1>1, <2>2, <2>4, <2>7, <2>8 DEF PathOK
  <2> QED BY <2>2, <2>9 DEF v, path
<1>3. ASSUME NEW s \in Surfaces, s \notin decided, vpc'[s] # None
      PROVE  PathOK(vpc[s], s)'
  <2>1. vpc'[s] = vpc[s] /\ told'[s] = told[s] /\ (s \in answered' => s \in answered)
    BY <1>1, <1>3
  <2> QED BY <1>1, <1>3, <2>1 DEF PathInv, PathOK
<1>4. vpc' \in [Surfaces -> {None} \cup Vpcs] /\ told' \in [Surfaces -> BOOLEAN]
  BY <1>1, <1>2 DEF PathInv
<1>5. answered' \subseteq alive'
  BY <1>1 DEF PathInv
<1> HIDE DEF decided
<1> QED BY <1>1, <1>2, <1>3, <1>4, <1>5 DEF PathInv

LEMMA PathStep ==
    ASSUME PathInv, alive \subseteq Surfaces, [Next]_vars
    PROVE  PathInv'
<1>1. ASSUME NEW s \in Surfaces,
             CreateSurface(s) \/ AttachNone(s, TRUE) \/ AttachNone(s, FALSE) \/ Frame(s)
      PROVE  PathInv'
  <2>1. UNCHANGED config /\ UNCHANGED pathVars /\ alive \subseteq alive'
    BY <1>1 DEF CreateSurface, AttachNone, Frame
  <2> QED BY <2>1, PathUnchanged DEF config, pathVars
<1>2. ASSUME NEW s \in Surfaces, NEW b \in Buffers,
             Attach(s, b) \/ TryRenderMutex(s, b)
      PROVE  PathInv'
  <2>1. UNCHANGED config /\ UNCHANGED pathVars /\ alive \subseteq alive'
    BY <1>2 DEF Attach, TryRenderMutex
  <2> QED BY <2>1, PathUnchanged DEF config, pathVars
<1>3. CASE MarkNeedsRender \/ FinishAttach \/ DisplayTimeOut \/ InvalidateScene
  <2>1. UNCHANGED config /\ UNCHANGED pathVars /\ alive \subseteq alive'
    BY <1>3 DEF MarkNeedsRender, FinishAttach, DisplayTimeOut, InvalidateScene
  <2> QED BY <2>1, PathUnchanged DEF config, pathVars
<1>4. ASSUME NEW s \in Surfaces, Commit(s) PROVE PathInv'
  BY <1>4, CompleteTransitionStep DEF Commit
<1>5. ASSUME NEW s \in Surfaces, GetVpcSurface(s) PROVE PathInv'
  <2>1. /\ vpc' = [vpc EXCEPT ![s] = NoVpc] /\ NoVpc \in Vpcs /\ ~NoVpc.set /\ ~NoVpc.pending
        /\ UNCHANGED <<mode, twoStep, told, answered, appPath, alive>>
    BY <1>5 DEF GetVpcSurface, config, NoVpc, Vpcs
  <2> QED BY <2>1 DEF PathInv, PathOK
<1>6. ASSUME NEW s \in Surfaces, DestroyVpcSurface(s) \/ DestroySurface(s) PROVE PathInv'
  <2>1. WithoutVpc(s) /\ UNCHANGED config /\ alive \ {s} \subseteq alive'
    BY <1>6 DEF DestroyVpcSurface, DestroySurface
  <2> QED BY <2>1, WithoutVpcStep
<1>7. ASSUME NEW s \in Surfaces, VideoPathChange(s) PROVE PathInv'
  <2>1. /\ vpc[s] # None /\ vpc[s] \in Vpcs
        /\ UNCHANGED <<mode, twoStep, appPath, alive>>
    BY <1>7 DEF VideoPathChange, PathInv, config
  <2>2. CASE mode = "embedded"
    <3> DEFINE v == [vpc[s] EXCEPT !.bridge = ~@]
    <3>1. vpc' = [vpc EXCEPT ![s] = v] /\ told' = told /\ answered' = answered
      BY <1>7, <2>2 DEF VideoPathChange, PathInv
    <3>2. /\ v \in Vpcs /\ v.set = vpc[s].set /\ v.hw = vpc[s].hw /\ v.next = vpc[s].next
          /\ v.pending = vpc[s].pending
      BY <2>1 DEF Vpcs
    <3> HIDE DEF v
    <3>3. PathOK(v, s)
      BY <2>1, <3>2 DEF PathInv, PathOK
    <3> QED BY <2>1, <3>1, <3>2, <3>3 DEF PathInv, PathOK
  <2>3. CASE mode # "embedded"
    BY <1>7, <2>1, <2>3 DEF VideoPathChange, PathInv, PathOK
  <2> QED BY <2>2, <2>3
<1>8. ASSUME NEW hints \in BOOLEAN, ComposeEmbedded(hints) PROVE PathInv'
  BY <1>8, UpdateVPCSurfacesStep DEF ComposeEmbedded
<1>9. CASE UNCHANGED vars
  BY <1>9, PathUnchanged DEF vars, config, pathVars
<1>10. CASE \E b \in Buffers : DestroyBuffer(b) \/ NestedRelease(b)
  <2>1. UNCHANGED config /\ UNCHANGED pathVars /\ alive \subseteq alive'
    BY <1>10 DEF DestroyBuffer, NestedRelease
  <2> QED BY <2>1, PathUnchanged DEF config, pathVars
<1> QED BY <1>1, <1>2, <1>3, <1>4, <1>5, <1>6, <1>7, <1>8, <1>9, <1>10 DEF Next

-----------------------------------------------------------------------------
(***************************************************************************)
(* The buffers.                                                            *)
(***************************************************************************)

(* The invariant of the buffers, but for the attach under way. *)
Placed ==
    /\ BufferTypes
    /\ InOnePlace
    /\ Owned
    /\ \A s \in Surfaces \ alive : attached[s] = None /\ detached[s] = None /\ shown[s] = None
    /\ \A s \in alive : shown[s] # None /\ s \notin redrawn => attached[s] = shown[s]

LEMMA BufferInit ==
    ASSUME SurfacesAssumption, Init
    PROVE  BufferInv
BY DEF Init, BufferInv, BufferTypes, InOnePlace, Owned, IsAttached, IsDetached, IsQueued,
       SurfacesAssumption

(* Buffers that nobody moves stay in their places. *)
LEMMA SamePlaces ==
    ASSUME InOnePlace, Owned, UNCHANGED <<attached, detached, owner, above, toRelease, stranded>>
    PROVE  InOnePlace' /\ Owned'
<1>1. \A b \in Buffers : /\ IsAttached(b)' <=> IsAttached(b)
                         /\ IsDetached(b)' <=> IsDetached(b)
                         /\ IsQueued(b)' <=> IsQueued(b)
  BY DEF IsAttached, IsDetached, IsQueued
<1>2. InOnePlace'
  BY <1>1 DEF InOnePlace
<1>3. Owned'
  BY <1>1 DEF Owned
<1> QED BY <1>2, <1>3

(* What InOnePlace says of one buffer. *)
LEMMA OnePlaceOf ==
    ASSUME InOnePlace, NEW b \in Buffers
    PROVE  /\ IsAttached(b) => ~IsDetached(b) /\ above[b] = None /\ ~IsQueued(b) /\ b \notin stranded
           /\ IsDetached(b) => above[b] = None /\ ~IsQueued(b) /\ b \notin stranded
           /\ above[b] # None => ~IsQueued(b) /\ b \notin stranded
           /\ IsQueued(b) => b \notin stranded
BY DEF InOnePlace

LEMMA PlacedUnchanged ==
    ASSUME Placed, UNCHANGED bufferVars, alive' = alive
    PROVE  Placed'
<1>1. InOnePlace' /\ Owned'
  BY SamePlaces DEF Placed, bufferVars
<1> QED BY <1>1 DEF Placed, bufferVars, BufferTypes

(* An attach puts the buffer of a client that has it into the surface, and the *)
(* one pushed out into the place of the one given back.                        *)
LEMMA AttachBufferStep ==
    ASSUME SurfacesAssumption, Placed, NEW s \in alive, NEW b \in Buffers \cup {None},
           b # None => owner[b] = "client" \/ attached[s] = b,
           NEW sig \in BOOLEAN, AttachBuffer(s, b, sig), alive' = alive
    PROVE  Placed'
<1>1. s \in Surfaces /\ None \notin Buffers /\ None \notin Surfaces
  BY DEF Placed, BufferTypes, SurfacesAssumption
<1>2. /\ UNCHANGED <<shown, above, toRelease, stranded>>
      /\ redrawn' = redrawn \cup {s}
      /\ signal' \subseteq signal \cup {s}
  BY DEF AttachBuffer
<1>3. CASE attached[s] = b
  <2>1. UNCHANGED <<owner, detached, attached>>
    BY <1>3 DEF AttachBuffer
  <2>2. InOnePlace' /\ Owned'
    BY <1>2, <2>1, SamePlaces DEF Placed
  <2> QED BY <1>1, <1>2, <2>1, <2>2 DEF Placed, BufferTypes
<1>4. CASE attached[s] # b
  <2>1. /\ owner' = [x \in Buffers |-> IF x = b THEN "compositor"
                                       ELSE IF x = detached[s] THEN "client" ELSE owner[x]]
        /\ detached' = [detached EXCEPT ![s] = attached[s]]
        /\ attached' = [attached EXCEPT ![s] = b]
    BY <1>4 DEF AttachBuffer, Released
  <2>2. b # None => /\ ~IsAttached(b) /\ ~IsDetached(b) /\ above[b] = None /\ ~IsQueued(b)
                    /\ b \notin stranded
    BY <1>4 DEF Placed, BufferTypes, Owned
  <2>3. BufferTypes'
    BY <1>1, <1>2, <2>1 DEF Placed, BufferTypes
  <2>4. InOnePlace'
    <3>1. \A x \in Buffers : IsQueued(x)' <=> IsQueued(x)
      BY <1>2 DEF IsQueued
    <3>2. \A t \in Surfaces : /\ attached'[t] = IF t = s THEN b ELSE attached[t]
                              /\ detached'[t] = IF t = s THEN attached[s] ELSE detached[t]
      BY <1>1, <2>1 DEF Placed, BufferTypes
    <3>3. ASSUME NEW t \in Surfaces, NEW u \in Surfaces, attached'[t] # None, attached'[t] = attached'[u]
          PROVE  t = u
      BY <1>1, <2>2, <3>2, <3>3 DEF Placed, BufferTypes, InOnePlace, IsAttached
    <3>4. ASSUME NEW t \in Surfaces, NEW u \in Surfaces, detached'[t] # None, detached'[t] = detached'[u]
          PROVE  t = u
      BY <1>1, <3>2, <3>4 DEF Placed, BufferTypes, InOnePlace, IsAttached, IsDetached
    <3>5. ASSUME NEW x \in Buffers
          PROVE  /\ IsAttached(x)' => IsAttached(x) \/ x = b
                 /\ IsDetached(x)' => x = attached[s] \/ IsDetached(x)
                 /\ x = attached[s] => ~IsAttached(x)'
      <4>1. IsAttached(x)' => IsAttached(x) \/ x = b
        BY <3>2 DEF IsAttached
      <4>2. IsDetached(x)' => x = attached[s] \/ IsDetached(x)
        BY <3>2 DEF IsDetached
      <4>3. x = attached[s] => ~IsAttached(x)'
        BY <1>1, <1>4, <3>2 DEF IsAttached, Placed, InOnePlace
      <4> QED BY <4>1, <4>2, <4>3
    <3>6. ASSUME NEW x \in Buffers
          PROVE  /\ IsAttached(x)' => /\ ~IsDetached(x)' /\ above'[x] = None
                                      /\ ~IsQueued(x)' /\ x \notin stranded'
                 /\ IsDetached(x)' => above'[x] = None /\ ~IsQueued(x)' /\ x \notin stranded'
                 /\ above'[x] # None => ~IsQueued(x)' /\ x \notin stranded'
                 /\ IsQueued(x)' => x \notin stranded'
      <4>1. x = attached[s] => IsAttached(x)
        BY <1>1 DEF IsAttached
      <4>2. x = b => /\ ~IsAttached(x) /\ ~IsDetached(x) /\ above[x] = None /\ ~IsQueued(x)
                     /\ x \notin stranded
        BY <1>1, <2>2
      <4> QED BY <1>2, <3>1, <3>5, <4>1, <4>2 DEF Placed, InOnePlace
    <3>7. \A x \in Buffers, t, u \in Surfaces :
            <<x, t>> \in toRelease' /\ <<x, u>> \in toRelease' => t = u
      BY <1>2 DEF Placed, InOnePlace
    <3> QED BY <3>3, <3>4, <3>6, <3>7 DEF InOnePlace
  <2>5. ASSUME NEW x \in Buffers
        PROVE  (owner[x] = "compositor" <=>
                 IsAttached(x) \/ IsDetached(x) \/ above[x] # None \/ IsQueued(x) \/ x \in stranded)'
    <3>1. IsQueued(x)' <=> IsQueued(x)
      BY <1>2 DEF IsQueued
    <3>2. CASE x = b
      <4>1. attached'[s] = b /\ owner'[x] = "compositor"
        BY <1>1, <2>1, <3>2 DEF Placed, BufferTypes
      <4> QED BY <1>1, <3>2, <4>1 DEF IsAttached
    <3>3. CASE x # b /\ x = attached[s]
      <4>1. x # detached[s] /\ owner[x] = "compositor"
        BY <1>1, <3>3 DEF Placed, InOnePlace, Owned, IsAttached, IsDetached
      <4>2. detached'[s] = x /\ owner'[x] = "compositor"
        BY <1>1, <2>1, <3>3, <4>1 DEF Placed, BufferTypes
      <4> QED BY <1>1, <4>2 DEF IsDetached
    <3>4. CASE x # b /\ x = detached[s]
      <4>1. /\ ~IsAttached(x) /\ above[x] = None /\ ~IsQueued(x) /\ x \notin stranded
            /\ \A t \in Surfaces : detached[t] = x => t = s
        BY <1>1, <3>4 DEF Placed, InOnePlace, IsDetached
      <4>2. owner'[x] = "client"
        BY <2>1, <3>4
      <4>3. ~IsAttached(x)'
        BY <1>1, <2>1, <3>4, <4>1 DEF IsAttached, Placed, BufferTypes
      <4>4. ~IsDetached(x)'
        BY <1>1, <2>1, <3>4, <4>1 DEF IsDetached, IsAttached, Placed, BufferTypes
      <4> QED BY <1>2, <3>1, <4>1, <4>2, <4>3, <4>4
    <3>5. CASE x # b /\ x # attached[s] /\ x # detached[s]
      <4>1. owner'[x] = owner[x]
        BY <2>1, <3>5
      <4>2. (IsAttached(x)' <=> IsAttached(x)) /\ (IsDetached(x)' <=> IsDetached(x))
        BY <1>1, <2>1, <3>5 DEF IsAttached, IsDetached, Placed, BufferTypes
      <4> QED BY <1>2, <3>1, <4>1, <4>2 DEF Placed, Owned
    <3> QED BY <3>2, <3>3, <3>4, <3>5
  <2>6. Owned'
    BY <2>5 DEF Owned
  <2>7. \A t \in alive' : shown'[t] # None /\ t \notin redrawn' => attached'[t] = shown'[t]
    BY <1>1, <1>2, <2>1 DEF Placed, BufferTypes
  <2>8. \A t \in Surfaces \ alive' : attached'[t] = None /\ detached'[t] = None /\ shown'[t] = None
    BY <1>1, <1>2, <2>1 DEF Placed, BufferTypes
  <2> QED BY <2>3, <2>4, <2>6, <2>7, <2>8 DEF Placed
<1> QED BY <1>3, <1>4

(* What every surface had detached goes back. *)
LEMMA ReleaseDetachedStep ==
    ASSUME SurfacesAssumption, Placed, ReleaseDetachedBuffers,
           UNCHANGED <<alive, attached, above, toRelease, stranded>>
    PROVE  owner' \in [Buffers -> {"client", "compositor"}] /\ InOnePlace' /\ Owned'
           /\ detached' = [s \in Surfaces |-> None]
<1>1. None \notin Buffers /\ alive \subseteq Surfaces
  BY DEF Placed, BufferTypes, SurfacesAssumption
<1>2. /\ owner' = [b \in Buffers |-> IF b \in NoLongerShown THEN "client" ELSE owner[b]]
      /\ detached' = [s \in Surfaces |-> None]
  BY DEF ReleaseDetachedBuffers, Released
<1>3. \A b \in Buffers : b \in NoLongerShown <=> IsDetached(b)
  BY <1>1 DEF NoLongerShown, IsDetached, Placed
<1>4. \A b \in Buffers : /\ IsAttached(b)' <=> IsAttached(b)
                         /\ IsQueued(b)' <=> IsQueued(b)
                         /\ ~IsDetached(b)'
  BY <1>1, <1>2 DEF IsAttached, IsQueued, IsDetached
<1>5. InOnePlace'
  BY <1>1, <1>2, <1>4 DEF Placed, InOnePlace
<1>6. owner' \in [Buffers -> {"client", "compositor"}]
  BY <1>2 DEF Placed, BufferTypes
<1>7. ASSUME NEW b \in Buffers
      PROVE  (owner[b] = "compositor" <=>
               IsAttached(b) \/ IsDetached(b) \/ above[b] # None \/ IsQueued(b) \/ b \in stranded)'
  <2>1. CASE IsDetached(b)
    BY <1>2, <1>3, <1>4, <2>1 DEF Placed, InOnePlace
  <2>2. CASE ~IsDetached(b)
    BY <1>2, <1>3, <1>4, <2>2 DEF Placed, Owned
  <2> QED BY <2>1, <2>2
<1> QED BY <1>2, <1>5, <1>6, <1>7 DEF Owned

(* A commit shows what is attached, releases what an empty surface had, or  *)
(* moves the attached buffer to the display above.                          *)
LEMMA CommitContentStep ==
    ASSUME SurfacesAssumption, Placed, NEW s \in alive, CommitContent(s), UNCHANGED <<alive, mode>>
    PROVE  Placed'
<1>1. s \in Surfaces /\ alive \subseteq Surfaces /\ None \notin Buffers /\ None \notin Surfaces
  BY DEF Placed, BufferTypes, SurfacesAssumption
<1>2. /\ shown' = [shown EXCEPT ![s] = IF mode = "cloning" THEN None ELSE attached[s]]
      /\ redrawn' = redrawn \ {s}
      /\ UNCHANGED <<signal, toRelease, stranded>>
  BY DEF CommitContent
<1>3. CASE attached[s] = None
  <2>1. ReleaseDetachedBuffers /\ UNCHANGED <<attached, above>>
    BY <1>3 DEF CommitContent
  <2>2. /\ owner' \in [Buffers -> {"client", "compositor"}] /\ InOnePlace' /\ Owned'
        /\ detached' = [t \in Surfaces |-> None]
    BY <1>2, <2>1, ReleaseDetachedStep
  <2>3. BufferTypes'
    BY <1>1, <1>2, <2>1, <2>2 DEF Placed, BufferTypes
  <2>4. \A t \in alive' : shown'[t] # None /\ t \notin redrawn' => attached'[t] = shown'[t]
    BY <1>1, <1>2, <1>3, <2>1 DEF Placed, BufferTypes
  <2>5. \A t \in Surfaces \ alive' : attached'[t] = None /\ detached'[t] = None /\ shown'[t] = None
    BY <1>1, <1>2, <2>1, <2>2 DEF Placed, BufferTypes
  <2> QED BY <2>2, <2>3, <2>4, <2>5 DEF Placed
<1>4. CASE attached[s] # None /\ mode # "cloning"
  <2>1. UNCHANGED <<owner, attached, detached, above>>
    BY <1>4 DEF CommitContent
  <2>2. BufferTypes' /\ InOnePlace' /\ Owned'
    <3>1. InOnePlace' /\ Owned'
      BY <1>2, <2>1, SamePlaces DEF Placed
    <3> QED BY <1>1, <1>2, <2>1, <3>1 DEF Placed, BufferTypes
  <2>3. \A t \in alive' : shown'[t] # None /\ t \notin redrawn' => attached'[t] = shown'[t]
    BY <1>1, <1>2, <1>4, <2>1 DEF Placed, BufferTypes
  <2>4. \A t \in Surfaces \ alive' : attached'[t] = None /\ detached'[t] = None /\ shown'[t] = None
    BY <1>1, <1>2, <2>1 DEF Placed, BufferTypes
  <2> QED BY <2>2, <2>3, <2>4 DEF Placed
<1>5. CASE attached[s] # None /\ mode = "cloning"
  <2> DEFINE b == attached[s]
  <2>1. /\ above' = [above EXCEPT ![b] = s] /\ attached' = [attached EXCEPT ![s] = None]
        /\ UNCHANGED <<owner, detached>>
    BY <1>5 DEF CommitContent
  <2>2. b \in Buffers /\ IsAttached(b)
    BY <1>1, <1>5 DEF IsAttached, Placed, BufferTypes
  <2>3. /\ ~IsDetached(b) /\ above[b] = None /\ ~IsQueued(b) /\ b \notin stranded
        /\ owner[b] = "compositor"
        /\ \A t \in Surfaces : attached[t] = b => t = s
    BY <1>1, <1>5, <2>2 DEF Placed, InOnePlace, Owned
  <2>4. \A x \in Buffers : /\ IsQueued(x)' <=> IsQueued(x)
                           /\ IsDetached(x)' <=> IsDetached(x)
                           /\ above'[x] = IF x = b THEN s ELSE above[x]
    BY <1>2, <2>1 DEF IsQueued, IsDetached, Placed, BufferTypes
  <2>5. \A t \in Surfaces : attached'[t] = IF t = s THEN None ELSE attached[t]
    BY <1>1, <2>1 DEF Placed, BufferTypes
  <2> HIDE DEF b
  <2>6. \A x \in Buffers : IsAttached(x)' <=> IsAttached(x) /\ x # b
    <3>1. b = attached[s]
      BY DEF b
    <3> QED BY <1>1, <2>3, <2>5, <3>1 DEF IsAttached
  <2>7. BufferTypes'
    BY <1>1, <1>2, <2>1, <2>2 DEF Placed, BufferTypes
  <2>8. InOnePlace'
    BY <1>1, <1>2, <2>1, <2>3, <2>4, <2>5, <2>6 DEF Placed, InOnePlace
  <2>9. Owned'
    BY <1>1, <1>2, <2>1, <2>3, <2>4, <2>6 DEF Placed, Owned
  <2>10. \A t \in alive' : shown'[t] # None /\ t \notin redrawn' => attached'[t] = shown'[t]
    BY <1>1, <1>2, <1>5, <2>5 DEF Placed, BufferTypes
  <2>11. \A t \in Surfaces \ alive' : attached'[t] = None /\ detached'[t] = None /\ shown'[t] = None
    BY <1>1, <1>2, <2>1, <2>5 DEF Placed, BufferTypes
  <2> QED BY <2>7, <2>8, <2>9, <2>10, <2>11 DEF Placed
<1> QED BY <1>3, <1>4, <1>5

(* A destroyed surface gives back what it has; what the display above has of   *)
(* it is stranded.                                                             *)
LEMMA DestroySurfaceStep ==
    ASSUME SurfacesAssumption, Placed, NEW s \in Surfaces, DestroySurface(s)
    PROVE  Placed'
<1>1. s \in alive /\ alive \subseteq Surfaces /\ None \notin Buffers /\ None \notin Surfaces
  BY DEF DestroySurface, Placed, BufferTypes, SurfacesAssumption
<1>2. /\ alive' = alive \ {s}
      /\ owner' = [b \in Buffers |-> IF b \in {attached[s], detached[s]} THEN "client" ELSE owner[b]]
      /\ redrawn' = redrawn \ {s} /\ signal' = signal \ {s}
      /\ toRelease' = {r \in toRelease : r[2] # s}
      /\ stranded' = stranded \cup {b \in Buffers : above[b] = s \/ <<b, s>> \in toRelease}
      /\ above' = [b \in Buffers |-> IF above[b] = s THEN None ELSE above[b]]
  BY DEF DestroySurface, Released, ForgetNested
<1>3. \A t \in Surfaces : /\ attached'[t] = IF t = s THEN None ELSE attached[t]
                          /\ detached'[t] = IF t = s THEN None ELSE detached[t]
                          /\ shown'[t] = IF t = s THEN None ELSE shown[t]
  BY <1>1 DEF DestroySurface, Placed, BufferTypes
<1>4. BufferTypes'
  <2>1. /\ attached' = [attached EXCEPT ![s] = None] /\ detached' = [detached EXCEPT ![s] = None]
        /\ shown' = [shown EXCEPT ![s] = None]
    BY DEF DestroySurface
  <2>2. /\ attached' \in [Surfaces -> Buffers \cup {None}]
        /\ detached' \in [Surfaces -> Buffers \cup {None}]
        /\ shown' \in [Surfaces -> Buffers \cup {None}]
    BY <2>1 DEF Placed, BufferTypes
  <2>3. /\ owner' \in [Buffers -> {"client", "compositor"}]
        /\ above' \in [Buffers -> Surfaces \cup {None}]
        /\ toRelease' \subseteq (Buffers \X Surfaces)
        /\ stranded' \subseteq Buffers
    BY <1>2 DEF Placed, BufferTypes
  <2>4. alive' \subseteq Surfaces /\ redrawn' \subseteq alive' /\ signal' \subseteq alive'
    BY <1>1, <1>2 DEF Placed, BufferTypes
  <2> QED BY <2>2, <2>3, <2>4 DEF BufferTypes
<1>5. \A b \in Buffers, t \in Surfaces : <<b, t>> \in toRelease' <=> <<b, t>> \in toRelease /\ t # s
  BY <1>2
<1>6. ASSUME NEW b \in Buffers
      PROVE  /\ IsAttached(b)' <=> IsAttached(b) /\ b # attached[s]
             /\ IsDetached(b)' <=> IsDetached(b) /\ b # detached[s]
             /\ IsQueued(b)' <=> IsQueued(b) /\ <<b, s>> \notin toRelease
             /\ b \in stranded' <=> b \in stranded \/ above[b] = s \/ <<b, s>> \in toRelease
             /\ above'[b] = IF above[b] = s THEN None ELSE above[b]
             /\ <<b, s>> \in toRelease => IsQueued(b)
             /\ b = attached[s] => IsAttached(b)
             /\ b = detached[s] => IsDetached(b)
  <2>1. IsAttached(b)' <=> IsAttached(b) /\ b # attached[s]
    BY <1>1, <1>3 DEF IsAttached, Placed, InOnePlace
  <2>2. IsDetached(b)' <=> IsDetached(b) /\ b # detached[s]
    BY <1>1, <1>3 DEF IsDetached, Placed, InOnePlace
  <2>3. IsQueued(b)' <=> IsQueued(b) /\ <<b, s>> \notin toRelease
    BY <1>1, <1>5 DEF IsQueued, Placed, InOnePlace
  <2>4. <<b, s>> \in toRelease => IsQueued(b)
    BY DEF IsQueued
  <2> QED BY <1>1, <1>2, <2>1, <2>2, <2>3, <2>4 DEF IsAttached, IsDetached
<1>7. InOnePlace'
  <2>1. \A t, u \in Surfaces : attached'[t] # None /\ attached'[t] = attached'[u] => t = u
    BY <1>3 DEF Placed, InOnePlace
  <2>2. \A t, u \in Surfaces : detached'[t] # None /\ detached'[t] = detached'[u] => t = u
    BY <1>3 DEF Placed, InOnePlace
  <2>3. \A b \in Buffers, t, u \in Surfaces :
          <<b, t>> \in toRelease' /\ <<b, u>> \in toRelease' => t = u
    BY <1>5 DEF Placed, InOnePlace
  <2>4. ASSUME NEW b \in Buffers
        PROVE  /\ IsAttached(b)' => /\ ~IsDetached(b)' /\ above'[b] = None
                                    /\ ~IsQueued(b)' /\ b \notin stranded'
               /\ IsDetached(b)' => above'[b] = None /\ ~IsQueued(b)' /\ b \notin stranded'
               /\ above'[b] # None => ~IsQueued(b)' /\ b \notin stranded'
               /\ IsQueued(b)' => b \notin stranded'
    BY <1>1, <1>6, OnePlaceOf DEF Placed
  <2> QED BY <2>1, <2>2, <2>3, <2>4 DEF InOnePlace
<1>8. ASSUME NEW b \in Buffers
      PROVE  (owner[b] = "compositor" <=>
               IsAttached(b) \/ IsDetached(b) \/ above[b] # None \/ IsQueued(b) \/ b \in stranded)'
  <2>1. CASE b \in {attached[s], detached[s]}
    <3>1. IsAttached(b) \/ IsDetached(b)
      BY <1>6, <2>1
    <3>2. above[b] = None /\ ~IsQueued(b) /\ b \notin stranded /\ ~(IsAttached(b) /\ IsDetached(b))
      BY <3>1, OnePlaceOf DEF Placed
    <3>3. ~IsAttached(b)' /\ ~IsDetached(b)'
      BY <1>6, <2>1, <3>2
    <3>4. above'[b] = None /\ ~IsQueued(b)' /\ b \notin stranded'
      BY <1>1, <1>6, <3>2
    <3> QED BY <1>2, <2>1, <3>3, <3>4
  <2>2. CASE b \notin {attached[s], detached[s]}
    <3>1. owner'[b] = owner[b]
      BY <1>2, <2>2
    <3>2. owner[b] = "compositor" <=>
             IsAttached(b) \/ IsDetached(b) \/ above[b] # None \/ IsQueued(b) \/ b \in stranded
      BY DEF Placed, Owned
    <3> QED BY <1>1, <1>6, <2>2, <3>1, <3>2
  <2> QED BY <2>1, <2>2
<1>9. \A t \in alive' : shown'[t] # None /\ t \notin redrawn' => attached'[t] = shown'[t]
  BY <1>1, <1>2, <1>3 DEF Placed
<1>10. \A t \in Surfaces \ alive' : attached'[t] = None /\ detached'[t] = None /\ shown'[t] = None
  BY <1>1, <1>2, <1>3 DEF Placed
<1> QED BY <1>4, <1>7, <1>8, <1>9, <1>10 DEF Placed, Owned

(* A destroyed buffer is forgotten where it was. *)
LEMMA DestroyBufferStep ==
    ASSUME SurfacesAssumption, Placed, NEW b \in Buffers, DestroyBuffer(b)
    PROVE  Placed'
<1>1. alive \subseteq Surfaces /\ None \notin Buffers /\ None \notin Surfaces
  BY DEF Placed, BufferTypes, SurfacesAssumption
<1>2. /\ owner' = [owner EXCEPT ![b] = "client"] /\ stranded' = stranded \ {b}
      /\ UNCHANGED <<alive, redrawn, signal, above, toRelease>>
      /\ b \in stranded \/ IsAttached(b) \/ IsDetached(b)
  BY <1>1 DEF DestroyBuffer, IsAttached, IsDetached
<1>3. \A t \in Surfaces : /\ attached'[t] = IF attached[t] = b THEN None ELSE attached[t]
                          /\ detached'[t] = IF detached[t] = b THEN None ELSE detached[t]
                          /\ shown'[t] = IF shown[t] = b THEN None ELSE shown[t]
  BY DEF DestroyBuffer
<1>4. BufferTypes'
  <2>1. /\ attached' \in [Surfaces -> Buffers \cup {None}]
        /\ detached' \in [Surfaces -> Buffers \cup {None}]
        /\ shown' \in [Surfaces -> Buffers \cup {None}]
    BY DEF DestroyBuffer, Placed, BufferTypes
  <2> QED BY <1>2, <2>1 DEF Placed, BufferTypes
<1>5. ASSUME NEW x \in Buffers
      PROVE  /\ IsAttached(x)' <=> IsAttached(x) /\ x # b
             /\ IsDetached(x)' <=> IsDetached(x) /\ x # b
             /\ IsQueued(x)' <=> IsQueued(x)
             /\ x \in stranded' <=> x \in stranded /\ x # b
  BY <1>1, <1>2, <1>3 DEF IsAttached, IsDetached, IsQueued
<1>6. InOnePlace'
  <2>1. \A t, u \in Surfaces : attached'[t] # None /\ attached'[t] = attached'[u] => t = u
    BY <1>3 DEF Placed, InOnePlace
  <2>2. \A t, u \in Surfaces : detached'[t] # None /\ detached'[t] = detached'[u] => t = u
    BY <1>3 DEF Placed, InOnePlace
  <2> QED BY <1>2, <1>5, <2>1, <2>2 DEF Placed, InOnePlace
<1>7. Owned'
  <2>1. above[b] = None /\ ~IsQueued(b)
    BY <1>2 DEF Placed, InOnePlace
  <2>2. owner \in [Buffers -> {"client", "compositor"}]
    BY DEF Placed, BufferTypes
  <2> QED BY <1>2, <1>5, <2>1, <2>2 DEF Placed, Owned
<1> QED BY <1>1, <1>2, <1>3, <1>4, <1>6, <1>7 DEF Placed

(* The display timer gives back what came back from above and, on the context's *)
(* own display, what is no longer shown.                                        *)
LEMMA DisplayTimeOutStep ==
    ASSUME SurfacesAssumption, Placed, DisplayTimeOut
    PROVE  Placed'
<1> DEFINE composed == needRepaint /\ mode = "standalone"
           back == {r[1] : r \in toRelease}
<1>1. alive \subseteq Surfaces /\ None \notin Buffers /\ None \notin Surfaces
  BY DEF Placed, BufferTypes, SurfacesAssumption
<1>2. /\ toRelease' = {} /\ UNCHANGED <<alive, attached, shown, redrawn, signal, above, stranded>>
      /\ owner' = [b \in Buffers |-> IF b \in back \cup (IF composed THEN NoLongerShown ELSE {})
                                     THEN "client" ELSE owner[b]]
      /\ detached' = IF composed THEN [s \in Surfaces |-> None] ELSE detached
  BY DEF DisplayTimeOut, Released
<1>3. \A b \in Buffers : /\ b \in back <=> IsQueued(b)
                         /\ b \in NoLongerShown <=> IsDetached(b)
  <2>1. ASSUME NEW b \in Buffers PROVE b \in back <=> IsQueued(b)
    <3>1. \A r \in toRelease : r = <<r[1], r[2]>> /\ r[2] \in Surfaces
      BY DEF Placed, BufferTypes
    <3> QED BY <3>1 DEF IsQueued
  <2>2. ASSUME NEW b \in Buffers PROVE b \in NoLongerShown <=> IsDetached(b)
    BY <1>1 DEF NoLongerShown, IsDetached, Placed
  <2> QED BY <2>1, <2>2
<1>4. \A b \in Buffers : /\ IsAttached(b)' <=> IsAttached(b)
                         /\ ~IsQueued(b)'
                         /\ IsDetached(b)' <=> IsDetached(b) /\ ~composed
  BY <1>1, <1>2 DEF IsAttached, IsQueued, IsDetached
<1> HIDE DEF composed, back
<1>5. BufferTypes'
  BY <1>2 DEF Placed, BufferTypes
<1>6. InOnePlace'
  BY <1>1, <1>2, <1>4 DEF Placed, InOnePlace
<1>7. ASSUME NEW b \in Buffers
      PROVE  (owner[b] = "compositor" <=>
               IsAttached(b) \/ IsDetached(b) \/ above[b] # None \/ IsQueued(b) \/ b \in stranded)'
  <2>1. owner'[b] = IF IsQueued(b) \/ (composed /\ IsDetached(b)) THEN "client" ELSE owner[b]
    BY <1>2, <1>3
  <2> QED BY <1>2, <1>4, <2>1 DEF Placed, InOnePlace, Owned
<1> QED BY <1>1, <1>2, <1>5, <1>6, <1>7 DEF Placed, Owned

(* What the display above returns is queued. *)
LEMMA NestedReleaseStep ==
    ASSUME SurfacesAssumption, Placed, NEW b \in Buffers, NestedRelease(b)
    PROVE  Placed'
<1>1. None \notin Surfaces /\ above[b] \in Surfaces /\ above[b] # None
  BY DEF NestedRelease, Placed, BufferTypes, SurfacesAssumption
<1>2. /\ above' = [above EXCEPT ![b] = None] /\ toRelease' = toRelease \cup {<<b, above[b]>>}
      /\ UNCHANGED <<alive, attached, detached, shown, redrawn, signal, owner, stranded>>
  BY DEF NestedRelease
<1>3. BufferTypes'
  BY <1>1, <1>2 DEF Placed, BufferTypes
<1>4. \A x \in Buffers, t \in Surfaces :
        <<x, t>> \in toRelease' <=> <<x, t>> \in toRelease \/ (x = b /\ t = above[b])
  BY <1>2
<1>5. ASSUME NEW x \in Buffers
      PROVE  /\ IsAttached(x)' <=> IsAttached(x)
             /\ IsDetached(x)' <=> IsDetached(x)
             /\ IsQueued(x)' <=> IsQueued(x) \/ x = b
             /\ above'[x] = IF x = b THEN None ELSE above[x]
  BY <1>1, <1>2, <1>4 DEF IsAttached, IsDetached, IsQueued, Placed, BufferTypes
<1>6. \A t \in Surfaces : <<b, t>> \notin toRelease
  BY <1>1 DEF Placed, InOnePlace, IsQueued
<1>7. InOnePlace'
  <2>1. \A x \in Buffers, t, u \in Surfaces :
          <<x, t>> \in toRelease' /\ <<x, u>> \in toRelease' => t = u
    BY <1>4, <1>6 DEF Placed, InOnePlace
  <2> QED BY <1>1, <1>2, <1>5, <2>1 DEF Placed, InOnePlace
<1>8. Owned'
  BY <1>1, <1>2, <1>5 DEF Placed, Owned
<1> QED BY <1>2, <1>3, <1>7, <1>8 DEF Placed

LEMMA PlacedStep ==
    ASSUME SurfacesAssumption, BufferInv, RenderInv, [Next]_vars
    PROVE  Placed'
<1>1. Placed
  BY DEF BufferInv, Placed
<1>2. ASSUME UNCHANGED bufferVars, alive' = alive PROVE Placed'
  BY <1>1, <1>2, PlacedUnchanged
<1>3. ASSUME NEW s \in Surfaces, CreateSurface(s) PROVE Placed'
  <2>1. alive' = alive \cup {s} /\ UNCHANGED bufferVars /\ s \notin alive
    BY <1>3 DEF CreateSurface
  <2>2. InOnePlace' /\ Owned'
    BY <1>1, <2>1, SamePlaces DEF Placed, bufferVars
  <2>3. BufferTypes'
    BY <1>1, <2>1 DEF Placed, bufferVars, BufferTypes
  <2> QED BY <1>1, <2>1, <2>2, <2>3 DEF Placed, bufferVars
<1>4. ASSUME NEW s \in Surfaces, DestroySurface(s) PROVE Placed'
  BY <1>1, <1>4, DestroySurfaceStep
<1>5. ASSUME NEW s \in Surfaces, NEW b \in Buffers, Attach(s, b) PROVE Placed'
  <2>1. s \in alive /\ alive' = alive /\ AttachBuffer(s, b, FALSE)
        /\ (owner[b] = "client" \/ attached[s] = b)
    BY <1>5 DEF Attach, MayAttach
  <2> QED BY <1>1, <2>1, AttachBufferStep
<1>6. ASSUME NEW s \in Surfaces, NEW sig \in BOOLEAN, AttachNone(s, sig) PROVE Placed'
  <2>1. s \in alive /\ alive' = alive /\ AttachBuffer(s, None, sig)
    BY <1>6 DEF AttachNone
  <2> QED BY <1>1, <2>1, AttachBufferStep
<1>7. CASE FinishAttach
  <2>1. thread.at # "idle" /\ thread.buffer \in Buffers
    BY <1>7 DEF FinishAttach, RenderInv, Threads
  <2>2. /\ thread.surface \in alive /\ alive' = alive
        /\ AttachBuffer(thread.surface, thread.buffer, FALSE)
        /\ owner[thread.buffer] = "client" \/ attached[thread.surface] = thread.buffer
    BY <1>7, <2>1 DEF FinishAttach, BufferInv, MayAttach
  <2> QED BY <1>1, <2>1, <2>2, AttachBufferStep
<1>8. ASSUME NEW s \in Surfaces, Commit(s) PROVE Placed'
  <2>1. s \in alive /\ CommitContent(s) /\ alive' = alive /\ mode' = mode
    BY <1>8 DEF Commit, config
  <2> QED BY <1>1, <2>1, CommitContentStep
<1>9. ASSUME NEW b \in Buffers, DestroyBuffer(b) PROVE Placed'
  BY <1>1, <1>9, DestroyBufferStep
<1>10. ASSUME NEW b \in Buffers, NestedRelease(b) PROVE Placed'
  BY <1>1, <1>10, NestedReleaseStep
<1>11. CASE DisplayTimeOut
  BY <1>1, <1>11, DisplayTimeOutStep
<1>12. ASSUME NEW s \in Surfaces, NEW b \in Buffers, TryRenderMutex(s, b) PROVE Placed'
  BY <1>2, <1>12 DEF TryRenderMutex
<1>13. ASSUME NEW s \in Surfaces,
              Frame(s) \/ GetVpcSurface(s) \/ DestroyVpcSurface(s) \/ VideoPathChange(s)
       PROVE  Placed'
  BY <1>2, <1>13 DEF Frame, GetVpcSurface, DestroyVpcSurface, VideoPathChange
<1>14. CASE MarkNeedsRender \/ InvalidateScene \/ \E hints \in BOOLEAN : ComposeEmbedded(hints)
  BY <1>2, <1>14 DEF MarkNeedsRender, InvalidateScene, ComposeEmbedded
<1>15. CASE UNCHANGED vars
  BY <1>2, <1>15 DEF vars
<1> QED BY <1>3, <1>4, <1>5, <1>6, <1>7, <1>8, <1>9, <1>10, <1>11, <1>12, <1>13, <1>14, <1>15
        DEF Next

(* The attach under way may go on: while its thread waits for the render mutex no *)
(* other request runs, and the other threads take no buffer from a client.        *)
LEMMA AttachStep ==
    ASSUME BufferInv, RenderInv, [Next]_vars
    PROVE  thread'.at # "idle" => MayAttach(thread.surface, thread.buffer)'
<1>1. ASSUME thread' = thread, UNCHANGED <<alive, owner, attached>>
      PROVE  thread'.at # "idle" => MayAttach(thread.surface, thread.buffer)'
  BY <1>1 DEF BufferInv, MayAttach
<1>2. ASSUME Idle, thread' = thread
      PROVE  thread'.at # "idle" => MayAttach(thread.surface, thread.buffer)'
  BY <1>2 DEF Idle
<1>3. ASSUME NEW s \in Surfaces, NEW b \in Buffers, TryRenderMutex(s, b)
      PROVE  MayAttach(thread.surface, thread.buffer)'
  <2>1. /\ MayAttach(s, b) /\ thread'.surface = s /\ thread'.buffer = b
        /\ UNCHANGED <<alive, owner, attached>>
    BY <1>3 DEF TryRenderMutex, bufferVars
  <2> QED BY <2>1 DEF MayAttach
<1>4. CASE MarkNeedsRender
  <2>1. PICK s \in Surfaces, b \in Buffers : thread = [at |-> "trying", surface |-> s, buffer |-> b]
    BY <1>4 DEF MarkNeedsRender, RenderInv, Threads
  <2>2. thread' = [at |-> "marked", surface |-> s, buffer |-> b]
        /\ UNCHANGED <<alive, owner, attached>>
    BY <1>4, <2>1 DEF MarkNeedsRender, bufferVars
  <2>3. MayAttach(s, b)
    BY <2>1 DEF BufferInv
  <2> QED BY <2>2, <2>3 DEF MayAttach
<1>5. CASE FinishAttach
  BY <1>5 DEF FinishAttach
<1>6. ASSUME NEW s \in Surfaces,
             CreateSurface(s) \/ DestroySurface(s) \/ Commit(s) \/ Frame(s)
               \/ (\E b \in Buffers : Attach(s, b)) \/ (\E sig \in BOOLEAN : AttachNone(s, sig))
               \/ GetVpcSurface(s) \/ DestroyVpcSurface(s)
      PROVE  thread'.at # "idle" => MayAttach(thread.surface, thread.buffer)'
  <2>1. Idle /\ thread' = thread
    BY <1>6 DEF CreateSurface, DestroySurface, Commit, Frame, Attach, AttachNone, GetVpcSurface,
                DestroyVpcSurface, renderVars
  <2> QED BY <1>2, <2>1
<1>7. CASE DisplayTimeOut \/ \E b \in Buffers : DestroyBuffer(b)
  <2>1. Idle /\ thread' = thread
    BY <1>7 DEF DisplayTimeOut, DestroyBuffer, renderVars
  <2> QED BY <1>2, <2>1
<1>8. CASE \/ InvalidateScene \/ \E hints \in BOOLEAN : ComposeEmbedded(hints)
           \/ \E s \in Surfaces : VideoPathChange(s)
           \/ \E b \in Buffers : NestedRelease(b)
  <2>1. thread' = thread /\ UNCHANGED <<alive, owner, attached>>
    BY <1>8 DEF InvalidateScene, ComposeEmbedded, VideoPathChange, NestedRelease, renderVars,
                bufferVars
  <2> QED BY <1>1, <2>1
<1>9. CASE UNCHANGED vars
  BY <1>1, <1>9 DEF vars, renderVars, bufferVars
<1> QED BY <1>3, <1>4, <1>5, <1>6, <1>7, <1>8, <1>9 DEF Next

-----------------------------------------------------------------------------
(***************************************************************************)
(* The invariant and the theorems.                                         *)
(***************************************************************************)

LEMMA SurfacesInit ==
    ASSUME SurfacesAssumption, Init
    PROVE  SurfacesInv
<1>1. frames \subseteq alive /\ needRepaint \in BOOLEAN /\ flips \in 0 .. MaxFlips
  BY DEF Init, SurfacesAssumption
<1> QED BY <1>1, RenderInit, PathInit, BufferInit DEF SurfacesInv

LEMMA SurfacesStep ==
    ASSUME SurfacesAssumption, SurfacesInv, [Next]_vars
    PROVE  SurfacesInv'
<1>1. RenderInv' /\ PathInv'
  BY RenderStep, PathStep DEF SurfacesInv, BufferInv, BufferTypes
<1>2. BufferInv'
  BY PlacedStep, AttachStep DEF SurfacesInv, BufferInv, Placed
<1>3. frames' \subseteq alive' /\ needRepaint' \in BOOLEAN /\ flips' \in 0 .. MaxFlips
  <2>1. frames \subseteq alive /\ needRepaint \in BOOLEAN /\ flips \in 0 .. MaxFlips /\ MaxFlips \in Nat
    BY DEF SurfacesInv, SurfacesAssumption
  <2>2. frames' \subseteq alive'
    BY <2>1 DEF Next, vars, pathVars, renderVars, bufferVars, CreateSurface, DestroySurface, ForgetRender, Attach,
       TryRenderMutex, AttachNone, Commit, Frame, GetVpcSurface, DestroyVpcSurface, VideoPathChange,
       MarkNeedsRender, FinishAttach, DestroyBuffer, NestedRelease, ComposeEmbedded, DisplayTimeOut,
       InvalidateScene
  <2>3. needRepaint' = needRepaint \/ needRepaint' = TRUE \/ needRepaint' = FALSE
    <3>1. CASE \E t \in Surfaces :
                 \/ CreateSurface(t) \/ DestroySurface(t) \/ Commit(t) \/ Frame(t)
                 \/ (\E b \in Buffers : Attach(t, b) \/ TryRenderMutex(t, b))
                 \/ (\E sig \in BOOLEAN : AttachNone(t, sig))
      BY <3>1 DEF CreateSurface, DestroySurface, Commit, Frame, Attach, TryRenderMutex, AttachNone
    <3>2. CASE \E t \in Surfaces : GetVpcSurface(t) \/ DestroyVpcSurface(t) \/ VideoPathChange(t)
      BY <3>2 DEF GetVpcSurface, DestroyVpcSurface, VideoPathChange
    <3>3. CASE \/ MarkNeedsRender \/ FinishAttach \/ DisplayTimeOut \/ InvalidateScene
               \/ (\E b \in Buffers : DestroyBuffer(b) \/ NestedRelease(b))
               \/ (\E hints \in BOOLEAN : ComposeEmbedded(hints))
      BY <3>3 DEF MarkNeedsRender, FinishAttach, DestroyBuffer, NestedRelease, ComposeEmbedded,
                  DisplayTimeOut, InvalidateScene
    <3>4. CASE UNCHANGED vars
      BY <3>4 DEF vars
    <3> QED BY <3>1, <3>2, <3>3, <3>4 DEF Next
  <2>4. flips' = flips \/ (flips < MaxFlips /\ flips' = flips + 1)
    <3>1. CASE \E t \in Surfaces :
                 \/ CreateSurface(t) \/ DestroySurface(t) \/ Commit(t) \/ Frame(t)
                 \/ (\E b \in Buffers : Attach(t, b) \/ TryRenderMutex(t, b))
                 \/ (\E sig \in BOOLEAN : AttachNone(t, sig))
      BY <3>1 DEF CreateSurface, DestroySurface, WithoutVpc, Commit, CompleteTransition, Frame,
                  Attach, TryRenderMutex, AttachNone, pathVars
    <3>2. CASE \E t \in Surfaces : GetVpcSurface(t) \/ DestroyVpcSurface(t) \/ VideoPathChange(t)
      BY <3>2 DEF GetVpcSurface, DestroyVpcSurface, WithoutVpc, VideoPathChange, pathVars
    <3>3. CASE \/ MarkNeedsRender \/ FinishAttach \/ DisplayTimeOut \/ InvalidateScene
               \/ (\E b \in Buffers : DestroyBuffer(b) \/ NestedRelease(b))
               \/ (\E hints \in BOOLEAN : ComposeEmbedded(hints))
      BY <3>3 DEF MarkNeedsRender, FinishAttach, DestroyBuffer, NestedRelease, ComposeEmbedded,
                  DisplayTimeOut, InvalidateScene, pathVars
    <3>4. CASE UNCHANGED vars
      BY <3>4 DEF vars, pathVars
    <3> QED BY <3>1, <3>2, <3>3, <3>4 DEF Next
  <2>5. needRepaint' \in BOOLEAN
    BY <2>1, <2>3, Zenon
  <2>6. flips' \in 0 .. MaxFlips
    <3>1. flips \in 0 .. MaxFlips /\ MaxFlips \in Nat
      BY <2>1
    <3> QED BY <2>4, <3>1
  <2> QED BY <2>2, <2>5, <2>6
<1> QED BY <1>1, <1>2, <1>3 DEF SurfacesInv

LEMMA SurfacesAlways == Spec => []SurfacesInv
<1>1. Init => SurfacesInv
  BY SurfacesInit, SurfacesAssumption
<1>2. SurfacesInv /\ [Next]_vars => SurfacesInv'
  BY SurfacesStep, SurfacesAssumption
<1> QED BY <1>1, <1>2, PTL DEF Spec

(* Every variable of the surfaces keeps its type; what is noted of a surface goes *)
(* with it.                                                                       *)
THEOREM TypeCorrect == Spec => []TypeOK
<1>1. SurfacesInv => TypeOK
  BY DEF SurfacesInv, RenderInv, PathInv, BufferInv, BufferTypes, TypeOK, Vpcs
<1> QED BY <1>1, SurfacesAlways, PTL

(* The render mutex that an attach locks on the compositor's thread is unlocked by *)
(* the application's thread, and by it only after the attach has marked it.        *)
THEOREM MutexHandedOver == Spec => []RenderMutexHandedOver
<1>1. SurfacesInv => RenderMutexHandedOver
  BY DEF SurfacesInv, RenderInv
<1> QED BY <1>1, SurfacesAlways, PTL

(* The compositor and a video client agree on the path through wstUpdateVPCSurfaces, *)
(* commits, path changes from above and destroyed surfaces.                          *)
THEOREM PathsAgree == Spec => []PathAgrees
<1>1. SurfacesInv => PathAgrees
  BY DEF SurfacesInv, PathInv, PathOK, PathAgrees, BufferInv, BufferTypes
<1> QED BY <1>1, SurfacesAlways, PTL

(* A buffer that is still read goes back only between the attach of the next one *)
(* and its commit.                                                               *)
THEOREM ShownIsKept == Spec => []ShownUntilReplaced
<1>1. ASSUME SurfacesInv PROVE ShownUntilReplaced
  <2>1. ASSUME NEW s \in alive, shown[s] # None, s \notin redrawn
        PROVE  owner[shown[s]] # "client"
    <3>1. s \in Surfaces /\ attached[s] = shown[s] /\ shown[s] \in Buffers
      BY <1>1, <2>1 DEF SurfacesInv, BufferInv, BufferTypes
    <3>2. IsAttached(shown[s])
      BY <3>1 DEF IsAttached
    <3> QED BY <1>1, <3>1, <3>2 DEF SurfacesInv, BufferInv, Owned
  <2> QED BY <2>1 DEF ShownUntilReplaced
<1> QED BY <1>1, SurfacesAlways, PTL

(* The places of a buffer, one by one. *)
LEMMA PlacesOf ==
    ASSUME SurfacesAssumption, BufferInv, NEW b \in Buffers
    PROVE  Places(b) = {<<"attached", s>> : s \in {s \in Surfaces : attached[s] = b}}
                       \cup {<<"detached", s>> : s \in {s \in Surfaces : detached[s] = b}}
                       \cup {<<"above", s>> : s \in {above[b]} \ {None}}
                       \cup {<<"queued", s>> : s \in {s \in Surfaces : <<b, s>> \in toRelease}}
                       \cup (IF b \in stranded THEN {<<"stranded", None>>} ELSE {})
<1>1. {s \in alive : attached[s] = b} = {s \in Surfaces : attached[s] = b}
  BY DEF BufferInv, BufferTypes, SurfacesAssumption
<1>2. {s \in alive : detached[s] = b} = {s \in Surfaces : detached[s] = b}
  BY DEF BufferInv, BufferTypes, SurfacesAssumption
<1>3. {<<"queued", r[2]>> : r \in {r \in toRelease : r[1] = b}}
        = {<<"queued", s>> : s \in {s \in Surfaces : <<b, s>> \in toRelease}}
  <2>1. \A r \in toRelease : r = <<r[1], r[2]>> /\ r[2] \in Surfaces
    BY DEF BufferInv, BufferTypes
  <2>2. ASSUME NEW r \in toRelease, r[1] = b
        PROVE  r[2] \in {s \in Surfaces : <<b, s>> \in toRelease}
    BY <2>1, <2>2
  <2>3. ASSUME NEW s \in Surfaces, <<b, s>> \in toRelease
        PROVE  \E r \in toRelease : r[1] = b /\ <<"queued", r[2]>> = <<"queued", s>>
    BY <2>3
  <2> QED BY <2>2, <2>3
<1> QED BY <1>1, <1>2, <1>3 DEF Places

(* A buffer that the compositor has is in exactly one place, and one that its client *)
(* has in none: none is lost, and none is released twice.                            *)
THEOREM NoneLost == Spec => []BuffersAccounted
<1>1. ASSUME SurfacesInv, NEW b \in Buffers
      PROVE  Cardinality(Places(b)) = IF owner[b] = "compositor" THEN 1 ELSE 0
  <2> DEFINE A == {<<"attached", s>> : s \in {s \in Surfaces : attached[s] = b}}
             D == {<<"detached", s>> : s \in {s \in Surfaces : detached[s] = b}}
             H == {<<"above", s>> : s \in {above[b]} \ {None}}
             Q == {<<"queued", s>> : s \in {s \in Surfaces : <<b, s>> \in toRelease}}
             S == IF b \in stranded THEN {<<"stranded", None>>} ELSE {}
  <2>1. BufferInv /\ InOnePlace /\ Owned /\ SurfacesAssumption /\ b # None
    BY <1>1, SurfacesAssumption DEF SurfacesInv, BufferInv
  <2>2. Places(b) = A \cup D \cup H \cup Q \cup S
    BY <2>1, PlacesOf
  <2>3. /\ ~IsAttached(b) => A = {}
        /\ ~IsDetached(b) => D = {}
        /\ above[b] = None => H = {}
        /\ ~IsQueued(b) => Q = {}
        /\ b \notin stranded => S = {}
    BY DEF IsAttached, IsDetached, IsQueued
  <2>4. IsAttached(b) => \E x : A = {x}
    <3>1. ASSUME NEW s \in Surfaces, attached[s] = b PROVE A = {<<"attached", s>>}
      <4>1. {t \in Surfaces : attached[t] = b} = {s}
        BY <2>1, <3>1 DEF InOnePlace
      <4> QED BY <4>1
    <3> QED BY <3>1 DEF IsAttached
  <2>5. IsDetached(b) => \E x : D = {x}
    <3>1. ASSUME NEW s \in Surfaces, detached[s] = b PROVE D = {<<"detached", s>>}
      <4>1. {t \in Surfaces : detached[t] = b} = {s}
        BY <2>1, <3>1 DEF InOnePlace
      <4> QED BY <4>1
    <3> QED BY <3>1 DEF IsDetached
  <2>6. above[b] # None => \E x : H = {x}
    <3>1. above[b] # None => H = {<<"above", above[b]>>}
      OBVIOUS
    <3> QED BY <3>1
  <2>7. IsQueued(b) => \E x : Q = {x}
    <3>1. ASSUME NEW s \in Surfaces, <<b, s>> \in toRelease PROVE Q = {<<"queued", s>>}
      <4>1. {t \in Surfaces : <<b, t>> \in toRelease} = {s}
        BY <2>1, <3>1 DEF InOnePlace
      <4> QED BY <4>1
    <3> QED BY <3>1 DEF IsQueued
  <2>8. b \in stranded => \E x : S = {x}
    OBVIOUS
  <2> HIDE DEF A, D, H, Q, S
  <2>9. CASE owner[b] = "compositor"
    <3>1. \E x : Places(b) = {x}
      <4>1. CASE IsAttached(b)
        BY <2>1, <2>2, <2>3, <2>4, <4>1 DEF InOnePlace
      <4>2. CASE IsDetached(b) /\ ~IsAttached(b)
        BY <2>1, <2>2, <2>3, <2>5, <4>2 DEF InOnePlace
      <4>3. CASE above[b] # None /\ ~IsDetached(b) /\ ~IsAttached(b)
        BY <2>1, <2>2, <2>3, <2>6, <4>3 DEF InOnePlace
      <4>4. CASE IsQueued(b) /\ above[b] = None /\ ~IsDetached(b) /\ ~IsAttached(b)
        BY <2>1, <2>2, <2>3, <2>7, <4>4 DEF InOnePlace
      <4>5. CASE b \in stranded /\ ~IsQueued(b) /\ above[b] = None /\ ~IsDetached(b) /\ ~IsAttached(b)
        BY <2>2, <2>3, <2>8, <4>5
      <4> QED BY <2>1, <2>9, <4>1, <4>2, <4>3, <4>4, <4>5 DEF Owned
    <3> QED BY <2>9, <3>1, FS_Singleton
  <2>10. CASE owner[b] # "compositor"
    <3>1. ~IsAttached(b) /\ ~IsDetached(b) /\ above[b] = None /\ ~IsQueued(b) /\ b \notin stranded
      BY <2>1, <2>10 DEF Owned
    <3>2. Places(b) = {}
      BY <2>2, <2>3, <3>1
    <3> QED BY <2>10, <3>2, FS_EmptySet
  <2> QED BY <2>9, <2>10
<1>2. SurfacesInv => BuffersAccounted
  BY <1>1 DEF BuffersAccounted
<1> QED BY <1>2, SurfacesAlways, PTL

=============================================================================
