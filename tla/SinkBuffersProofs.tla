-------------------------- MODULE SinkBuffersProofs --------------------------
(***************************************************************************)
(* Proofs about SinkBuffers, for any buffers and bounds.  The invariant    *)
(* has two parts: where the threads are and whether there are buffers      *)
(* (Control), and what the lock counts and the decoder's queue say of the  *)
(* buffers there are (Counted).                                            *)
(***************************************************************************)
EXTENDS SinkBuffers, TLAPS

Working == {"dequeued", "have"}

(* A tear down happens only after the output thread was told to end, and that *)
(* thread works on a buffer only while it was not, or ends before it looks.   *)
Control ==
    /\ app # "idle" => quit
    /\ app \in {"joining", "stopJoining", "stopped"} => ~allocated
    /\ At("none") => ~allocated
    /\ output.at \in Working /\ ~quit => allocated
    /\ At("have") => frames < MaxFrames
    /\ fault # "output"

HeldAs(id) ==
    server[id] + released[id] + composed[id] + (IF dispatch = id THEN 1 ELSE 0)

(* There is a set of buffers, or all are as new. *)
Torn ==
    /\ allocated => setups > 0
    /\ ~allocated => \A b \in Buffers : buf[b] = Fresh

(* Nobody has a buffer of a set that is yet to come. *)
Future == \A id \in Ids : id[1] > setups => HeldAs(id) = 0

(* Locks are holders; while a stop has dropped the server's, holders at most. *)
Covered(b) ==
    b \notin excess =>
        /\ HeldAs(Id(b)) <= buf[b].locks
        /\ app # "stopping" => buf[b].locks = HeldAs(Id(b))

(* The decoder has no locked buffer, and at the start of the thread none is. *)
Unqueued(b) ==
    /\ b \notin excess /\ buf[b].queued => buf[b].locks = 0
    /\ At("start") => buf[b].locks = 0

InHand(b) == output.at \in Working /\ output.buffer = b

(* The buffer in the output thread's hand is nobody else's. *)
Exclusive(b) ==
    InHand(b) /\ b \notin excess => buf[b].locks = 0 /\ (At("have") => ~buf[b].queued)

Lossless(b) ==
    output.at \in Working \cup {"loop"} /\ ~quit /\ ~lastFrame =>
        buf[b].queued \/ buf[b].locks > 0 \/ InHand(b)

Good(b) == Covered(b) /\ Unqueued(b) /\ Exclusive(b) /\ Lossless(b)

Counted == Torn /\ Future /\ (allocated => \A b \in Buffers : Good(b))

SinkInv == TypeOK /\ Control /\ Counted

-----------------------------------------------------------------------------
(***************************************************************************)
(* The operations on one buffer and on the counts of holders.              *)
(***************************************************************************)

Rec == [queued : BOOLEAN, locks : Nat, frame : 0 .. MaxFrames]

LEMMA FreshRec ==
    ASSUME SinkAssumption
    PROVE  Fresh \in Rec /\ Fresh.queued = FALSE /\ Fresh.locks = 0
BY DEF Fresh, Rec, SinkAssumption

(* Requeueing never unlocks, and gives only an unlocked buffer to the decoder. *)
LEMMA RequeuedRec ==
    ASSUME SinkAssumption, NEW r \in Rec
    PROVE  /\ Requeued(r) \in Rec /\ Requeued(r).locks = r.locks
           /\ r.queued => Requeued(r).queued
           /\ r.locks = 0 => Requeued(r).queued
           /\ r.locks # 0 => Requeued(r) = r
<1> DEFINE q == [r EXCEPT !.queued = TRUE]
           f == [q EXCEPT !.frame = 0]
<1>1. q \in Rec /\ q.locks = r.locks /\ q.queued
  BY DEF Rec
<1>2. f \in Rec /\ f.locks = r.locks /\ f.queued
  <2> HIDE DEF q
  <2> QED BY <1>1 DEF Rec, SinkAssumption
<1>3. Requeued(r) = IF r.locks = 0 THEN f ELSE r
  BY DEF Requeued
<1> HIDE DEF f
<1> QED BY <1>2, <1>3

(* The last unlock gives the buffer to the decoder. *)
LEMMA UnlockedRec ==
    ASSUME SinkAssumption, NEW r \in Rec
    PROVE  /\ Unlocked(r) \in Rec
           /\ Unlocked(r).locks = IF r.locks = 0 THEN 0 ELSE r.locks - 1
           /\ r.queued => Unlocked(r).queued
           /\ r.locks = 1 => Unlocked(r).queued
           /\ r.locks # 1 => Unlocked(r).queued = r.queued
<1> DEFINE z == [r EXCEPT !.locks = 0]
           d == [r EXCEPT !.locks = @ - 1]
<1>1. z \in Rec /\ z.locks = 0 /\ z.queued = r.queued
  BY DEF Rec
<1>2. r.locks > 1 => d \in Rec /\ d.locks = r.locks - 1 /\ d.queued = r.queued
  BY DEF Rec
<1>3. Unlocked(r) = IF r.locks = 0 THEN r ELSE IF r.locks = 1 THEN Requeued(z) ELSE d
  BY DEF Unlocked
<1>4. r.locks \in Nat
  BY DEF Rec
<1> HIDE DEF z, d
<1>5. Requeued(z) \in Rec /\ Requeued(z).locks = 0 /\ Requeued(z).queued
  BY <1>1, RequeuedRec
<1> QED BY <1>2, <1>3, <1>4, <1>5

LEMMA ToCompositorRec ==
    ASSUME NEW r \in Rec
    PROVE  /\ ToCompositor(r) \in Rec /\ ToCompositor(r).locks = r.locks + 1
           /\ ToCompositor(r).queued = r.queued
BY DEF ToCompositor, Rec

LEMMA SentRec ==
    ASSUME NEW f \in [Buffers -> Rec], NEW b \in Buffers, NEW n \in 0 .. MaxFrames
    PROVE  LET g == [f EXCEPT ![b].locks = @ + 1, ![b].frame = n]
           IN /\ g \in [Buffers -> Rec]
              /\ \A c \in Buffers : /\ g[c].queued = f[c].queued
                                    /\ g[c].locks = IF c = b THEN f[c].locks + 1 ELSE f[c].locks
<1> DEFINE m == [f EXCEPT ![b].locks = @ + 1]
           g == [m EXCEPT ![b].frame = n]
<1>1. /\ m \in [Buffers -> Rec]
      /\ \A c \in Buffers : /\ m[c].queued = f[c].queued
                            /\ m[c].locks = IF c = b THEN f[c].locks + 1 ELSE f[c].locks
  BY DEF Rec
<1>2. /\ g \in [Buffers -> Rec]
      /\ \A c \in Buffers : g[c].queued = m[c].queued /\ g[c].locks = m[c].locks
  <2> HIDE DEF m
  <2> QED BY <1>1 DEF Rec
<1> HIDE DEF g
<1>3. g = [f EXCEPT ![b].locks = @ + 1, ![b].frame = n]
  BY DEF g, m
<1> QED BY <1>1, <1>2, <1>3

LEMMA MoreCount ==
    ASSUME NEW h \in [Ids -> Nat], NEW id \in Ids
    PROVE  /\ More(h, id) \in [Ids -> Nat]
           /\ \A i \in Ids : More(h, id)[i] = IF i = id THEN h[i] + 1 ELSE h[i]
BY DEF More

LEMMA LessCount ==
    ASSUME NEW h \in [Ids -> Nat], NEW id \in Ids, h[id] > 0
    PROVE  /\ Less(h, id) \in [Ids -> Nat]
           /\ \A i \in Ids : Less(h, id)[i] = IF i = id THEN h[i] - 1 ELSE h[i]
BY DEF Less

LEMMA NothingCount == Nothing \in [Ids -> Nat] /\ \A i \in Ids : Nothing[i] = 0
BY DEF Nothing

(* The counts of holders are numbers, and the id of a buffer of the present set *)
(* is one of the ids.                                                           *)
LEMMA HeldNat ==
    ASSUME TypeOK, NEW id \in Ids
    PROVE  HeldAs(id) \in Nat
BY DEF TypeOK, HeldAs

LEMMA PresentId ==
    ASSUME SinkAssumption, TypeOK, Torn, allocated, NEW b \in Buffers
    PROVE  Id(b) \in Ids /\ Id(b)[1] = setups /\ Id(b)[2] = b
BY DEF TypeOK, Torn, Ids, Id, SinkAssumption

LEMMA PresentOnly ==
    ASSUME NEW id \in Ids, IsCurrent(id)
    PROVE  id = Id(id[2]) /\ id[2] \in Buffers
BY DEF Ids, IsCurrent, Id

(* Where the output thread is, as its guards and Go say. *)
LEMMA OutputPlace ==
    ASSUME TypeOK
    PROVE  /\ output.at \in {"none", "start", "loop", "exit", "ended"} \cup Working
           /\ output.at \in Working => output.buffer \in Buffers
BY DEF TypeOK, Working

-----------------------------------------------------------------------------
(***************************************************************************)
(* Types.                                                                  *)
(***************************************************************************)

BufOK(f) == f \in [Buffers -> Rec]

LEMMA BufType == TypeOK => BufOK(buf)
BY DEF TypeOK, BufOK, Rec

LEMMA UnlockType ==
    ASSUME SinkAssumption, TypeOK, NEW id, id[2] \in Buffers, UnlockAndRequeue(id), fault = "none"
    PROVE  BufOK(buf') /\ fault' \in {"none", "dispatch"}
BY BufType, UnlockedRec DEF UnlockAndRequeue, BufOK

LEMMA SetupType ==
    ASSUME SinkAssumption, TypeOK, SetupOutput
    PROVE  /\ BufOK(buf') /\ setups' \in 0 .. MaxSetups
           /\ allocated' \in BOOLEAN /\ excess' \subseteq Buffers
BY FreshRec DEF SetupOutput, BufOK, TypeOK, SinkAssumption

LEMMA TearDownType ==
    ASSUME SinkAssumption, TypeOK, TearDown
    PROVE  BufOK(buf') /\ allocated' \in BOOLEAN /\ excess' \subseteq Buffers
BY FreshRec DEF TearDown, BufOK

(* The output thread's own turns. *)
LEMMA OutputTypes ==
    ASSUME SinkAssumption, TypeOK, ~Gone, Torn,
           CaptureStart \/ Quit \/ ProcessEvents \/ (\E b \in Buffers : Dequeue(b))
              \/ GetOutputBuffer \/ LocalRateControl \/ QuitWithFrame \/ Exit
    PROVE  TypeOK'
<1> USE BufType
<1>1. CASE CaptureStart
  <2>1. BufOK(buf')
    <3>1. \/ buf' = buf
          \/ buf' = [b \in Buffers |-> [buf[b] EXCEPT !.queued = TRUE]]
      BY <1>1, Zenon DEF CaptureStart
    <3>2. \A r \in Rec : [r EXCEPT !.queued = TRUE] \in Rec
      BY DEF Rec
    <3> QED BY <3>1, <3>2 DEF BufOK
  <2>2. /\ output' = [at |-> "loop"] \/ output' = [at |-> "exit"]
        /\ lastFrame' = lastFrame \/ lastFrame' = FALSE
    BY <1>1, Zenon DEF CaptureStart, Go
  <2>3. UNCHANGED <<config, pathVars, setups, allocated, frames, holders, dispatch, quit, app,
                    fault, excess>>
    BY <1>1 DEF CaptureStart
  <2>4. output' \in [at : {"loop", "exit"}]
    BY <2>2
  <2>5. lastFrame \in BOOLEAN
    BY DEF TypeOK
  <2>6. lastFrame' \in BOOLEAN
    BY <2>2, <2>5, Zenon
  <2> QED BY <2>1, <2>3, <2>4, <2>6 DEF TypeOK, BufOK, Rec, config, pathVars, holders
<1>2. CASE Quit \/ QuitWithFrame \/ Exit
  <2>1. output' \in [at : {"exit", "ended"}]
    BY <1>2 DEF Quit, QuitWithFrame, Exit, Go
  <2>2. UNCHANGED <<config, pathVars, bufferVars, holders, dispatch, quit, app, fault, excess>>
    BY <1>2 DEF Quit, QuitWithFrame, Exit
  <2> QED BY <2>1, <2>2 DEF TypeOK, config, pathVars, bufferVars, holders
<1>3. CASE ProcessEvents
  BY <1>3, SetupType DEF ProcessEvents, TypeOK, BufOK, Rec, Go, config, pathVars, holders
<1>4. CASE \E b \in Buffers : Dequeue(b)
  BY <1>4 DEF Dequeue, TypeOK, config, pathVars, bufferVars, holders
<1>5. CASE GetOutputBuffer
  <2>1. output.buffer \in Buffers /\ output = [at |-> "dequeued", buffer |-> output.buffer]
    BY <1>5 DEF GetOutputBuffer, At, TypeOK
  <2>2. BufOK(buf')
    <3>1. \/ buf' = buf
          \/ buf' = [buf EXCEPT ![output.buffer] = [@ EXCEPT !.queued = FALSE]]
      BY <1>5, Zenon DEF GetOutputBuffer
    <3>2. \A r \in Rec : [r EXCEPT !.queued = FALSE] \in Rec
      BY DEF Rec
    <3> QED BY <2>1, <3>1, <3>2 DEF BufOK
  <2>3. output' \in [at : {"none", "start", "loop", "exit", "ended"}]
                       \cup [at : {"dequeued", "have"}, buffer : Buffers]
    <3>1. [output EXCEPT !.at = "have"] = [at |-> "have", buffer |-> output.buffer]
      BY <2>1
    <3> QED BY <1>5, <2>1, <3>1 DEF GetOutputBuffer, Go, TypeOK
  <2> QED BY <1>5, <2>2, <2>3 DEF GetOutputBuffer, TypeOK, BufOK, Rec, config, pathVars, holders
<1>6. CASE LocalRateControl
  <2>1. BufOK(buf')
    BY <1>6, RequeuedRec, OutputPlace
       DEF LocalRateControl, RequeueOutputBuffer, BufOK, At, Working
  <2> QED BY <1>6, <2>1 DEF LocalRateControl, TypeOK, BufOK, Rec, Go, config, pathVars, holders
<1> QED BY <1>1, <1>2, <1>3, <1>4, <1>5, <1>6

LEMMA ProcessFrameTypes ==
    ASSUME SinkAssumption, TypeOK, Control, Torn, ~Gone, ProcessFrame
    PROVE  TypeOK'
<1> DEFINE b == output.buffer
<1> USE BufType
<1>1. b \in Buffers /\ allocated /\ Id(b) \in Ids /\ frames < MaxFrames /\ ~quit
  BY OutputPlace, PresentId DEF ProcessFrame, Control, At, Working
<1>2. /\ ProcessTextureWayland(b) \/ SendFrame(b) \/ TakenByNobody(b)
      /\ frames' = frames + 1 /\ output' = [at |-> "loop"] /\ fault' = fault
  BY <1>1 DEF ProcessFrame, UseFrame, Go
<1>3. frames' \in 0 .. MaxFrames /\ frames + 1 \in 0 .. MaxFrames
  BY <1>1, <1>2 DEF TypeOK, SinkAssumption
<1>4. BufOK(buf') /\ {server, released, composed}' \subseteq [Ids -> Nat]
  <2>1. CASE ProcessTextureWayland(b)
    <3>1. PICK c \in Buffers :
             LET sent == [buf EXCEPT ![b] = ToCompositor(@)]
             IN buf' = [sent EXCEPT ![c] = Requeued(@)]
      BY <2>1 DEF ProcessTextureWayland
    <3>2. BufOK(buf')
      BY <1>1, <3>1, RequeuedRec, ToCompositorRec DEF BufOK
    <3>3. composed' \in [Ids -> Nat] /\ server' = server /\ released' = released
      BY <1>1, <2>1, MoreCount DEF ProcessTextureWayland, TypeOK
    <3> QED BY <3>2, <3>3 DEF TypeOK
  <2>2. CASE SendFrame(b)
    <3>1. server' \in [Ids -> Nat] /\ composed' = composed /\ released' = released
      BY <1>1, <2>2, MoreCount DEF SendFrame, TypeOK
    <3>2. BufOK(buf')
      BY <1>1, <1>3, <2>2, SentRec DEF SendFrame, BufOK
    <3> QED BY <3>1, <3>2 DEF TypeOK
  <2>3. CASE TakenByNobody(b)
    <3>1. BufOK(buf')
      BY <1>1, <2>3, RequeuedRec DEF TakenByNobody, RequeueOutputBuffer, BufOK
    <3> QED BY <2>3, <3>1 DEF TakenByNobody, holders, TypeOK
  <2> QED BY <1>2, <2>1, <2>2, <2>3
<1> QED BY <1>2, <1>3, <1>4 DEF ProcessFrame, TypeOK, BufOK, Rec, config, pathVars

(* A release of a buffer by the video server. *)
LEMMA ReleaseTypes ==
    ASSUME SinkAssumption, TypeOK, NEW id \in Ids, released[id] > 0, ReleaseFromServer(id)
    PROVE  /\ BufOK(buf') /\ released' \in [Ids -> Nat] /\ composed' \in [Ids -> Nat]
<1>1. released' \in [Ids -> Nat]
  BY LessCount DEF ReleaseFromServer, TypeOK
<1>2. id[2] \in Buffers
  BY DEF Ids
<1>3. CASE AcceptsRelease(id) /\ Locked(id[2])
  <2> DEFINE b == id[2]
             sent == [c \in Buffers |-> IF c \in Follower(b) THEN ToCompositor(buf[c]) ELSE buf[c]]
  <2>1. BufOK(sent)
    BY BufType, ToCompositorRec DEF BufOK
  <2>2. buf' = [sent EXCEPT ![b] = Unlocked(@)]
    BY <1>3 DEF ReleaseFromServer
  <2>3. BufOK(buf')
    <3> HIDE DEF sent
    <3> QED BY <1>2, <2>1, <2>2, UnlockedRec DEF BufOK
  <2>4. composed' \in [Ids -> Nat]
    BY <1>3 DEF ReleaseFromServer, TypeOK
  <2> QED BY <1>1, <2>3, <2>4
<1>4. CASE ~(AcceptsRelease(id) /\ Locked(id[2]))
  BY <1>1, <1>4, BufType DEF ReleaseFromServer, TypeOK
<1> QED BY <1>3, <1>4

LEMMA MessagesTypes ==
    ASSUME SinkAssumption, TypeOK, NEW id \in Ids, ProcessMessages(id)
    PROVE  TypeOK'
BY ReleaseTypes
   DEF ProcessMessages, TypeOK, BufOK, Rec, config, pathVars, threadVars

LEMMA PauseExceptionTypes ==
    ASSUME SinkAssumption, TypeOK, Torn, PauseException
    PROVE  TypeOK'
<1>1. BufOK(buf') /\ composed' \in [Ids -> Nat] /\ pauseGfx' \in Buffers \cup {None}
  <2>1. CASE UNCHANGED <<buf, composed>> /\ pauseGfx' \in Buffers \cup {None}
    BY <2>1, BufType DEF TypeOK
  <2>2. CASE \E b \in FindCurrentVideoBuffer :
                /\ pauseGfx' = b
                /\ buf' = [buf EXCEPT ![b] = ToCompositor(@)]
                /\ composed' = More(composed, Id(b))
    <3>1. PICK b \in FindCurrentVideoBuffer :
                /\ pauseGfx' = b
                /\ buf' = [buf EXCEPT ![b] = ToCompositor(@)]
                /\ composed' = More(composed, Id(b))
      BY <2>2
    <3>2. b \in Buffers /\ Locked(b)
      BY <3>1 DEF FindCurrentVideoBuffer
    <3>3. allocated
      BY <3>2, FreshRec DEF Torn, Locked
    <3>4. Id(b) \in Ids
      BY <3>2, <3>3, PresentId
    <3> QED BY <3>1, <3>2, <3>4, BufType, ToCompositorRec, MoreCount DEF BufOK, TypeOK
  <2>3. \/ UNCHANGED <<buf, composed>> /\ pauseGfx' \in Buffers \cup {None}
        \/ \E b \in FindCurrentVideoBuffer :
                /\ pauseGfx' = b
                /\ buf' = [buf EXCEPT ![b] = ToCompositor(@)]
                /\ composed' = More(composed, Id(b))
    BY DEF PauseException, FindCurrentVideoBuffer, TypeOK
  <2> QED BY <2>1, <2>2, <2>3
<1> QED BY <1>1 DEF PauseException, TypeOK, BufOK, Rec, config, threadVars

LEMMA FlipType ==
    ASSUME SinkAssumption, TypeOK, Flip
    PROVE  flips' \in 0 .. MaxFlips
BY DEF Flip, TypeOK, SinkAssumption

LEMMA DispatchTypes ==
    ASSUME SinkAssumption, TypeOK, Torn, ~Gone,
           (\E id \in Ids : CheckCohort(id)) \/ BufferRelease \/ ToGraphics \/ ToVideo
    PROVE  TypeOK'
<1>1. ASSUME NEW id \in Ids, CheckCohort(id) PROVE TypeOK'
  <2>1. composed' \in [Ids -> Nat] /\ dispatch' \in Ids \cup {None}
    BY <1>1, LessCount DEF CheckCohort, TypeOK
  <2> QED BY <1>1, <2>1 DEF CheckCohort, TypeOK, config, pathVars, bufferVars
<1>2. CASE BufferRelease
  <2>1. dispatch \in Ids /\ dispatch[2] \in Buffers
    BY <1>2 DEF BufferRelease, TypeOK, Ids
  <2>2. BufOK(buf') /\ fault' \in {"none", "dispatch"}
    BY <1>2, <2>1, UnlockType DEF BufferRelease, Gone
  <2>3. pauseGfx' \in Buffers \cup {None} /\ excess' \subseteq Buffers /\ dispatch' = None
    BY <1>2, <2>1 DEF BufferRelease, TypeOK
  <2>4. UNCHANGED <<config, capture, paused, getFrame, flips, setups, allocated, lastFrame,
                    frames, holders, output, quit, app>>
    BY <1>2 DEF BufferRelease
  <2> QED BY <2>2, <2>3, <2>4 DEF TypeOK, BufOK, Rec, config, holders
<1>3. CASE ToGraphics
  <2>1. flips' \in 0 .. MaxFlips
    BY <1>3, FlipType DEF ToGraphics
  <2>2. capture' \in BOOLEAN /\ getFrame' \in BOOLEAN
    BY <1>3 DEF ToGraphics
  <2> QED BY <1>3, <2>1, <2>2 DEF ToGraphics, TypeOK, config, bufferVars, holders, threadVars
<1>4. CASE ToVideo
  <2>1. flips' \in 0 .. MaxFlips /\ capture' \in BOOLEAN
    BY <1>4, FlipType DEF ToVideo
  <2>2. /\ BufOK(buf') /\ fault' \in {"none", "dispatch"}
        /\ pauseGfx' \in Buffers \cup {None} /\ excess' \subseteq Buffers
    <3>1. CASE paused /\ pauseGfx # None
      <4>1. pauseGfx \in Buffers /\ Id(pauseGfx)[2] = pauseGfx
        BY <3>1 DEF TypeOK, Id
      <4>2. BufOK(buf') /\ fault' \in {"none", "dispatch"}
        BY <1>4, <3>1, <4>1, UnlockType DEF ToVideo, Gone
      <4>3. pauseGfx' = None /\ excess' = excess \cup {pauseGfx}
        BY <1>4, <3>1 DEF ToVideo
      <4> QED BY <4>1, <4>2, <4>3 DEF TypeOK
    <3>2. CASE ~(paused /\ pauseGfx # None)
      <4>1. UNCHANGED <<buf, fault, pauseGfx, excess>>
        BY <1>4, <3>2 DEF ToVideo
      <4> QED BY <4>1, BufType DEF TypeOK, Gone
    <3> QED BY <3>1, <3>2
  <2>3. UNCHANGED <<config, paused, getFrame, setups, allocated, lastFrame, frames, holders,
                    threadVars>>
    BY <1>4 DEF ToVideo
  <2> QED BY <2>1, <2>2, <2>3 DEF TypeOK, BufOK, Rec, config, holders, threadVars
<1> QED BY <1>1, <1>2, <1>3, <1>4

LEMMA ApplicationTypes ==
    ASSUME SinkAssumption, TypeOK, Application
    PROVE  TypeOK'
<1> USE BufType
<1>1. CASE PauseOrPlay
  <2>1. flips' \in 0 .. MaxFlips /\ paused' \in BOOLEAN
    BY <1>1, FlipType DEF PauseOrPlay
  <2> QED BY <1>1, <2>1 DEF PauseOrPlay, TypeOK, config, bufferVars, holders, threadVars
<1>2. CASE StartVideo
  <2>1. /\ BufOK(buf') /\ setups' \in 0 .. MaxSetups
        /\ allocated' \in BOOLEAN /\ excess' \subseteq Buffers
    BY <1>2, SetupType DEF StartVideo, TypeOK
  <2>2. frames' = 0 /\ 0 \in 0 .. MaxFrames /\ lastFrame' = FALSE /\ quit' = FALSE
    BY <1>2 DEF StartVideo, SinkAssumption
  <2>3. output' \in [at : {"start"}] /\ UNCHANGED <<config, pathVars, holders, dispatch, app, fault>>
    BY <1>2 DEF StartVideo, Go
  <2> QED BY <2>1, <2>2, <2>3 DEF TypeOK, BufOK, Rec, config, pathVars, holders
<1>3. CASE Flush
  BY <1>3 DEF Flush, TypeOK, config, pathVars, bufferVars, holders
<1>4. CASE FlushTearDown
  BY <1>4, TearDownType
     DEF FlushTearDown, TypeOK, BufOK, Rec, config, pathVars, holders
<1>5. CASE FlushJoin
  <2>1. frames' = 0 /\ 0 \in 0 .. MaxFrames
    BY <1>5 DEF FlushJoin, SinkAssumption
  <2> QED BY <1>5, <2>1 DEF FlushJoin, TypeOK, Go, config, pathVars, holders
<1>6. CASE Stop
  BY <1>6, NothingCount DEF Stop, TypeOK, pathVars, bufferVars
<1>7. CASE StopTearDown
  BY <1>7, NothingCount, TearDownType DEF StopTearDown, TypeOK, BufOK, Rec, config
<1>8. CASE StopJoin
  BY <1>8 DEF StopJoin, TypeOK, Go, config, pathVars, bufferVars, holders
<1>9. CASE ReadyToPaused
  <2>1. {conn, capture, paused}' \subseteq BOOLEAN
    BY <1>9 DEF ReadyToPaused, TypeOK
  <2> QED BY <1>9, <2>1 DEF ReadyToPaused, TypeOK, bufferVars, holders
<1> QED BY <1>1, <1>2, <1>3, <1>4, <1>5, <1>6, <1>7, <1>8, <1>9 DEF Application

LEMMA ServerReleasesTypes ==
    ASSUME TypeOK, NEW id \in Ids, ServerReleases(id)
    PROVE  TypeOK'
<1>1. server' \in [Ids -> Nat] /\ released' \in [Ids -> Nat]
  BY LessCount, MoreCount DEF ServerReleases, TypeOK
<1> QED BY <1>1 DEF ServerReleases, TypeOK, config, pathVars, bufferVars, threadVars

LEMMA TypesStep ==
    ASSUME SinkAssumption, SinkInv, [Next]_vars
    PROVE  TypeOK'
<1> USE DEF SinkInv
<1>1. CASE UNCHANGED vars
  BY <1>1 DEF TypeOK, vars, config, pathVars, bufferVars, holders, threadVars
<1>2. CASE Next
  <2>1. ~Gone /\ (OutputThread \/ DispatchThread \/ Application
                    \/ \E id \in Ids : ServerReleases(id))
    BY <1>2 DEF Next
  <2>2. CASE OutputThread
    BY <2>1, <2>2, OutputTypes, ProcessFrameTypes, MessagesTypes, PauseExceptionTypes
       DEF OutputThread, Counted
  <2>3. CASE DispatchThread
    BY <2>1, <2>3, DispatchTypes DEF DispatchThread, Counted
  <2> QED BY <2>1, <2>2, <2>3, ApplicationTypes, ServerReleasesTypes
<1> QED BY <1>1, <1>2

-----------------------------------------------------------------------------
(***************************************************************************)
(* Where the threads are, and whether there are buffers.                   *)
(***************************************************************************)

LEMMA ControlStep ==
    ASSUME SinkAssumption, SinkInv, [Next]_vars
    PROVE  Control'
<1> USE DEF SinkInv, Working, At, Go
<1>1. CASE UNCHANGED vars
  BY <1>1 DEF Control, vars, pathVars, bufferVars, threadVars
<1>2. ASSUME CaptureStart PROVE Control'
  <2>1. output' = [at |-> "loop"] \/ output' = [at |-> "exit"]
    BY <1>2, Zenon DEF CaptureStart
  <2> QED BY <1>2, <2>1 DEF CaptureStart, Control
<1>3. ASSUME Quit \/ QuitWithFrame \/ Exit PROVE Control'
  <2>1. output' = [at |-> "exit"] \/ output' = [at |-> "ended"]
    BY <1>3 DEF Quit, QuitWithFrame, Exit
  <2>2. UNCHANGED <<bufferVars, quit, app, fault>>
    BY <1>3 DEF Quit, QuitWithFrame, Exit
  <2> QED BY <2>1, <2>2 DEF Control, bufferVars
<1>4. ASSUME ProcessEvents PROVE Control'
  BY <1>4 DEF ProcessEvents, SetupOutput, Control
<1>5. ASSUME \E b \in Buffers : Dequeue(b) PROVE Control'
  BY <1>5 DEF Dequeue, Control, bufferVars
<1>6. ASSUME GetOutputBuffer PROVE Control'
  <2>1. /\ output = [at |-> "dequeued", buffer |-> output.buffer]
        /\ [output EXCEPT !.at = "have"] = [at |-> "have", buffer |-> output.buffer]
    BY <1>6 DEF GetOutputBuffer, TypeOK
  <2>2. UNCHANGED <<allocated, frames, quit, app>>
    BY <1>6 DEF GetOutputBuffer
  <2>3. fault' = fault
    BY <1>6 DEF GetOutputBuffer, Control
  <2>4. \/ output'.at = "exit"
        \/ output'.at = "have" /\ frames < MaxFrames
        \/ output'.at = "loop"
    BY <1>6, <2>1 DEF GetOutputBuffer, Control
  <2> QED BY <1>6, <2>2, <2>3, <2>4 DEF Control, GetOutputBuffer
<1>7. ASSUME LocalRateControl PROVE Control'
  BY <1>7 DEF LocalRateControl, Control
<1>8. ASSUME ProcessFrame PROVE Control'
  BY <1>8 DEF ProcessFrame, UseFrame, Control
<1>9. ASSUME NEW id \in Ids, ProcessMessages(id) PROVE Control'
  BY <1>9 DEF ProcessMessages, Control, threadVars
<1>10. ASSUME PauseException PROVE Control'
  BY <1>10 DEF PauseException, Control, threadVars
<1>11. ASSUME NEW id \in Ids, CheckCohort(id) PROVE Control'
  BY <1>11 DEF CheckCohort, Control, bufferVars
<1>12. ASSUME BufferRelease, ~Gone PROVE Control'
  <2>1. fault' # "output"
    BY <1>12 DEF BufferRelease, UnlockAndRequeue, Gone
  <2>2. UNCHANGED <<allocated, frames, output, quit, app>>
    BY <1>12 DEF BufferRelease
  <2> QED BY <2>1, <2>2 DEF Control
<1>13. ASSUME ToGraphics PROVE Control'
  BY <1>13 DEF ToGraphics, Control, bufferVars, threadVars
<1>14. ASSUME ToVideo, ~Gone PROVE Control'
  <2>1. fault' # "output"
    BY <1>14 DEF ToVideo, UnlockAndRequeue, Gone
  <2>2. UNCHANGED <<allocated, frames, threadVars>>
    BY <1>14 DEF ToVideo
  <2> QED BY <2>1, <2>2 DEF Control, threadVars
<1>15. ASSUME PauseOrPlay PROVE Control'
  BY <1>15 DEF PauseOrPlay, Control, bufferVars, threadVars
<1>16. ASSUME StartVideo PROVE Control'
  BY <1>16 DEF StartVideo, Control
<1>17. ASSUME Flush PROVE Control'
  BY <1>17 DEF Flush, Control, bufferVars
<1>18. ASSUME FlushTearDown PROVE Control'
  BY <1>18 DEF FlushTearDown, TearDown, Control
<1>19. ASSUME FlushJoin PROVE Control'
  BY <1>19 DEF FlushJoin, Control
<1>20. ASSUME Stop PROVE Control'
  BY <1>20 DEF Stop, Control, bufferVars
<1>21. ASSUME StopTearDown PROVE Control'
  BY <1>21 DEF StopTearDown, TearDown, Control
<1>22. ASSUME StopJoin PROVE Control'
  BY <1>22 DEF StopJoin, Control, bufferVars
<1>23. ASSUME ReadyToPaused PROVE Control'
  BY <1>23 DEF ReadyToPaused, Control, bufferVars
<1>24. ASSUME NEW id \in Ids, ServerReleases(id) PROVE Control'
  BY <1>24 DEF ServerReleases, Control, bufferVars, threadVars
<1> QED
  BY <1>1, <1>2, <1>3, <1>4, <1>5, <1>6, <1>7, <1>8, <1>9, <1>10, <1>11, <1>12, <1>13, <1>14,
     <1>15, <1>16, <1>17, <1>18, <1>19, <1>20, <1>21, <1>22, <1>23, <1>24
     DEF Next, OutputThread, DispatchThread, Application

-----------------------------------------------------------------------------
(***************************************************************************)
(* What the counts say.  Most steps stay with the set of buffers there is; *)
(* for them it is enough to look at each of its buffers.                   *)
(***************************************************************************)

Stays ==
    /\ UNCHANGED <<setups, allocated>>
    /\ ~allocated => buf' = buf
    /\ \A id \in Ids : id[1] > setups => HeldAs(id)' <= HeldAs(id)

LEMMA StaysCounted ==
    ASSUME SinkInv, TypeOK', Stays, allocated => \A b \in Buffers : Good(b)'
    PROVE  Counted'
<1>1. Torn'
  BY DEF SinkInv, Counted, Torn, Stays
<1>2. Future'
  <2> SUFFICES ASSUME NEW id \in Ids, id[1] > setups PROVE HeldAs(id)' = 0
    BY DEF Future, Stays
  <2>1. HeldAs(id) = 0 /\ HeldAs(id)' <= HeldAs(id)
    BY DEF SinkInv, Counted, Future, Stays
  <2>2. HeldAs(id)' \in Nat
    BY DEF TypeOK, HeldAs
  <2> QED BY <2>1, <2>2
<1> QED BY <1>1, <1>2 DEF Counted, Stays

(* The holders stay as they are. *)
LEMMA SameHolders ==
    ASSUME TypeOK, UNCHANGED <<setups, allocated, holders, dispatch>>, ~allocated => buf' = buf
    PROVE  Stays /\ \A b \in Buffers : HeldAs(Id(b))' = HeldAs(Id(b))
<1>1. \A id : HeldAs(id)' = HeldAs(id)
  BY DEF HeldAs, holders
<1>2. \A id \in Ids : HeldAs(id) <= HeldAs(id)
  <2> TAKE id \in Ids
  <2> HeldAs(id) \in Nat
    BY HeldNat
  <2> QED OBVIOUS
<1>3. \A b \in Buffers : HeldAs(Id(b))' = HeldAs(Id(b))
  BY DEF HeldAs, Id, holders
<1> QED BY <1>1, <1>2, <1>3 DEF Stays

(* The steps of the output thread that only move it on. *)
LEMMA MovesCounted ==
    ASSUME SinkAssumption, SinkInv, TypeOK',
           Quit \/ (\E b \in Buffers : Dequeue(b)) \/ QuitWithFrame \/ Exit
    PROVE  Counted'
<1> USE DEF SinkInv, Working, At, Go
<1>1. UNCHANGED <<bufferVars, holders, dispatch, quit, app, excess>>
  BY DEF Quit, Dequeue, QuitWithFrame, Exit
<1>2. Stays /\ \A b \in Buffers : HeldAs(Id(b))' = HeldAs(Id(b))
  BY <1>1, SameHolders DEF bufferVars
<1>3. ASSUME allocated, NEW b \in Buffers PROVE Good(b)'
  <2>1. Good(b)
    BY <1>3 DEF Counted
  <2>2. CASE output'.at \in {"exit", "ended"}
    BY <1>1, <1>2, <2>1, <2>2 DEF Good, Covered, Unqueued, Exclusive, Lossless, InHand, bufferVars
  <2>3. CASE \E c \in Buffers : Dequeue(c)
    <3>1. PICK c \in Buffers : Dequeue(c)
      BY <2>3
    <3>2. /\ output' = [at |-> "dequeued", buffer |-> c] /\ buf[c].queued
          /\ output.at = "loop"
      BY <3>1 DEF Dequeue
    <3> QED
      BY <1>1, <1>2, <2>1, <3>2
         DEF Good, Covered, Unqueued, Exclusive, Lossless, InHand, bufferVars
  <2> QED BY <2>2, <2>3 DEF Quit, QuitWithFrame, Exit
<1> QED BY <1>2, <1>3, StaysCounted

(* All buffers to the decoder: none is locked. *)
LEMMA CaptureStartCounted ==
    ASSUME SinkAssumption, SinkInv, TypeOK', CaptureStart
    PROVE  Counted'
<1> USE DEF SinkInv, Working, At, Go
<1>1. UNCHANGED <<setups, allocated, holders, dispatch, quit, app, excess>>
  BY DEF CaptureStart
<1>2. Stays /\ \A b \in Buffers : HeldAs(Id(b))' = HeldAs(Id(b))
  BY <1>1, SameHolders DEF CaptureStart
<1>3. ASSUME allocated, NEW b \in Buffers PROVE Good(b)'
  <2>1. Good(b) /\ buf[b].locks = 0 /\ output.at = "start"
    BY <1>3 DEF Counted, Good, Unqueued, CaptureStart
  <2>2. CASE quit
    <3>1. buf' = buf /\ output' = [at |-> "exit"]
      BY <1>3, <2>2 DEF CaptureStart
    <3> QED BY <1>1, <1>2, <2>1, <3>1 DEF Good, Covered, Unqueued, Exclusive, Lossless, InHand
  <2>3. CASE ~quit
    <3>1. buf'[b] = [buf[b] EXCEPT !.queued = TRUE] /\ output' = [at |-> "loop"]
      BY <1>3, <2>3 DEF CaptureStart
    <3>2. buf'[b].queued /\ buf'[b].locks = buf[b].locks
      BY <3>1 DEF TypeOK
    <3> QED BY <1>1, <1>2, <2>1, <3>1, <3>2
            DEF Good, Covered, Unqueued, Exclusive, Lossless, InHand
  <2> QED BY <2>2, <2>3
<1> QED BY <1>2, <1>3, StaysCounted

(* A new set of buffers: nobody has one of them yet. *)
LEMMA SetupCounted ==
    ASSUME SinkAssumption, SinkInv, TypeOK', SetupOutput, UNCHANGED <<holders, dispatch>>,
           output'.at = "start"
    PROVE  Counted'
<1>1. /\ setups' = setups + 1 /\ allocated' = TRUE /\ excess' = {} /\ setups \in Nat
      /\ buf' = [b \in Buffers |-> Fresh]
  BY DEF SetupOutput, SinkInv, TypeOK
<1>2. \A id \in Ids : id[1] > setups => HeldAs(id)' = 0
  <2>1. \A id : HeldAs(id)' = HeldAs(id)
    BY DEF HeldAs, holders
  <2> QED BY <2>1 DEF SinkInv, Counted, Future
<1>3. ASSUME NEW b \in Buffers PROVE Good(b)'
  <2>1. Id(b)' \in Ids /\ Id(b)'[1] = setups + 1
    BY <1>1 DEF Id, Ids, TypeOK
  <2>2. HeldAs(Id(b))' = 0
    <3> DEFINE id == Id(b)'
    <3>1. HeldAs(Id(b))' = server'[id] + released'[id] + composed'[id]
                              + (IF dispatch' = id THEN 1 ELSE 0)
      BY DEF HeldAs
    <3>2. server'[id] + released'[id] + composed'[id] + (IF dispatch' = id THEN 1 ELSE 0) = 0
      <4> HIDE DEF id
      <4> QED BY <1>1, <1>2, <2>1 DEF HeldAs, id
    <3> QED BY <3>1, <3>2
  <2>3. buf'[b].locks = 0 /\ buf'[b].queued = FALSE
    BY <1>1, FreshRec
  <2> QED BY <1>1, <2>2, <2>3 DEF Good, Covered, Unqueued, Exclusive, Lossless, InHand, Working
<1>4. Torn'
  BY <1>1 DEF Torn
<1>5. Future'
  BY <1>1, <1>2 DEF Future, Ids
<1> QED BY <1>3, <1>4, <1>5 DEF Counted

LEMMA StartVideoCounted ==
    ASSUME SinkAssumption, SinkInv, TypeOK', StartVideo
    PROVE  Counted'
<1>1. CASE SetupOutput
  BY <1>1, SetupCounted DEF StartVideo, Go
<1>2. CASE UNCHANGED <<setups, allocated, buf, excess>>
  <2>1. Stays /\ ~allocated
    BY <1>2, SameHolders DEF StartVideo, SinkInv, Control
  <2> QED BY <2>1, StaysCounted
<1> QED BY <1>1, <1>2 DEF StartVideo

LEMMA TearDownCounted ==
    ASSUME SinkAssumption, SinkInv, TypeOK', TearDown, setups' = setups,
           \A id \in Ids : HeldAs(id)' <= HeldAs(id)
    PROVE  Counted'
<1>1. \A id \in Ids : id[1] > setups => HeldAs(id)' = 0
  <2> SUFFICES ASSUME NEW id \in Ids, id[1] > setups PROVE HeldAs(id)' = 0
    OBVIOUS
  <2>1. HeldAs(id) = 0 /\ HeldAs(id)' <= HeldAs(id)
    BY DEF SinkInv, Counted, Future
  <2>2. HeldAs(id)' \in Nat
    BY DEF TypeOK, HeldAs
  <2> QED BY <2>1, <2>2
<1> QED BY <1>1 DEF Counted, Torn, Future, TearDown

(* The steps of the application that leave the buffers alone. *)
LEMMA FlagsCounted ==
    ASSUME SinkAssumption, SinkInv, TypeOK',
           ToGraphics \/ PauseOrPlay \/ Flush \/ StopJoin \/ ReadyToPaused
    PROVE  Counted'
<1>1. UNCHANGED <<bufferVars, holders, dispatch, excess>>
  BY DEF ToGraphics, PauseOrPlay, Flush, StopJoin, ReadyToPaused, threadVars
<1>2. Stays /\ \A b \in Buffers : HeldAs(Id(b))' = HeldAs(Id(b))
  BY <1>1, SameHolders DEF bufferVars, SinkInv
<1>3. CASE StopJoin \/ ReadyToPaused
  <2>1. ~allocated
    BY <1>3 DEF StopJoin, ReadyToPaused, SinkInv, Control
  <2> QED BY <1>2, <2>1, StaysCounted
<1>4. CASE ToGraphics \/ PauseOrPlay \/ Flush
  <2>1. output' = output /\ (quit' = quit \/ quit') /\ (app' = app \/ app' = "flushing")
        /\ app \in {"idle", "flushing", "joining", "stopping", "stopJoining", "stopped"}
        /\ (app' # app => app = "idle")
    BY <1>4 DEF ToGraphics, PauseOrPlay, Flush, threadVars, SinkInv, TypeOK
  <2>2. ASSUME allocated, NEW b \in Buffers PROVE Good(b)'
    <3>1. Good(b)
      BY <2>2 DEF SinkInv, Counted
    <3> QED BY <1>1, <1>2, <2>1, <3>1
            DEF Good, Covered, Unqueued, Exclusive, Lossless, InHand, At, bufferVars
  <2> QED BY <1>2, <2>2, StaysCounted
<1> QED BY <1>3, <1>4

LEMMA FlushJoinCounted ==
    ASSUME SinkAssumption, SinkInv, TypeOK', FlushJoin
    PROVE  Counted'
<1>1. Stays /\ ~allocated
  BY SameHolders DEF FlushJoin, SinkInv, Control
<1> QED BY <1>1, StaysCounted

(* The decoder no longer has the buffer that the thread notes; no other is its own. *)
LEMMA GetOutputBufferCounted ==
    ASSUME SinkAssumption, SinkInv, TypeOK', GetOutputBuffer
    PROVE  Counted'
<1> USE DEF SinkInv, Working, At, Go
<1> DEFINE h == output.buffer
<1>1. UNCHANGED <<setups, allocated, holders, dispatch, quit, app, excess>>
  BY DEF GetOutputBuffer
<1>2. h \in Buffers /\ output = [at |-> "dequeued", buffer |-> h]
  BY DEF GetOutputBuffer, TypeOK
<1>3. Stays /\ \A b \in Buffers : HeldAs(Id(b))' = HeldAs(Id(b))
  <2>1. ~allocated => buf' = buf
    BY DEF GetOutputBuffer
  <2> QED BY <1>1, <2>1, SameHolders
<1>4. ASSUME allocated, NEW b \in Buffers PROVE Good(b)'
  <2>1. Good(b)
    BY <1>4 DEF Counted
  <2>2. CASE quit
    <3>1. buf' = buf /\ output' = [at |-> "exit"]
      BY <2>2 DEF GetOutputBuffer
    <3> QED BY <1>1, <1>3, <2>1, <3>1 DEF Good, Covered, Unqueued, Exclusive, Lossless, InHand
  <2>3. CASE ~quit
    <3>1. /\ buf' = [buf EXCEPT ![h].queued = FALSE]
          /\ \/ output' = [output EXCEPT !.at = "have"] /\ lastFrame' = lastFrame
             \/ lastFrame' = TRUE /\ output' = [at |-> "loop"]
      BY <1>4, <2>3 DEF GetOutputBuffer
    <3>2. /\ buf'[b].locks = buf[b].locks
          /\ buf'[b].queued = IF b = h THEN FALSE ELSE buf[b].queued
      BY <3>1, <1>2 DEF TypeOK
    <3>3. CASE output' = [output EXCEPT !.at = "have"] /\ lastFrame' = lastFrame
      <4>1. output' = [at |-> "have", buffer |-> h]
        BY <1>2, <3>3
      <4> QED BY <1>1, <1>2, <1>3, <2>1, <3>2, <3>3, <4>1
              DEF Good, Covered, Unqueued, Exclusive, Lossless, InHand
    <3>4. CASE lastFrame' = TRUE /\ output' = [at |-> "loop"]
      BY <1>1, <1>2, <1>3, <2>1, <3>2, <3>4
         DEF Good, Covered, Unqueued, Exclusive, Lossless, InHand
    <3> QED BY <3>1, <3>3, <3>4
  <2> QED BY <2>2, <2>3
<1> QED BY <1>3, <1>4, StaysCounted

LEMMA LocalRateControlCounted ==
    ASSUME SinkAssumption, SinkInv, TypeOK', LocalRateControl
    PROVE  Counted'
<1> USE DEF SinkInv, Working, At, Go
<1> DEFINE h == output.buffer
<1>1. /\ UNCHANGED <<setups, allocated, holders, dispatch, quit, app, excess, lastFrame>>
      /\ buf' = [buf EXCEPT ![h] = Requeued(@)] /\ output' = [at |-> "loop"]
      /\ allocated /\ output.at = "have"
  BY DEF LocalRateControl, RequeueOutputBuffer
<1>2. h \in Buffers
  BY <1>1, OutputPlace
<1>3. Stays /\ \A b \in Buffers : HeldAs(Id(b))' = HeldAs(Id(b))
  BY <1>1, SameHolders
<1>4. ASSUME NEW b \in Buffers PROVE Good(b)'
  <2>1. Good(b)
    BY <1>1 DEF Counted
  <2>2. CASE b # h
    <3>1. buf'[b] = buf[b]
      BY <1>1, <2>2, BufType DEF BufOK
    <3> QED BY <1>1, <1>3, <2>1, <2>2, <3>1
            DEF Good, Covered, Unqueued, Exclusive, Lossless, InHand
  <2>3. CASE b = h
    <3>1. buf[h] \in Rec /\ buf'[h] = Requeued(buf[h])
      BY <1>1, <1>2, BufType DEF BufOK
    <3>2. /\ buf'[h].locks = buf[h].locks
          /\ buf[h].locks = 0 => buf'[h].queued
          /\ buf[h].locks # 0 => buf'[h] = buf[h]
          /\ buf[h].locks \in Nat
      BY <3>1, RequeuedRec DEF Rec
    <3> QED BY <1>1, <1>3, <2>1, <2>3, <3>2
            DEF Good, Covered, Unqueued, Exclusive, Lossless, InHand
  <2> QED BY <2>2, <2>3
<1> QED BY <1>1, <1>3, <1>4, StaysCounted

(* The present set is the same before and after: so is a buffer's id. *)
LEMMA PresentHeld ==
    ASSUME SinkAssumption, SinkInv, allocated, setups' = setups, NEW b \in Buffers
    PROVE  \E i \in Ids : /\ i[1] = setups /\ i[2] = b /\ i = Id(b)
                          /\ HeldAs(Id(b)) = HeldAs(i) /\ HeldAs(Id(b))' = HeldAs(i)'
<1>1. Id(b) \in Ids /\ Id(b)[1] = setups /\ Id(b)[2] = b
  BY PresentId DEF SinkInv, Counted
<1>2. PICK i \in Ids : i = Id(b)
  BY <1>1
<1>3. Id(b)' = i
  BY <1>2 DEF Id
<1>4. HeldAs(Id(b)) = HeldAs(i)
  BY <1>2
<1>5. HeldAs(Id(b))' = HeldAs(i)'
  BY <1>3 DEF HeldAs
<1> QED BY <1>1, <1>2, <1>4, <1>5

(* One more who holds a buffer of the present set. *)
LEMMA OneMore ==
    ASSUME SinkAssumption, SinkInv, TypeOK', allocated, UNCHANGED <<setups, allocated, dispatch>>,
           NEW h \in Buffers,
           \/ server' = More(server, Id(h)) /\ UNCHANGED <<released, composed>>
           \/ composed' = More(composed, Id(h)) /\ UNCHANGED <<server, released>>
    PROVE  /\ Stays
           /\ \A b \in Buffers : HeldAs(Id(b))' = HeldAs(Id(b)) + (IF b = h THEN 1 ELSE 0)
<1> USE DEF SinkInv
<1>1. Id(h) \in Ids /\ Id(h)[1] = setups
  BY PresentId DEF Counted
<1>2. \A id \in Ids : HeldAs(id)' = HeldAs(id) + (IF id = Id(h) THEN 1 ELSE 0)
  <2> TAKE id \in Ids
  <2>1. {server[id], released[id], composed[id]} \subseteq Nat
    BY DEF TypeOK
  <2>2. CASE server' = More(server, Id(h)) /\ UNCHANGED <<released, composed>>
    <3>1. server'[id] = IF id = Id(h) THEN server[id] + 1 ELSE server[id]
      BY <1>1, <2>2, MoreCount DEF TypeOK
    <3> QED BY <2>1, <2>2, <3>1 DEF HeldAs
  <2>3. CASE composed' = More(composed, Id(h)) /\ UNCHANGED <<server, released>>
    <3>1. composed'[id] = IF id = Id(h) THEN composed[id] + 1 ELSE composed[id]
      BY <1>1, <2>3, MoreCount DEF TypeOK
    <3> QED BY <2>1, <2>3, <3>1 DEF HeldAs
  <2> QED BY <2>2, <2>3
<1>3. Stays
  <2> SUFFICES ASSUME NEW id \in Ids, id[1] > setups PROVE HeldAs(id)' <= HeldAs(id)
    BY DEF Stays
  <2>1. id # Id(h) /\ HeldAs(id) \in Nat
    BY <1>1, HeldNat DEF TypeOK
  <2> QED BY <1>2, <2>1
<1>4. ASSUME NEW b \in Buffers
      PROVE  HeldAs(Id(b))' = HeldAs(Id(b)) + (IF b = h THEN 1 ELSE 0)
  <2>1. PICK i \in Ids : /\ i = Id(b) /\ HeldAs(Id(b)) = HeldAs(i)
                         /\ HeldAs(Id(b))' = HeldAs(i)'
    BY PresentHeld
  <2>2. i = Id(h) <=> b = h
    BY <2>1 DEF Id
  <2> QED BY <1>2, <2>1, <2>2
<1> QED BY <1>3, <1>4

(***************************************************************************)
(* A frame goes to the compositor or to the video server, which locks its  *)
(* buffer, or to nobody, which gives it back.                              *)
(***************************************************************************)
LEMMA ProcessFrameCounted ==
    ASSUME SinkAssumption, SinkInv, TypeOK', ProcessFrame
    PROVE  Counted'
<1> USE DEF SinkInv, Working, At, Go
<1> DEFINE h == output.buffer
<1>1. h \in Buffers /\ allocated /\ output.at = "have" /\ ~quit
  BY OutputPlace DEF ProcessFrame, Control
<1>2. /\ ProcessTextureWayland(h) \/ SendFrame(h) \/ TakenByNobody(h)
      /\ output' = [at |-> "loop"] /\ frames < MaxFrames
      /\ UNCHANGED <<setups, allocated, lastFrame, dispatch, quit, app, excess>>
  BY <1>1 DEF ProcessFrame, UseFrame, Control
<1>3. buf \in [Buffers -> Rec]
  BY BufType DEF BufOK
<1>4. CASE ProcessTextureWayland(h) \/ SendFrame(h)
  <2>1. \/ server' = More(server, Id(h)) /\ UNCHANGED <<released, composed>>
        \/ composed' = More(composed, Id(h)) /\ UNCHANGED <<server, released>>
    BY <1>4 DEF ProcessTextureWayland, SendFrame
  <2>2. /\ Stays
        /\ \A b \in Buffers : HeldAs(Id(b))' = HeldAs(Id(b)) + (IF b = h THEN 1 ELSE 0)
    BY <1>1, <1>2, <2>1, OneMore
  <2>3. \A b \in Buffers :
           /\ buf'[b].locks = buf[b].locks + (IF b = h THEN 1 ELSE 0)
           /\ buf[b].queued => buf'[b].queued
           /\ buf'[b].queued # buf[b].queued => buf[b].locks = 0 /\ b # h
    <3>1. CASE ProcessTextureWayland(h)
      <4>1. PICK c \in Buffers :
               LET sent == [buf EXCEPT ![h] = ToCompositor(@)]
               IN buf' = [sent EXCEPT ![c] = Requeued(@)]
        BY <3>1 DEF ProcessTextureWayland
      <4> DEFINE sent == [buf EXCEPT ![h] = ToCompositor(@)]
      <4>2. /\ sent \in [Buffers -> Rec]
            /\ \A b \in Buffers : /\ sent[b].locks = buf[b].locks + (IF b = h THEN 1 ELSE 0)
                                  /\ sent[b].queued = buf[b].queued
        <5>1. \A b \in Buffers : buf[b] \in Rec /\ buf[b].locks \in Nat
          BY <1>3 DEF Rec
        <5> QED BY <1>1, <1>3, <5>1, ToCompositorRec
      <4>3. buf' = [sent EXCEPT ![c] = Requeued(@)]
        BY <4>1
      <4>4. \A b \in Buffers : buf[b].locks \in Nat
        BY <1>3 DEF Rec
      <4> HIDE DEF sent
      <4>5. \A b \in Buffers :
               /\ buf'[b].locks = sent[b].locks
               /\ sent[b].queued => buf'[b].queued
               /\ buf'[b].queued # sent[b].queued => sent[b].locks = 0
        <5> TAKE b \in Buffers
        <5>1. b # c => buf'[b] = sent[b]
          BY <4>2, <4>3
        <5>2. b = c => buf'[b] = Requeued(sent[b])
          BY <4>2, <4>3
        <5> QED BY <4>2, <5>1, <5>2, RequeuedRec
      <4> QED BY <4>2, <4>4, <4>5
    <3>2. CASE SendFrame(h)
      <4>1. buf' = [buf EXCEPT ![h].locks = @ + 1, ![h].frame = frames + 1]
        BY <3>2 DEF SendFrame
      <4>2. frames + 1 \in 0 .. MaxFrames
        BY <1>2 DEF TypeOK, SinkAssumption
      <4>3. \A b \in Buffers : buf[b].locks \in Nat
        BY <1>3 DEF Rec
      <4> QED BY <1>1, <1>3, <4>1, <4>2, <4>3, SentRec
    <3> QED BY <1>4, <3>1, <3>2
  <2>4. ASSUME NEW b \in Buffers PROVE Good(b)'
    <3>1. Good(b) /\ buf[b].locks \in Nat /\ HeldAs(Id(b)) \in Nat
      BY <1>1, <1>3, PresentId, HeldNat DEF Counted, Rec
    <3>2. CASE b = h
      BY <1>1, <1>2, <2>2, <2>3, <3>1, <3>2
         DEF Good, Covered, Unqueued, Exclusive, Lossless, InHand
    <3>3. CASE b # h
      BY <1>1, <1>2, <2>2, <2>3, <3>1, <3>3
         DEF Good, Covered, Unqueued, Exclusive, Lossless, InHand
    <3> QED BY <3>2, <3>3
  <2> QED BY <2>2, <2>4, StaysCounted
<1>5. CASE TakenByNobody(h)
  <2>1. buf' = [buf EXCEPT ![h] = Requeued(@)] /\ UNCHANGED holders
    BY <1>5 DEF TakenByNobody, RequeueOutputBuffer
  <2>2. Stays /\ \A b \in Buffers : HeldAs(Id(b))' = HeldAs(Id(b))
    BY <1>1, <1>2, <2>1, SameHolders
  <2>3. ASSUME NEW b \in Buffers PROVE Good(b)'
    <3>1. Good(b)
      BY <1>1 DEF Counted
    <3>2. /\ buf'[b].locks = buf[b].locks /\ buf[b].locks \in Nat
          /\ b # h => buf'[b] = buf[b]
          /\ b = h /\ buf[h].locks = 0 => buf'[b].queued
          /\ buf[b].locks # 0 => buf'[b] = buf[b]
      BY <1>1, <1>3, <2>1, RequeuedRec DEF Rec
    <3> QED BY <1>1, <1>2, <2>2, <3>1, <3>2
            DEF Good, Covered, Unqueued, Exclusive, Lossless, InHand
  <2> QED BY <2>2, <2>3, StaysCounted
<1> QED BY <1>2, <1>4, <1>5

(* The frame on the screen goes to the compositor too: its buffer is locked. *)
LEMMA PauseExceptionCounted ==
    ASSUME SinkAssumption, SinkInv, TypeOK', PauseException
    PROVE  Counted'
<1> USE DEF SinkInv, Working, At
<1>1. UNCHANGED <<setups, allocated, lastFrame, server, released, threadVars, excess>>
  BY DEF PauseException
<1>2. CASE UNCHANGED <<buf, composed>>
  <2>1. Stays /\ \A b \in Buffers : HeldAs(Id(b))' = HeldAs(Id(b))
    BY <1>1, <1>2, SameHolders DEF holders, threadVars
  <2>2. ASSUME allocated, NEW b \in Buffers PROVE Good(b)'
    <3>1. Good(b)
      BY <2>2 DEF Counted
    <3> QED BY <1>1, <1>2, <2>1, <3>1
            DEF Good, Covered, Unqueued, Exclusive, Lossless, InHand, threadVars
  <2> QED BY <2>1, <2>2, StaysCounted
<1>3. CASE \E h \in FindCurrentVideoBuffer :
              buf' = [buf EXCEPT ![h] = ToCompositor(@)] /\ composed' = More(composed, Id(h))
  <2>1. PICK h \in FindCurrentVideoBuffer :
              buf' = [buf EXCEPT ![h] = ToCompositor(@)] /\ composed' = More(composed, Id(h))
    BY <1>3
  <2>2. h \in Buffers /\ buf[h].locks > 0 /\ output.at = "loop"
    BY <2>1 DEF FindCurrentVideoBuffer, Locked, PauseException
  <2>3. allocated
    BY <2>2, FreshRec DEF Counted, Torn
  <2>4. /\ Stays
        /\ \A b \in Buffers : HeldAs(Id(b))' = HeldAs(Id(b)) + (IF b = h THEN 1 ELSE 0)
    BY <1>1, <2>1, <2>2, <2>3, OneMore DEF threadVars
  <2>5. ASSUME NEW b \in Buffers PROVE Good(b)'
    <3>1. Good(b) /\ buf[b] \in Rec /\ buf[b].locks \in Nat /\ HeldAs(Id(b)) \in Nat
      BY <2>3, BufType, PresentId, HeldNat DEF Counted, BufOK, Rec
    <3>2. /\ buf'[b].locks = buf[b].locks + (IF b = h THEN 1 ELSE 0)
          /\ buf'[b].queued = buf[b].queued
      BY <2>1, <2>2, <3>1, BufType, ToCompositorRec DEF BufOK
    <3>3. b = h /\ b \notin excess => ~buf[b].queued
      BY <2>2, <3>1 DEF Good, Unqueued
    <3> QED BY <1>1, <2>2, <2>4, <3>1, <3>2, <3>3
            DEF Good, Covered, Unqueued, Exclusive, Lossless, InHand, threadVars
  <2> QED BY <2>4, <2>5, StaysCounted
<1> QED BY <1>2, <1>3 DEF PauseException, FindCurrentVideoBuffer

(* A release by the compositor changes hands: the dispatch thread has it now. *)
LEMMA CheckCohortCounted ==
    ASSUME SinkAssumption, SinkInv, TypeOK', NEW r \in Ids, CheckCohort(r)
    PROVE  Counted'
<1> USE DEF SinkInv, Working, At
<1>1. /\ UNCHANGED <<bufferVars, server, released, output, quit, app, excess>>
      /\ composed[r] > 0 /\ composed' = Less(composed, r)
      /\ dispatch = None /\ dispatch' = IF IsCurrent(r) THEN r ELSE None
  BY DEF CheckCohort, Dispatching
<1>2. \A id \in Ids : /\ HeldAs(id)' <= HeldAs(id)
                      /\ id # r \/ IsCurrent(r) => HeldAs(id)' = HeldAs(id)
  <2> TAKE id \in Ids
  <2>1. {server[id], released[id], composed[id]} \subseteq Nat
    BY DEF TypeOK
  <2>2. composed'[id] = IF id = r THEN composed[id] - 1 ELSE composed[id]
    BY <1>1, LessCount DEF TypeOK
  <2>3. id # None
    BY DEF SinkAssumption, Ids
  <2>4. dispatch # id /\ (dispatch' = id <=> id = r /\ IsCurrent(r))
    BY <1>1, <2>3
  <2>5. server'[id] = server[id] /\ released'[id] = released[id]
    BY <1>1
  <2>6. HeldAs(id) = server[id] + released[id] + composed[id]
    BY <2>1, <2>4 DEF HeldAs
  <2>7. HeldAs(id)' = server[id] + released[id] + composed'[id]
                         + (IF id = r /\ IsCurrent(r) THEN 1 ELSE 0)
    BY <2>4, <2>5 DEF HeldAs
  <2> HIDE DEF SinkInv, IsCurrent
  <2> QED BY <1>1, <2>1, <2>2, <2>6, <2>7
<1>3. Stays
  BY <1>1, <1>2 DEF Stays, bufferVars
<1>4. ASSUME allocated, NEW b \in Buffers PROVE Good(b)'
  <2>1. PICK i \in Ids : /\ i = Id(b) /\ HeldAs(Id(b)) = HeldAs(i)
                         /\ HeldAs(Id(b))' = HeldAs(i)' /\ i[1] = setups
    BY <1>1, <1>4, PresentHeld DEF bufferVars
  <2>2. HeldAs(Id(b))' = HeldAs(Id(b))
    BY <1>2, <1>4, <2>1 DEF IsCurrent
  <2>3. Good(b)
    BY <1>4 DEF Counted
  <2> QED BY <1>1, <2>2, <2>3
          DEF Good, Covered, Unqueued, Exclusive, Lossless, InHand, bufferVars
<1> QED BY <1>3, <1>4, StaysCounted

(* An unlock under an id: the buffer's count goes down by one, the last goes to *)
(* the decoder.                                                                 *)
LEMMA UnlockOne ==
    ASSUME SinkAssumption, TypeOK, allocated, NEW id, id[2] \in Buffers, UnlockAndRequeue(id),
           NEW b \in Buffers
    PROVE  /\ b # id[2] => buf'[b] = buf[b]
           /\ b = id[2] => /\ buf'[b].locks = IF buf[b].locks = 0 THEN 0 ELSE buf[b].locks - 1
                           /\ buf[b].queued => buf'[b].queued
                           /\ buf[b].locks = 1 => buf'[b].queued
                           /\ buf[b].locks # 1 => buf'[b].queued = buf[b].queued
<1>1. buf \in [Buffers -> Rec] /\ buf' = [buf EXCEPT ![id[2]] = Unlocked(@)]
  BY BufType DEF UnlockAndRequeue, BufOK
<1> QED BY <1>1, UnlockedRec

LEMMA BufferReleaseCounted ==
    ASSUME SinkAssumption, SinkInv, TypeOK', BufferRelease
    PROVE  Counted'
<1> USE DEF SinkInv, Working, At
<1>1. /\ UNCHANGED <<setups, allocated, lastFrame, holders, output, quit, app>>
      /\ dispatch' = None /\ dispatch \in Ids /\ dispatch[2] \in Buffers
      /\ UnlockAndRequeue(dispatch)
      /\ excess' = IF IsCurrent(dispatch) THEN excess ELSE excess \cup {dispatch[2]}
  BY DEF BufferRelease, TypeOK, Ids
<1>2. \A id \in Ids : /\ HeldAs(id)' <= HeldAs(id)
                      /\ HeldAs(id)' = IF id = dispatch THEN HeldAs(id) - 1 ELSE HeldAs(id)
                      /\ id = dispatch => HeldAs(id) > 0
  <2> TAKE id \in Ids
  <2>1. {server[id], released[id], composed[id]} \subseteq Nat
    BY DEF TypeOK
  <2>2. id # None
    BY DEF SinkAssumption, Ids
  <2> QED BY <1>1, <2>1, <2>2 DEF HeldAs, holders
<1>3. Stays
  BY <1>1, <1>2 DEF Stays, UnlockAndRequeue
<1>4. ASSUME allocated, NEW b \in Buffers PROVE Good(b)'
  <2>1. PICK i \in Ids : /\ i = Id(b) /\ HeldAs(Id(b)) = HeldAs(i)
                         /\ HeldAs(Id(b))' = HeldAs(i)' /\ i[1] = setups /\ i[2] = b
    BY <1>1, <1>4, PresentHeld
  <2>2. Good(b) /\ buf[b].locks \in Nat /\ HeldAs(Id(b)) \in Nat
    BY <1>4, <2>1, HeldNat, BufType DEF Counted, BufOK, Rec
  <2>3. CASE b # dispatch[2]
    <3>1. HeldAs(Id(b))' = HeldAs(Id(b)) /\ buf'[b] = buf[b]
          /\ (b \in excess' <=> b \in excess)
      BY <1>1, <1>2, <1>4, <2>1, <2>3, UnlockOne
    <3> QED BY <1>1, <2>2, <3>1 DEF Good, Covered, Unqueued, Exclusive, Lossless, InHand
  <2>4. CASE b = dispatch[2]
    <3>1. /\ buf'[b].locks = IF buf[b].locks = 0 THEN 0 ELSE buf[b].locks - 1
          /\ buf[b].queued => buf'[b].queued
          /\ buf[b].locks = 1 => buf'[b].queued
          /\ buf[b].locks # 1 => buf'[b].queued = buf[b].queued
      BY <1>1, <1>4, <2>4, UnlockOne
    <3>2. b \notin excess' => /\ b \notin excess /\ dispatch = i
                              /\ HeldAs(Id(b))' = HeldAs(Id(b)) - 1 /\ HeldAs(Id(b)) > 0
      BY <1>1, <1>2, <2>1, <2>4, PresentOnly
    <3> QED BY <1>1, <2>2, <3>1, <3>2
            DEF Good, Covered, Unqueued, Exclusive, Lossless, InHand
  <2> QED BY <2>3, <2>4
<1> QED BY <1>3, <1>4, StaysCounted

LEMMA ToVideoCounted ==
    ASSUME SinkAssumption, SinkInv, TypeOK', ToVideo
    PROVE  Counted'
<1> USE DEF SinkInv, Working, At
<1>1. UNCHANGED <<setups, allocated, lastFrame, holders, threadVars>>
  BY DEF ToVideo
<1>2. ~allocated => buf' = buf
  BY DEF ToVideo, UnlockAndRequeue
<1>3. Stays /\ \A b \in Buffers : HeldAs(Id(b))' = HeldAs(Id(b))
  BY <1>1, <1>2, SameHolders DEF threadVars
<1>4. ASSUME allocated, NEW b \in Buffers PROVE Good(b)'
  <2>1. Good(b) /\ buf[b].locks \in Nat
    BY <1>4, BufType DEF Counted, BufOK, Rec
  <2>2. CASE paused /\ pauseGfx # None
    <3>1. /\ UnlockAndRequeue(Id(pauseGfx)) /\ excess' = excess \cup {pauseGfx}
          /\ pauseGfx \in Buffers /\ Id(pauseGfx)[2] = pauseGfx
      BY <2>2 DEF ToVideo, TypeOK, Id
    <3>2. CASE b # pauseGfx
      <4>1. buf'[b] = buf[b] /\ (b \in excess' <=> b \in excess)
        BY <1>4, <3>1, <3>2, UnlockOne
      <4> QED BY <1>1, <1>3, <2>1, <4>1
              DEF Good, Covered, Unqueued, Exclusive, Lossless, InHand, threadVars
    <3>3. CASE b = pauseGfx
      <4>1. /\ buf'[b].locks = IF buf[b].locks = 0 THEN 0 ELSE buf[b].locks - 1
            /\ buf[b].queued => buf'[b].queued
            /\ buf[b].locks = 1 => buf'[b].queued
            /\ buf[b].locks # 1 => buf'[b].queued = buf[b].queued
        BY <1>4, <3>1, <3>3, UnlockOne
      <4>2. b \in excess'
        BY <3>1, <3>3
      <4> QED BY <1>1, <1>3, <2>1, <4>1, <4>2
              DEF Good, Covered, Unqueued, Exclusive, Lossless, InHand, threadVars
    <3> QED BY <3>2, <3>3
  <2>3. CASE ~(paused /\ pauseGfx # None)
    <3>1. UNCHANGED <<buf, excess>>
      BY <2>3 DEF ToVideo
    <3> QED BY <1>1, <1>3, <2>1, <3>1
            DEF Good, Covered, Unqueued, Exclusive, Lossless, InHand, threadVars
  <2> QED BY <2>2, <2>3
<1> QED BY <1>3, <1>4, StaysCounted

(* A stop forgets what the video server had: there are fewer holders than locks. *)
LEMMA StopCounted ==
    ASSUME SinkAssumption, SinkInv, TypeOK', Stop
    PROVE  Counted'
<1> USE DEF SinkInv, Working, At
<1>1. /\ UNCHANGED <<bufferVars, composed, output, dispatch, excess>>
      /\ server' = Nothing /\ released' = Nothing /\ app' = "stopping" /\ quit'
      /\ app = "idle"
  BY DEF Stop
<1>2. \A id \in Ids : HeldAs(id)' <= HeldAs(id)
  <2> TAKE id \in Ids
  <2>1. {server[id], released[id], composed[id]} \subseteq Nat
    BY DEF TypeOK
  <2> QED BY <1>1, <2>1, NothingCount DEF HeldAs
<1>3. Stays
  BY <1>1, <1>2 DEF Stays, bufferVars
<1>4. ASSUME allocated, NEW b \in Buffers PROVE Good(b)'
  <2>1. PICK i \in Ids : HeldAs(Id(b)) = HeldAs(i) /\ HeldAs(Id(b))' = HeldAs(i)'
    BY <1>1, <1>4, PresentHeld DEF bufferVars
  <2>2. HeldAs(Id(b))' <= HeldAs(Id(b)) /\ HeldAs(Id(b)) \in Nat /\ HeldAs(Id(b))' \in Nat
    <3>1. HeldAs(i)' \in Nat
      BY DEF TypeOK, HeldAs
    <3> QED BY <1>2, <2>1, <3>1, HeldNat
  <2>3. Good(b) /\ buf[b].locks \in Nat
    BY <1>4, BufType DEF Counted, BufOK, Rec
  <2> QED BY <1>1, <2>2, <2>3
          DEF Good, Covered, Unqueued, Exclusive, Lossless, InHand, bufferVars
<1> QED BY <1>3, <1>4, StaysCounted

LEMMA TornDownCounted ==
    ASSUME SinkAssumption, SinkInv, TypeOK', FlushTearDown \/ StopTearDown
    PROVE  Counted'
<1> USE DEF SinkInv
<1>1. TearDown /\ setups' = setups /\ UNCHANGED <<server, released, dispatch>>
  BY DEF FlushTearDown, StopTearDown, holders
<1>2. composed' = composed \/ composed' = Nothing
  BY DEF FlushTearDown, StopTearDown, holders
<1>3. \A id \in Ids : HeldAs(id)' <= HeldAs(id)
  <2> TAKE id \in Ids
  <2>1. {server[id], released[id], composed[id]} \subseteq Nat
    BY DEF TypeOK
  <2>2. composed'[id] = composed[id] \/ composed'[id] = 0
    BY <1>2, NothingCount
  <2> QED BY <1>1, <2>1, <2>2 DEF HeldAs
<1> QED BY <1>1, <1>3, TearDownCounted

(* A release on its way still counts for the video server. *)
LEMMA ServerReleasesCounted ==
    ASSUME SinkAssumption, SinkInv, TypeOK', NEW r \in Ids, ServerReleases(r)
    PROVE  Counted'
<1> USE DEF SinkInv, Working, At
<1>1. /\ UNCHANGED <<bufferVars, composed, threadVars, excess>>
      /\ server[r] > 0 /\ server' = Less(server, r) /\ released' = More(released, r)
  BY DEF ServerReleases
<1>2. \A id \in Ids : HeldAs(id)' = HeldAs(id) /\ HeldAs(id)' <= HeldAs(id)
  <2> TAKE id \in Ids
  <2>1. {server[id], released[id], composed[id]} \subseteq Nat
    BY DEF TypeOK
  <2>2. /\ server'[id] = IF id = r THEN server[id] - 1 ELSE server[id]
        /\ released'[id] = IF id = r THEN released[id] + 1 ELSE released[id]
    BY <1>1, LessCount, MoreCount DEF TypeOK
  <2> QED BY <1>1, <2>1, <2>2 DEF HeldAs, threadVars
<1>3. Stays
  BY <1>1, <1>2 DEF Stays, bufferVars
<1>4. ASSUME allocated, NEW b \in Buffers PROVE Good(b)'
  <2>1. PICK i \in Ids : HeldAs(Id(b)) = HeldAs(i) /\ HeldAs(Id(b))' = HeldAs(i)'
    BY <1>1, <1>4, PresentHeld DEF bufferVars
  <2>2. Good(b)
    BY <1>4 DEF Counted
  <2> QED BY <1>1, <1>2, <2>1, <2>2
          DEF Good, Covered, Unqueued, Exclusive, Lossless, InHand, bufferVars, threadVars
<1> QED BY <1>3, <1>4, StaysCounted

(***************************************************************************)
(* A release from the video server: its buffer has one holder fewer, and   *)
(* the frame that follows, which is another one, one more.                 *)
(***************************************************************************)
LEMMA FollowerOther ==
    ASSUME SinkAssumption, TypeOK, NEW b \in Buffers
    PROVE  b \notin Follower(b) /\ \A c \in Follower(b) : c \in Buffers /\ buf[c].locks > 0
<1>1. buf[b].frame + Lead # buf[b].frame
  BY DEF TypeOK, SinkAssumption
<1> QED BY <1>1 DEF Follower, FindVideoBuffer, Locked

LEMMA MessagesCounted ==
    ASSUME SinkAssumption, SinkInv, TypeOK', NEW r \in Ids, ProcessMessages(r)
    PROVE  Counted'
<1> USE DEF SinkInv, Working, At
<1>1. /\ UNCHANGED <<setups, allocated, lastFrame, server, threadVars, excess>>
      /\ released[r] > 0 /\ released' = Less(released, r) /\ ReleaseFromServer(r)
      /\ output.at \in {"loop", "have"} /\ r[2] \in Buffers
  BY DEF ProcessMessages, ReleaseFromServer, Ids
<1>2. \A id \in Ids : released'[id] = IF id = r THEN released[id] - 1 ELSE released[id]
  BY <1>1, LessCount DEF TypeOK
<1>3. CASE ~(AcceptsRelease(r) /\ Locked(r[2]))
  <2>1. UNCHANGED <<buf, composed>>
    BY <1>1, <1>3 DEF ReleaseFromServer
  <2>2. \A id \in Ids : /\ HeldAs(id)' <= HeldAs(id)
                        /\ id # r => HeldAs(id)' = HeldAs(id)
                        /\ id = r => HeldAs(id) > 0
    <3> TAKE id \in Ids
    <3>1. {server[id], released[id], composed[id]} \subseteq Nat
      BY DEF TypeOK
    <3> QED BY <1>1, <1>2, <2>1, <3>1 DEF HeldAs, threadVars
  <2>3. Stays
    BY <1>1, <2>1, <2>2 DEF Stays
  <2>4. ASSUME allocated, NEW b \in Buffers PROVE Good(b)'
    <3>1. PICK i \in Ids : /\ i = Id(b) /\ HeldAs(Id(b)) = HeldAs(i)
                           /\ HeldAs(Id(b))' = HeldAs(i)' /\ i[1] = setups /\ i[2] = b
      BY <1>1, <2>4, PresentHeld
    <3>2. Good(b) /\ HeldAs(i) \in Nat /\ buf[b].locks \in Nat
      BY <2>4, HeldNat, BufType DEF Counted, BufOK, Rec
    <3>3. i = r => b \in excess
      BY <1>3, <2>2, <2>4, <3>1, <3>2 DEF AcceptsRelease, IsCurrent, Locked, Good, Covered
    <3> QED BY <1>1, <2>1, <2>2, <3>1, <3>2, <3>3
            DEF Good, Covered, Unqueued, Exclusive, Lossless, InHand, threadVars
  <2> QED BY <2>3, <2>4, StaysCounted
<1>4. CASE AcceptsRelease(r) /\ Locked(r[2])
  <2> DEFINE h == r[2]
             F == Follower(h)
             sent == [c \in Buffers |-> IF c \in F THEN ToCompositor(buf[c]) ELSE buf[c]]
  <2>1. /\ allocated /\ r[1] = setups /\ r = Id(h) /\ buf[h].locks > 0
        /\ h \notin F /\ \A c \in F : c \in Buffers /\ buf[c].locks > 0
    BY <1>1, <1>4, FollowerOther DEF AcceptsRelease, IsCurrent, Locked, Ids, Id
  <2>2. /\ buf' = [sent EXCEPT ![h] = Unlocked(@)]
        /\ composed' = [i \in Ids |-> IF i[1] = setups /\ i[2] \in F
                                      THEN composed[i] + 1 ELSE composed[i]]
    BY <1>1, <1>4 DEF ReleaseFromServer
  <2>3. \A id \in Ids :
           HeldAs(id)' = IF id = r THEN HeldAs(id) - 1
                         ELSE IF id[1] = setups /\ id[2] \in F THEN HeldAs(id) + 1
                         ELSE HeldAs(id)
    <3> TAKE id \in Ids
    <3>1. {server[id], released[id], composed[id]} \subseteq Nat
      BY DEF TypeOK
    <3>2. composed'[id] = IF id[1] = setups /\ id[2] \in F THEN composed[id] + 1
                                                           ELSE composed[id]
      BY <2>2
    <3>3. id = r => id[2] \notin F
      BY <2>1
    <3> HIDE DEF F
    <3> QED BY <1>1, <1>2, <3>1, <3>2, <3>3 DEF HeldAs, threadVars
  <2>4. HeldAs(r) > 0
    <3>1. {server[r], released[r], composed[r]} \subseteq Nat
      BY DEF TypeOK
    <3> QED BY <1>1, <3>1 DEF HeldAs
  <2>5. Stays
    <3> SUFFICES ASSUME NEW id \in Ids, id[1] > setups PROVE HeldAs(id)' <= HeldAs(id)
      BY <1>1, <2>1 DEF Stays
    <3>1. id # r /\ id[1] # setups /\ HeldAs(id) \in Nat
      BY <2>1, HeldNat DEF TypeOK
    <3> QED BY <2>3, <3>1
  <2>6. ASSUME NEW b \in Buffers PROVE Good(b)'
    <3>1. PICK i \in Ids : /\ i = Id(b) /\ HeldAs(Id(b)) = HeldAs(i)
                           /\ HeldAs(Id(b))' = HeldAs(i)' /\ i[1] = setups /\ i[2] = b
      BY <1>1, <2>1, PresentHeld
    <3>2. /\ Good(b) /\ HeldAs(i) \in Nat /\ buf[b] \in Rec /\ buf[b].locks \in Nat
          /\ (i = r <=> b = h)
      BY <2>1, <3>1, HeldNat, BufType DEF Counted, BufOK, Rec, Id
    <3>3. CASE b = h
      <4>1. buf'[b] = Unlocked(buf[b])
        BY <2>1, <2>2, <3>3
      <4>2. /\ buf'[b].locks = buf[b].locks - 1
            /\ buf[b].locks = 1 => buf'[b].queued
            /\ buf[b].locks # 1 => buf'[b].queued = buf[b].queued
        BY <2>1, <3>2, <3>3, <4>1, UnlockedRec
      <4>3. HeldAs(Id(b))' = HeldAs(Id(b)) - 1 /\ HeldAs(Id(b)) > 0
        BY <2>3, <2>4, <3>1, <3>2, <3>3
      <4>4. buf[b].locks > 0
        BY <2>1, <3>3
      <4> HIDE DEF h, F, sent
      <4> QED BY <1>1, <3>1, <3>2, <4>2, <4>3, <4>4
              DEF Good, Covered, Unqueued, Exclusive, Lossless, InHand, threadVars
    <3>4. CASE b # h /\ b \in F
      <4>1. buf'[b] = ToCompositor(buf[b])
        BY <2>1, <2>2, <3>4
      <4>2. buf'[b].locks = buf[b].locks + 1 /\ buf'[b].queued = buf[b].queued
        BY <3>2, <4>1, ToCompositorRec
      <4>3. HeldAs(Id(b))' = HeldAs(Id(b)) + 1
        BY <2>3, <3>1, <3>2, <3>4
      <4>4. buf[b].locks > 0
        BY <2>1, <3>4
      <4> HIDE DEF h, F, sent
      <4> QED BY <1>1, <3>1, <3>2, <4>2, <4>3, <4>4
              DEF Good, Covered, Unqueued, Exclusive, Lossless, InHand, threadVars
    <3>5. CASE b # h /\ b \notin F
      <4>1. buf'[b] = buf[b]
        BY <2>2, <3>5
      <4>2. HeldAs(Id(b))' = HeldAs(Id(b))
        BY <2>3, <3>1, <3>2, <3>5
      <4> HIDE DEF h, F, sent
      <4> QED BY <1>1, <3>2, <4>1, <4>2
              DEF Good, Covered, Unqueued, Exclusive, Lossless, InHand, threadVars
    <3> QED BY <3>3, <3>4, <3>5
  <2> QED BY <2>5, <2>6, StaysCounted
<1> QED BY <1>3, <1>4

LEMMA CountedStep ==
    ASSUME SinkAssumption, SinkInv, [Next]_vars, TypeOK'
    PROVE  Counted'
<1>1. CASE UNCHANGED vars
  <2>1. Stays /\ \A b \in Buffers : HeldAs(Id(b))' = HeldAs(Id(b))
    BY <1>1, SameHolders DEF SinkInv, vars, bufferVars, holders, threadVars
  <2>2. ASSUME allocated, NEW b \in Buffers PROVE Good(b)'
    <3>1. Good(b)
      BY <2>2 DEF SinkInv, Counted
    <3> QED BY <1>1, <2>1, <3>1
            DEF Good, Covered, Unqueued, Exclusive, Lossless, InHand, At,
                vars, bufferVars, threadVars
  <2> QED BY <2>1, <2>2, StaysCounted
<1>2. CASE Next
  <2>1. CASE OutputThread
    BY <2>1, MovesCounted, CaptureStartCounted, SetupCounted, GetOutputBufferCounted,
       LocalRateControlCounted, ProcessFrameCounted, MessagesCounted, PauseExceptionCounted
       DEF OutputThread, ProcessEvents, Go
  <2>2. CASE DispatchThread
    BY <2>2, CheckCohortCounted, BufferReleaseCounted, FlagsCounted, ToVideoCounted
       DEF DispatchThread
  <2>3. CASE Application
    BY <2>3, StartVideoCounted, FlagsCounted, FlushJoinCounted, StopCounted, TornDownCounted
       DEF Application
  <2> QED BY <1>2, <2>1, <2>2, <2>3, ServerReleasesCounted DEF Next
<1> QED BY <1>1, <1>2

-----------------------------------------------------------------------------
(***************************************************************************)
(* The invariant, and what follows from it.                                *)
(***************************************************************************)

LEMMA SinkInit ==
    ASSUME SinkAssumption, Init
    PROVE  SinkInv
<1>1. TypeOK
  <2>1. buf \in [Buffers -> Rec] /\ frames \in 0 .. MaxFrames
    BY FreshRec DEF Init, SinkAssumption
  <2>2. {server, released, composed} \subseteq [Ids -> Nat]
    BY NothingCount DEF Init
  <2>3. setups \in 0 .. MaxSetups /\ flips \in 0 .. MaxFlips
    BY DEF Init, SinkAssumption
  <2>4. {gfxSync, conn, capture, paused, getFrame} \subseteq BOOLEAN
    BY DEF Init
  <2> QED BY <2>1, <2>2, <2>3, <2>4 DEF Init, TypeOK, Rec
<1>2. Control
  BY DEF Init, Control, At, Working
<1>3. Torn
  BY DEF Init, Torn
<1>4. Future
  <2> SUFFICES ASSUME NEW id \in Ids PROVE HeldAs(id) = 0
    BY DEF Future
  <2>1. dispatch # id
    BY DEF Init, SinkAssumption, Ids
  <2> QED BY <2>1, NothingCount DEF Init, HeldAs
<1> QED BY <1>1, <1>2, <1>3, <1>4 DEF SinkInv, Counted, Init

THEOREM Invariant == Spec => []SinkInv
<1>1. Init => SinkInv
  BY SinkAssumption, SinkInit
<1>2. SinkInv /\ [Next]_vars => SinkInv'
  BY SinkAssumption, TypesStep, ControlStep, CountedStep DEF SinkInv
<1> QED BY <1>1, <1>2, PTL DEF Spec

THEOREM TypeCorrect == Spec => []TypeOK
BY Invariant, PTL DEF SinkInv

(* A buffer's lock count is the number of its holders. *)
THEOREM LocksCounted == Spec => []LocksAreHolders
<1>1. SinkInv => LocksAreHolders
  <2> SUFFICES ASSUME SinkInv, allocated, app # "stopping", NEW b \in Buffers \ excess
               PROVE  buf[b].locks = Holders(b)
    BY DEF LocksAreHolders
  <2>1. Covered(b)
    BY DEF SinkInv, Counted, Good
  <2> QED BY <2>1 DEF Covered, HeldAs, Holders
<1> QED BY <1>1, Invariant, PTL

(* The decoder has no buffer that is still shown: one that it has is not locked, *)
(* and before there are buffers it has none.                                     *)
THEOREM ShownNotOverwritten == Spec => []NotOverwritten
<1>1. SinkInv => NotOverwritten
  <2> SUFFICES ASSUME SinkInv, NEW b \in Buffers \ excess, buf[b].queued
               PROVE  Holders(b) = 0
    BY DEF NotOverwritten
  <2>1. allocated
    BY FreshRec, SinkAssumption DEF SinkInv, Counted, Torn
  <2>2. Good(b)
    BY <2>1 DEF SinkInv, Counted
  <2>3. HeldAs(Id(b)) <= 0 /\ HeldAs(Id(b)) \in Nat
    BY <2>1, <2>2, SinkAssumption, PresentId, HeldNat
       DEF SinkInv, Counted, Good, Covered, Unqueued
  <2> QED BY <2>3 DEF HeldAs, Holders
<1> QED BY <1>1, Invariant, PTL

(* No buffer is lost to the decoder while the thread runs. *)
THEOREM BuffersKept == Spec => []NoneLost
<1>1. SinkInv => NoneLost
  BY DEF SinkInv, Counted, Good, Lossless, InHand, NoneLost, Locked, At, Working
<1> QED BY <1>1, Invariant, PTL

(* The output thread never uses buffers that a flush or a stop has freed. *)
THEOREM BuffersFound == Spec => []OutputFindsBuffers
<1>1. SinkInv => OutputFindsBuffers
  BY DEF SinkInv, Control, OutputFindsBuffers
<1> QED BY <1>1, Invariant, PTL

=============================================================================
