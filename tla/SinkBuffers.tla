---------------------------- MODULE SinkBuffers ----------------------------
(***************************************************************************)
(* The output buffers of the v4l2 video sink (westeros-sink-soc.c): between*)
(* the decoder that fills them, the video server that shows them and, when *)
(* video is composed as graphics, the compositor.                          *)
(*                                                                         *)
(* The output thread takes filled buffers from the decoder, sends them on  *)
(* and hears of their release from the video server.  The dispatch thread  *)
(* hears from the compositor.  The application pauses, flushes and stops.  *)
(* They share the buffers under LOCK(sink); each section under it is one   *)
(* action here.  A flush, a stop or a change of the frame size tears the   *)
(* buffers down while either of the two others may still hold some.        *)
(***************************************************************************)
EXTENDS Naturals, FiniteSets

CONSTANTS
    Buffers,    \* the decoder's output buffers, by index
    None,       \* no buffer
    Lead,       \* how many frames graphics runs ahead of video (3 in the code)
    MaxFrames,  \* bound on the frames decoded between two flushes
    MaxSetups,  \* bound on how often the buffers are set up
    MaxFlips    \* bound on the changes of the video path and of play and pause

ASSUME SinkAssumption ==
    /\ None \notin Buffers \cup ((1 .. MaxSetups) \X Buffers)
    /\ Lead \in Nat \ {0} /\ MaxFrames \in Nat /\ MaxSetups \in Nat /\ MaxFlips \in Nat

VARIABLES
    gfxSync,    \* useGfxSync: graphics follows what the video server shows
    conn,       \* connected to the video server
    capture,    \* captureEnabled: video goes through graphics
    paused,     \* videoPaused
    getFrame,   \* pauseException and pauseGetGfxFrame
    pauseGfx,   \* pauseGfxBuffIndex
    setups,     \* which set of buffers this is: bufferIdOutBase and bufferCohort
    allocated,  \* outBuffers # 0
    buf,        \* outBuffers: queued, lockCount, frameNumber
    lastFrame,  \* decoderLastFrame
    frames,     \* frameOutCount
    server,     \* how often the video server holds a buffer
    released,   \* its release messages on their way
    composed,   \* how often the compositor holds a buffer
    output,     \* the output thread
    dispatch,   \* the release that the dispatch thread has checked
    quit,       \* quitVideoOutputThread
    app,        \* what the application is doing
    flips,      \* changes of path and of play and pause so far
    fault,      \* the thread that has used buffers that were not there
    excess      \* buffers unlocked on behalf of nobody who held them

config == <<gfxSync, conn>>
pathVars == <<capture, paused, getFrame, pauseGfx, flips>>
bufferVars == <<setups, allocated, buf, lastFrame, frames>>
holders == <<server, released, composed>>
threadVars == <<output, dispatch, quit, app>>
vars == <<config, pathVars, bufferVars, holders, threadVars, fault, excess>>

-----------------------------------------------------------------------------

(* A buffer is known to the video server by its id, to a wl_buffer by its  *)
(* index and cohort: either way by the set it belongs to and its index.    *)
Ids == (1 .. MaxSetups) \X Buffers

Id(b) == <<setups, b>>

IsCurrent(id) == allocated /\ id[1] = setups

Fresh == [queued |-> FALSE, locks |-> 0, frame |-> 0]

Nothing == [id \in Ids |-> 0]

More(held, id) == [held EXCEPT ![id] = @ + 1]
Less(held, id) == [held EXCEPT ![id] = @ - 1]

TypeOK ==
    /\ {gfxSync, conn, capture, paused, getFrame} \subseteq BOOLEAN
    /\ {allocated, lastFrame, quit} \subseteq BOOLEAN
    /\ fault \in {"none", "output", "dispatch"}
    /\ pauseGfx \in Buffers \cup {None}
    /\ setups \in 0 .. MaxSetups
    /\ buf \in [Buffers -> [queued : BOOLEAN, locks : Nat, frame : 0 .. MaxFrames]]
    /\ frames \in 0 .. MaxFrames
    /\ {server, released, composed} \subseteq [Ids -> Nat]
    /\ output \in [at : {"none", "start", "loop", "exit", "ended"}]
                    \cup [at : {"dequeued", "have"}, buffer : Buffers]
    /\ dispatch \in Ids \cup {None}
    /\ app \in {"idle", "flushing", "joining", "stopping", "stopJoining", "stopped"}
    /\ flips \in 0 .. MaxFlips
    /\ excess \subseteq Buffers

Init ==
    /\ gfxSync \in BOOLEAN
    /\ conn \in BOOLEAN
    /\ capture = ~conn
    /\ paused = TRUE
    /\ getFrame = FALSE
    /\ pauseGfx = None
    /\ setups = 0
    /\ allocated = FALSE
    /\ buf = [b \in Buffers |-> Fresh]
    /\ lastFrame = FALSE
    /\ frames = 0
    /\ server = Nothing /\ released = Nothing /\ composed = Nothing
    /\ output = [at |-> "none"]
    /\ dispatch = None
    /\ quit = FALSE
    /\ app = "idle"
    /\ flips = 0
    /\ fault = "none"
    /\ excess = {}

-----------------------------------------------------------------------------
(***************************************************************************)
(* Locking and requeueing a buffer.                                        *)
(***************************************************************************)

Locked(b) == buf[b].locks > 0

(* Only a buffer that nobody has locked goes back to the decoder. *)
\* Mutant: a locked buffer goes back too.
RequeuedAnyway(r) == [r EXCEPT !.queued = TRUE, !.frame = 0]

Requeued(r) == IF r.locks = 0 THEN [r EXCEPT !.queued = TRUE, !.frame = 0] ELSE r

(* The last unlock gives the buffer back to the decoder. *)
Unlocked(r) ==
    IF r.locks = 0 THEN r
    ELSE IF r.locks = 1 THEN Requeued([r EXCEPT !.locks = 0])
    ELSE [r EXCEPT !.locks = @ - 1]

RequeueOutputBuffer(b) == buf' = [buf EXCEPT ![b] = Requeued(@)]

(* An unlock for whoever had the buffer under this id; without buffers it   *)
(* dereferences a null pointer.                                            *)
UnlockAndRequeue(id) ==
    IF allocated THEN buf' = [buf EXCEPT ![id[2]] = Unlocked(@)] /\ UNCHANGED fault
                 ELSE fault' = "dispatch" /\ UNCHANGED buf

TearDown ==
    /\ allocated' = FALSE
    /\ buf' = [b \in Buffers |-> Fresh]
    /\ excess' = {}

SetupOutput ==
    /\ setups < MaxSetups
    /\ setups' = setups + 1
    /\ allocated' = TRUE
    /\ buf' = [b \in Buffers |-> Fresh]
    /\ excess' = {}

(* wstLockOutputBuffer, of a buffer that goes to the compositor. *)
ToCompositor(r) == [r EXCEPT !.locks = @ + 1]

(* The buffer of a frame the video server has, and the oldest of them. *)
FindVideoBuffer(n) == {b \in Buffers : Locked(b) /\ buf[b].frame = n}

FindCurrentVideoBuffer ==
    {b \in Buffers : /\ Locked(b) /\ buf[b].frame > 0
                     /\ \A c \in Buffers : Locked(c) /\ buf[c].frame > 0
                                              => buf[b].frame <= buf[c].frame}

-----------------------------------------------------------------------------
(***************************************************************************)
(* The output thread.                                                      *)
(***************************************************************************)
At(place) == output.at = place

Go(place) == output' = [at |-> place]

(* All buffers to the decoder, if there are any yet. *)
CaptureStart ==
    /\ At("start")
    /\ IF ~allocated THEN Go("loop") /\ UNCHANGED <<buf, lastFrame>>
       ELSE IF quit THEN Go("exit") /\ UNCHANGED <<buf, lastFrame>>
       ELSE /\ buf' = [b \in Buffers |-> [buf[b] EXCEPT !.queued = TRUE]]
            /\ lastFrame' = FALSE
            /\ Go("loop")
    /\ UNCHANGED <<config, pathVars, setups, allocated, frames, holders, dispatch, quit, app,
                   fault, excess>>

Quit ==
    /\ At("loop") /\ quit
    /\ Go("exit")
    /\ UNCHANGED <<config, pathVars, bufferVars, holders, dispatch, quit, app, fault, excess>>

(***************************************************************************)
(* A change of the source: when there are no buffers yet, or the decoder   *)
(* has given the last frame before the change, the buffers are torn down,  *)
(* set up again and given to the decoder.                                  *)
(***************************************************************************)
ProcessEvents ==
    /\ At("loop") /\ ~quit
    /\ ~allocated \/ lastFrame
    /\ SetupOutput
    /\ Go("start")
    /\ UNCHANGED <<config, pathVars, lastFrame, frames, holders, dispatch, quit, app, fault>>

(* The decoder has filled a buffer: it is dequeued without the lock. *)
Dequeue(b) ==
    /\ At("loop") /\ ~quit /\ ~lastFrame
    /\ allocated /\ buf[b].queued
    /\ output' = [at |-> "dequeued", buffer |-> b]
    /\ UNCHANGED <<config, pathVars, bufferVars, holders, dispatch, quit, app, fault, excess>>

(***************************************************************************)
(* Under the lock it is noted, unless the thread is to end.  An empty one  *)
(* marked last ends the stream, or this part of it, and stays out of use.  *)
(***************************************************************************)
GetOutputBuffer ==
    /\ At("dequeued")
    /\ IF quit THEN Go("exit") /\ UNCHANGED <<buf, lastFrame, fault>>
       ELSE IF ~allocated THEN fault' = "output" /\ UNCHANGED <<output, buf, lastFrame>>
       ELSE /\ buf' = [buf EXCEPT ![output.buffer].queued = FALSE]
            /\ \/ frames < MaxFrames /\ output' = [output EXCEPT !.at = "have"] /\ UNCHANGED lastFrame
               \/ lastFrame' = TRUE /\ Go("loop")
            /\ UNCHANGED fault
    /\ UNCHANGED <<config, pathVars, setups, allocated, frames, holders, dispatch, quit, app,
                   excess>>

(* A frame dropped to keep the rate: only while there are buffers. *)
LocalRateControl ==
    /\ At("have") /\ allocated
    /\ RequeueOutputBuffer(output.buffer)
    /\ Go("loop")
    /\ UNCHANGED <<config, pathVars, setups, allocated, lastFrame, frames, holders, dispatch,
                   quit, app, fault, excess>>

(* Under the lock again, the thread sees that it is to end. *)
QuitWithFrame ==
    /\ At("have") /\ quit
    /\ Go("exit")
    /\ UNCHANGED <<config, pathVars, bufferVars, holders, dispatch, quit, app, fault, excess>>

(* Is a frame composed as graphics when it is decoded? *)
AtOnce == (~gfxSync \/ ~conn) /\ capture

(***************************************************************************)
(* The frame goes to the compositor, and a frame shown before, if nobody   *)
(* has it, back to the decoder.                                            *)
(***************************************************************************)
ProcessTextureWayland(b) ==
    /\ AtOnce
    /\ composed' = More(composed, Id(b))
    /\ \E c \in Buffers :
          LET sent == [buf EXCEPT ![b] = ToCompositor(@)]
          IN buf' = [sent EXCEPT ![c] = Requeued(@)]
    /\ UNCHANGED <<server, released>>

(* The frame goes to the video server. *)
SendFrame(b) ==
    /\ conn
    /\ server' = More(server, Id(b))
    /\ buf' = [buf EXCEPT ![b].locks = @ + 1, ![b].frame = frames + 1]
    /\ UNCHANGED <<released, composed>>

(* Neither took it: hidden, sending failed, or nobody to send it to. *)
\* Mutant: it is not given back.
TakenByNobodyKept(b) == UNCHANGED <<buf, holders>>

TakenByNobody(b) ==
    /\ RequeueOutputBuffer(b)
    /\ UNCHANGED holders

(* The whole of it is under the lock, and so after any tear down. *)
UseFrame(b) ==
    IF ~allocated THEN fault' = "output" /\ UNCHANGED <<buf, holders, frames, output>>
    ELSE /\ ProcessTextureWayland(b) \/ SendFrame(b) \/ TakenByNobody(b)
         /\ frames' = frames + 1
         /\ Go("loop")
         /\ UNCHANGED fault

\* Mutant: the thread does not look again whether it is to end.
ProcessFrameRegardless ==
    /\ At("have")
    /\ UseFrame(output.buffer)
    /\ UNCHANGED <<config, pathVars, setups, allocated, lastFrame, dispatch, quit, app, excess>>

ProcessFrame ==
    /\ At("have") /\ ~quit
    /\ UseFrame(output.buffer)
    /\ UNCHANGED <<config, pathVars, setups, allocated, lastFrame, dispatch, quit, app, excess>>

(***************************************************************************)
(* A release from the video server.  One for an earlier set of buffers is  *)
(* stale.  While video is composed in step with the server, the frame that *)
(* many frames later goes to the compositor first.                         *)
(***************************************************************************)
FollowsServer(b) == gfxSync /\ ~paused /\ b # pauseGfx /\ capture

Follower(b) == IF FollowsServer(b) THEN FindVideoBuffer(buf[b].frame + Lead) ELSE {}

\* Mutant: the buffer goes by its index alone, whatever set it belongs to.
AcceptsAnyRelease(id) == allocated

AcceptsRelease(id) == IsCurrent(id)

ReleaseFromServer(id) ==
    /\ released' = Less(released, id)
    /\ IF AcceptsRelease(id) /\ Locked(id[2])
       THEN LET b == id[2]
                sent == [c \in Buffers |-> IF c \in Follower(b) THEN ToCompositor(buf[c])
                                                                ELSE buf[c]]
            IN /\ buf' = [sent EXCEPT ![b] = Unlocked(@)]
               /\ composed' = [i \in Ids |-> IF i[1] = setups /\ i[2] \in Follower(b)
                                             THEN composed[i] + 1 ELSE composed[i]]
       ELSE UNCHANGED <<buf, composed>>

(* Messages are read in every turn while playing, when paused before a frame *)
(* is sent.                                                                  *)
ProcessMessages(id) ==
    /\ conn /\ released[id] > 0
    /\ \/ At("loop") /\ ~paused
       \/ At("have") /\ ~quit
    /\ ReleaseFromServer(id)
    /\ UNCHANGED <<config, pathVars, setups, allocated, lastFrame, frames, server, threadVars,
                   fault, excess>>

(***************************************************************************)
(* Video has become graphics while paused: the frame on the screen is also *)
(* sent to the compositor.                                                 *)
(***************************************************************************)
PauseException ==
    /\ At("loop") /\ paused /\ getFrame
    /\ getFrame' = FALSE
    /\ LET shown == IF gfxSync THEN FindCurrentVideoBuffer ELSE {}
       IN IF shown = {} THEN UNCHANGED <<pauseGfx, buf, composed>>
          ELSE \E b \in shown :
                  /\ pauseGfx' = b
                  /\ IF capture THEN /\ buf' = [buf EXCEPT ![b] = ToCompositor(@)]
                                     /\ composed' = More(composed, Id(b))
                                ELSE UNCHANGED <<buf, composed>>
    /\ UNCHANGED <<config, capture, paused, flips, setups, allocated, lastFrame, frames, server,
                   released, threadVars, fault, excess>>

(* The thread ends; the video server is asked to let go of all frames. *)
Exit ==
    /\ At("exit")
    /\ Go("ended")
    /\ UNCHANGED <<config, pathVars, bufferVars, holders, dispatch, quit, app, fault, excess>>

-----------------------------------------------------------------------------
(***************************************************************************)
(* The dispatch thread.  It runs from the first start of the video on.     *)
(***************************************************************************)
Dispatching == dispatch = None /\ app \notin {"stopJoining", "stopped"}

(***************************************************************************)
(* A release by the compositor: the cohort is compared without the lock,   *)
(* and the buffer unlocked under it.                                       *)
(***************************************************************************)
CheckCohort(id) ==
    /\ Dispatching /\ composed[id] > 0
    /\ composed' = Less(composed, id)
    /\ dispatch' = IF IsCurrent(id) THEN id ELSE None
    /\ UNCHANGED <<config, pathVars, bufferVars, server, released, output, quit, app, fault, excess>>


BufferRelease ==
    /\ dispatch # None
    /\ UnlockAndRequeue(dispatch)
    /\ pauseGfx' = IF pauseGfx = dispatch[2] THEN None ELSE pauseGfx
    /\ dispatch' = None
    /\ excess' = IF IsCurrent(dispatch) THEN excess ELSE excess \cup {dispatch[2]}
    /\ UNCHANGED <<config, capture, paused, getFrame, flips, setups, allocated, lastFrame,
                   frames, holders, output, quit, app>>

(***************************************************************************)
(* The compositor changes the path of the video.  From graphics back to    *)
(* video while paused, the buffer of the frame shown is unlocked, although *)
(* the compositor has yet to release it.                                   *)
(***************************************************************************)
Flip == flips < MaxFlips /\ flips' = flips + 1

ToGraphics ==
    /\ Dispatching /\ conn /\ ~capture
    /\ Flip
    /\ capture' = TRUE
    /\ getFrame' = (getFrame \/ paused)
    /\ UNCHANGED <<config, paused, pauseGfx, bufferVars, holders, threadVars, fault, excess>>

ToVideo ==
    /\ Dispatching /\ conn /\ capture
    /\ Flip
    /\ capture' = FALSE
    /\ IF paused /\ pauseGfx # None
       THEN /\ UnlockAndRequeue(Id(pauseGfx))
            /\ pauseGfx' = None
            /\ excess' = excess \cup {pauseGfx}
       ELSE UNCHANGED <<buf, fault, pauseGfx, excess>>
    /\ UNCHANGED <<config, paused, getFrame, setups, allocated, lastFrame, frames, holders,
                   threadVars>>

-----------------------------------------------------------------------------
(***************************************************************************)
(* The application.                                                        *)
(***************************************************************************)
PauseOrPlay ==
    /\ app = "idle" /\ Flip
    /\ paused' = ~paused
    /\ UNCHANGED <<config, capture, getFrame, pauseGfx, bufferVars, holders, threadVars, fault,
                   excess>>

(* The first input starts the output thread; one kind of decoder has its    *)
(* buffers set up before it announces the source.                           *)
StartVideo ==
    /\ app = "idle" /\ At("none")
    /\ quit' = FALSE
    /\ Go("start")
    /\ frames' = 0
    /\ lastFrame' = FALSE
    /\ SetupOutput \/ UNCHANGED <<setups, allocated, buf, excess>>
    /\ UNCHANGED <<config, pathVars, holders, dispatch, app, fault>>

(***************************************************************************)
(* A flush resets the decoder: the output thread is told to end, after a   *)
(* while the buffers are torn down, then the thread is joined.             *)
(***************************************************************************)
\* Mutant: the thread is not told.
FlushUntold ==
    /\ app = "idle" /\ ~At("none")
    /\ app' = "flushing"
    /\ UNCHANGED <<config, pathVars, bufferVars, holders, output, dispatch, quit, fault, excess>>

Flush ==
    /\ app = "idle" /\ ~At("none")
    /\ quit' = TRUE
    /\ app' = "flushing"
    /\ UNCHANGED <<config, pathVars, bufferVars, holders, output, dispatch, fault, excess>>

FlushTearDown ==
    /\ app = "flushing"
    /\ TearDown
    /\ app' = "joining"
    /\ UNCHANGED <<config, pathVars, setups, lastFrame, frames, holders, output, dispatch, quit,
                   fault>>

FlushJoin ==
    /\ app = "joining" /\ At("ended")
    /\ Go("none")
    /\ frames' = 0
    /\ lastFrame' = FALSE
    /\ app' = "idle"
    /\ UNCHANGED <<config, pathVars, setups, allocated, buf, holders, dispatch, quit, fault,
                   excess>>

(***************************************************************************)
(* A stop closes the connection to the video server, joins the dispatch    *)
(* thread without the lock, tears the buffers down and joins the output    *)
(* thread.  The connection to the compositor is shut down.                 *)
(***************************************************************************)
Stop ==
    /\ app = "idle"
    /\ conn' = FALSE
    /\ server' = Nothing
    /\ released' = Nothing
    /\ quit' = TRUE
    /\ app' = "stopping"
    /\ UNCHANGED <<gfxSync, pathVars, bufferVars, composed, output, dispatch, fault, excess>>

StopTearDown ==
    /\ app = "stopping" /\ dispatch = None
    /\ TearDown
    /\ pauseGfx' = None
    /\ composed' = Nothing
    /\ app' = "stopJoining"
    /\ UNCHANGED <<config, capture, paused, getFrame, flips, setups, lastFrame, frames, server,
                   released, output, dispatch, quit, fault>>

StopJoin ==
    /\ app = "stopJoining"
    /\ At("none") \/ At("ended")
    /\ Go("none")
    /\ app' = "stopped"
    /\ UNCHANGED <<config, pathVars, bufferVars, holders, dispatch, quit, fault, excess>>

(* Ready to paused: without a video server all video is captured. *)
ReadyToPaused ==
    /\ app = "stopped"
    /\ app' = "idle"
    /\ conn' \in BOOLEAN
    /\ capture' = (capture \/ ~conn')
    /\ paused' = TRUE
    /\ UNCHANGED <<gfxSync, getFrame, pauseGfx, flips, bufferVars, holders, output, dispatch,
                   quit, fault, excess>>

-----------------------------------------------------------------------------
(* The video server lets go of a buffer, in whatever order. *)
ServerReleases(id) ==
    /\ server[id] > 0
    /\ server' = Less(server, id)
    /\ released' = More(released, id)
    /\ UNCHANGED <<config, pathVars, bufferVars, composed, threadVars, fault, excess>>

OutputThread ==
    \/ CaptureStart \/ Quit \/ ProcessEvents
    \/ (\E b \in Buffers : Dequeue(b)) \/ GetOutputBuffer
    \/ LocalRateControl \/ QuitWithFrame \/ ProcessFrame
    \/ \E id \in Ids : ProcessMessages(id)
    \/ PauseException \/ Exit

DispatchThread ==
    \/ \E id \in Ids : CheckCohort(id)
    \/ BufferRelease \/ ToGraphics \/ ToVideo

Application ==
    \/ PauseOrPlay \/ StartVideo
    \/ Flush \/ FlushTearDown \/ FlushJoin
    \/ Stop \/ StopTearDown \/ StopJoin \/ ReadyToPaused

(* Nothing goes on after a fault: the process is gone. *)
Gone == fault # "none"

Next ==
    /\ ~Gone
    /\ \/ OutputThread
       \/ DispatchThread
       \/ Application
       \/ \E id \in Ids : ServerReleases(id)

Spec == Init /\ [][Next]_vars

(***************************************************************************)
(* The output thread goes on with what it has begun, the dispatch thread   *)
(* finishes a release, and a flush or stop goes on when it may.  Nothing   *)
(* is assumed of the decoder, the video server or the compositor.          *)
(***************************************************************************)
Turn == ~Gone /\ (CaptureStart \/ Quit \/ GetOutputBuffer \/ QuitWithFrame \/ ProcessFrame \/ Exit)

Fairness ==
    /\ WF_vars(Turn)
    /\ WF_vars(~Gone /\ BufferRelease)
    /\ WF_vars(~Gone /\ (FlushTearDown \/ FlushJoin \/ StopTearDown \/ StopJoin))

FairSpec == Spec /\ Fairness

-----------------------------------------------------------------------------
(***************************************************************************)
(* How many hold a buffer of the present set: the video server, with the   *)
(* releases it has sent, and the compositor, with the one being handled.   *)
(***************************************************************************)
Holders(b) ==
    server[Id(b)] + released[Id(b)] + composed[Id(b)] + (IF dispatch = Id(b) THEN 1 ELSE 0)

(***************************************************************************)
(* A buffer's lock count is the number of its holders, whatever flushes,   *)
(* changes of source and late releases did; except one that a change of    *)
(* path or an overtaken release has unlocked for nobody.                   *)
(***************************************************************************)
LocksAreHolders ==
    allocated /\ app # "stopping"
        => \A b \in Buffers \ excess : buf[b].locks = Holders(b)

(***************************************************************************)
(* The decoder never writes into a buffer that the video server or the     *)
(* compositor still shows.                                                 *)
(***************************************************************************)
NotOverwritten ==
    \A b \in Buffers \ excess : buf[b].queued => Holders(b) = 0

(***************************************************************************)
(* No buffer is lost to the decoder: while the thread runs, one that is    *)
(* neither queued nor held is the one in hand, or the empty last one.      *)
(***************************************************************************)
NoneLost ==
    At("loop") /\ allocated /\ ~quit /\ ~lastFrame
        => \A b \in Buffers : buf[b].queued \/ Locked(b)

(***************************************************************************)
(* The output thread, which takes the lock anew for every step, finds the  *)
(* buffers it works on although a flush or stop may free them in between.  *)
(***************************************************************************)
OutputFindsBuffers == fault # "output"

(***************************************************************************)
(* A flush and a stop return: no thread they join waits for them.          *)
(***************************************************************************)
Returns ==
    app \notin {"idle", "stopped"} ~> app \in {"idle", "stopped"} \/ Gone

=============================================================================
