------------------------------ MODULE Surfaces ------------------------------
(***************************************************************************)
(* The surfaces of a compositor context (westeros-compositor.cpp): the     *)
(* buffers its clients attach and commit, when they are given back, the    *)
(* frame callbacks that pace the clients, and the video path (hardware or  *)
(* graphics) of surfaces that carry video.                                 *)
(*                                                                         *)
(* Three threads take part.  The compositor thread runs the requests of    *)
(* the clients and the display timer one after the other.  The thread of   *)
(* an application that embeds the compositor composes it.  The thread of   *)
(* the nested connection hears from the display above a repeater.  They    *)
(* share the context under ctx->mutex, and one render mutex per surface    *)
(* that the compositor thread locks and the application's thread unlocks.  *)
(***************************************************************************)
EXTENDS Naturals, FiniteSets

CONSTANTS
    Surfaces,   \* the wl_surface objects clients create
    Videos,     \* the surfaces whose clients ask for a video path
    Buffers,    \* the wl_buffer objects clients draw into
    None,       \* no buffer, no surface, no video path object
    MaxFlips    \* bound on how often the wanted video path changes

ASSUME SurfacesAssumption ==
    /\ None \notin Surfaces \cup Buffers
    /\ Videos \subseteq Surfaces
    /\ MaxFlips \in Nat

(***************************************************************************)
(* How the context composes: on its own display, into an application's     *)
(* scene, or by repeating to a display above it, either buffers that exist *)
(* there already (shm) or clones of the client's buffers.                  *)
(***************************************************************************)
Modes == {"standalone", "embedded", "repeater", "cloning"}

VARIABLES
    mode,         \* one of Modes
    twoStep,      \* ctx->haveRepeaterSupport: a path changes only with the client
    alive,        \* ctx->surfaces and ctx->surfaceInfoMap
    attached,     \* surface->attachedBufferResource
    detached,     \* surface->detachedBufferResource
    shown,        \* the buffer that the renderer, or the display above, reads
    redrawn,      \* surfaces attached to since their last commit
    signal,       \* surface->vpcBridgeSignal
    owner,        \* who may draw into a buffer: its client or the compositor
    above,        \* clones the display above holds: buffer to its surface
    toRelease,    \* nc->buffersToRelease, with the surface of each buffer
    stranded,     \* buffers whose surface went while the display above had them
    frames,       \* surfaces with frame callbacks
    needRepaint,  \* ctx->needRepaint
    locked,       \* surfaces whose renderMutex is held
    needsRender,  \* surface->needsRender
    thread,       \* the attach that the compositor thread is in the middle of
    vpc,          \* surface->vpcSurface
    told,         \* the path last sent to the client: hardware or not
    answered,     \* surfaces that committed what their path asks since it was sent
    appPath,      \* whether the application's hints allow the hardware path
    flips         \* how often the wanted path has changed

config == <<mode, twoStep>>
bufferVars == <<attached, detached, shown, redrawn, signal, owner, above, toRelease, stranded>>
renderVars == <<locked, needsRender, thread>>
pathVars == <<vpc, told, answered, appPath, flips>>
vars == <<config, alive, bufferVars, frames, needRepaint, renderVars, pathVars>>

-----------------------------------------------------------------------------

NoVpc == [set |-> FALSE, hw |-> TRUE, next |-> TRUE, pending |-> FALSE, bridge |-> TRUE]

Threads == [at : {"idle"}] \cup
           [at : {"trying", "missed", "marked"}, surface : Surfaces, buffer : Buffers]

Idle == thread.at = "idle"

TypeOK ==
    /\ mode \in Modes
    /\ twoStep \in BOOLEAN
    /\ alive \subseteq Surfaces
    /\ attached \in [Surfaces -> Buffers \cup {None}]
    /\ detached \in [Surfaces -> Buffers \cup {None}]
    /\ shown \in [Surfaces -> Buffers \cup {None}]
    /\ redrawn \subseteq alive
    /\ signal \subseteq alive
    /\ owner \in [Buffers -> {"client", "compositor"}]
    /\ above \in [Buffers -> Surfaces \cup {None}]
    /\ toRelease \subseteq (Buffers \X Surfaces)
    /\ stranded \subseteq Buffers
    /\ frames \subseteq alive
    /\ needRepaint \in BOOLEAN
    /\ locked \subseteq alive
    /\ needsRender \subseteq alive
    /\ thread \in Threads
    /\ vpc \in [Surfaces -> {None} \cup [set : BOOLEAN, hw : BOOLEAN, next : BOOLEAN,
                                         pending : BOOLEAN, bridge : BOOLEAN]]
    /\ told \in [Surfaces -> BOOLEAN]
    /\ answered \subseteq alive
    /\ appPath \in BOOLEAN
    /\ flips \in 0 .. MaxFlips

Init ==
    /\ mode \in Modes
    /\ twoStep \in BOOLEAN
    /\ alive = {}
    /\ attached = [s \in Surfaces |-> None]
    /\ detached = attached
    /\ shown = attached
    /\ redrawn = {}
    /\ signal = {}
    /\ owner = [b \in Buffers |-> "client"]
    /\ above = [b \in Buffers |-> None]
    /\ toRelease = {}
    /\ stranded = {}
    /\ frames = {}
    /\ needRepaint = TRUE
    /\ locked = {}
    /\ needsRender = {}
    /\ thread = [at |-> "idle"]
    /\ vpc = [s \in Surfaces |-> None]
    /\ told = [s \in Surfaces |-> TRUE]
    /\ answered = {}
    /\ appPath = TRUE
    /\ flips = 0

-----------------------------------------------------------------------------
(***************************************************************************)
(* Buffers.                                                                *)
(***************************************************************************)

(* wl_buffer_send_release for every buffer of bs; None stands for no buffer. *)
Released(bs) == [b \in Buffers |-> IF b \in bs THEN "client" ELSE owner[b]]

\* Mutant: what the surfaces still show is released.
StillShown == {attached[s] : s \in alive}

NoLongerShown == {detached[s] : s \in alive}

(* Every surface's detached buffer goes back to its client. *)
ReleaseDetachedBuffers ==
    /\ owner' = Released(NoLongerShown)
    /\ detached' = [s \in Surfaces |-> None]

(***************************************************************************)
(* The mutex section of an attach.  A buffer other than the attached one   *)
(* pushes the attached one out to detached, and gives back the one that    *)
(* was detached before; no buffer does the same and notes the bridge's     *)
(* signal.                                                                 *)
(***************************************************************************)
\* Mutant: the buffer detached before is forgotten.
AttachBufferForgets(s, b, sig) ==
    /\ IF attached[s] # b
       THEN /\ owner' = [x \in Buffers |-> IF x = b THEN "compositor" ELSE owner[x]]
            /\ detached' = [detached EXCEPT ![s] = attached[s]]
            /\ attached' = [attached EXCEPT ![s] = b]
       ELSE UNCHANGED <<owner, detached, attached>>
    /\ signal' = IF b # None THEN signal ELSE IF sig THEN signal \cup {s} ELSE signal \ {s}
    /\ redrawn' = redrawn \cup {s}
    /\ UNCHANGED <<shown, above, toRelease, stranded>>

AttachBuffer(s, b, sig) ==
    /\ IF attached[s] # b
       THEN /\ owner' = [x \in Buffers |-> IF x = b THEN "compositor"
                                          ELSE Released({detached[s]})[x]]
            /\ detached' = [detached EXCEPT ![s] = attached[s]]
            /\ attached' = [attached EXCEPT ![s] = b]
       ELSE UNCHANGED <<owner, detached, attached>>
    /\ signal' = IF b # None THEN signal ELSE IF sig THEN signal \cup {s} ELSE signal \ {s}
    /\ redrawn' = redrawn \cup {s}
    /\ UNCHANGED <<shown, above, toRelease, stranded>>

(* A client attaches a buffer it may draw into, or the one it attached last. *)
MayAttach(s, b) == s \in alive /\ (owner[b] = "client" \/ attached[s] = b)

Attach(s, b) ==
    /\ Idle /\ mode # "embedded"
    /\ MayAttach(s, b)
    /\ AttachBuffer(s, b, FALSE)
    /\ UNCHANGED <<config, alive, frames, needRepaint, renderVars, pathVars>>

AttachNone(s, sig) ==
    /\ Idle /\ s \in alive
    /\ sig => s \in Videos
    /\ AttachBuffer(s, None, sig)
    /\ UNCHANGED <<config, alive, frames, needRepaint, renderVars, pathVars>>

(***************************************************************************)
(* In an embedded compositor an attach first tries to get the render mutex *)
(* of the surface, for a frame's time at most, outside ctx->mutex; when it *)
(* does it marks the surface for the application's thread, which unlocks   *)
(* the mutex as it composes.  Either way the attach goes on.               *)
(***************************************************************************)
\* Mutant: an attach that missed the mutex marks the surface too.
TryRenderMutexMarksAnyway(s, b) ==
    /\ Idle /\ mode = "embedded"
    /\ MayAttach(s, b)
    /\ thread' = [at |-> "trying", surface |-> s, buffer |-> b]
    /\ locked' = locked \cup {s}
    /\ UNCHANGED <<config, alive, bufferVars, frames, needRepaint, needsRender, pathVars>>

TryRenderMutex(s, b) ==
    /\ Idle /\ mode = "embedded"
    /\ MayAttach(s, b)
    /\ IF s \in locked
       THEN thread' = [at |-> "missed", surface |-> s, buffer |-> b]
       ELSE thread' = [at |-> "trying", surface |-> s, buffer |-> b]
    /\ locked' = locked \cup {s}
    /\ UNCHANGED <<config, alive, bufferVars, frames, needRepaint, needsRender, pathVars>>

MarkNeedsRender ==
    /\ thread.at = "trying"
    /\ needsRender' = needsRender \cup {thread.surface}
    /\ thread' = [thread EXCEPT !.at = "marked"]
    /\ UNCHANGED <<config, alive, bufferVars, frames, needRepaint, locked, pathVars>>

FinishAttach ==
    /\ thread.at \in {"missed", "marked"}
    /\ AttachBuffer(thread.surface, thread.buffer, FALSE)
    /\ thread' = [at |-> "idle"]
    /\ UNCHANGED <<config, alive, frames, needRepaint, locked, needsRender, pathVars>>

-----------------------------------------------------------------------------
(***************************************************************************)
(* Commit.                                                                 *)
(***************************************************************************)

(***************************************************************************)
(* A commit that brings what the path asked for completes the change: a    *)
(* buffer (or the bridge's word that there is one) for the graphics path,  *)
(* no buffer for the hardware path.                                        *)
(***************************************************************************)
CommitAnswers(s, next) ==
    IF next THEN attached[s] = None ELSE attached[s] # None \/ s \in signal

CompleteTransition(s) ==
    /\ vpc' = IF vpc[s] # None /\ vpc[s].pending /\ CommitAnswers(s, vpc[s].next)
              THEN [vpc EXCEPT ![s].hw = vpc[s].next, ![s].pending = FALSE]
              ELSE vpc
    /\ answered' = IF vpc[s] # None /\ CommitAnswers(s, told[s])
                   THEN answered \cup {s} ELSE answered
    /\ UNCHANGED <<told, appPath, flips>>

(* The renderer, or the display above a repeater, gets what is attached. *)
CommitContent(s) ==
    /\ shown' = [shown EXCEPT ![s] = IF mode = "cloning" THEN None ELSE attached[s]]
    /\ redrawn' = redrawn \ {s}
    /\ IF attached[s] = None
       THEN ReleaseDetachedBuffers /\ UNCHANGED <<attached, above>>
       ELSE IF mode = "cloning"
       THEN /\ above' = [above EXCEPT ![attached[s]] = s]
            /\ attached' = [attached EXCEPT ![s] = None]
            /\ UNCHANGED <<owner, detached>>
       ELSE UNCHANGED <<owner, attached, detached, above>>
    /\ UNCHANGED <<signal, toRelease, stranded>>

\* Mutant: the timer is not asked for a frame.
CommitWithoutRepaint(s) ==
    /\ Idle /\ s \in alive
    /\ CommitContent(s)
    /\ CompleteTransition(s)
    /\ UNCHANGED <<config, alive, frames, needRepaint, renderVars>>

Commit(s) ==
    /\ Idle /\ s \in alive
    /\ CommitContent(s)
    /\ CompleteTransition(s)
    /\ needRepaint' = TRUE
    /\ UNCHANGED <<config, alive, frames, renderVars>>

Frame(s) ==
    /\ Idle /\ s \in alive
    /\ frames' = frames \cup {s}
    /\ UNCHANGED <<config, alive, bufferVars, needRepaint, renderVars, pathVars>>

-----------------------------------------------------------------------------
(***************************************************************************)
(* Surfaces come and go.                                                   *)
(***************************************************************************)

CreateSurface(s) ==
    /\ Idle /\ s \notin alive
    /\ alive' = alive \cup {s}
    /\ UNCHANGED <<config, bufferVars, frames, needRepaint, renderVars, pathVars>>

(* A vpc surface's resource goes, by itself or with its surface. *)
WithoutVpc(s) ==
    /\ vpc' = [vpc EXCEPT ![s] = None]
    /\ told' = [told EXCEPT ![s] = TRUE]
    /\ answered' = answered \ {s}
    /\ UNCHANGED <<appPath, flips>>

(***************************************************************************)
(* The nested connection forgets a surface: it drops the surface's buffers *)
(* from those to be released, destroys the clone it noted last, and will   *)
(* not know the surface when an older clone comes back.  So none of the    *)
(* buffers the display above had is given back.                            *)
(***************************************************************************)
ForgetNested(s) ==
    /\ above' = [b \in Buffers |-> IF above[b] = s THEN None ELSE above[b]]
    /\ toRelease' = {r \in toRelease : r[2] # s}
    /\ stranded' = stranded \cup {b \in Buffers : above[b] = s \/ <<b, s>> \in toRelease}

(* Its frame callbacks and its render mutex go with a surface. *)
ForgetRender(s) ==
    /\ frames' = frames \ {s}
    /\ locked' = locked \ {s}
    /\ needsRender' = needsRender \ {s}

DestroySurface(s) ==
    /\ Idle /\ s \in alive
    /\ alive' = alive \ {s}
    /\ owner' = Released({attached[s], detached[s]})
    /\ attached' = [attached EXCEPT ![s] = None]
    /\ detached' = [detached EXCEPT ![s] = None]
    /\ shown' = [shown EXCEPT ![s] = None]
    /\ redrawn' = redrawn \ {s}
    /\ signal' = signal \ {s}
    /\ ForgetNested(s)
    /\ ForgetRender(s)
    /\ WithoutVpc(s)
    /\ needRepaint' = TRUE
    /\ UNCHANGED <<config, thread>>

(* A client destroys a buffer: its destroy listeners forget it, and the      *)
(* client may create another of the same name. Clients keep a buffer that is *)
(* cloned until it is released.                                             *)
DestroyBuffer(b) ==
    /\ Idle
    /\ b \in stranded \/ \E s \in alive : b \in {attached[s], detached[s]}
    /\ owner' = [owner EXCEPT ![b] = "client"]
    /\ attached' = [s \in Surfaces |-> IF attached[s] = b THEN None ELSE attached[s]]
    /\ detached' = [s \in Surfaces |-> IF detached[s] = b THEN None ELSE detached[s]]
    /\ shown' = [s \in Surfaces |-> IF shown[s] = b THEN None ELSE shown[s]]
    /\ stranded' = stranded \ {b}
    /\ UNCHANGED <<config, alive, redrawn, signal, above, toRelease, frames, needRepaint,
                   renderVars, pathVars>>

-----------------------------------------------------------------------------
(***************************************************************************)
(* Composition.                                                            *)
(***************************************************************************)

(***************************************************************************)
(* The display timer: what the display above gave back goes to the clients *)
(* and, when something has changed, the frame is composed, what it no      *)
(* longer shows is released and the frame callbacks are done.              *)
(***************************************************************************)
DisplayTimeOut ==
    /\ Idle
    /\ needRepaint \/ toRelease # {}
    /\ toRelease' = {}
    /\ needRepaint' = FALSE
    /\ LET back == {r[1] : r \in toRelease}
           composed == needRepaint /\ mode = "standalone"
       IN /\ owner' = Released(back \cup (IF composed THEN NoLongerShown ELSE {}))
          /\ detached' = IF composed THEN [s \in Surfaces |-> None] ELSE detached
    /\ frames' = IF needRepaint THEN {} ELSE frames
    /\ UNCHANGED <<config, alive, attached, shown, redrawn, signal, above, stranded,
                   renderVars, pathVars>>

(* Which path a video surface should use: the application's, and with a bridge *)
(* the one of the display above.                                               *)
Effective(s, hints) == hints /\ vpc[s].bridge

(***************************************************************************)
(* The path of a video surface is decided: the client is told, and the     *)
(* change waits for its answer unless it is the first or the context makes *)
(* no transitions.                                                         *)
(***************************************************************************)
Decides(s, hints) == vpc[s] # None /\ (~vpc[s].set \/ Effective(s, hints) # vpc[s].hw)

\* Mutant: a change that waits for the client is not noted.
UpdatedVpcNotPending(s, hints) ==
    LET path == Effective(s, hints)
    IN [vpc[s] EXCEPT !.set = TRUE, !.next = path,
                      !.hw = IF vpc[s].set /\ twoStep THEN @ ELSE path]

UpdatedVpc(s, hints) ==
    LET path == Effective(s, hints)
        waits == vpc[s].set /\ twoStep
    IN [vpc[s] EXCEPT !.set = TRUE,
                      !.next = path,
                      !.pending = @ \/ waits,
                      !.hw = IF waits THEN @ ELSE path]

UpdateVPCSurfaces(hints) ==
    LET decided == {s \in alive : Decides(s, hints)}
    IN /\ vpc' = [s \in Surfaces |-> IF s \in decided THEN UpdatedVpc(s, hints) ELSE vpc[s]]
       /\ told' = [s \in Surfaces |-> IF s \in decided THEN Effective(s, hints) ELSE told[s]]
       /\ answered' = answered \ {s \in decided : told[s] # Effective(s, hints)
                                                   \/ ~vpc[s].set}

(* The application composes its scene, and with it the surfaces. *)
ComposeEmbedded(hints) ==
    /\ mode = "embedded"
    /\ hints # appPath => flips < MaxFlips
    /\ flips' = IF hints # appPath THEN flips + 1 ELSE flips
    /\ appPath' = hints
    /\ UpdateVPCSurfaces(hints)
    /\ locked' = locked \ needsRender
    /\ needsRender' = {}
    /\ UNCHANGED <<config, alive, bufferVars, frames, needRepaint, thread>>

(* The application, a module or a shell wants the scene composed again. *)
InvalidateScene ==
    /\ ~needRepaint
    /\ needRepaint' = TRUE
    /\ UNCHANGED <<config, alive, bufferVars, frames, renderVars, pathVars>>

-----------------------------------------------------------------------------
(***************************************************************************)
(* Video path control, and the nested connection's thread.                 *)
(***************************************************************************)

GetVpcSurface(s) ==
    /\ Idle /\ s \in alive \cap Videos /\ vpc[s] = None
    /\ vpc' = [vpc EXCEPT ![s] = NoVpc]
    /\ needRepaint' = TRUE
    /\ UNCHANGED <<config, alive, bufferVars, frames, renderVars, told, answered, appPath, flips>>

DestroyVpcSurface(s) ==
    /\ Idle /\ s \in alive /\ vpc[s] # None
    /\ WithoutVpc(s)
    /\ UNCHANGED <<config, alive, bufferVars, frames, needRepaint, renderVars>>

(* The display above changes the path: an embedded compositor with a bridge *)
(* takes it into account, a repeater passes it on.                          *)
VideoPathChange(s) ==
    /\ mode # "standalone"
    /\ s \in alive /\ vpc[s] # None
    /\ flips < MaxFlips
    /\ flips' = flips + 1
    /\ IF mode = "embedded"
       THEN /\ vpc' = [vpc EXCEPT ![s].bridge = ~@]
            /\ UNCHANGED <<told, answered>>
       ELSE /\ told' = [told EXCEPT ![s] = ~@]
            /\ answered' = answered \ {s}
            /\ UNCHANGED vpc
    /\ UNCHANGED <<config, alive, bufferVars, frames, needRepaint, renderVars, appPath>>

(***************************************************************************)
(* The display above gives a clone back.  Its buffer is queued for the     *)
(* compositor thread.                                                      *)
(***************************************************************************)
NestedRelease(b) ==
    /\ above[b] # None
    /\ above' = [above EXCEPT ![b] = None]
    /\ toRelease' = toRelease \cup {<<b, above[b]>>}
    /\ UNCHANGED <<config, alive, attached, detached, shown, redrawn, signal, owner, stranded,
                   frames, needRepaint, renderVars, pathVars>>

-----------------------------------------------------------------------------

Next ==
    \/ \E s \in Surfaces :
        \/ CreateSurface(s) \/ DestroySurface(s)
        \/ \E b \in Buffers : Attach(s, b) \/ TryRenderMutex(s, b)
        \/ \E sig \in BOOLEAN : AttachNone(s, sig)
        \/ Commit(s) \/ Frame(s)
        \/ GetVpcSurface(s) \/ DestroyVpcSurface(s) \/ VideoPathChange(s)
    \/ MarkNeedsRender \/ FinishAttach
    \/ \E b \in Buffers : DestroyBuffer(b) \/ NestedRelease(b)
    \/ \E hints \in BOOLEAN : ComposeEmbedded(hints)
    \/ DisplayTimeOut \/ InvalidateScene

(* The compositor thread finishes the request it is in, and its event loop runs   *)
(* the timer when it is due, between requests however many there are.  Clients,    *)
(* the application and the display above may stop at any point.                    *)
Spec ==
    /\ Init /\ [][Next]_vars
    /\ WF_vars(MarkNeedsRender \/ FinishAttach)
    /\ SF_vars(DisplayTimeOut)

-----------------------------------------------------------------------------
(***************************************************************************)
(* Properties.                                                             *)
(***************************************************************************)

(* Where the compositor has a buffer. *)
Places(b) ==
    {<<"attached", s>> : s \in {s \in alive : attached[s] = b}}
    \cup {<<"detached", s>> : s \in {s \in alive : detached[s] = b}}
    \cup {<<"above", s>> : s \in {above[b]} \ {None}}
    \cup {<<"queued", r[2]>> : r \in {r \in toRelease : r[1] = b}}
    \cup (IF b \in stranded THEN {<<"stranded", None>>} ELSE {})

(* Every buffer a client gave away is in exactly one of the places it comes back *)
(* from (or was above a repeater when its surface went), and a buffer given back *)
(* is in none: no buffer is lost, and none is released twice.                    *)
BuffersAccounted ==
    \A b \in Buffers : Cardinality(Places(b)) = IF owner[b] = "compositor" THEN 1 ELSE 0

(* A buffer the renderer or the display above still reads goes back to its      *)
(* client only when the client has attached another since, and not yet          *)
(* committed: wl_buffer release follows attach, not commit.                     *)
ShownUntilReplaced ==
    \A s \in alive : shown[s] # None /\ owner[shown[s]] = "client" => s \in redrawn

(* The application's thread unlocks render mutexes that the compositor's thread  *)
(* locked: a surface is marked for it only while its mutex is held, and a mutex  *)
(* held without the mark is one the attach in progress is about to mark.         *)
RenderMutexHandedOver ==
    /\ needsRender \subseteq locked
    /\ \A s \in locked \ needsRender : thread.at = "trying" /\ thread.surface = s

(* The compositor and a video client do not come apart over the path: the client *)
(* was told where the path goes, a change waits exactly while the two ends       *)
(* differ, and a client that has committed what it was asked for is on the path. *)
PathAgrees ==
    \A s \in alive : vpc[s] # None /\ vpc[s].set =>
        /\ told[s] = vpc[s].next
        /\ vpc[s].pending <=> vpc[s].hw # vpc[s].next
        /\ s \in answered => vpc[s].hw = told[s]

(* What a composed frame or the display above has made available to clients:     *)
(* buffers that a commit replaced on the compositor's own display, and those the *)
(* display above returned.                                                       *)
Owed ==
    {r[1] : r \in toRelease}
    \cup {b \in Buffers : /\ mode = "standalone"
                          /\ \E s \in alive : s \notin redrawn /\ detached[s] = b}

(* Clients are paced: what they are owed is given back, all of it, and the frame *)
(* callbacks of a frame that is due are done.                                    *)
Paced ==
    /\ Owed # {} ~> Owed = {}
    /\ needRepaint /\ frames # {} ~> frames = {}

=============================================================================
