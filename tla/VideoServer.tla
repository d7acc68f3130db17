---------------------------- MODULE VideoServer ----------------------------
(***************************************************************************)
(* The video server of westeros-gl (drm/westeros-gl/westeros-gl.c), which  *)
(* shows the video frames of its clients on overlay planes: one thread per *)
(* client connection, the refresh thread that runs once per vertical blank *)
(* and the offload thread that does the slow work of giving buffers back.  *)
(*                                                                         *)
(* Granularity.  The handlers that take gMutex are one step each and wait  *)
(* for the refresh thread, which holds gMutex for a whole tick.  A tick is *)
(* split at every message it hands to the offload thread, because that     *)
(* thread and the frame handler ('F'), which takes only the mutex of the   *)
(* frame queue, run beside it.                                             *)
(*                                                                         *)
(* Time is abstracted: which frames are due, expired or too early is       *)
(* chosen freely, except that a client sends its frames in the order of    *)
(* their times.  The display is the atomic one (haveAtomic).               *)
(***************************************************************************)
EXTENDS Naturals, Sequences, FiniteSets, SequencesExt

CONSTANTS Conns,           \* connection objects, each used for one client
          Planes,          \* the overlay planes that can show video
          Buffers,         \* the buffer ids of a client
          NoBuffer,        \* bufferId -1
          NoConn, NoPlane,
          Preroll,         \* a first frame is shown when more are queued: 2
          OffloadCapacity, \* OFFLOAD_QUEUE_CAPACITY, 64 in the code
          MaxFrames,       \* bound: frames sent over one connection
          ExitTicks,       \* bound: vertical blanks while an ending connection
                           \* sleeps for one refresh period
          MaxPosts         \* bound: the count of the offload semaphore saturates

ASSUME VideoAssumption ==
  /\ NoBuffer \notin Buffers
  /\ NoConn \notin Conns
  /\ NoPlane \notin Planes
  /\ Preroll \in Nat
  /\ OffloadCapacity \in Nat \ {0}
  /\ MaxFrames \in Nat
  /\ ExitTicks \in Nat
  /\ MaxPosts \in Nat \ {0}

\* A frame buffer (fbId) and the descriptors imported with it are known by
\* the connection and the number of the frame.
Fbs == Conns \X (1..MaxFrames)
NoFb == <<>>
Frames == [fb : Fbs, bufferId : Buffers]
\* A slot of a plane may also hold a frame whose buffer id was forgotten.
Slots == [fb : Fbs \cup {NoFb}, bufferId : Buffers \cup {NoBuffer}]
NoFrame == [fb |-> NoFb, bufferId |-> NoBuffer]

VARIABLES
  step,      \* step[c]: what the thread of connection c is doing
  planeOf,   \* the plane of a connection
  immediate, \* the connections with SYNC_IMMEDIATE
  used,      \* the planes in use, oldest first
  plane,     \* plane[p]: its owner, its frames on the way to and from the screen
  vfm,       \* vfm[p]: the video frame manager of the plane
  refresh,   \* where the refresh thread is in its tick
  messages,  \* the offload queue
  offload,   \* what the offload thread is doing
  posts,     \* the count of its semaphore
  lent,      \* lent[c]: the buffers client c sent and has not got back
  sent,      \* sent[c]: the frames of client c that were imported
  naps,      \* naps[c]: vertical blanks since connection c went to sleep
  \* History, read by properties only:
  refused,   \* refused[c]: the buffers whose import failed
  freed,     \* the frame buffers that were freed
  freedTwice, \* the ones that were freed again
  kept       \* the ones an ended connection left on the screen (keepLastFrame)

connVars == <<step, planeOf, immediate, naps>>
clientVars == <<lent, sent, refused>>
offloadVars == <<messages, offload, posts>>
freeVars == <<freed, freedTwice>>
vars == <<connVars, used, plane, vfm, refresh, offloadVars, clientVars, freeVars, kept>>

----------------------------------------------------------------------------
(* Data.                                                                   *)

Steps == {"new", "serving", "dark", "left", "drained", "destroyed"}

Idle == [step |-> "idle"]
\* The tick: give back what left the screen, then look for a frame to show on
\* each plane, then show what was found.  at is a position in used.
Releasing(n) == [step |-> "release", at |-> n]
Checking(n) == [step |-> "check", at |-> n]
\* Within wstVideoFrameManagerPopFrame: draining (SYNC_IMMEDIATE) or looking
\* at the first or the second frame of the queue for one whose time has come.
Popping(s, n, f, d) == [step |-> s, at |-> n, frame |-> f, dropped |-> d]
Swapping(n) == [step |-> "swap", at |-> n]

Waiting == [step |-> "wait"]
Draining == [step |-> "drain"]
Working(m) == [step |-> "work", msg |-> m]

Release(c, f) == [type |-> "release", conn |-> c, frame |-> f]
Notice(c) == [type |-> "notice", conn |-> c, frame |-> NoFrame]
Nothing == [type |-> "none", conn |-> NoConn, frame |-> NoFrame]

\* wstCreateVideoFrameManager
Fresh == [queue |-> <<>>, bufferIdCurrent |-> NoBuffer, paused |-> FALSE,
          frameAdvance |-> FALSE, started |-> FALSE, resetBaseTime |-> FALSE,
          underflowReported |-> FALSE]

Unused == [conn |-> NoConn, inUse |-> FALSE, keepLastFrame |-> FALSE,
           next |-> NoFrame, curr |-> NoFrame, prev |-> NoFrame, free |-> NoFrame]

Init ==
  /\ step = [c \in Conns |-> "new"]
  /\ planeOf = [c \in Conns |-> NoPlane]
  /\ immediate = {}
  /\ used = <<>>
  /\ plane = [p \in Planes |-> Unused]
  /\ vfm = [p \in Planes |-> Fresh]
  /\ refresh = Idle
  /\ messages = <<>>
  /\ offload = Waiting
  /\ posts = 0
  /\ lent = [c \in Conns |-> {}]
  /\ sent = [c \in Conns |-> 0]
  /\ naps = [c \in Conns |-> 0]
  /\ refused = [c \in Conns |-> {}]
  /\ freed = {}
  /\ freedTwice = {}
  /\ kept = {}

----------------------------------------------------------------------------
(* Freeing frame buffers and giving buffers back.                          *)

\* wstFreeVideoFrameResources on each of the frames.
Free(frames) ==
  LET fbs == {f.fb : f \in frames} \ {NoFb}
  IN  /\ freed' = freed \cup fbs
      /\ freedTwice' = freedTwice \cup (fbs \cap freed)

\* wstFreeVideoFrameResources and wstVideoServerSendBufferRelease.
FreeAndReturn(c, frames) ==
  /\ Free(frames)
  /\ lent' = [lent EXCEPT ![c] = @ \ {f.bufferId : f \in frames}]

\* wstOffloadMsgExecute
Execute(m) ==
  IF m.type = "release" THEN FreeAndReturn(m.conn, {m.frame})
                        ELSE UNCHANGED <<freed, freedTwice, lent>>

\* Mutant: a full queue loses the message.
OffloadMsgPushLost(m) ==
  /\ UNCHANGED <<freed, freedTwice, lent>>
  /\ messages' = IF Len(messages) < OffloadCapacity - 1 THEN Append(messages, m) ELSE messages

\* When the queue is full the message is executed at once.
OffloadMsgPush(m) ==
  IF Len(messages) < OffloadCapacity - 1
  THEN messages' = Append(messages, m) /\ UNCHANGED <<freed, freedTwice, lent>>
  ELSE UNCHANGED messages /\ Execute(m)

NoPush == UNCHANGED <<messages, freed, freedTwice, lent>>

\* wstOffloadSendBufferRelease: not for a frame without a buffer id.
SendBufferRelease(c, f) ==
  IF f.bufferId = NoBuffer THEN NoPush ELSE OffloadMsgPush(Release(c, f))

\* The frames of a queue that its destruction frees and gives back.  Mutant:
\* the current one, too.
DiscardedAll(v) == ToSet(v.queue)
Discarded(v) == {f \in ToSet(v.queue) : f.bufferId # v.bufferIdCurrent}

----------------------------------------------------------------------------
(* The handlers of a connection thread.                                    *)

\* gMutex is free.
Unlocked == refresh = Idle

Serving(c) == step[c] = "serving"

\* 'V': a plane is allocated, or after a few tries the thread gives up.
HandleVideoResource(c) ==
  /\ step[c] = "new"
  /\ Unlocked
  /\ \/ \E p \in Planes \ ToSet(used) :
          /\ step' = [step EXCEPT ![c] = "serving"]
          /\ planeOf' = [planeOf EXCEPT ![c] = p]
          /\ used' = Append(used, p)
          /\ plane' = [plane EXCEPT ![p].conn = c, ![p].inUse = TRUE]
          /\ vfm' = [vfm EXCEPT ![p] = Fresh]
     \/ /\ Planes \subseteq ToSet(used)
        /\ step' = [step EXCEPT ![c] = "left"]
        /\ UNCHANGED <<planeOf, used, plane, vfm>>
  /\ UNCHANGED <<immediate, naps, refresh, offloadVars, clientVars, freeVars, kept>>

\* The client sends only a buffer it has, and MaxFrames frames in all.
MaySend(c, b) ==
  b \notin lent[c] /\ sent[c] + Cardinality(refused[c]) < MaxFrames

\* 'F': without gMutex.
HandleFrame(c, b) ==
  /\ Serving(c)
  /\ MaySend(c, b)
  /\ ~(refresh.step = "drain" /\ used[refresh.at] = planeOf[c])
  /\ lent' = [lent EXCEPT ![c] = @ \cup {b}]
  /\ sent' = [sent EXCEPT ![c] = @ + 1]
  /\ vfm' = [vfm EXCEPT ![planeOf[c]].queue =
               Append(@, [fb |-> <<c, sent[c] + 1>>, bufferId |-> b])]
  /\ UNCHANGED <<connVars, used, plane, refresh, offloadVars, refused, freeVars, kept>>

\* A frame that cannot be imported is closed and its buffer is not returned.
HandleBadFrame(c, b) ==
  /\ Serving(c)
  /\ MaySend(c, b)
  /\ lent' = [lent EXCEPT ![c] = @ \cup {b}]
  /\ refused' = [refused EXCEPT ![c] = @ \cup {b}]
  /\ UNCHANGED <<connVars, used, plane, vfm, refresh, offloadVars, sent, freeVars, kept>>

\* Mutant: the messages that were executed stay in the queue.
FlushedNone(c) == messages
\* wstOffloadFlushConn: the messages of c are executed where they are.
Flushed(c) ==
  [i \in 1..Len(messages) |-> IF messages[i].conn = c THEN Nothing ELSE messages[i]]

PendingReleases(c) ==
  {m.frame : m \in {x \in ToSet(messages) : x.type = "release" /\ x.conn = c}}

\* 'S': the messages of c are done, then its frame queue is made anew.
HandleFlush(c) ==
  /\ Serving(c)
  /\ Unlocked
  /\ messages' = Flushed(c)
  /\ FreeAndReturn(c, PendingReleases(c) \cup Discarded(vfm[planeOf[c]]))
  /\ vfm' = [vfm EXCEPT ![planeOf[c]] = Fresh]
  /\ UNCHANGED <<connVars, used, plane, refresh, offload, posts, sent, refused, kept>>

\* 'I': a new session, or SYNC_IMMEDIATE before or after, makes the frame
\* queue anew, without doing the messages of c first.
HandleSession(c) ==
  /\ Serving(c)
  /\ Unlocked
  /\ \E sync \in SUBSET {c} : immediate' = (immediate \ {c}) \cup sync
  /\ FreeAndReturn(c, Discarded(vfm[planeOf[c]]))
  /\ vfm' = [vfm EXCEPT ![planeOf[c]] = Fresh]
  /\ UNCHANGED <<step, planeOf, naps, used, plane, refresh, offloadVars, sent, refused, kept>>

\* 'P': the time base is set anew when playing goes on.
HandlePause(c, pause) ==
  /\ Serving(c)
  /\ Unlocked
  /\ LET v == vfm[planeOf[c]]
         resume == v.paused /\ ~pause /\ v.resetBaseTime
     IN  vfm' = [vfm EXCEPT ![planeOf[c]] =
                   [v EXCEPT !.paused = pause,
                             !.resetBaseTime = @ /\ ~resume,
                             !.started = @ /\ ~resume]]
  /\ UNCHANGED <<connVars, used, plane, refresh, offloadVars, clientVars, freeVars, kept>>

\* 'A'
HandleFrameAdvance(c) ==
  /\ Serving(c)
  /\ Unlocked
  /\ vfm' = [vfm EXCEPT ![planeOf[c]].frameAdvance = TRUE]
  /\ UNCHANGED <<connVars, used, plane, refresh, offloadVars, clientVars, freeVars, kept>>

\* 'K'
HandleKeepLastFrame(c, keep) ==
  /\ Serving(c)
  /\ Unlocked
  /\ plane' = [plane EXCEPT ![planeOf[c]].keepLastFrame = keep]
  /\ UNCHANGED <<connVars, used, vfm, refresh, offloadVars, clientVars, freeVars, kept>>

----------------------------------------------------------------------------
(* The end of a connection thread.                                         *)

\* The peer has closed.  The plane is turned off and the thread sleeps for a
\* refresh period.
Leave(c) ==
  /\ \/ /\ step[c] = "new"
        /\ step' = [step EXCEPT ![c] = "left"]
        /\ UNCHANGED plane
     \/ /\ Serving(c)
        /\ Unlocked
        /\ ~plane[planeOf[c]].keepLastFrame
        /\ step' = [step EXCEPT ![c] = "dark"]
        /\ plane' = [plane EXCEPT ![planeOf[c]].inUse = FALSE]
  /\ UNCHANGED <<planeOf, immediate, naps, used, vfm, refresh, offloadVars,
                 clientVars, freeVars, kept>>

\* Mutants: the frame that stays on the screen is freed with the others; only
\* the frames that have left the screen are freed.
FreedAlways(s) == {s.next, s.curr, s.prev, s.free}
FreedPartly(s) == {s.prev, s.free}
\* wstVideoServerFreeBuffers
FreedByExit(s) ==
  {s.next, s.prev, s.free} \cup (IF s.keepLastFrame THEN {} ELSE {s.curr})

\* wstVideoServerFreeBuffers, wstDestroyVideoFrameManager, wstOverlayFree.
EndPlane(c) ==
  /\ Unlocked
  /\ LET p     == planeOf[c]
         s     == plane[p]
         slots == FreedByExit(s)
         queue == Discarded(vfm[p])
         both  == {f.fb : f \in slots} \cap {f.fb : f \in queue}
         fbs   == {f.fb : f \in slots \cup queue} \ {NoFb}
     IN  /\ freed' = freed \cup fbs
         /\ freedTwice' = freedTwice \cup both \cup (fbs \cap freed)
         /\ lent' = [lent EXCEPT ![c] = @ \ {f.bufferId : f \in queue}]
         /\ plane' = [plane EXCEPT ![p] = [Unused EXCEPT !.curr =
                        IF s.keepLastFrame THEN [s.curr EXCEPT !.bufferId = NoBuffer] ELSE NoFrame]]
         /\ kept' = IF s.keepLastFrame THEN kept \cup ({s.curr.fb} \ {NoFb}) ELSE kept
         /\ used' = RemoveFirst(used, p)
         /\ vfm' = [vfm EXCEPT ![p] = Fresh]
  /\ planeOf' = [planeOf EXCEPT ![c] = NoPlane]
  /\ step' = [step EXCEPT ![c] = "left"]
  /\ UNCHANGED <<immediate, naps, refresh, offloadVars, sent, refused>>

FreePlane(c) == step[c] = "dark" /\ EndPlane(c)

\* The last frame is to stay on the screen: there is nothing to wait for.
LeaveFrame(c) == Serving(c) /\ plane[planeOf[c]].keepLastFrame /\ EndPlane(c)

\* wstDestroyVideoServerConnection: the messages of c are done, then the
\* count of the semaphore is taken for the offload thread being idle.
FlushOffload(c) ==
  /\ step[c] = "left"
  /\ step' = [step EXCEPT ![c] = "drained"]
  /\ messages' = Flushed(c)
  /\ FreeAndReturn(c, PendingReleases(c))
  /\ UNCHANGED <<planeOf, immediate, naps, used, plane, vfm, refresh, offload, posts,
                 sent, refused, kept>>

Destroy(c) ==
  /\ step[c] = "drained"
  /\ posts = 0
  /\ step' = [step EXCEPT ![c] = "destroyed"]
  /\ UNCHANGED <<planeOf, immediate, naps, used, plane, vfm, refresh, offloadVars,
                 clientVars, freeVars, kept>>

\* After 50 tries the count is not waited for any more.
DestroyImpatiently(c) ==
  /\ step[c] = "drained"
  /\ posts > 0
  /\ step' = [step EXCEPT ![c] = "destroyed"]
  /\ UNCHANGED <<planeOf, immediate, naps, used, plane, vfm, refresh, offloadVars,
                 clientVars, freeVars, kept>>

----------------------------------------------------------------------------
(* The refresh thread: one tick per vertical blank, under gMutex.          *)

\* The planes are gone through in the order of used; then comes another phase.
Onward(n, more, after) == IF n < Len(used) THEN more ELSE after

\* Mutant: off by one.
PostIfMuchWork ==
  posts' = IF Len(messages) > 1 /\ posts < MaxPosts THEN posts + 1 ELSE posts

PostIfWork ==
  posts' = IF messages # <<>> /\ posts < MaxPosts THEN posts + 1 ELSE posts

\* The sleep of an ending connection is one refresh period long.
Asleep == {c \in Conns : step[c] = "dark"}

StartTick ==
  /\ Unlocked
  /\ \A c \in Asleep : naps[c] < ExitTicks
  /\ naps' = [c \in Conns |-> IF c \in Asleep THEN naps[c] + 1 ELSE naps[c]]
  /\ IF used = <<>> THEN PostIfWork /\ UNCHANGED refresh
                    ELSE refresh' = Releasing(1) /\ UNCHANGED posts
  /\ UNCHANGED <<step, planeOf, immediate, used, plane, vfm, messages, offload,
                 clientVars, freeVars, kept>>

\* wstReleasePreviousBuffers
ReleasePrevious ==
  /\ refresh.step = "release"
  /\ LET n == refresh.at
         s == plane[used[n]]
     IN  /\ SendBufferRelease(s.conn, s.free)
         /\ plane' = IF s.free.bufferId = NoBuffer THEN plane
                     ELSE [plane EXCEPT ![used[n]].free = NoFrame]
         /\ refresh' = Onward(n, Releasing(n + 1), Checking(1))
  /\ UNCHANGED <<connVars, used, vfm, offload, posts, sent, refused, kept>>

\* The frame on the screen, if its buffer id is known.
Held(p) == IF plane[p].curr.bufferId = NoBuffer THEN NoFrame ELSE plane[p].curr

\* A frame manager starts to show with more than Preroll frames queued; later
\* one is enough.
Ready(v) ==
  \/ v.queue # <<>> /\ (v.started \/ v.bufferIdCurrent # NoBuffer)
  \/ Len(v.queue) > Preroll
  \/ v.frameAdvance

\* wstVideoFrameManagerPopFrame, up to its loops.
CheckPlane ==
  /\ refresh.step = "check"
  /\ LET n     == refresh.at
         p     == used[n]
         v     == vfm[p]
         found == IF v.paused /\ ~v.frameAdvance THEN Popping("take", n, NoFrame, FALSE)
                  ELSE IF plane[p].conn \in immediate THEN Popping("drain", n, NoFrame, FALSE)
                  ELSE IF ~Ready(v) THEN Popping("take", n, NoFrame, FALSE)
                  ELSE IF v.started \/ v.queue = <<>> THEN Popping("first", n, Held(p), FALSE)
                  ELSE Popping("base", n, Held(p), FALSE)
     IN  /\ refresh' = found
         /\ vfm' = [vfm EXCEPT ![p].resetBaseTime = @ \/ v.paused,
                               ![p].started = @ \/ found.step \in {"first", "base"}]
  /\ UNCHANGED <<connVars, used, plane, offloadVars, clientVars, freeVars, kept>>

\* A frame that is dropped goes back to the client, unless it is the current
\* one, which goes back when it leaves the screen.
Drop(p, f, s, found) ==
  /\ IF f.bufferId = vfm[p].bufferIdCurrent THEN NoPush
     ELSE SendBufferRelease(plane[p].conn, f)
  /\ refresh' = Popping(s, refresh.at, found,
                        refresh.dropped \/ f.bufferId # vfm[p].bufferIdCurrent)

\* SYNC_IMMEDIATE: every frame but the last is dropped.
Drain ==
  /\ refresh.step = "drain"
  /\ LET p == used[refresh.at]
         q == vfm[p].queue
     IN  IF Len(q) > 1
         THEN /\ Drop(p, Head(q), "drain", NoFrame)
              /\ vfm' = [vfm EXCEPT ![p].queue = Tail(@)]
         ELSE /\ refresh' = [refresh EXCEPT !.step = "take",
                                            !.frame = IF q = <<>> THEN NoFrame ELSE Head(q)]
              /\ NoPush
              /\ UNCHANGED vfm
  /\ UNCHANGED <<connVars, used, plane, offload, posts, sent, refused, kept>>

\* The first frame has expired.
DropExpired ==
  /\ refresh.step = "first"
  /\ LET p == used[refresh.at]
         q == vfm[p].queue
     IN  /\ q # <<>>
         /\ Drop(p, Head(q), "first", Held(p))
         /\ vfm' = [vfm EXCEPT ![p].queue = Tail(@)]
  /\ UNCHANGED <<connVars, used, plane, offload, posts, sent, refused, kept>>

\* The first frame is due: it is shown, or it is the current one and the
\* second is looked at.
FirstDue ==
  /\ refresh.step \in {"first", "base"}
  /\ LET p == used[refresh.at]
         v == vfm[p]
         f == Head(v.queue)
     IN  /\ v.queue # <<>>
         /\ IF f.bufferId = v.bufferIdCurrent
            THEN /\ refresh' = [refresh EXCEPT !.step = "second", !.frame = f]
                 /\ UNCHANGED vfm
            ELSE /\ refresh' = [refresh EXCEPT !.step = "take", !.frame = f]
                 /\ vfm' = [vfm EXCEPT ![p].frameAdvance = FALSE]
  /\ UNCHANGED <<connVars, used, plane, offloadVars, clientVars, freeVars, kept>>

\* The second frame is due, but within a refresh period of the first.
DropEarly ==
  /\ refresh.step = "second"
  /\ LET p == used[refresh.at]
         q == vfm[p].queue
     IN  /\ Len(q) > 1
         /\ Drop(p, q[2], "second", Held(p))
         /\ vfm' = [vfm EXCEPT ![p].queue = RemoveAt(@, 2)]
  /\ UNCHANGED <<connVars, used, plane, offload, posts, sent, refused, kept>>

\* Mutant: the second frame is shown while the first stays in the queue.
SecondDueKeepsFirst ==
  /\ refresh.step = "second"
  /\ LET p == used[refresh.at]
         v == vfm[p]
     IN  /\ Len(v.queue) > 1
         /\ refresh' = [refresh EXCEPT !.step = "take", !.frame = v.queue[2]]
         /\ UNCHANGED vfm
  /\ UNCHANGED <<connVars, used, plane, offloadVars, clientVars, freeVars, kept>>

\* The second frame is due: the first one leaves the queue, and the second is
\* shown.
SecondDue ==
  /\ refresh.step = "second"
  /\ LET p == used[refresh.at]
         v == vfm[p]
         f == v.queue[2]
         isNew == f.bufferId # v.bufferIdCurrent
     IN  /\ Len(v.queue) > 1
         /\ refresh' = [refresh EXCEPT !.step = IF isNew THEN "take" ELSE "second", !.frame = f]
         /\ vfm' = [vfm EXCEPT ![p].queue = Tail(@),
                               ![p].frameAdvance = @ /\ ~isNew]
  /\ UNCHANGED <<connVars, used, plane, offloadVars, clientVars, freeVars, kept>>

\* No further frame is due.  A frame advance makes every frame due.
NoneDue ==
  /\ refresh.step \in {"first", "second"}
  /\ LET v == vfm[used[refresh.at]]
     IN  v.frameAdvance => Len(v.queue) < (IF refresh.step = "first" THEN 1 ELSE 2)
  /\ refresh' = [refresh EXCEPT !.step = "take"]
  /\ UNCHANGED <<connVars, used, plane, vfm, offloadVars, clientVars, freeVars, kept>>

\* A notice frees nothing, so one that finds no room has no effect here.
SendNotice(c) ==
  messages' = IF Len(messages) < OffloadCapacity - 1 THEN Append(messages, Notice(c)) ELSE messages

\* The end of wstVideoFrameManagerPopFrame, and wstCheckPlanes: the frame found
\* becomes the current one, and the next for the screen unless it is there.
TakeFrame ==
  /\ refresh.step = "take"
  /\ LET n == refresh.at
         p == used[n]
         v == vfm[p]
         s == plane[p]
         f == refresh.frame
         isNew == f # NoFrame /\ f.fb # s.curr.fb
         underflow == /\ f = NoFrame
                      /\ ~v.paused
                      /\ s.conn \notin immediate
                      /\ v.bufferIdCurrent # NoBuffer
                      /\ s.curr.bufferId # NoBuffer
                      /\ ~v.underflowReported
     IN  /\ vfm' = [vfm EXCEPT ![p] =
              [v EXCEPT !.bufferIdCurrent = IF f = NoFrame THEN @ ELSE f.bufferId,
                        !.underflowReported = underflow \/ (@ /\ f = NoFrame)]]
         /\ plane' = IF isNew THEN [plane EXCEPT ![p].next = f] ELSE plane
         /\ IF isNew \/ underflow \/ refresh.dropped
            THEN SendNotice(s.conn) ELSE UNCHANGED messages
         /\ refresh' = Onward(n, Checking(n + 1), Swapping(1))
  /\ UNCHANGED <<connVars, used, offload, posts, clientVars, freeVars, kept>>

\* Mutant: a frame goes back as soon as another one replaces it.
RotatedEarly(s) ==
  [s EXCEPT !.free = s.curr, !.prev = NoFrame, !.curr = s.next, !.next = NoFrame]
Rotated(s) ==
  [s EXCEPT !.free = s.prev, !.prev = s.curr, !.curr = s.next, !.next = NoFrame]

\* wstSwapDRMBuffersAtomic, and after the last plane the end of the tick.
SwapBuffers ==
  /\ refresh.step = "swap"
  /\ LET n == refresh.at
         p == used[n]
         s == plane[p]
     IN  /\ plane' = IF s.inUse /\ s.next # NoFrame
                     THEN [plane EXCEPT ![p] = Rotated(s)] ELSE plane
         /\ refresh' = Onward(n, Swapping(n + 1), Idle)
         /\ IF n < Len(used) THEN UNCHANGED posts ELSE PostIfWork
  /\ UNCHANGED <<connVars, used, vfm, messages, offload, clientVars, freeVars, kept>>

----------------------------------------------------------------------------
(* The offload thread.                                                     *)

Wake ==
  /\ offload = Waiting
  /\ posts > 0
  /\ posts' = posts - 1
  /\ offload' = Draining
  /\ UNCHANGED <<connVars, used, plane, vfm, refresh, messages, clientVars, freeVars, kept>>

PopMessage ==
  /\ offload = Draining
  /\ IF messages = <<>> THEN offload' = Waiting /\ UNCHANGED messages
     ELSE offload' = Working(Head(messages)) /\ messages' = Tail(messages)
  /\ UNCHANGED <<connVars, used, plane, vfm, refresh, posts, clientVars, freeVars, kept>>

WorkOff ==
  /\ offload.step = "work"
  /\ Execute(offload.msg)
  /\ offload' = Draining
  /\ UNCHANGED <<connVars, used, plane, vfm, refresh, messages, posts, sent, refused, kept>>

----------------------------------------------------------------------------

Tick == \/ StartTick \/ ReleasePrevious \/ CheckPlane \/ Drain
        \/ DropExpired \/ FirstDue \/ DropEarly \/ SecondDue \/ NoneDue
        \/ TakeFrame \/ SwapBuffers

Offload == Wake \/ PopMessage \/ WorkOff

Ending(c) == FreePlane(c) \/ FlushOffload(c) \/ Destroy(c) \/ DestroyImpatiently(c)

Handle(c) ==
  \/ HandleVideoResource(c)
  \/ \E b \in Buffers : HandleFrame(c, b) \/ HandleBadFrame(c, b)
  \/ HandleFlush(c)
  \/ HandleSession(c)
  \/ \E pause \in BOOLEAN : HandlePause(c, pause)
  \/ HandleFrameAdvance(c)
  \/ \E keep \in BOOLEAN : HandleKeepLastFrame(c, keep)

Next == \/ Tick
        \/ Offload
        \/ \E c \in Conns : Handle(c) \/ Leave(c) \/ LeaveFrame(c) \/ Ending(c)

Spec == Init /\ [][Next]_vars

FairSpec ==
  /\ Spec
  /\ WF_vars(Tick)
  /\ WF_vars(Offload)
  /\ \A c \in Conns : WF_vars(Ending(c))

----------------------------------------------------------------------------
(* Properties.                                                             *)

Managers ==
  [queue : Seq(Frames), bufferIdCurrent : Buffers \cup {NoBuffer}, paused : BOOLEAN,
   frameAdvance : BOOLEAN, started : BOOLEAN, resetBaseTime : BOOLEAN,
   underflowReported : BOOLEAN]

PlaneStates ==
  [conn : Conns \cup {NoConn}, inUse : BOOLEAN, keepLastFrame : BOOLEAN,
   next : Slots, curr : Slots, prev : Slots, free : Slots]

Messages ==
  [type : {"release"}, conn : Conns, frame : Frames]
    \cup [type : {"notice"}, conn : Conns, frame : {NoFrame}]
    \cup {Nothing}

RefreshSteps ==
  {Idle}
    \cup [step : {"release", "check", "swap"}, at : 1..Len(used)]
    \cup [step : {"drain", "base", "first", "second", "take"}, at : 1..Len(used),
          frame : Frames \cup {NoFrame}, dropped : BOOLEAN]

TypeOK ==
  /\ step \in [Conns -> Steps]
  /\ planeOf \in [Conns -> Planes \cup {NoPlane}]
  /\ immediate \subseteq Conns
  /\ used \in Seq(Planes)
  /\ plane \in [Planes -> PlaneStates]
  /\ vfm \in [Planes -> Managers]
  /\ refresh \in RefreshSteps
  /\ messages \in Seq(Messages)
  /\ Len(messages) < OffloadCapacity
  /\ offload \in {Waiting, Draining} \cup [step : {"work"}, msg : Messages]
  /\ posts \in 0..MaxPosts
  /\ lent \in [Conns -> SUBSET Buffers]
  /\ sent \in [Conns -> 0..MaxFrames]
  /\ naps \in [Conns -> 0..ExitTicks]
  /\ refused \in [Conns -> SUBSET Buffers]
  /\ freed \subseteq Fbs
  /\ freedTwice \subseteq Fbs
  /\ kept \subseteq Fbs

\* Where the server keeps frames.
Queued(p) == ToSet(vfm[p].queue)
Shown(p) == {plane[p].next, plane[p].curr, plane[p].prev, plane[p].free} \ {NoFrame}
ToRelease ==
  {m.frame : m \in {x \in ToSet(messages) : x.type = "release"}}
    \cup (IF offload.step = "work" /\ offload.msg.type = "release"
          THEN {offload.msg.frame} ELSE {})
Present == (UNION {Queued(p) \cup Shown(p) : p \in Planes}) \cup ToRelease

\* The server has forgotten a buffer when the client gets it back: whatever
\* drops, flips, flushes and sessions interleave with the two threads that
\* return buffers, no later step can show or return a buffer that the client
\* is writing to again.
ReturnedIsForgotten ==
  \A f \in Present :
    f.bufferId # NoBuffer /\ Serving(f.fb[1]) => f.bufferId \in lent[f.fb[1]]

\* The server loses no buffer: while its connection lasts, a buffer that was
\* sent and could be imported is queued, on its way to or from the screen, or
\* about to be returned.
NoBufferLost ==
  \A c \in Conns : Serving(c) =>
    \A b \in lent[c] \ refused[c] : \E f \in Present : f.fb[1] = c /\ f.bufferId = b

\* No frame buffer is removed twice, nor its descriptors closed twice: after
\* the first time these numbers may belong to something else.
FreedOnce == freedTwice = {}

\* No frame buffer leaks: each one is freed or still held, except the frame an
\* ended connection left on the screen.
NoLeak ==
  \A c \in Conns : \A n \in 1..sent[c] :
    <<c, n>> \in freed \cup kept \cup {f.fb : f \in Present}

\* A frame that is on the screen or next to be shown has not been freed, not
\* even one that was left there by a connection that has ended.
ScreenIsLive ==
  \A p \in Planes : {plane[p].curr.fb, plane[p].next.fb} \cap freed = {}

\* Frames come on the screen in the order in which the client sent them.
ShownInOrder ==
  [][\A p \in Planes :
       LET old == plane[p].curr
           new == plane'[p].curr
       IN  old.fb # new.fb /\ old.bufferId # NoBuffer /\ new.bufferId # NoBuffer
             => new.fb[2] > old.fb[2]]_vars

\* A frame queue never holds a buffer twice, so it stays within the capacity
\* it is created with (16) when the client has no more buffers than that, and
\* the unlocked growth in wstVideoFrameManagerPushFrame does not happen.
QueueIsBounded == \A p \in Planes : Len(vfm[p].queue) <= Cardinality(Buffers)

\* A buffer goes back only when it is neither the picture shown nor the one
\* shown before it (VideoLoan).
OnScreen(c, slot(_)) ==
  IF step[c] \in {"serving", "dark"} THEN slot(plane[planeOf[c]]).bufferId ELSE NoBuffer
CurrOf(s) == s.curr
PrevOf(s) == s.prev
Loan == INSTANCE VideoLoan WITH
          current <- [c \in Conns |-> OnScreen(c, CurrOf)],
          previous <- [c \in Conns |-> OnScreen(c, PrevOf)]
ImplementsLoan == Loan!Spec

\* A buffer whose frame has left the screen or was dropped goes back to its
\* client: no full queue, flush or missed wake-up of the offload thread keeps
\* it.
Spent(c, b) ==
  \/ \E f \in ToRelease : f.fb[1] = c /\ f.bufferId = b
  \/ Serving(c) /\ plane[planeOf[c]].free.bufferId = b
SpentComesBack ==
  \A c \in Conns, b \in Buffers : Spent(c, b) ~> (b \notin lent[c] \/ ~Serving(c))

=============================================================================
