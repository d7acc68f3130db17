----------------------------- MODULE SeatFocus -----------------------------
(***************************************************************************)
(* The seat of a compositor (westeros-compositor.cpp): which surface has   *)
(* the keyboard, the pointer and the touch focus, which of the clients'    *)
(* keyboard, pointer and touch objects the input goes to, and the cursor.  *)
(*                                                                         *)
(* A device keeps its clients' objects in two lists, those of the focused  *)
(* client and the rest, and moves them as the focus moves (a touch device  *)
(* does it as the pointer does, and its lists are left out).  What lies    *)
(* under a point is any surface but a cursor: where surfaces are, in what  *)
(* order, and which have a role or carry video, is up to the clients and   *)
(* the shell at any time.                                                  *)
(***************************************************************************)
EXTENDS Naturals, FiniteSets

CONSTANTS
    Surfaces,     \* the wl_surface objects
    Keyboards,    \* the wl_keyboard objects clients get from the seat
    Pointers,     \* the wl_pointer objects
    ClientOf,     \* the client of each of these
    XdgClients,   \* the clients that bind the xdg shell, as they start
    None          \* no surface, no client

ASSUME SeatAssumption ==
    /\ DOMAIN ClientOf = Surfaces \cup Keyboards \cup Pointers
    /\ None \notin Surfaces
    /\ \A x \in DOMAIN ClientOf : ClientOf[x] # None

Clients == {ClientOf[x] : x \in DOMAIN ClientOf}

VARIABLES
    repeater,       \* ctx->isRepeater: the display above says where the pointer is
    alive,          \* ctx->surfaces
    role,           \* surface->roleName
    latest,         \* clientInfo->surface
    kbFocus,        \* keyboard->focus
    kbRest, kbList, \* keyboard->resourceList and focusResourceList
    ptFocus,        \* pointer->focus
    ptRest, ptList, \* the pointer's lists
    entered,        \* pointer->entered
    cursor,         \* pointer->pointerSurface
    believes,       \* the surface each wl_pointer was last told it is in
    tcFocus         \* touch->focus

kbVars == <<kbFocus, kbRest, kbList>>
ptVars == <<ptFocus, ptRest, ptList, entered, cursor, believes>>
surfaceVars == <<repeater, alive, role, latest>>
vars == <<surfaceVars, kbVars, ptVars, tcFocus>>

-----------------------------------------------------------------------------

Roles == {"none", "xdg", "cursor"}

TypeOK ==
    /\ repeater \in BOOLEAN
    /\ alive \subseteq Surfaces
    /\ role \in [Surfaces -> Roles]
    /\ latest \in [Clients -> Surfaces \cup {None}]
    /\ {kbFocus, ptFocus, tcFocus, cursor} \subseteq Surfaces \cup {None}
    /\ kbRest \subseteq Keyboards /\ kbList \subseteq Keyboards \ kbRest
    /\ ptRest \subseteq Pointers /\ ptList \subseteq Pointers \ ptRest
    /\ entered \in BOOLEAN
    /\ believes \in [Pointers -> Surfaces \cup {None}]

Init ==
    /\ repeater \in BOOLEAN
    /\ alive = {}
    /\ role = [s \in Surfaces |-> "none"]
    /\ latest = [c \in Clients |-> None]
    /\ kbFocus = None /\ kbRest = {} /\ kbList = {}
    /\ ptFocus = None /\ ptRest = {} /\ ptList = {}
    /\ entered = FALSE
    /\ cursor = None
    /\ believes = [p \in Pointers |-> None]
    /\ tcFocus = None

Of(c, set) == {x \in set : ClientOf[x] = c}

-----------------------------------------------------------------------------
(***************************************************************************)
(* The keyboard's focus.  The operators describe a keyboard as a record,   *)
(* for handlers that move the focus more than once.                        *)
(***************************************************************************)

Kb == [focus |-> kbFocus, rest |-> kbRest, list |-> kbList]

Becomes(kb) == kbFocus' = kb.focus /\ kbRest' = kb.rest /\ kbList' = kb.list

\* Mutant: the former client's objects stay in the list.
KeyboardAddFocusToClient(kb, c) ==
    [kb EXCEPT !.list = @ \cup Of(c, kb.rest), !.rest = @ \ Of(c, kb.rest)]

(* All objects go back to the rest, and the client's move to the list. *)
KeyboardMoveFocusToClient(kb, c) ==
    LET all == kb.rest \cup kb.list
    IN [kb EXCEPT !.list = Of(c, all), !.rest = all \ Of(c, all)]

(* The workaround for applications whose keyboard and surfaces are different     *)
(* clients: a client without keyboards does not take the keys away from another. *)
Refused(kb, s) ==
    /\ s # None
    /\ Of(ClientOf[s], kb.rest \cup kb.list) = {}
    /\ kb.list # {}

KeyboardSetFocus(kb, s) ==
    IF kb.focus = s \/ Refused(kb, s) THEN kb
    ELSE KeyboardMoveFocusToClient([kb EXCEPT !.focus = s],
                                   IF s = None THEN None ELSE ClientOf[s])

(***************************************************************************)
(* A surface that appears, with the given role, takes the focus if nothing *)
(* has it and its client has a keyboard.  Clients of the xdg shell take it *)
(* with surfaces of that shell only.                                       *)
(***************************************************************************)
KeyboardCheckFocus(kb, s, r) ==
    LET c == ClientOf[s]
        gives == r = "xdg" \/ c \notin XdgClients
        listens == Of(c, kb.rest \cup kb.list) # {}
        kept == IF Of(c, kb.rest) = {} THEN KeyboardMoveFocusToClient(kb, None) ELSE kb
    IN IF kb.focus = None /\ gives /\ listens THEN KeyboardSetFocus(kept, s) ELSE kb

(* A new keyboard of the client that has the focus joins the list.  Otherwise the *)
(* client's latest surface takes the focus if nothing has it; and if still none   *)
(* has, and no keyboard gets keys, the client of the newest gets them.            *)
GetKeyboard(k) ==
    LET c == ClientOf[k]
        focused == kbFocus # None /\ ClientOf[kbFocus] = c
        joined == IF focused THEN [Kb EXCEPT !.list = @ \cup {k}]
                             ELSE [Kb EXCEPT !.rest = @ \cup {k}]
        taken == IF kbFocus = None /\ latest[c] # None
                 THEN KeyboardSetFocus(joined, latest[c]) ELSE joined
    IN /\ k \notin kbRest \cup kbList
       /\ Becomes(IF taken.focus = None /\ taken.list = {}
                  THEN KeyboardMoveFocusToClient(taken, c) ELSE taken)
       /\ UNCHANGED <<surfaceVars, ptVars, tcFocus>>

ReleaseKeyboard(k) ==
    /\ k \in kbRest \cup kbList
    /\ kbRest' = kbRest \ {k}
    /\ kbList' = kbList \ {k}
    /\ UNCHANGED <<surfaceVars, kbFocus, ptVars, tcFocus>>

(* The shell, or the application by id or name, gives a surface the focus. *)
SetFocus(s) ==
    /\ s \in alive
    /\ Becomes(KeyboardSetFocus(Kb, s))
    /\ UNCHANGED <<surfaceVars, ptVars, tcFocus>>

-----------------------------------------------------------------------------
(***************************************************************************)
(* The pointer's focus.                                                    *)
(***************************************************************************)

(* What a point may hit: a surface that is not a cursor, or none. *)
Hits(set) == {None} \cup {s \in set : role[s] # "cursor"}

\* Mutant: the client that loses the focus is not told.
ToldEnterOnly(s, list) ==
    [p \in Pointers |-> IF s # None /\ p \in list THEN s ELSE believes[p]]

(* What the wl_pointer objects are told as the focus goes to s: those of the old *)
(* focus that they leave it, those of the new one that they enter it.            *)
Told(s, list) ==
    [p \in Pointers |-> IF s # None /\ p \in list THEN s
                        ELSE IF ptFocus # None /\ p \in ptList THEN None
                        ELSE believes[p]]

MovedPointers(s) == Of(ClientOf[s], ptRest \cup ptList)

(***************************************************************************)
(* The pointer's focus goes to s.  A cursor goes with the client it        *)
(* belongs to, and any cursor goes with the last focus.                    *)
(***************************************************************************)
PointerSetFocus(s) ==
    IF ptFocus = s THEN UNCHANGED <<ptFocus, ptRest, ptList, cursor, believes>>
    ELSE /\ ptFocus' = s
         /\ IF s = None
            THEN UNCHANGED <<ptRest, ptList>> /\ believes' = Told(None, {})
            ELSE /\ ptList' = MovedPointers(s)
                 /\ ptRest' = (ptRest \cup ptList) \ MovedPointers(s)
                 /\ believes' = Told(s, MovedPointers(s))
         /\ cursor' =
                IF s = None THEN None
                ELSE IF cursor # None /\ ptFocus # None /\ ClientOf[cursor] = ClientOf[ptFocus]
                THEN None ELSE cursor

PointerEnter(s) ==
    /\ s \in IF repeater THEN alive ELSE Hits(alive)
    /\ IF repeater
       THEN /\ ptFocus = None
            /\ ptFocus' = s
            /\ ptList' = MovedPointers(s)
            /\ ptRest' = (ptRest \cup ptList) \ MovedPointers(s)
            /\ believes' = [p \in Pointers |-> IF p \in MovedPointers(s) THEN s ELSE believes[p]]
            /\ UNCHANGED <<entered, cursor>>
       ELSE entered' = TRUE /\ PointerSetFocus(s)
    /\ UNCHANGED <<surfaceVars, kbVars, tcFocus>>

PointerMove(s) ==
    /\ ~repeater
    /\ s \in Hits(alive)
    /\ PointerSetFocus(s)
    /\ UNCHANGED <<surfaceVars, kbVars, entered, tcFocus>>

(* The display above a repeater names the surface that is left: nothing happens *)
(* when it is gone.                                                             *)
PointerLeave ==
    /\ IF repeater
       THEN /\ ptFocus # None
            /\ ptFocus' = None
            /\ believes' = Told(None, {})
            /\ UNCHANGED <<ptRest, ptList, entered, cursor>>
       ELSE PointerSetFocus(None) /\ entered' = FALSE
    /\ UNCHANGED <<surfaceVars, kbVars, tcFocus>>

(* A press gives the keyboard to the surface under the pointer. *)
PointerButton ==
    /\ ptFocus # None
    /\ Becomes(KeyboardSetFocus(Kb, ptFocus))
    /\ UNCHANGED <<surfaceVars, ptVars, tcFocus>>

(* A new wl_pointer is not in the list, even of the focused client, until the focus *)
(* moves.                                                                           *)
GetPointer(p) ==
    /\ p \notin ptRest \cup ptList
    /\ ptRest' = ptRest \cup {p}
    /\ UNCHANGED <<surfaceVars, kbVars, ptFocus, ptList, entered, cursor, believes, tcFocus>>

(* With the pointer inside, what it is over is looked up again as well. *)
GetPointerInside(p, s) ==
    /\ p \notin ptRest \cup ptList
    /\ entered /\ ~repeater
    /\ s \in Hits(alive)
    /\ ptFocus # s
    /\ ptFocus' = s
    /\ LET rest == ptRest \cup {p}
           moved == IF s = None THEN {} ELSE Of(ClientOf[s], rest \cup ptList)
       IN /\ ptList' = IF s = None THEN ptList ELSE moved
          /\ ptRest' = IF s = None THEN rest ELSE (rest \cup ptList) \ moved
          /\ believes' = Told(s, moved)
    /\ cursor' = IF s # None /\ (cursor = None \/ ptFocus = None
                                 \/ ClientOf[cursor] # ClientOf[ptFocus])
                 THEN cursor ELSE None
    /\ UNCHANGED <<surfaceVars, kbVars, entered, tcFocus>>

ReleasePointer(p) ==
    /\ p \in ptRest \cup ptList
    /\ ptRest' = ptRest \ {p}
    /\ ptList' = ptList \ {p}
    /\ believes' = [believes EXCEPT ![p] = None]
    /\ UNCHANGED <<surfaceVars, kbVars, ptFocus, entered, cursor, tcFocus>>

(***************************************************************************)
(* A client makes a surface of its own the cursor, or shows none.  With a  *)
(* surface it must be the client with the focus, if any has it; without    *)
(* one any client may.                                                     *)
(***************************************************************************)
SetCursor(p, s) ==
    /\ p \in ptRest \cup ptList
    /\ IF s = None THEN UNCHANGED role
       ELSE /\ s \in alive /\ ClientOf[s] = ClientOf[p]
            /\ ptFocus # None => ClientOf[ptFocus] = ClientOf[p]
            /\ role[s] # "xdg"
            /\ role' = [role EXCEPT ![s] = "cursor"]
    /\ cursor' = IF repeater THEN cursor ELSE s
    /\ UNCHANGED <<repeater, alive, latest, kbVars, ptFocus, ptRest, ptList, entered,
                   believes, tcFocus>>

-----------------------------------------------------------------------------
(***************************************************************************)
(* Touch.                                                                  *)
(***************************************************************************)

(* A touch on a surface takes both the touch and the keyboard focus; one on none *)
(* goes to the surface touched last.                                             *)
TouchDown(s) ==
    /\ s \in IF repeater THEN alive \cup {None} ELSE Hits(alive)
    /\ tcFocus' = IF s = None THEN tcFocus ELSE s
    /\ tcFocus' # None
    /\ Becomes(KeyboardSetFocus(Kb, tcFocus'))
    /\ UNCHANGED <<surfaceVars, ptVars>>

-----------------------------------------------------------------------------
(***************************************************************************)
(* Surfaces.                                                               *)
(***************************************************************************)

CreateSurface(s) ==
    /\ s \notin alive
    /\ alive' = alive \cup {s}
    /\ latest' = [latest EXCEPT ![ClientOf[s]] = s]
    /\ Becomes(KeyboardCheckFocus(Kb, s, "none"))
    /\ UNCHANGED <<repeater, role, ptVars, tcFocus>>

(* The surface gets a role of the xdg shell. *)
GetXdgSurface(s) ==
    /\ s \in alive /\ ClientOf[s] \in XdgClients
    /\ role[s] # "cursor"
    /\ role' = [role EXCEPT ![s] = "xdg"]
    /\ Becomes(KeyboardCheckFocus(Kb, s, "xdg"))
    /\ UNCHANGED <<repeater, alive, latest, ptVars, tcFocus>>

\* Mutant: only the destroy request of a client forgets its latest surface.
ForgetLatestOnRequest(s, byClient) ==
    IF byClient THEN [latest EXCEPT ![ClientOf[s]] = None] ELSE latest

(* The client's latest surface as s goes: a destroy request forgets it, whichever of *)
(* its surfaces it names.                                                            *)
ForgetLatest(s, byClient) ==
    [c \in Clients |-> IF latest[c] = s \/ (byClient /\ c = ClientOf[s]) THEN None ELSE latest[c]]

(***************************************************************************)
(* A surface that goes takes the focus with it: the keyboard's list stays  *)
(* as it is, and the pointer's focus is looked up again where the pointer  *)
(* was last.                                                               *)
(***************************************************************************)
DestroySurface(s, hit, byClient) ==
    LET left == alive \ {s}
        out == [p \in Pointers |-> IF believes[p] = s THEN None ELSE believes[p]]
        shown == IF cursor = s \/ ptFocus = s THEN None ELSE cursor
        focus == IF ptFocus = s THEN None ELSE ptFocus
        moves == ~repeater /\ hit # focus
        list == IF hit = None THEN {} ELSE MovedPointers(hit)
    IN /\ s \in alive
       /\ hit \in Hits(left)
       /\ repeater => hit = None
       /\ alive' = left
       /\ role' = [role EXCEPT ![s] = "none"]
       /\ latest' = ForgetLatest(s, byClient)
       /\ kbFocus' = IF kbFocus = s THEN None ELSE kbFocus
       /\ tcFocus' = IF tcFocus = s THEN None ELSE tcFocus
       /\ ptFocus' = IF moves THEN hit ELSE focus
       /\ IF moves /\ hit # None
          THEN ptList' = list /\ ptRest' = (ptRest \cup ptList) \ list
          ELSE UNCHANGED <<ptRest, ptList>>
       /\ believes' = [p \in Pointers |->
                         IF moves /\ p \in list THEN hit
                         ELSE IF moves /\ focus # None /\ p \in ptList THEN None
                         ELSE out[p]]
       /\ cursor' = IF moves /\ (hit = None \/ (shown # None /\ focus # None
                                                /\ ClientOf[shown] = ClientOf[focus]))
                    THEN None ELSE shown
       /\ UNCHANGED <<repeater, kbRest, kbList, entered>>

-----------------------------------------------------------------------------

Next ==
    \/ \E s \in Surfaces :
        \/ CreateSurface(s) \/ GetXdgSurface(s) \/ SetFocus(s)
        \/ \E hit \in Surfaces \cup {None}, byClient \in BOOLEAN : DestroySurface(s, hit, byClient)
    \/ \E s \in Surfaces \cup {None} : PointerEnter(s) \/ PointerMove(s) \/ TouchDown(s)
    \/ PointerLeave \/ PointerButton
    \/ \E k \in Keyboards : GetKeyboard(k) \/ ReleaseKeyboard(k)
    \/ \E p \in Pointers :
        \/ GetPointer(p) \/ ReleasePointer(p)
        \/ \E s \in Surfaces \cup {None} : GetPointerInside(p, s) \/ SetCursor(p, s)

Spec == Init /\ [][Next]_vars

-----------------------------------------------------------------------------
(***************************************************************************)
(* Properties.                                                             *)
(***************************************************************************)

(* Whatever order surfaces and devices come and go in, no focus, cursor or client *)
(* record names a surface that has been destroyed.                                *)
FocusIsLive ==
    {kbFocus, ptFocus, tcFocus, cursor} \cup {latest[c] : c \in Clients} \subseteq alive \cup {None}

(* The keys go to the keyboards of the client that has the focus, to all of them  *)
(* and to no other client's; and when nothing has the focus they go to one client *)
(* at most.                                                                       *)
KeysFollowFocus ==
    /\ kbFocus # None => kbList = Of(ClientOf[kbFocus], kbRest \cup kbList)
    /\ \A j, k \in kbList : ClientOf[j] = ClientOf[k]

(* Every wl_pointer is told consistently: it believes to be in the focused surface *)
(* exactly while it gets the pointer's events, and in none otherwise.              *)
EnterMatchesLeave ==
    \A p \in Pointers :
        believes[p] = IF ptFocus # None /\ p \in ptList THEN ptFocus ELSE None

=============================================================================
