-------------------------- MODULE SeatFocusProofs --------------------------
(***************************************************************************)
(* Proofs about SeatFocus, for any clients, surfaces, keyboards and        *)
(* pointers.  Its invariants are nearly inductive: each only needs the     *)
(* types of the variables, FocusIsLive for the surfaces the handlers pass  *)
(* on, and the keyboard's lists seen as one record.                        *)
(***************************************************************************)
EXTENDS SeatFocus, TLAPS

(* A keyboard whose lists are apart and follow its focus. *)
KbOK(kb) ==
    /\ kb \in [focus : Surfaces \cup {None}, rest : SUBSET Keyboards, list : SUBSET Keyboards]
    /\ kb.list \cap kb.rest = {}
    /\ kb.focus # None => kb.list = Of(ClientOf[kb.focus], kb.rest \cup kb.list)
    /\ \A j, k \in kb.list : ClientOf[j] = ClientOf[k]

(* Moving the focus of a keyboard to the client of its focused surface, or to  *)
(* any client when none is, leaves it in order.                                *)
LEMMA MoveKeepsOrder ==
    ASSUME NEW kb, NEW c,
           kb \in [focus : Surfaces \cup {None}, rest : SUBSET Keyboards, list : SUBSET Keyboards],
           kb.focus # None => c = ClientOf[kb.focus]
    PROVE  /\ KbOK(KeyboardMoveFocusToClient(kb, c))
           /\ KeyboardMoveFocusToClient(kb, c).focus = kb.focus
           /\ KeyboardMoveFocusToClient(kb, c).rest \cup KeyboardMoveFocusToClient(kb, c).list
                = kb.rest \cup kb.list
<1> DEFINE all == kb.rest \cup kb.list
           moved == [focus |-> kb.focus, rest |-> all \ Of(c, all), list |-> Of(c, all)]
<1>1. KeyboardMoveFocusToClient(kb, c) = moved
  <2>1. PICK f \in Surfaces \cup {None}, r \in SUBSET Keyboards, l \in SUBSET Keyboards :
          kb = [focus |-> f, rest |-> r, list |-> l]
    OBVIOUS
  <2>2. KeyboardMoveFocusToClient(kb, c) = [kb EXCEPT !.list = Of(c, all), !.rest = all \ Of(c, all)]
    BY DEF KeyboardMoveFocusToClient
  <2> HIDE DEF all
  <2> QED BY <2>1, <2>2
<1>2. KbOK(moved)
  BY DEF KbOK, Of
<1>3. moved.focus = kb.focus /\ moved.rest \cup moved.list = kb.rest \cup kb.list
  BY DEF Of
<1> QED BY <1>1, <1>2, <1>3

(* wstKeyboardSetFocus leaves a keyboard in order, and its focus is the one it *)
(* had or the surface asked for.                                               *)
LEMMA SetFocusKeepsOrder ==
    ASSUME NEW kb, NEW s \in Surfaces \cup {None}, KbOK(kb)
    PROVE  /\ KbOK(KeyboardSetFocus(kb, s))
           /\ KeyboardSetFocus(kb, s).focus \in {kb.focus, s}
<1> DEFINE kb1 == [kb EXCEPT !.focus = s]
           c == IF s = None THEN None ELSE ClientOf[s]
<1>1. CASE kb.focus = s \/ Refused(kb, s)
  BY <1>1 DEF KeyboardSetFocus
<1>2. CASE ~(kb.focus = s \/ Refused(kb, s))
  <2>1. kb1 \in [focus : Surfaces \cup {None}, rest : SUBSET Keyboards, list : SUBSET Keyboards]
        /\ kb1.focus = s
    BY DEF KbOK
  <2>2. KeyboardSetFocus(kb, s) = KeyboardMoveFocusToClient(kb1, c)
    BY <1>2 DEF KeyboardSetFocus
  <2> QED BY <2>1, <2>2, MoveKeepsOrder
<1> QED BY <1>1, <1>2

(* So does wstKeyboardCheckFocus. *)
LEMMA CheckFocusKeepsOrder ==
    ASSUME NEW kb, NEW s \in Surfaces, NEW r, KbOK(kb)
    PROVE  /\ KbOK(KeyboardCheckFocus(kb, s, r))
           /\ KeyboardCheckFocus(kb, s, r).focus \in {kb.focus, s}
<1> DEFINE kept == IF Of(ClientOf[s], kb.rest) = {}
                   THEN KeyboardMoveFocusToClient(kb, None) ELSE kb
<1>1. CASE kb.focus # None
  BY <1>1 DEF KeyboardCheckFocus
<1>2. CASE kb.focus = None
  <2>1. KbOK(kept) /\ kept.focus = None
    <3>1. KbOK(KeyboardMoveFocusToClient(kb, None))
          /\ KeyboardMoveFocusToClient(kb, None).focus = None
      <4>1. kb \in [focus : Surfaces \cup {None}, rest : SUBSET Keyboards, list : SUBSET Keyboards]
        BY DEF KbOK
      <4> QED BY <1>2, <4>1, MoveKeepsOrder
    <3> QED BY <1>2, <3>1
  <2>2. KbOK(KeyboardSetFocus(kept, s)) /\ KeyboardSetFocus(kept, s).focus \in {None, s}
    BY <2>1, SetFocusKeepsOrder
  <2>3. KeyboardCheckFocus(kb, s, r) \in {kb, KeyboardSetFocus(kept, s)}
    BY DEF KeyboardCheckFocus
  <2> QED BY <1>2, <2>2, <2>3
<1> QED BY <1>1, <1>2

-----------------------------------------------------------------------------
(***************************************************************************)
(* The keyboard.                                                           *)
(***************************************************************************)

(* The types that only the keyboard's proof needs. *)
KbTypes ==
    /\ alive \subseteq Surfaces
    /\ latest \in [Clients -> Surfaces \cup {None}]
    /\ {ptFocus, tcFocus} \subseteq Surfaces \cup {None}

(* A handler leaves the keyboard in order if the record it computes is. *)
LEMMA BecomesInOrder ==
    ASSUME NEW kb, KbOK(kb), Becomes(kb)
    PROVE  KbOK(Kb)' /\ kbFocus' = kb.focus
<1>1. Kb' = kb
  BY DEF Becomes, Kb, KbOK
<1> QED BY <1>1 DEF KbOK, Becomes

(* A new wl_keyboard joins the lists so that they still follow the focus. *)
LEMMA GetKeyboardKeepsOrder ==
    ASSUME SeatAssumption, KbOK(Kb), KbTypes, NEW k \in Keyboards, GetKeyboard(k)
    PROVE  KbOK(Kb)' /\ kbFocus' \in {kbFocus, latest[ClientOf[k]]}
<1> DEFINE c == ClientOf[k]
           focused == kbFocus # None /\ ClientOf[kbFocus] = c
           joined == IF focused THEN [Kb EXCEPT !.list = @ \cup {k}]
                                ELSE [Kb EXCEPT !.rest = @ \cup {k}]
           taken == IF kbFocus = None /\ latest[c] # None
                    THEN KeyboardSetFocus(joined, latest[c]) ELSE joined
           final == IF taken.focus = None /\ taken.list = {}
                    THEN KeyboardMoveFocusToClient(taken, c) ELSE taken
<1>1. k \notin kbRest \cup kbList /\ Becomes(final)
  BY DEF GetKeyboard
<1>2. latest[c] \in Surfaces \cup {None}
  BY DEF KbTypes, SeatAssumption, Clients
<1>3. KbOK(joined) /\ joined.focus = kbFocus
  BY <1>1 DEF KbOK, Kb, Of
<1>4. KbOK(taken) /\ taken.focus \in {kbFocus, latest[c]}
  <2> HIDE DEF joined
  <2> QED BY <1>2, <1>3, SetFocusKeepsOrder
<1>5. KbOK(final) /\ final.focus = taken.focus
  <2> HIDE DEF taken
  <2>1. taken \in [focus : Surfaces \cup {None}, rest : SUBSET Keyboards, list : SUBSET Keyboards]
    BY <1>4 DEF KbOK
  <2>2. CASE taken.focus = None /\ taken.list = {}
    BY <2>1, <2>2, MoveKeepsOrder
  <2>3. CASE ~(taken.focus = None /\ taken.list = {})
    BY <1>4, <2>3
  <2> QED BY <2>2, <2>3
<1> HIDE DEF final, taken
<1> QED BY <1>1, <1>4, <1>5, BecomesInOrder

(* Every step leaves the keyboard in order. *)
LEMMA KeyboardStep ==
    ASSUME SeatAssumption, KbOK(Kb), KbTypes, [Next]_vars
    PROVE  KbOK(Kb)'
<1>1. CASE UNCHANGED kbVars
  BY <1>1 DEF KbOK, Kb, kbVars
<1>2. ASSUME NEW s \in Surfaces, CreateSurface(s) PROVE KbOK(Kb)'
  BY <1>2, CheckFocusKeepsOrder, BecomesInOrder DEF CreateSurface
<1>3. ASSUME NEW s \in Surfaces, GetXdgSurface(s) PROVE KbOK(Kb)'
  BY <1>3, CheckFocusKeepsOrder, BecomesInOrder DEF GetXdgSurface
<1>4. ASSUME NEW s \in Surfaces, SetFocus(s) PROVE KbOK(Kb)'
  BY <1>4, SetFocusKeepsOrder, BecomesInOrder DEF SetFocus
<1>5. ASSUME NEW s \in Surfaces, NEW hit, NEW byClient, DestroySurface(s, hit, byClient)
      PROVE  KbOK(Kb)'
  <2>1. kbRest' = kbRest /\ kbList' = kbList /\ kbFocus' \in {kbFocus, None}
    BY <1>5 DEF DestroySurface
  <2> QED BY <2>1 DEF KbOK, Kb
<1>6. ASSUME NEW s \in Surfaces \cup {None}, TouchDown(s) PROVE KbOK(Kb)'
  <2>1. tcFocus' \in Surfaces \cup {None} /\ Becomes(KeyboardSetFocus(Kb, tcFocus'))
    BY <1>6 DEF TouchDown, KbTypes
  <2> QED BY <2>1, SetFocusKeepsOrder, BecomesInOrder
<1>7. CASE PointerButton
  <2>1. ptFocus \in Surfaces \cup {None} /\ Becomes(KeyboardSetFocus(Kb, ptFocus))
    BY <1>7 DEF PointerButton, KbTypes
  <2> QED BY <2>1, SetFocusKeepsOrder, BecomesInOrder
<1>8. ASSUME NEW k \in Keyboards, GetKeyboard(k) PROVE KbOK(Kb)'
  BY <1>8, GetKeyboardKeepsOrder
<1>9. ASSUME NEW k \in Keyboards, ReleaseKeyboard(k) PROVE KbOK(Kb)'
  BY <1>9 DEF ReleaseKeyboard, KbOK, Kb, Of
<1>10. ASSUME NEW s \in Surfaces \cup {None}, PointerEnter(s) \/ PointerMove(s) PROVE KbOK(Kb)'
  <2>1. UNCHANGED kbVars
    BY <1>10 DEF PointerEnter, PointerMove
  <2> QED BY <1>1, <2>1
<1>11. CASE PointerLeave
  <2>1. UNCHANGED kbVars
    BY <1>11 DEF PointerLeave
  <2> QED BY <1>1, <2>1
<1>12. ASSUME NEW p \in Pointers, NEW s \in Surfaces \cup {None},
              GetPointer(p) \/ ReleasePointer(p) \/ GetPointerInside(p, s) \/ SetCursor(p, s)
       PROVE  KbOK(Kb)'
  <2>1. UNCHANGED kbVars
    BY <1>12 DEF GetPointer, ReleasePointer, GetPointerInside, SetCursor
  <2> QED BY <1>1, <2>1
<1>13. CASE UNCHANGED vars
  BY <1>1, <1>13 DEF vars
<1> QED BY <1>2, <1>3, <1>4, <1>5, <1>6, <1>7, <1>8, <1>9, <1>10, <1>11, <1>12, <1>13 DEF Next

-----------------------------------------------------------------------------
(***************************************************************************)
(* The pointer.                                                            *)
(***************************************************************************)

PtTypes ==
    /\ {ptFocus, cursor} \subseteq Surfaces \cup {None}
    /\ ptRest \subseteq Pointers /\ ptList \subseteq Pointers \ ptRest
    /\ believes \in [Pointers -> Surfaces \cup {None}]

(* A change of the pointer's focus to a surface or to none keeps its types, tells *)
(* every wl_pointer consistently, and shows no cursor that was not shown.         *)
LEMMA PointerSetFocusStep ==
    ASSUME SeatAssumption, PtTypes, EnterMatchesLeave,
           NEW s \in Surfaces \cup {None}, PointerSetFocus(s)
    PROVE  /\ PtTypes' /\ EnterMatchesLeave'
           /\ ptFocus' = s /\ cursor' \in {cursor, None}
<1>1. CASE ptFocus = s
  BY <1>1 DEF PointerSetFocus, PtTypes, EnterMatchesLeave
<1>2. CASE ptFocus # s /\ s = None
  BY <1>2 DEF PointerSetFocus, PtTypes, EnterMatchesLeave, Told
<1>3. CASE ptFocus # s /\ s # None
  <2>1. MovedPointers(s) \subseteq ptRest \cup ptList
    BY DEF MovedPointers, Of
  <2> QED BY <1>3, <2>1 DEF PointerSetFocus, PtTypes, EnterMatchesLeave, Told
<1> QED BY <1>1, <1>2, <1>3

(* What is needed of the pointer when another action than its own handlers runs. *)
LEMMA PointerUnchanged ==
    ASSUME PtTypes, EnterMatchesLeave, UNCHANGED ptVars
    PROVE  PtTypes' /\ EnterMatchesLeave' /\ ptFocus' = ptFocus /\ cursor' = cursor
BY DEF PtTypes, EnterMatchesLeave, ptVars

(* The display above says that the pointer enters or leaves a surface. *)
LEMMA EnterStep ==
    ASSUME SeatAssumption, PtTypes, EnterMatchesLeave, alive \subseteq Surfaces,
           NEW s \in Surfaces \cup {None}, PointerEnter(s)
    PROVE  /\ PtTypes' /\ EnterMatchesLeave'
           /\ ptFocus' \in alive \cup {None} /\ cursor' \in {cursor, None}
<1>1. s \in alive \cup {None}
  BY DEF PointerEnter, Hits
<1>2. CASE repeater
  <2>1. MovedPointers(s) \subseteq ptRest \cup ptList /\ s \in Surfaces
    BY <1>2 DEF MovedPointers, Of, PointerEnter
  <2> QED BY <1>2, <2>1, <1>1 DEF PointerEnter, PtTypes, EnterMatchesLeave, SeatAssumption
<1>3. CASE ~repeater
  BY <1>1, <1>3, PointerSetFocusStep DEF PointerEnter
<1> QED BY <1>2, <1>3

LEMMA LeaveStep ==
    ASSUME SeatAssumption, PtTypes, EnterMatchesLeave, PointerLeave
    PROVE  /\ PtTypes' /\ EnterMatchesLeave'
           /\ ptFocus' = None /\ cursor' \in {cursor, None}
<1>1. CASE repeater
  BY <1>1 DEF PointerLeave, PtTypes, EnterMatchesLeave, Told
<1>2. CASE ~repeater
  BY <1>2, PointerSetFocusStep DEF PointerLeave
<1> QED BY <1>1, <1>2

(* A client gets a wl_pointer while the pointer is inside the display. *)
LEMMA GetInsideStep ==
    ASSUME SeatAssumption, PtTypes, EnterMatchesLeave, alive \subseteq Surfaces,
           NEW p \in Pointers, NEW s \in Surfaces \cup {None}, GetPointerInside(p, s)
    PROVE  /\ PtTypes' /\ EnterMatchesLeave'
           /\ ptFocus' \in alive \cup {None} /\ cursor' \in {cursor, None}
<1> DEFINE rest == ptRest \cup {p}
           moved == IF s = None THEN {} ELSE Of(ClientOf[s], rest \cup ptList)
<1>1. /\ p \notin ptRest \cup ptList /\ s \in alive \cup {None} /\ ptFocus # s
      /\ ptFocus' = s /\ cursor' \in {cursor, None}
      /\ ptList' = IF s = None THEN ptList ELSE moved
      /\ ptRest' = IF s = None THEN rest ELSE (rest \cup ptList) \ moved
      /\ believes' = Told(s, moved)
  BY DEF GetPointerInside, Hits
<1>2. moved \subseteq rest \cup ptList
  BY DEF Of
<1> HIDE DEF moved
<1>3. PtTypes'
  BY <1>1, <1>2 DEF PtTypes, Told
<1>4. EnterMatchesLeave'
  BY <1>1, <1>2, <1>3 DEF PtTypes, Told, EnterMatchesLeave
<1> QED BY <1>1, <1>3, <1>4

(* A surface is destroyed.  What the pointers are told of it is looked at for the *)
(* focus that is left and for the one that is found where the pointer was last.   *)
LEMMA DestroyStep ==
    ASSUME SeatAssumption, PtTypes, EnterMatchesLeave, alive \subseteq Surfaces,
           ptFocus \in alive \cup {None}, cursor \in alive \cup {None},
           NEW s \in Surfaces, NEW hit \in Surfaces \cup {None}, NEW byClient,
           DestroySurface(s, hit, byClient)
    PROVE  /\ PtTypes' /\ EnterMatchesLeave'
           /\ ptFocus' \in alive' \cup {None} /\ cursor' \in alive' \cup {None}
<1> DEFINE out == [p \in Pointers |-> IF believes[p] = s THEN None ELSE believes[p]]
           shown == IF cursor = s \/ ptFocus = s THEN None ELSE cursor
           focus == IF ptFocus = s THEN None ELSE ptFocus
           moves == ~repeater /\ hit # focus
           list == IF hit = None THEN {} ELSE MovedPointers(hit)
<1>1. /\ alive' = alive \ {s} /\ hit \in alive' \cup {None}
      /\ ptFocus' = IF moves THEN hit ELSE focus
      /\ cursor' \in {shown, None}
      /\ IF moves /\ hit # None
         THEN ptList' = list /\ ptRest' = (ptRest \cup ptList) \ list
         ELSE ptRest' = ptRest /\ ptList' = ptList
      /\ believes' = [p \in Pointers |->
                        IF moves /\ p \in list THEN hit
                        ELSE IF moves /\ focus # None /\ p \in ptList THEN None
                        ELSE out[p]]
  BY DEF DestroySurface, Hits
<1>2. list \subseteq ptRest \cup ptList
  BY DEF MovedPointers, Of
<1>3. \A p \in Pointers : out[p] = IF focus # None /\ p \in ptList THEN focus ELSE None
  BY DEF EnterMatchesLeave
<1>4. focus \in alive' \cup {None} /\ shown \in alive' \cup {None}
  BY <1>1
<1>5. out \in [Pointers -> Surfaces \cup {None}]
  BY DEF PtTypes
<1> HIDE DEF list, out, focus, shown, moves
<1>6. ptFocus' \in alive' \cup {None} /\ cursor' \in alive' \cup {None}
  BY <1>1, <1>4
<1>7. PtTypes'
  BY <1>1, <1>2, <1>5, <1>6 DEF PtTypes
<1>8. CASE moves /\ hit # None
  BY <1>1, <1>2, <1>3, <1>6, <1>7, <1>8 DEF EnterMatchesLeave
<1>9. CASE moves /\ hit = None
  <2>1. list = {}
    BY <1>9 DEF list
  <2> QED BY <1>1, <2>1, <1>3, <1>6, <1>7, <1>9 DEF EnterMatchesLeave
<1>10. CASE ~moves
  BY <1>1, <1>3, <1>6, <1>7, <1>10 DEF EnterMatchesLeave
<1> QED BY <1>6, <1>7, <1>8, <1>9, <1>10

-----------------------------------------------------------------------------
(***************************************************************************)
(* The invariant and the theorems.                                         *)
(***************************************************************************)

SeatInv ==
    /\ TypeOK
    /\ KbOK(Kb)
    /\ FocusIsLive
    /\ EnterMatchesLeave

LEMMA SeatInit ==
    ASSUME SeatAssumption, Init
    PROVE  SeatInv
BY DEF Init, SeatInv, TypeOK, Roles, Kb, KbOK, FocusIsLive, EnterMatchesLeave, SeatAssumption

(* The parts of the invariant that the lemmas of the devices use. *)
LEMMA SeatParts ==
    ASSUME SeatInv
    PROVE  /\ KbTypes /\ PtTypes /\ KbOK(Kb) /\ EnterMatchesLeave
           /\ {kbFocus, ptFocus, tcFocus, cursor} \subseteq alive \cup {None}
           /\ \A c \in Clients : latest[c] \in alive \cup {None}
BY DEF SeatInv, TypeOK, KbTypes, PtTypes, FocusIsLive

(* The surfaces, their roles and the record of clients. *)
SurfaceTypes ==
    /\ repeater \in BOOLEAN
    /\ alive \subseteq Surfaces
    /\ role \in [Surfaces -> Roles]
    /\ latest \in [Clients -> Surfaces \cup {None}]

(* A step keeps the invariant if it keeps its parts. *)
LEMMA SeatFromParts ==
    ASSUME SurfaceTypes', KbOK(Kb)', PtTypes', EnterMatchesLeave', entered' \in BOOLEAN,
           {kbFocus, ptFocus, tcFocus, cursor}' \subseteq alive' \cup {None},
           \A c \in Clients : latest'[c] \in alive' \cup {None}
    PROVE  SeatInv'
<1>1. kbRest' \subseteq Keyboards /\ kbList' \subseteq Keyboards \ kbRest'
  BY DEF KbOK, Kb
<1>2. TypeOK'
  BY <1>1 DEF TypeOK, SurfaceTypes, PtTypes
<1> QED BY <1>2 DEF SeatInv, FocusIsLive

(* Every step keeps the invariant. *)
LEMMA SeatStep ==
    ASSUME SeatAssumption, SeatInv, [Next]_vars
    PROVE  SeatInv'
<1>1. /\ KbTypes /\ PtTypes /\ KbOK(Kb) /\ EnterMatchesLeave
      /\ {kbFocus, ptFocus, tcFocus, cursor} \subseteq alive \cup {None}
      /\ \A c \in Clients : latest[c] \in alive \cup {None}
  BY SeatParts
<1>2. KbOK(Kb)'
  BY <1>1, KeyboardStep
<1>3. SurfaceTypes /\ entered \in BOOLEAN /\ alive \subseteq Surfaces
  BY DEF SeatInv, TypeOK, SurfaceTypes
<1> DEFINE LatestLive == \A c \in Clients : latest[c] \in alive \cup {None}
<1>4. ASSUME NEW s \in Surfaces, CreateSurface(s) PROVE SeatInv'
  <2>1. kbFocus' \in {kbFocus, s}
    BY <1>1, <1>4, CheckFocusKeepsOrder, BecomesInOrder DEF CreateSurface, Kb
  <2>2. SurfaceTypes' /\ entered' \in BOOLEAN /\ LatestLive'
    BY <1>1, <1>3, <1>4 DEF CreateSurface, SurfaceTypes, ptVars
  <2>3. PtTypes' /\ EnterMatchesLeave' /\ ptFocus' = ptFocus /\ cursor' = cursor
    BY <1>1, <1>4, PointerUnchanged DEF CreateSurface
  <2>4. tcFocus' = tcFocus /\ alive' = alive \cup {s}
    BY <1>4 DEF CreateSurface
  <2> QED BY <1>1, <1>2, <2>1, <2>2, <2>3, <2>4, SeatFromParts
<1>5. ASSUME NEW s \in Surfaces, GetXdgSurface(s) PROVE SeatInv'
  <2>1. kbFocus' \in {kbFocus, s}
    BY <1>1, <1>5, CheckFocusKeepsOrder, BecomesInOrder DEF GetXdgSurface, Kb
  <2>2. SurfaceTypes' /\ entered' \in BOOLEAN /\ LatestLive'
    BY <1>1, <1>3, <1>5 DEF GetXdgSurface, SurfaceTypes, ptVars, Roles
  <2>3. PtTypes' /\ EnterMatchesLeave' /\ ptFocus' = ptFocus /\ cursor' = cursor
    BY <1>1, <1>5, PointerUnchanged DEF GetXdgSurface
  <2>4. tcFocus' = tcFocus /\ alive' = alive /\ s \in alive
    BY <1>5 DEF GetXdgSurface
  <2> QED BY <1>1, <1>2, <2>1, <2>2, <2>3, <2>4, SeatFromParts
<1>6. ASSUME UNCHANGED surfaceVars, UNCHANGED ptVars, tcFocus' = tcFocus,
             kbFocus' \in alive \cup {None}
      PROVE  SeatInv'
  <2>1. SurfaceTypes' /\ entered' \in BOOLEAN /\ LatestLive' /\ alive' = alive
    BY <1>1, <1>3, <1>6 DEF surfaceVars, SurfaceTypes, ptVars
  <2>2. PtTypes' /\ EnterMatchesLeave' /\ ptFocus' = ptFocus /\ cursor' = cursor
    BY <1>1, <1>6, PointerUnchanged
  <2> QED BY <1>1, <1>2, <1>6, <2>1, <2>2, SeatFromParts
<1>7. ASSUME NEW s \in Surfaces, SetFocus(s) PROVE SeatInv'
  <2>1. kbFocus' \in {kbFocus, s} /\ s \in alive
    BY <1>1, <1>7, SetFocusKeepsOrder, BecomesInOrder DEF SetFocus, Kb
  <2> QED BY <1>1, <1>6, <1>7, <2>1 DEF SetFocus
<1>8. CASE PointerButton
  <2>1. ptFocus \in Surfaces
    BY <1>1, <1>3, <1>8 DEF PointerButton, PtTypes
  <2>2. kbFocus' \in {kbFocus, ptFocus}
    BY <1>1, <1>8, <2>1, SetFocusKeepsOrder, BecomesInOrder DEF PointerButton, Kb
  <2> QED BY <1>1, <1>6, <1>8, <2>2 DEF PointerButton
<1>9. ASSUME NEW k \in Keyboards, GetKeyboard(k) PROVE SeatInv'
  <2>1. kbFocus' \in {kbFocus, latest[ClientOf[k]]}
    BY <1>1, <1>9, GetKeyboardKeepsOrder
  <2>2. ClientOf[k] \in Clients
    BY DEF Clients, SeatAssumption
  <2> QED BY <1>1, <1>6, <1>9, <2>1, <2>2 DEF GetKeyboard
<1>10. ASSUME NEW k \in Keyboards, ReleaseKeyboard(k) PROVE SeatInv'
  BY <1>1, <1>6, <1>10 DEF ReleaseKeyboard
<1>11. ASSUME NEW s \in Surfaces \cup {None}, TouchDown(s) PROVE SeatInv'
  <2>1. /\ tcFocus' \in (alive \cup {None}) \ {None}
        /\ UNCHANGED surfaceVars /\ UNCHANGED ptVars
        /\ Becomes(KeyboardSetFocus(Kb, tcFocus'))
    BY <1>1, <1>11 DEF TouchDown, Hits
  <2>2. kbFocus' \in {kbFocus, tcFocus'}
    <3>1. tcFocus' \in Surfaces \cup {None}
      BY <1>3, <2>1
    <3> QED BY <1>1, <2>1, <3>1, SetFocusKeepsOrder, BecomesInOrder DEF Kb
  <2>3. SurfaceTypes' /\ entered' \in BOOLEAN /\ LatestLive' /\ alive' = alive
    BY <1>1, <1>3, <2>1 DEF surfaceVars, SurfaceTypes, ptVars
  <2>4. PtTypes' /\ EnterMatchesLeave' /\ ptFocus' = ptFocus /\ cursor' = cursor
    BY <1>1, <2>1, PointerUnchanged
  <2> QED BY <1>1, <1>2, <2>1, <2>2, <2>3, <2>4, SeatFromParts
<1>12. ASSUME UNCHANGED <<repeater, alive, latest>>, role' \in [Surfaces -> Roles],
              entered' \in BOOLEAN, tcFocus' = tcFocus, kbFocus' = kbFocus,
              PtTypes', EnterMatchesLeave', {ptFocus, cursor}' \subseteq alive \cup {None}
       PROVE  SeatInv'
  <2>1. SurfaceTypes' /\ LatestLive'
    BY <1>1, <1>3, <1>12 DEF SurfaceTypes
  <2> QED BY <1>1, <1>2, <1>12, <2>1, SeatFromParts
<1>13. ASSUME NEW s \in Surfaces \cup {None}, PointerEnter(s) PROVE SeatInv'
  <2>1. /\ PtTypes' /\ EnterMatchesLeave'
        /\ ptFocus' \in alive \cup {None} /\ cursor' \in {cursor, None}
    BY <1>1, <1>3, <1>13, EnterStep
  <2> QED BY <1>1, <1>3, <1>12, <1>13, <2>1
          DEF PointerEnter, surfaceVars, kbVars, SurfaceTypes
<1>14. ASSUME NEW s \in Surfaces \cup {None}, PointerMove(s) PROVE SeatInv'
  <2>1. s \in alive \cup {None}
    BY <1>14 DEF PointerMove, Hits
  <2>2. PtTypes' /\ EnterMatchesLeave' /\ ptFocus' = s /\ cursor' \in {cursor, None}
    BY <1>1, <1>14, PointerSetFocusStep DEF PointerMove
  <2> QED BY <1>1, <1>3, <1>12, <1>14, <2>1, <2>2
          DEF PointerMove, surfaceVars, kbVars, SurfaceTypes
<1>15. CASE PointerLeave
  <2>1. PtTypes' /\ EnterMatchesLeave' /\ ptFocus' = None /\ cursor' \in {cursor, None}
    BY <1>1, <1>15, LeaveStep
  <2> QED BY <1>1, <1>3, <1>12, <1>15, <2>1
          DEF PointerLeave, surfaceVars, kbVars, SurfaceTypes
<1>16. ASSUME NEW p \in Pointers, GetPointer(p) PROVE SeatInv'
  <2>1. PtTypes' /\ EnterMatchesLeave' /\ ptFocus' = ptFocus /\ cursor' = cursor
    BY <1>1, <1>16 DEF GetPointer, PtTypes, EnterMatchesLeave
  <2> QED BY <1>1, <1>3, <1>12, <1>16, <2>1
          DEF GetPointer, surfaceVars, kbVars, SurfaceTypes
<1>17. ASSUME NEW p \in Pointers, ReleasePointer(p) PROVE SeatInv'
  <2>1. PtTypes' /\ EnterMatchesLeave' /\ ptFocus' = ptFocus /\ cursor' = cursor
    BY <1>1, <1>17 DEF ReleasePointer, PtTypes, EnterMatchesLeave
  <2> QED BY <1>1, <1>3, <1>12, <1>17, <2>1
          DEF ReleasePointer, surfaceVars, kbVars, SurfaceTypes
<1>18. ASSUME NEW p \in Pointers, NEW s \in Surfaces \cup {None}, GetPointerInside(p, s)
       PROVE  SeatInv'
  <2>1. /\ PtTypes' /\ EnterMatchesLeave'
        /\ ptFocus' \in alive \cup {None} /\ cursor' \in {cursor, None}
    BY <1>1, <1>3, <1>18, GetInsideStep
  <2> QED BY <1>1, <1>3, <1>12, <1>18, <2>1
          DEF GetPointerInside, surfaceVars, kbVars, SurfaceTypes
<1>19. ASSUME NEW p \in Pointers, NEW s \in Surfaces \cup {None}, SetCursor(p, s)
       PROVE  SeatInv'
  <2>1. /\ ptFocus' = ptFocus /\ cursor' \in {cursor, s} /\ s \in alive \cup {None}
        /\ UNCHANGED <<ptRest, ptList, believes, entered, tcFocus, repeater, alive, latest>>
        /\ kbFocus' = kbFocus
    BY <1>19 DEF SetCursor, kbVars
  <2>2. PtTypes' /\ EnterMatchesLeave'
    BY <1>1, <1>3, <2>1 DEF PtTypes, EnterMatchesLeave
  <2>3. role' \in [Surfaces -> Roles]
    BY <1>3, <1>19 DEF SetCursor, SurfaceTypes, Roles
  <2> QED BY <1>1, <1>3, <1>12, <2>1, <2>2, <2>3
<1>20. ASSUME NEW s \in Surfaces, NEW hit \in Surfaces \cup {None}, NEW byClient \in BOOLEAN,
              DestroySurface(s, hit, byClient)
       PROVE  SeatInv'
  <2>1. /\ PtTypes' /\ EnterMatchesLeave'
        /\ ptFocus' \in alive' \cup {None} /\ cursor' \in alive' \cup {None}
    BY <1>1, <1>3, <1>20, DestroyStep
  <2>2. /\ alive' = alive \ {s} /\ role' = [role EXCEPT ![s] = "none"]
        /\ latest' = ForgetLatest(s, byClient)
        /\ kbFocus' \in (alive' \cup {None}) /\ tcFocus' \in (alive' \cup {None})
        /\ repeater' = repeater /\ entered' = entered
    BY <1>1, <1>20 DEF DestroySurface
  <2>3. SurfaceTypes' /\ LatestLive'
    BY <1>1, <1>3, <2>2 DEF SurfaceTypes, ForgetLatest, Roles
  <2> QED BY <1>2, <1>3, <2>1, <2>2, <2>3, SeatFromParts
<1>21. CASE UNCHANGED vars
  BY <1>1, <1>6, <1>21 DEF vars, kbVars
<1> HIDE DEF LatestLive
<1> QED BY <1>4, <1>5, <1>7, <1>8, <1>9, <1>10, <1>11, <1>13, <1>14, <1>15, <1>16, <1>17,
           <1>18, <1>19, <1>20, <1>21 DEF Next

LEMMA SeatAlways == Spec => []SeatInv
<1>1. Init => SeatInv
  BY SeatInit, SeatAssumption
<1>2. SeatInv /\ [Next]_vars => SeatInv'
  BY SeatStep, SeatAssumption
<1> QED BY <1>1, <1>2, PTL DEF Spec

(* Every variable of the seat keeps its type; an object is in one list of its      *)
(* device at most.                                                                 *)
THEOREM TypeCorrect == Spec => []TypeOK
<1>1. SeatInv => TypeOK
  BY DEF SeatInv
<1> QED BY <1>1, SeatAlways, PTL

(* wstSurfaceDestroy, the destroy request and a lost client leave no focus, cursor *)
(* or client record that names a surface that is gone, however many there are.     *)
THEOREM FocusLive == Spec => []FocusIsLive
<1>1. SeatInv => FocusIsLive
  BY DEF SeatInv
<1> QED BY <1>1, SeatAlways, PTL

(* The keys follow the focus through wstKeyboardSetFocus, wstKeyboardCheckFocus    *)
(* and wstISeatGetKeyboard.                                                        *)
THEOREM KeysFollow == Spec => []KeysFollowFocus
<1>1. SeatInv => KeysFollowFocus
  BY DEF SeatInv, KbOK, Kb, KeysFollowFocus
<1> QED BY <1>1, SeatAlways, PTL

(* Every wl_pointer is told enter and leave in turn and is believed to be where it *)
(* is, through every handler that moves the pointer's focus.                       *)
THEOREM EntersMatch == Spec => []EnterMatchesLeave
<1>1. SeatInv => EnterMatchesLeave
  BY DEF SeatInv
<1> QED BY <1>1, SeatAlways, PTL

=============================================================================
