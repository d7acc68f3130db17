----------------------------- MODULE VideoLoan -----------------------------
(***************************************************************************)
(* What the video server promises a client about each of its buffers: a    *)
(* buffer is lent by sending it, may be put on the screen while it is      *)
(* lent, and comes back only when it is neither the picture shown nor the  *)
(* one shown before it, which the display may still be reading.            *)
(***************************************************************************)
CONSTANTS Conns, Buffers, NoBuffer

VARIABLES
  lent,     \* lent[c]: the buffers of client c that the server has
  current,  \* current[c]: the buffer on the screen, or NoBuffer
  previous  \* previous[c]: the one on the screen before it

vars == <<lent, current, previous>>

Init ==
  /\ lent = [c \in Conns |-> {}]
  /\ current = [c \in Conns |-> NoBuffer]
  /\ previous = [c \in Conns |-> NoBuffer]

Lend(c, b) ==
  /\ b \notin lent[c]
  /\ lent' = [lent EXCEPT ![c] = @ \cup {b}]
  /\ UNCHANGED <<current, previous>>

\* Several buffers at once, as a flush does.
GiveBack(c, S) ==
  /\ S \cap {current[c], previous[c]} = {}
  /\ lent' = [lent EXCEPT ![c] = @ \ S]

Return(c, S) == GiveBack(c, S) /\ UNCHANGED <<current, previous>>

Show(c, b) ==
  /\ b \in lent[c]
  /\ current' = [current EXCEPT ![c] = b]
  /\ previous' = [previous EXCEPT ![c] = current[c]]
  /\ UNCHANGED lent

\* The connection ends: its picture is taken off the screen.
Blank(c, S) ==
  /\ GiveBack(c, S)
  /\ current' = [current EXCEPT ![c] = NoBuffer]
  /\ previous' = [previous EXCEPT ![c] = NoBuffer]

Next ==
  \E c \in Conns :
    \/ \E b \in Buffers : Lend(c, b) \/ Show(c, b)
    \/ \E S \in SUBSET Buffers : Return(c, S) \/ Blank(c, S)

Spec == Init /\ [][Next]_vars

=============================================================================
