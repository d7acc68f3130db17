---------------------------- MODULE MCSeatFocus ----------------------------
(***************************************************************************)
(* SeatFocus with two clients: A with two surfaces, two keyboards and two  *)
(* pointers, B with one of each.                                           *)
(***************************************************************************)
EXTENDS SeatFocus, TLC

CONSTANTS A, B, sA1, sA2, sB, kA1, kA2, kB, pA1, pA2, pB

MCClientOf ==
    [x \in Surfaces \cup Keyboards \cup Pointers |->
        IF x \in {sB, kB, pB} THEN B ELSE A]

MCSymmetry ==
    Permutations({sA1, sA2}) \cup Permutations({kA1, kA2}) \cup Permutations({pA1, pA2})

=============================================================================
