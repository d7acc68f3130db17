--------------------------- MODULE MCVideoServer ---------------------------
(***************************************************************************)
(* VideoServer with clients whose buffers are interchangeable, and clients *)
(* that are.                                                               *)
(***************************************************************************)
EXTENDS VideoServer, TLC

MCSymmetry == Permutations(Buffers)
MCBothSymmetry == Permutations(Buffers) \cup Permutations(Conns)

=============================================================================
