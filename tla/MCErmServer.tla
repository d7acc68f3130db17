---------------------------- MODULE MCErmServer ----------------------------
(***************************************************************************)
(* ErmServer with up to two video decoders, one of them limited in         *)
(* quality, and a front end; all clients belong to one application.        *)
(***************************************************************************)
EXTENDS ErmServer

CONSTANTS c1, c2, c3, v1, v2, f1, app1

MCAppOf == [c \in Conns |-> app1]

MCSymmetry == Permutations(Conns)

Decoder(bits) == [capabilities |-> bits, criteriaMask |-> {1, 2, 4},
                  maxWidth |-> 0, maxHeight |-> 0]
FrontEnd == [capabilities |-> {}, criteriaMask |-> {}, maxWidth |-> 0, maxHeight |-> 0]

MCConfig == [r \in Items |-> IF r = v1 THEN Decoder({2})
                             ELSE IF r = v2 THEN Decoder({}) ELSE FrontEnd]

MCItemsOf == [t \in Types |->
                CASE t = "videoDecoder" -> SelectSeq(<<v1, v2>>, LAMBDA r : r \in Items)
                  [] t = "frontEnd" -> SelectSeq(<<f1>>, LAMBDA r : r \in Items)
                  [] OTHER -> <<>>]

MCPoolItems == [t \in Types |-> 2]
MCSmallPool == [t \in Types |-> 1]

\* No decoder here is limited in size, so the size of a request is not looked
\* at; with this one it is also read as it was sent.
Usage(bits) == [bits |-> bits, maxWidth |-> InfoLen, maxHeight |-> InfoLen]
MCUsages == {Usage({}), Usage({2})}
MCUsage == {Usage({})}

=============================================================================
