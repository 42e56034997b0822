----------------------------- MODULE MCSigning ------------------------------
(* A small instance of Signing.  One chunk shows nothing outside expert    *)
(* mode and more items than can be counted in it; two chunks have pages in *)
(* either mode.                                                            *)
EXTENDS Signing, TLC

CONSTANT a

Plain(n) == [hard |-> FALSE, index |-> n]
Hard(n) == [hard |-> TRUE, index |-> n]
PathOf(first, index) ==
  [i \in 0 .. 4 |-> <<Hard(first), Hard(931), Hard(0), Plain(0), Plain(index)>>[i + 1]]

MCPaths == {PathOf(44, 0)}
MCChunks == {<<a>>, <<a, a>>}
MCLayouts == {<<>>, <<2>>, <<1, 1, 1>>}

MCLayoutOf ==
  [e \in BOOLEAN |->
     (<<a>> :> IF e THEN <<1, 1, 1>> ELSE <<>>) @@ (<<a, a>> :> <<2>>)]
MCValid == [e \in BOOLEAN |-> DOMAIN MCLayoutOf[e]]
=============================================================================
