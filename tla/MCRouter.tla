------------------------------- MODULE MCRouter -------------------------------
(***************************************************************************)
(* RHRouter for TLC: four nodes in a row, wired as the sketches            *)
(* rf95_router_address1 to 4 do it in setup(), or wrongly.                 *)
(***************************************************************************)
EXTENDS RHRouter

FourNodes == 1 .. 4

Setup1 == [NoRoutes EXCEPT ![2] = 2, ![3] = 2, ![4] = 2]
Setup2 == [NoRoutes EXCEPT ![1] = 1, ![3] = 3, ![4] = 3]
Setup3 == [NoRoutes EXCEPT ![1] = 2, ![2] = 2, ![4] = 4]
Setup4 == [NoRoutes EXCEPT ![1] = 3, ![2] = 3, ![3] = 3]

Sketches == [n \in Node |-> CASE n = 1 -> Setup1 [] n = 2 -> Setup2 [] n = 3 -> Setup3 [] n = 4 -> Setup4]

\* Routes to node 4 that lead anywhere, or nowhere.
Wrong ==
    {[n \in Node |-> IF n = 4 THEN NoRoutes ELSE [NoRoutes EXCEPT ![4] = hop[n]]] :
        hop \in [Node \ {4} -> {2, 3, None}]}

Wired == {Sketches} \cup Wrong

BothEnds == {[network |-> 1, lossy |-> TRUE, senders |-> {1, 4}]}
=============================================================================
