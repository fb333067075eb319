-------------------------------- MODULE MCMesh --------------------------------
(* RHMesh for TLC.                                                           *)
EXTENDS RHMesh

\* The networks on which frames get lost, or two nodes look for each other, or one
\* node sends alone.
Chosen ==
    {[network |-> w, lossy |-> TRUE, senders |-> {1}] : w \in {1, 4}}
        \cup {[network |-> w, lossy |-> FALSE, senders |-> {1}] : w \in 1 .. 4}
        \cup {[network |-> 1, lossy |-> FALSE, senders |-> {1, 4}]}

\* Node 2 looks for one neighbour after the other.
Late == {[network |-> 1, lossy |-> TRUE, senders |-> {2}]}
=============================================================================
