-------------------------- MODULE MCReliableDatagram --------------------------
(***************************************************************************)
(* RHReliableDatagram for TLC.                                             *)
(***************************************************************************)
EXTENDS RHReliableDatagram, TLC

CONSTANTS a, b, c

TwoNodes   == {a, b}
OnlyA      == {a}
ThreeNodes == {a, b, c}

\* Nodes run the same code, so any permutation of them is a symmetry.
Symmetry == Permutations(Node)

\* Of the MaxSends messages a node may send, three in all are looked at.
FewSends == sent[a] + sent[b] <= 3
=============================================================================
