---------------------------- MODULE MCRoutingTable ----------------------------
(***************************************************************************)
(* RHRoutingTable for TLC.                                                 *)
(***************************************************************************)
EXTENDS RHRoutingTable, TLC

CONSTANTS zero, a, b, c

Addresses == {zero, a, b, c}
Hops      == {zero, a}

\* Only address 0 and the next hops stand out.
Symmetry == Permutations({b, c})
=============================================================================
