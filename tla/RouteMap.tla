------------------------------- MODULE RouteMap -------------------------------
(***************************************************************************)
(* What the routing table of RHRouter is to its users: a map from          *)
(* destinations to routes that holds at most Capacity of them.  A new      *)
(* route is lost never, an old one only when the map is full.              *)
(***************************************************************************)
EXTENDS Naturals, FiniteSets

CONSTANTS Address,    \* node addresses
          NextHop,    \* the addresses used as next hops
          RouteState, \* the states of a route, "Invalid" being no route
          Capacity,   \* RH_ROUTING_TABLE_SIZE
          NoRoute     \* getRouteTo() returned NULL

VARIABLE table        \* destination -> route

Route == [next_hop : NextHop, state : RouteState \ {"Invalid"}]

\* The destinations that have a route.
Reachable == {d \in Address : table[d] # NoRoute}

Init == table = [d \in Address |-> NoRoute]

\* What d maps to after addRouteTo(d, h, s).
NewRoute(h, s) == IF s = "Invalid" THEN NoRoute ELSE [next_hop |-> h, state |-> s]

Add(d, h, s) ==
    \/ /\ d \in Reachable \/ Cardinality(Reachable) < Capacity
       /\ table' = [table EXCEPT ![d] = NewRoute(h, s)]
    \/ /\ d \notin Reachable
       /\ Cardinality(Reachable) = Capacity
       /\ \E e \in Reachable :
             table' = [table EXCEPT ![e] = NoRoute, ![d] = NewRoute(h, s)]

Delete(d) == table' = [table EXCEPT ![d] = NoRoute]

Retire == \E e \in Reachable : Delete(e)

Clear == table' = [d \in Address |-> NoRoute]

Next ==
    \/ \E d \in Address, h \in NextHop, s \in RouteState : Add(d, h, s)
    \/ \E d \in Address : Delete(d)
    \/ Retire
    \/ Clear

Spec == Init /\ [][Next]_table
=============================================================================
