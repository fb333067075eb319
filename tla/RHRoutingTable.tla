---------------------------- MODULE RHRoutingTable ----------------------------
(***************************************************************************)
(* The routing table of RHRouter (RHRouter.cpp): an array of entries that  *)
(* is searched from the front, filled at the first Invalid entry, and      *)
(* shifted down when an entry is deleted.  Deleting leaves copies of the   *)
(* last entry behind, and no operation ever clears a destination.          *)
(*                                                                         *)
(* older and gaps are history variables: which of two routes in the table  *)
(* was made before the other, and whether entries were ever made Invalid   *)
(* where they stand, without being deleted.                                *)
(***************************************************************************)
EXTENDS Naturals, FiniteSets

CONSTANTS
    Address,       \* node addresses, destinations of routes
    NextHop,       \* the addresses used as next hops
    ZeroAddress,   \* address 0, which a table at rest is full of
    TableSize,     \* RH_ROUTING_TABLE_SIZE
    AddedStates,   \* the states sketches pass to addRouteTo()
    NoRoute        \* NULL

RouteState == {"Invalid", "Discovering", "Valid"}

ASSUME TableAssumption ==
    /\ NextHop \subseteq Address
    /\ ZeroAddress \in NextHop
    /\ TableSize \in Nat \ {0}
    /\ AddedStates \subseteq RouteState

Slot == 0 .. TableSize - 1

Entry == [dest : Address, next_hop : NextHop, state : RouteState]

ASSUME NoRouteAssumption == NoRoute \notin [next_hop : NextHop, state : RouteState]

VARIABLES
    routes,   \* _routes
    found,    \* what the last deleteRouteTo() returned
    older,    \* history: <<d, e>> where the route to d was made before that to e
    gaps      \* history: were entries made Invalid where they stand?

vars == <<routes, found, older, gaps>>

-----------------------------------------------------------------------------
(* The operations on a table t, as functions of it.                         *)

\* The slot a loop that starts at 0 stops at.
First(S) == CHOOSE i \in S : \A j \in S : i <= j

SlotsOf(t, d) == {i \in Slot : t[i].dest = d}
InvalidSlots(t) == {i \in Slot : t[i].state = "Invalid"}
LiveSlots(t, d) == SlotsOf(t, d) \ InvalidSlots(t)

\* getRouteTo()
GetRouteTo(t, d) ==
    IF LiveSlots(t, d) = {} THEN NoRoute
    ELSE LET i == First(LiveSlots(t, d))
         IN  [next_hop |-> t[i].next_hop, state |-> t[i].state]

HasRoute(t, d) == GetRouteTo(t, d) # NoRoute

\* Fault: the last entry stays as it was.
DeleteRouteKeepsLast(t, k) ==
    [i \in Slot |-> IF k <= i /\ i < TableSize - 1 THEN t[i + 1] ELSE t[i]]

(***************************************************************************)
(* deleteRoute(k): the entries behind k are copied one slot down, which    *)
(* memcpy() does in ascending order, and the last becomes Invalid.         *)
(***************************************************************************)
DeleteRoute(t, k) ==
    [i \in Slot |->
        IF i = TableSize - 1 THEN [t[i] EXCEPT !.state = "Invalid"]
        ELSE IF k <= i THEN t[i + 1] ELSE t[i]]

\* Fault: the newest route makes room.
RetireNewestRoute(t) == DeleteRoute(t, TableSize - 1)

\* retireOldestRoute()
RetireOldestRoute(t) == DeleteRoute(t, 0)

\* Fault: the entry the destination already has is not looked for.
AddWithoutUpdate(t, d, h, s) ==
    LET entry == [dest |-> d, next_hop |-> h, state |-> s]
    IN  IF InvalidSlots(t) # {}
        THEN [t EXCEPT ![First(InvalidSlots(t))] = entry]
        ELSE [RetireOldestRoute(t) EXCEPT ![TableSize - 1] = entry]

\* Fault: nothing makes room, and the entry goes behind the end of a full table.
AddPastTheEnd(t, d, h, s) ==
    LET entry == [dest |-> d, next_hop |-> h, state |-> s]
    IN  IF SlotsOf(t, d) # {} THEN [t EXCEPT ![First(SlotsOf(t, d))] = entry]
        ELSE IF InvalidSlots(t) # {} THEN [t EXCEPT ![First(InvalidSlots(t))] = entry]
        ELSE [i \in 0 .. TableSize |-> IF i = TableSize THEN entry ELSE t[i]]

(***************************************************************************)
(* addRouteTo(): the first entry of the destination is updated, in         *)
(* whatever state it is; else the first Invalid entry is used; else the    *)
(* oldest route is retired, and every entry then Invalid is filled.        *)
(***************************************************************************)
AddRouteTo(t, d, h, s) ==
    LET entry   == [dest |-> d, next_hop |-> h, state |-> s]
        retired == RetireOldestRoute(t)
    IN  IF SlotsOf(t, d) # {} THEN [t EXCEPT ![First(SlotsOf(t, d))] = entry]
        ELSE IF InvalidSlots(t) # {} THEN [t EXCEPT ![First(InvalidSlots(t))] = entry]
        ELSE [i \in Slot |-> IF i \in InvalidSlots(retired) THEN entry ELSE retired[i]]

\* deleteRouteTo(): the first entry of the destination, in whatever state.
DeleteRouteTo(t, d) ==
    IF SlotsOf(t, d) = {} THEN t ELSE DeleteRoute(t, First(SlotsOf(t, d)))

\* Fault: the loop ends one entry early.
ClearAllButLast(t) == [i \in Slot |-> IF i < TableSize - 1 THEN [t[i] EXCEPT !.state = "Invalid"] ELSE t[i]]

\* clearRoutingTable()
ClearRoutingTable(t) == [i \in Slot |-> [t[i] EXCEPT !.state = "Invalid"]]

-----------------------------------------------------------------------------
(* A table in use.                                                          *)

TypeOK ==
    /\ routes \in [Slot -> Entry]
    /\ found \in BOOLEAN
    /\ older \subseteq Address \X Address
    /\ gaps \in BOOLEAN

\* The managers have static storage: every entry starts as zeros.
Init ==
    /\ routes = [i \in Slot |-> [dest |-> ZeroAddress, next_hop |-> ZeroAddress,
                                 state |-> "Invalid"]]
    /\ found = FALSE
    /\ older = {}
    /\ gaps = FALSE

\* The table becomes t, and the history follows.
Become(t) ==
    LET has == {d \in Address : HasRoute(t, d)}
        had == {d \in Address : HasRoute(routes, d)}
    IN  /\ routes' = t
        /\ older' = (older \cap (has \X has)) \cup ((has \cap had) \X (has \ had))

Add(d, h, s) ==
    /\ Become(AddRouteTo(routes, d, h, s))
    /\ gaps' = (gaps \/ s = "Invalid")
    /\ UNCHANGED found

Delete(d) ==
    /\ Become(DeleteRouteTo(routes, d))
    /\ found' = (SlotsOf(routes, d) # {})
    /\ UNCHANGED gaps

Retire == Become(RetireOldestRoute(routes)) /\ UNCHANGED <<found, gaps>>

Clear ==
    /\ Become(ClearRoutingTable(routes))
    /\ gaps' = TRUE
    /\ UNCHANGED found

Next ==
    \/ \E d \in Address, h \in NextHop, s \in AddedStates : Add(d, h, s)
    \/ \E d \in Address : Delete(d)
    \/ Retire
    \/ Clear

Spec == Init /\ [][Next]_vars

-----------------------------------------------------------------------------
(* Properties.                                                              *)

(***************************************************************************)
(* Only the first entry of a destination can be a route: the searches of   *)
(* addRouteTo(), deleteRouteTo() (any state) and getRouteTo() (not         *)
(* Invalid) agree on which entry is meant, although deleting leaves copies *)
(* of the last entry behind.                                               *)
(***************************************************************************)
OnlyFirstIsLive ==
    \A i, j \in Slot :
        i < j /\ routes[i].dest = routes[j].dest => routes[j].state = "Invalid"

(***************************************************************************)
(* getRouteTo() answers like a map of bounded capacity: a step changes one *)
(* route, loses another one only if the table is full, or clears them all. *)
(***************************************************************************)
Lookup == [d \in Address |-> GetRouteTo(routes, d)]

Map == INSTANCE RouteMap WITH Capacity <- TableSize, table <- Lookup

MapSpec == Map!Spec

(***************************************************************************)
(* More than that, each operation changes the map in the way it is meant   *)
(* to: what was added is found, what was deleted is not, and no other      *)
(* destination is touched unless it has to make room.  deleteRouteTo()     *)
(* returns true when there was a route (and, because of stale entries,     *)
(* sometimes when there was none).                                         *)
(***************************************************************************)
OperationsOfMap ==
    [][/\ \A d \in Address, h \in NextHop, s \in AddedStates : Add(d, h, s) => Map!Add(d, h, s)
       /\ \A d \in Address : Delete(d) => Map!Delete(d) /\ (HasRoute(routes, d) => found')
       /\ Retire => Map!Retire \/ UNCHANGED Lookup
       /\ Clear => Map!Clear]_vars

\* The routes a step takes away.
Lost == {d \in Address : HasRoute(routes, d) /\ ~HasRoute(routes', d)}

\* The route to d was made before every other one.
Oldest(d) == \A e \in Address : HasRoute(routes, e) /\ e # d => <<d, e>> \in older

(***************************************************************************)
(* The route lost to make room for another one, or by being retired, is    *)
(* the one made first.  That ends when a sketch clears the table or adds a *)
(* route as Invalid: the entries keep their destinations and places, and   *)
(* addRouteTo() uses them again out of the order of age.                   *)
(***************************************************************************)
OldestRetired ==
    [][\/ \E d \in Address : Delete(d)
       \/ \E d \in Address, h \in NextHop, s \in AddedStates : Add(d, h, s) /\ Lost \subseteq {d}
       \/ ~gaps' /\ Lost # {} => \E d \in Address : Lost = {d} /\ Oldest(d)]_vars
=============================================================================
