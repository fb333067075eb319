------------------------------- MODULE RHRouter -------------------------------
(***************************************************************************)
(* RHRouter: messages that are relayed from node to node along the routes  *)
(* that sketches enter in each node's routing table (RHRouter.cpp).        *)
(***************************************************************************)
EXTENDS RelayNetwork

CONSTANTS
    Wirings,     \* the routes setup() may have entered, a set of tables
    MaxChanges   \* bound: routes that sketches change

ASSUME RouterAssumption ==
    /\ Wirings \subseteq [Node -> [Node -> Node \cup {None}]]
    /\ MaxChanges \in Nat

VARIABLES
    changes,  \* history: number of routes changed
    leading   \* history: have the routes led to every node so far?

vars == <<setting, routes, inbox, out, result, sent, got, lost, changes, leading>>

\* The nodes from which the routes lead to node d within h hops.
Near(table, d, h) ==
    LET near[i \in 0 .. h] ==
            IF i = 0 THEN {d}
            ELSE {n \in Node : n = d \/ table[n][d] \in InSight(n) \cap near[i - 1]}
    IN  near[h]

\* A message may take one hop more than it may be relayed.
RoutesLead(table) == \A d \in Node : Near(table, d, MaxHops + 1) = Node

TypeOK ==
    /\ NetworkTypeOK
    /\ changes \in 0 .. MaxChanges
    /\ leading \in BOOLEAN

Init ==
    /\ NetworkInit
    /\ routes \in Wirings
    /\ changes = 0
    /\ leading = RoutesLead(routes)

-----------------------------------------------------------------------------
\* sendtoWait(): a message that is too long, or for a destination without a
\* route, is not sent.
SendtoWait(n, d) ==
    LET msg == AppMessage(n, d, Len(sent[n]) + 1)
    IN  /\ Post(n, d)
        /\ \/ /\ d = Broadcast
              /\ inbox' \in Heard(n, msg)
              /\ result' = [result EXCEPT ![n] = "NONE"]
              /\ UNCHANGED out
           \/ /\ d # Broadcast /\ HasRoute(routes[n], d)
              /\ out' = [out EXCEPT ![n] = Call(routes[n], msg, None)]
              /\ inbox' = Emptied(n)
              /\ UNCHANGED result
           \/ /\ \/ result' = [result EXCEPT ![n] = "INVALID_LENGTH"]
                 \/ /\ d # Broadcast /\ ~HasRoute(routes[n], d)
                    /\ result' = [result EXCEPT ![n] = "NO_ROUTE"]
              /\ UNCHANGED <<inbox, out>>
        /\ UNCHANGED <<setting, routes, got, lost, changes, leading>>

\* The hop is over; a failure to relay is not reported to anybody.
Return(n, ok) ==
    /\ MayReturn(n, ok)
    /\ out' = [out EXCEPT ![n] = None]
    /\ inbox' = Abandoned(n)
    /\ result' = Reported(n, ok)
    /\ lost' = LostIf(n, ok)
    /\ UNCHANGED <<setting, routes, sent, got, changes, leading>>

\* recvfromAck() with a message in the FIFO.
Take(n) ==
    LET p      == inbox[n]
        msg    == p.msg
        routed == MayRelay(msg) /\ HasRoute(routes[n], msg.dest)
    IN  /\ Listening(n) /\ p # None
        /\ inbox' = Emptied(n)
        /\ \/ /\ p.from \in InSight(n) /\ IsForUs(n, msg)
              /\ GiveOut(n, msg)
              /\ out' = Acknowledged(p)
           \/ /\ p.from \in InSight(n) /\ ~IsForUs(n, msg) /\ routed
              /\ out' = [Acknowledged(p) EXCEPT ![n] = Call(routes[n], Relayed(msg), p.from)]
              /\ UNCHANGED got
           \/ /\ p.from \notin InSight(n) \/ (~IsForUs(n, msg) /\ ~routed)
              /\ out' = Acknowledged(p)
              /\ UNCHANGED got
        /\ UNCHANGED <<setting, routes, result, sent, lost, changes, leading>>

\* addRouteTo() or deleteRouteTo() by a sketch.
ChangeRoute(n, d, h) ==
    /\ Listening(n) /\ changes < MaxChanges /\ routes[n][d] # h
    /\ routes' = [routes EXCEPT ![n][d] = h]
    /\ changes' = changes + 1
    /\ leading' = (leading /\ RoutesLead(routes'))
    /\ UNCHANGED <<setting, inbox, out, result, sent, got, lost>>

Next ==
    \E n \in Node :
        \/ \E d \in Node \cup {Broadcast} : SendtoWait(n, d)
        \/ Arrive(n) /\ UNCHANGED <<changes, leading>>
        \/ \E ok \in BOOLEAN : Return(n, ok)
        \/ Take(n)
        \/ \E d \in Node \ {n}, h \in InSight(n) \cup {None} : ChangeRoute(n, d, h)

Spec == Init /\ [][Next]_vars

(***************************************************************************)
(* Every sketch calls recvfromAck() over and over (RHRouter.h:70), and     *)
(* sendtoWait() of RHReliableDatagram ends.                                *)
(***************************************************************************)
Fairness ==
    \A n \in Node : WF_vars(Take(n) \/ \E ok \in BOOLEAN : Return(n, ok))

FairSpec == Spec /\ Fairness

-----------------------------------------------------------------------------
(* Properties, with ImplementsService.                                      *)

(***************************************************************************)
(* "This helps prevent infinite routing loops" (RHRouter.h:63): whatever   *)
(* the routes are, and however they are changed on the way, no message is  *)
(* relayed for ever.                                                       *)
(***************************************************************************)
Settles == <>[]NothingPending

(***************************************************************************)
(* "messages can be delivered across a network of nodes, even if each node *)
(* cannot hear all of the others" (RHRouter.h:57): where the routes lead   *)
(* to every node, a message reaches the node it is for, or some hop on its *)
(* way gave up.                                                            *)
(***************************************************************************)
Arrives ==
    []leading =>
        \A n \in Node, k \in 1 .. MaxSends :
            (out[n] # None /\ IsMessage(out[n].msg, n, k))
                ~> (GivenTo(n, k) # {} \/ \E msg \in lost : IsMessage(msg, n, k))
=============================================================================
