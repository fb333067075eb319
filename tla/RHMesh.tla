-------------------------------- MODULE RHMesh --------------------------------
(***************************************************************************)
(* RHMesh: routing with routes that are discovered when they are needed    *)
(* and deleted when they fail (RHMesh.cpp), by overriding route() and      *)
(* peekAtMessage() of RHRouter.                                            *)
(*                                                                         *)
(* A node is in its sketch, which calls sendtoWait() and recvfromAck() at  *)
(* will, or in the waiting loop of doArp(); from both it takes messages,   *)
(* and may then be in RHReliableDatagram::sendtoWait() (out) in order to   *)
(* pass one on.                                                            *)
(***************************************************************************)
EXTENDS RelayNetwork

CONSTANTS
    StaleOctets,    \* what the buffer may hold behind a list of nodes
    EmptyMessages   \* numbers of the application messages without payload

ASSUME MeshAssumption ==
    /\ StaleOctets \subseteq 0 .. 255 /\ StaleOctets # {}
    /\ EmptyMessages \subseteq Nat

\* doArp(): the address looked for; deaf: messageLen has come down to 1.
Arp == [address : Node, deaf : BOOLEAN]

VARIABLES
    arp,       \* the running doArp() of each node, or None
    strayed    \* history: has an octet behind a list been taken for a node?

vars == <<setting, routes, inbox, out, result, sent, got, lost, arp, strayed>>

TypeOK ==
    /\ NetworkTypeOK
    /\ arp \in [Node -> Arp \cup {None}]
    /\ strayed \in BOOLEAN

Init ==
    /\ NetworkInit
    /\ routes = [n \in Node |-> NoRoutes]
    /\ arp = [n \in Node |-> None]
    /\ strayed = FALSE

\* row, with next hop h for every node of D.
AddRoutes(row, D, h) == [d \in Node |-> IF d \in D THEN h ELSE row[d]]

Members(path) == {path[i] : i \in DOMAIN path}

-----------------------------------------------------------------------------
(***************************************************************************)
(* route().  A node that cannot pass a message on deletes its route and,   *)
(* if the message is not its own, tells the source, by way of the node the *)
(* message came from.  now is what headerFrom() is at that time.           *)
(***************************************************************************)
\* Fault: headerFrom() is read when the hop has failed.
WayBackLate(call, now) == now

WayBack(call, now) == call.from

FailureNotice(n, msg) ==
    [type |-> "failure", dest |-> msg.source, source |-> n, hops |-> 0,
     about |-> msg.dest, path |-> <<>>]

\* Routing table and call of sendtoWait() of a node.
Routing(row, call) == [row |-> row, call |-> call]

WithoutRoute(row, msg, back) == AddRoutes(AddRoutes(row, {msg.dest}, None), {msg.source}, back)

\* Fault: the source of a message tells itself.
FailedAtSource(n, row, msg, back) ==
    LET mended == WithoutRoute(row, msg, back)
    IN  Routing(mended, Call(mended, FailureNotice(n, msg), back))

Failed(n, row, msg, back) ==
    LET mended == WithoutRoute(row, msg, back)
    IN  IF msg.source = n THEN Routing(AddRoutes(row, {msg.dest}, None), None)
        ELSE Routing(mended, Call(mended, FailureNotice(n, msg), back))

Route(n, row, msg, from) ==
    IF HasRoute(row, msg.dest) THEN Routing(row, Call(row, msg, from))
    ELSE Failed(n, row, msg, from)

\* The hop of route() is over; any other node may have been heard meanwhile.
Return(n, ok) ==
    /\ MayReturn(n, ok)
    /\ \E now \in Node \ {n} :
          LET call == out[n]
              next == IF ok THEN Routing(routes[n], None)
                      ELSE Failed(n, routes[n], call.msg, WayBack(call, now))
          IN  /\ routes' = [routes EXCEPT ![n] = next.row]
              /\ out' = [out EXCEPT ![n] = next.call]
    /\ inbox' = Abandoned(n)
    /\ result' = Reported(n, ok)
    /\ lost' = LostIf(n, ok)
    /\ UNCHANGED <<setting, sent, got, arp, strayed>>

-----------------------------------------------------------------------------
(* Sending.                                                                 *)

DiscoveryRequest(n, d) ==
    [type |-> "request", dest |-> Broadcast, source |-> n, hops |-> 0,
     about |-> d, path |-> <<>>]

(***************************************************************************)
(* sendtoWait(): for a destination without a route, doArp() broadcasts a   *)
(* request for one and waits.                                              *)
(***************************************************************************)
SendtoWait(n, d) ==
    LET msg == AppMessage(n, d, Len(sent[n]) + 1)
    IN  /\ Post(n, d) /\ arp[n] = None
        /\ \/ /\ d = Broadcast
              /\ inbox' \in Heard(n, msg)
              /\ result' = [result EXCEPT ![n] = "NONE"]
              /\ UNCHANGED <<out, arp>>
           \/ /\ d # Broadcast /\ HasRoute(routes[n], d)
              /\ out' = [out EXCEPT ![n] = Call(routes[n], msg, None)]
              /\ inbox' = Emptied(n)
              /\ UNCHANGED <<result, arp>>
           \/ /\ d # Broadcast /\ ~HasRoute(routes[n], d)
              /\ arp' = [arp EXCEPT ![n] = [address |-> d, deaf |-> FALSE]]
              /\ inbox' \in Heard(n, DiscoveryRequest(n, d))
              /\ UNCHANGED <<out, result>>
           \/ /\ result' = [result EXCEPT ![n] = "INVALID_LENGTH"]
              /\ UNCHANGED <<inbox, out, arp>>
        /\ UNCHANGED <<setting, routes, got, lost, strayed>>

\* RH_MESH_ARP_TIMEOUT, long enough for everybody unless frames get lost.
ArpTimeout(n) ==
    /\ arp[n] # None /\ Listening(n)
    /\ setting.lossy \/ NothingPending
    /\ arp' = [arp EXCEPT ![n] = None]
    /\ result' = [result EXCEPT ![n] = "NO_ROUTE"]
    /\ UNCHANGED <<setting, routes, inbox, out, sent, got, lost, strayed>>

-----------------------------------------------------------------------------
(* Receiving.                                                               *)

(***************************************************************************)
(* The part of a response's list that peekAtMessage() takes for the nodes  *)
(* behind this one: i is incremented twice, so it leaves out the next one, *)
(* and goes one octet too far.  There the buffer, which is static and      *)
(* which every message goes through, has an octet of an earlier, longer    *)
(* message, of its list or of its payload, and that may be any.            *)
(***************************************************************************)
OneTooFar(n, path) == n \in Members(path) /\ path[Len(path)] # n

Behind(n, path, stale) ==
    {path[i] : i \in {i \in DOMAIN path : \E k \in 1 .. i - 2 : path[k] = n}}
        \cup IF OneTooFar(n, path) THEN {stale} ELSE {}

IsTakenForNode(n, msg, stale) ==
    msg.type = "response" /\ OneTooFar(n, msg.path) /\ stale \in Node

\* The routes after peekAtMessage().
Peeked(n, row, p, stale) ==
    CASE p.msg.type = "response" ->
            AddRoutes(row, {p.msg.about} \cup Behind(n, p.msg.path, stale), p.from)
      [] p.msg.type = "failure" -> AddRoutes(row, {p.msg.about}, None)
      [] OTHER -> row

\* The rest of taking p: the routes, and the next call of sendtoWait().
Continue(n, p, next) ==
    /\ routes' = [routes EXCEPT ![n] = next.row]
    /\ out' = [Acknowledged(p) EXCEPT ![n] = next.call]

\* A message for another node.
Relay(n, p, row) ==
    /\ ~IsForUs(n, p.msg)
    /\ Continue(n, p, IF MayRelay(p.msg) THEN Route(n, row, Relayed(p.msg), p.from)
                      ELSE Routing(row, None))
    /\ inbox' = Emptied(n)
    /\ UNCHANGED <<result, got, arp>>

(***************************************************************************)
(* doArp() takes any response for an answer to its request, and returns to *)
(* sendtoWait().  What else is addressed to the node is dropped, but may   *)
(* leave too small a messageLen for the response.                          *)
(***************************************************************************)
TakeInArp(n, p, row) ==
    LET address == arp[n].address
        found   == AddRoutes(row, {address}, p.from)
    IN  /\ arp[n] # None /\ IsForUs(n, p.msg)
        /\ \/ /\ p.msg.type = "response" /\ ~arp[n].deaf
              /\ Continue(n, p, Route(n, found, AppMessage(n, address, Len(sent[n])), None))
              /\ arp' = [arp EXCEPT ![n] = None]
           \/ /\ p.msg.type # "response" \/ arp[n].deaf
              /\ Continue(n, p, Routing(row, None))
              /\ arp' = IF p.msg.type = "app" /\ p.msg.about \in EmptyMessages
                        THEN [arp EXCEPT ![n].deaf = TRUE] ELSE arp
        /\ inbox' = Emptied(n)
        /\ UNCHANGED <<result, got>>

\* recvfromAck() gives an application message to the sketch.
TakeApplication(n, p, row) ==
    /\ arp[n] = None /\ IsForUs(n, p.msg) /\ p.msg.type = "app"
    /\ Continue(n, p, Routing(row, None))
    /\ inbox' = Emptied(n)
    /\ GiveOut(n, p.msg)
    /\ UNCHANGED <<result, arp>>

\* A request that has not passed this node.
IsNewRequest(n, msg) ==
    msg.type = "request" /\ msg.source # n /\ n \notin Members(msg.path)

\* Is n what a request looks for?
IsPhysicalAddress(n, address) == address = n

DiscoveryResponse(n, msg) ==
    [msg EXCEPT !.type = "response", !.dest = msg.source, !.source = n]

\* Fault: the node does not add itself to the list.
ForwardedUnlisted(n, msg) == msg

Forwarded(n, msg) == [msg EXCEPT !.path = Append(@, n)]

(***************************************************************************)
(* recvfromAck() takes a request for a route: it records the ways back,    *)
(* and answers it or broadcasts it again in the name of its source.        *)
(***************************************************************************)
TakeRequest(n, p, row) ==
    LET back == AddRoutes(row, {p.msg.source} \cup Members(p.msg.path), p.from)
    IN  /\ arp[n] = None /\ IsForUs(n, p.msg) /\ IsNewRequest(n, p.msg)
        /\ \/ /\ IsPhysicalAddress(n, p.msg.about)
              /\ Continue(n, p, Route(n, back, DiscoveryResponse(n, p.msg), p.from))
              /\ inbox' = Emptied(n)
           \/ /\ ~IsPhysicalAddress(n, p.msg.about)
              /\ Continue(n, p, Routing(back, None))
              /\ IF Len(p.msg.path) < MaxHops
                 THEN inbox' \in Heard(n, Forwarded(n, p.msg))
                 ELSE inbox' = Emptied(n)
        /\ UNCHANGED <<result, got, arp>>

\* recvfromAck() has no use for anything else.
TakeOther(n, p, row) ==
    /\ arp[n] = None /\ IsForUs(n, p.msg)
    /\ p.msg.type # "app" /\ ~IsNewRequest(n, p.msg)
    /\ Continue(n, p, Routing(row, None))
    /\ inbox' = Emptied(n)
    /\ UNCHANGED <<result, got, arp>>

\* RHRouter::recvfromAck() with a message in the FIFO, and what follows.
Take(n) ==
    LET p == inbox[n]
    IN  /\ Listening(n) /\ p # None
        /\ \E stale \in StaleOctets :
              LET row == Peeked(n, routes[n], p, stale)
              IN  /\ strayed' = (strayed \/ IsTakenForNode(n, p.msg, stale))
                  /\ \/ Relay(n, p, row)
                     \/ TakeInArp(n, p, row)
                     \/ TakeApplication(n, p, row)
                     \/ TakeRequest(n, p, row)
                     \/ TakeOther(n, p, row)
        /\ UNCHANGED <<setting, sent, lost>>

Next ==
    \E n \in Node :
        \/ \E d \in Node \cup {Broadcast} : SendtoWait(n, d)
        \/ ArpTimeout(n)
        \/ Arrive(n) /\ UNCHANGED <<arp, strayed>>
        \/ \E ok \in BOOLEAN : Return(n, ok)
        \/ Take(n)

Spec == Init /\ [][Next]_vars

(***************************************************************************)
(* Nodes go on receiving, their transmissions reach the next hop if frames *)
(* do not get lost, and sendtoWait() ends.                                 *)
(***************************************************************************)
Fairness ==
    \A n \in Node :
        WF_vars(\/ Take(n)
                \/ \E ok \in BOOLEAN : Return(n, ok)
                \/ ~setting.lossy /\ Arrive(n) /\ UNCHANGED <<arp, strayed>>)

FairSpec == Spec /\ Fairness

-----------------------------------------------------------------------------
(* Properties, with ImplementsService.                                      *)

\* Nodes that no hop leads out of, but to n.
IsClosed(network, n, S) == \A m \in S : Sees(network, m) \ {n} \subseteq S

\* The nodes that can be reached from h without passing n.
Beyond(network, n, h) ==
    {d \in Node : \A S \in SUBSET Node : h \in S /\ IsClosed(network, n, S) => d \in S}

\* Networks in which a node's neighbours lead to different nodes, and in which
\* nobody is cut off when one node is left out.
NoCycles(network) ==
    \A n \in Node : \A h, m \in Sees(network, n) :
        h # m => Beyond(network, n, h) \cap Beyond(network, n, m) = {}

NoCutNode(network) ==
    \A n \in Node : \A h \in Sees(network, n) : Node \ {n} \subseteq Beyond(network, n, h)

LeadsOn ==
    [w \in 0 .. 4 |-> [n \in Node |-> [h \in Sees(w, n) |-> Beyond(w, n, h)]]]

(***************************************************************************)
(* Every route a node learns, from requests, responses, failures or by     *)
(* doArp(), leads to a node in sight, from which the destination can be    *)
(* reached without coming back.  In a network without cycles there is only *)
(* one such neighbour.                                                     *)
(***************************************************************************)
RoutesLeadOn ==
    \A n \in Node : \A d \in Node \ {n} :
        routes[n][d] # None =>
            /\ routes[n][d] \in InSight(n)
            /\ d \in LeadsOn[setting.network][n][routes[n][d]]

\* Every sketch sends messages to one node only, or to all.
OneDestination ==
    \A n \in Node : \A j, k \in DOMAIN sent[n] :
        Broadcast \in {sent[n][j], sent[n][k]} \/ sent[n][j] = sent[n][k]

(***************************************************************************)
(* Intermediate nodes "can use the node list in the reply to deduce routes *)
(* to all the nodes between it and the destination node" (RHMesh.h:61-62): *)
(* although they learn from messages of other nodes' discoveries, which    *)
(* cross each other, get lost and fail, what they enter leads on, as long  *)
(* as no sketch looks for a second node while an answer may be on its way, *)
(* and no octet read behind a list has been taken for a node.              *)
(***************************************************************************)
DiscoveredRoutesLeadOn == OneDestination /\ ~strayed => RoutesLeadOn

\* Nodes that see each other one after the other, none of them twice.
IsPath(s) ==
    /\ \A i, j \in DOMAIN s : i # j => s[i] # s[j]
    /\ \A i \in 1 .. Len(s) - 1 : s[i + 1] \in InSight(s[i])

(***************************************************************************)
(* "This prevents broadcast storms" (RHMesh.h:51): a request has passed    *)
(* the nodes it lists, one after the other and none of them twice, no more *)
(* than the hop limit; and the list of a response is a path between the    *)
(* two nodes that looked for each other.                                   *)
(***************************************************************************)
Listed(msg) ==
    CASE msg.type = "request"  -> IsPath(<<msg.source>> \o msg.path)
      [] msg.type = "response" -> IsPath(<<msg.dest>> \o msg.path \o <<msg.about>>)
      [] OTHER -> TRUE

PathsAreWalked ==
    \A n \in Node :
        /\ inbox[n] # None =>
              /\ Listed(inbox[n].msg)
              /\ inbox[n].msg.type = "request" =>
                    LET walk == <<inbox[n].msg.source>> \o inbox[n].msg.path
                    IN  walk[Len(walk)] = inbox[n].from /\ Len(walk) <= MaxHops + 1
        /\ out[n] # None => Listed(out[n].msg)

(***************************************************************************)
(* "it will automatically discover a route to the destination node and use *)
(* it" (RHMesh.h:31): if frames do not get lost, nobody else looks for a   *)
(* route and there is only one, a message for a node whose route has to be *)
(* discovered is given to its sketch, unless an octet behind a list misled *)
(* a node on the way.                                                      *)
(***************************************************************************)
Alone(n) == ~setting.lossy /\ setting.senders = {n} /\ setting.network \in {1, 4}

DiscoverySucceeds ==
    \A n \in Node, k \in 1 .. MaxSends :
        Alone(n) /\ Len(sent[n]) = k /\ arp[n] # None /\ arp[n].address # n
            ~> GivenTo(n, k) # {} \/ strayed

\* No request, response or failure notice is passed on for ever.
Settles == <>[]NothingPending
=============================================================================
