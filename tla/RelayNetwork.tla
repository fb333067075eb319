----------------------------- MODULE RelayNetwork -----------------------------
(***************************************************************************)
(* What the nodes of RHRouter and of RHMesh have in common: the routed     *)
(* messages, the radios that hear each other, and RHReliableDatagram as    *)
(* the layers above see it.                                                *)
(*                                                                         *)
(* Of that layer, what RHReliableDatagram is shown to do is assumed:       *)
(* sendtoWait() of a node ends, with true only if the next hop took the    *)
(* message, with false whether it took it or not, and no message is taken  *)
(* twice.  A node is single threaded.  While it waits in sendtoWait() it   *)
(* throws away what others send; else a packet waits in the radio's FIFO,  *)
(* until it is taken, or a later one or a transmission of the node itself  *)
(* is written over it.  The routing table is what RHRoutingTable is shown  *)
(* to be: a map, with room enough for every node.                          *)
(***************************************************************************)
EXTENDS Naturals, Sequences

CONSTANTS
    Node,        \* node addresses
    Broadcast,   \* RH_BROADCAST_ADDRESS
    MaxHops,     \* _max_hops, as set by setMaxHops()
    Settings,    \* the circumstances looked at, see Setting
    MaxSends,    \* bound: messages each of them sends
    None         \* nothing

\* network: RH_TEST_NETWORK, 0 if it is not defined; lossy: frames may get lost;
\* senders: the nodes whose sketch sends messages.
Setting == [network : 0 .. 4, lossy : BOOLEAN, senders : SUBSET Node]

ASSUME NetworkAssumption ==
    /\ Broadcast \notin Node
    /\ MaxHops \in 0 .. 255
    /\ Settings \subseteq Setting
    /\ MaxSends \in Nat
    /\ None \notin Node

(***************************************************************************)
(* A routed message.  An application message is known by its source and    *)
(* number, about; the other kinds belong to RHMesh, where about is the     *)
(* destination they are about, and path the nodes passed.  The end-to-end  *)
(* ID and FLAGS are not looked at by any router.                           *)
(***************************************************************************)
Message == [type : {"app", "request", "response", "failure"},
            dest : Node \cup {Broadcast}, source : Node, hops : 0 .. MaxHops,
            about : Node \cup Nat, path : Seq(Node)]

\* What recvfromAck() tells a sketch about a message.
Given == [source : Node, number : Nat \ {0}, dest : Node \cup {Broadcast}]

\* What a FIFO holds; awaited: its sender still waits for the acknowledgement.
Packet == [from : Node, awaited : BOOLEAN, msg : Message]

\* A running RHReliableDatagram::sendtoWait(); from is what headerFrom() was when
\* route() was called, None for the sketch's own message; taken: by the next hop.
Sending == [to : Node, from : Node \cup {None}, taken : BOOLEAN, msg : Message]

ASSUME NoneAssumption == None \notin Packet /\ None \notin Sending

VARIABLES
    setting,  \* the one of Settings this behaviour takes place in
    routes,   \* routes[n][d]: next hop of n's route to d, or None
    inbox,    \* packet in the FIFO of each node, or None
    out,      \* the running sendtoWait() of each node, or None
    result,   \* what the last sendtoWait() of each node's sketch returned
    sent,     \* history: addressees of the messages each sketch has sent
    got,      \* history: messages each sketch was given
    lost      \* history: messages for which a hop gave up

NetworkTypeOK ==
    /\ setting \in Settings
    /\ routes \in [Node -> [Node -> Node \cup {None}]]
    /\ inbox \in [Node -> Packet \cup {None}]
    /\ out \in [Node -> Sending \cup {None}]
    /\ result \in [Node -> {"none", "NONE", "INVALID_LENGTH", "NO_ROUTE", "UNABLE_TO_DELIVER"}]
    /\ sent \in [Node -> Seq(Node \cup {Broadcast})]
    /\ got \in [Node -> Seq(Given)]
    /\ lost \subseteq Message

NetworkInit ==
    /\ setting \in Settings
    /\ inbox = [n \in Node |-> None]
    /\ out = [n \in Node |-> None]
    /\ result = [n \in Node |-> "none"]
    /\ sent = [n \in Node |-> <<>>]
    /\ got = [n \in Node |-> <<>>]
    /\ lost = {}

NoRoutes == [d \in Node |-> None]

-----------------------------------------------------------------------------
(***************************************************************************)
(* The four networks RHRouter::recvfromAck() can simulate, where nodes     *)
(* see each other.  It drops what comes from a node out of sight, when     *)
(* RHReliableDatagram has already acknowledged it.                         *)
(***************************************************************************)
Links(network) ==
    CASE network = 1 -> {{1, 2}, {2, 3}, {3, 4}}
      [] network = 2 -> {{1, 2}, {1, 3}, {2, 3}, {2, 4}, {3, 4}}
      [] network = 3 -> {{1, 2}, {1, 3}, {2, 4}, {3, 4}}
      [] network = 4 -> {{1, 2}, {2, 3}, {2, 4}}
      [] OTHER -> {{n, m} : n, m \in Node}

Sees(network, n) == {m \in Node \ {n} : {n, m} \in Links(network)}

InSight(n) == Sees(setting.network, n)

Listening(n) == out[n] = None

\* The FIFOs after n has sent msg to everybody: all who listen in sight hear it,
\* or some of them.
Heard(n, msg) ==
    LET near   == {m \in InSight(n) : Listening(m)}
        packet == [from |-> n, awaited |-> FALSE, msg |-> msg]
    IN  {[m \in Node |-> IF m \in R THEN packet ELSE IF m = n THEN None ELSE inbox[m]] :
            R \in IF setting.lossy THEN SUBSET near ELSE {near}}

\* Fault: a packet stays in the FIFO when it was taken.
EmptiedNot(n) == inbox

\* The FIFOs after n has sent something else, or taken what its own held.
Emptied(n) == [inbox EXCEPT ![n] = None]

-----------------------------------------------------------------------------
(* RHReliableDatagram.                                                      *)

\* Fault: the next hop takes a message again when it is retransmitted.
AcknowledgedEachTime(p) == out

\* The calls of sendtoWait() when the addressee of packet p has acknowledged it.
Acknowledged(p) ==
    [m \in Node |-> IF p.awaited /\ m = p.from THEN [out[m] EXCEPT !.taken = TRUE]
                    ELSE out[m]]

OnAir(n) == [from |-> n, awaited |-> TRUE, msg |-> out[n].msg]

\* A node whose message has not been taken yet.
Waiting(n) == out[n] # None /\ ~out[n].taken

\* A transmission of what n is sending reaches the next hop, which listens.
Arrive(n) ==
    /\ Waiting(n)
    /\ Listening(out[n].to)
    /\ inbox[out[n].to] # OnAir(n)
    /\ inbox' = [inbox EXCEPT ![out[n].to] = OnAir(n)]
    /\ UNCHANGED <<setting, routes, out, result, sent, got, lost>>

(***************************************************************************)
(* sendtoWait() may return true once the next hop has taken the message.   *)
(* It may return false at any time or, if frames do not get lost, while    *)
(* the next hop is waiting itself; once its own message has been           *)
(* acknowledged it is back before the retries are used up.                 *)
(***************************************************************************)
MayReturn(n, ok) ==
    /\ out[n] # None
    /\ IF ok THEN out[n].taken
       ELSE setting.lossy \/ (Waiting(n) /\ Waiting(out[n].to))

\* The FIFOs when it has returned: nobody waits for its message any longer.
Abandoned(n) ==
    [m \in Node |-> IF inbox[m] = OnAir(n) THEN [inbox[m] EXCEPT !.awaited = FALSE]
                    ELSE inbox[m]]

Outcome(ok) == IF ok THEN "NONE" ELSE "UNABLE_TO_DELIVER"

\* The result of the sketch's own call, which relaying does not touch.
Reported(n, ok) ==
    IF out[n].from = None THEN [result EXCEPT ![n] = Outcome(ok)] ELSE result

\* What is lost when a hop gives up.
LostIf(n, ok) == IF ok THEN lost ELSE lost \cup {[out[n].msg EXCEPT !.hops = 0]}

-----------------------------------------------------------------------------
(* Routed messages.                                                         *)

\* The k-th message of the sketch of n, for d.
AppMessage(n, d, k) ==
    [type |-> "app", dest |-> d, source |-> n, hops |-> 0, about |-> k, path |-> <<>>]

HasRoute(row, d) == row[d] # None

\* The call of sendtoWait() by which route() passes on msg to its next hop.
Call(row, msg, from) ==
    [to |-> row[msg.dest], from |-> from, taken |-> FALSE, msg |-> msg]

\* The sketch of n gives sendtoWait() a message for d.
Post(n, d) ==
    /\ n \in setting.senders /\ Listening(n) /\ Len(sent[n]) < MaxSends
    /\ sent' = [sent EXCEPT ![n] = Append(@, d)]

\* Faults: the limit is reached one hop late, or early; hops are not counted; a
\* message on its last hop is delivered where it is.
MayRelayOneMore(msg) == msg.hops <= MaxHops
MayRelayOneLess(msg) == msg.hops + 1 < MaxHops
RelayedUncounted(msg) == msg
IsForUsOnLastHop(n, msg) == msg.dest \in {n, Broadcast} \/ msg.hops + 1 >= MaxHops

\* Is a message to be delivered here?
IsForUs(n, msg) == msg.dest \in {n, Broadcast}

\* hops++ < _max_hops
MayRelay(msg) == msg.hops < MaxHops

Relayed(msg) == [msg EXCEPT !.hops = @ + 1]

\* recvfromAck() gives msg to the sketch of n.
GiveOut(n, msg) ==
    got' = [got EXCEPT ![n] =
                Append(@, [source |-> msg.source, number |-> msg.about, dest |-> msg.dest])]

-----------------------------------------------------------------------------
(* What the properties of both routers speak of.                            *)

(***************************************************************************)
(* However a message is relayed, and whether or not the nodes on its way   *)
(* learn that it was taken, it is given only to the sketch of the node it  *)
(* is for, and to no sketch twice.                                         *)
(***************************************************************************)
Service == INSTANCE MessageService

ImplementsService == Service!Spec

\* The k-th message of n's sketch.
IsMessage(msg, n, k) == msg.type = "app" /\ msg.source = n /\ msg.about = k

\* The nodes whose sketch was given it.
GivenTo(n, k) ==
    {m \in Node : \E i \in DOMAIN got[m] : got[m][i].source = n /\ got[m][i].number = k}

\* A sendtoWait() at n whose message no hop has taken, and a packet at n nobody
\* waits for any longer, of message k of s.
Holds(n, s, k) == Waiting(n) /\ IsMessage(out[n].msg, s, k)

Loose(n, s, k) ==
    inbox[n] # None /\ ~inbox[n].awaited /\ IsMessage(inbox[n].msg, s, k)

(***************************************************************************)
(* Why no message is given out twice: although every hop may give up on a  *)
(* message that the next has taken, and report it as lost, there is never  *)
(* more than one place from which a message for one node can go on, and    *)
(* none once it was given to a sketch; and a node does not hear what was   *)
(* broadcast a second time.                                                *)
(***************************************************************************)
NoCopy(s, k) == \A n \in Node : ~Holds(n, s, k) /\ ~Loose(n, s, k)

SingleCopy(s, k) ==
    /\ \A n, m \in Node :
          /\ Holds(n, s, k) => ~Loose(m, s, k) /\ (Holds(m, s, k) => n = m)
          /\ Loose(n, s, k) /\ Loose(m, s, k) => n = m
    /\ GivenTo(s, k) # {} => NoCopy(s, k)

OneCopy ==
    \A s \in Node : \A k \in DOMAIN sent[s] :
        IF sent[s][k] = Broadcast THEN \A n \in GivenTo(s, k) : ~Loose(n, s, k)
        ELSE SingleCopy(s, k)

\* Nothing is on its way.
NothingPending == \A n \in Node : out[n] = None /\ inbox[n] = None
=============================================================================
