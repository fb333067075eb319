----------------------------- MODULE RHMesh_proofs -----------------------------
(***************************************************************************)
(* Proofs about RHMesh: for any nodes, networks and hop limit, and         *)
(* whatever is in the octets behind a message.                             *)
(***************************************************************************)
EXTENDS RHMesh, RelayNetwork_proofs, WellFoundedInduction

\* A node that calls sendtoWait() on behalf of nobody sends a message of its own,
\* so that there is always somebody to tell of a failure.
OwnMessages ==
    \A n \in Node : out[n] # None /\ out[n].from = None => out[n].msg.source = n

\* While a node looks for a route, the message it is for is nowhere.
Unsent ==
    \A n \in Node :
        arp[n] # None =>
            /\ Len(sent[n]) \in DOMAIN sent[n]
            /\ sent[n][Len(sent[n])] = arp[n].address
            /\ Absent(n, Len(sent[n]))

MeshInv == TypeOK /\ NetInv /\ OwnMessages /\ Unsent

Rows == [Node -> Node \cup {None}]

\* A message starts with no hops.
LEMMA NoHops == 0 \in 0 .. MaxHops
  BY NetworkAssumption

(* Initially nothing was sent.                                              *)
LEMMA MeshInit == Init => MeshInv /\ Service!Init
  <1> SUFFICES ASSUME Init PROVE MeshInv /\ Service!Init
    OBVIOUS
  <1>1. \A s, k : GivenTo(s, k) = {}
    BY DEF Init, NetworkInit, GivenTo
  <1>2. /\ \A n \in Node : inbox[n] = None /\ out[n] = None /\ arp[n] = None
        /\ \A s \in Node : DOMAIN sent[s] = {}
    BY DEF Init, NetworkInit
  <1>3. NetworkTypeOK /\ TypeOK
    BY NetworkAssumption, EmptySeq
       DEF Init, NetworkInit, NoRoutes, NetworkTypeOK, TypeOK
  <1>4. Underway /\ Awaited /\ GivenSent /\ OneCopy /\ OwnMessages /\ Unsent
    BY <1>1, <1>2 DEF Underway, Awaited, GivenSent, OneCopy, OwnMessages, Unsent
  <1> QED
    BY <1>3, <1>4 DEF MeshInv, NetInv, Init, NetworkInit, Service!Init

-----------------------------------------------------------------------------
(* route().                                                                 *)

\* What a node may send when it is told to pass on msg, or msg fails.
IsCall(n, call, msg) ==
    /\ call \in Sending \cup {None}
    /\ call # None =>
          /\ call.msg.dest # Broadcast
          /\ call.from = None => call.msg.source = n
          /\ call.msg = msg \/ call.msg.type = "failure"

(* Routes that are entered are routes.                                      *)
LEMMA AddRoutesType ==
    ASSUME NEW row \in Rows, NEW D, NEW h \in Node \cup {None}
    PROVE  AddRoutes(row, D, h) \in Rows
  BY DEF AddRoutes, Rows

(* A node that cannot pass a message on tells its source, if that is        *)
(* another node, by way of a node it has heard from.                        *)
LEMMA FailedType ==
    ASSUME NEW n \in Node, NEW row \in Rows, NEW msg \in Message, msg.dest \in Node,
           NEW back \in Node \cup {None}, back = None => msg.source = n
    PROVE  LET next == Failed(n, row, msg, back)
           IN  /\ next.row \in Rows
               /\ IsCall(n, next.call, msg)
               /\ next.call # None => next.call.msg.type = "failure"
  <1>1. CASE msg.source = n
    <2>1. AddRoutes(row, {msg.dest}, None) \in Rows
      BY AddRoutesType
    <2> QED
      BY <1>1, <2>1 DEF Failed, Routing, IsCall
  <1>2. CASE msg.source # n
    <2> PICK mended, notice : /\ mended = WithoutRoute(row, msg, back)
                              /\ notice = FailureNotice(n, msg)
      OBVIOUS
    <2>1. mended \in Rows
      BY AddRoutesType DEF WithoutRoute
    <2>2. msg.source \in Node /\ mended[msg.source] = back
      BY DEF Message, WithoutRoute, AddRoutes
    <2>3. /\ notice \in Message /\ notice.dest = msg.source /\ notice.type = "failure"
          /\ notice.source = n
      <3>1. 0 \in 0 .. MaxHops
        BY NoHops
      <3> QED
        BY <2>2, <3>1, EmptySeq DEF FailureNotice, Message
    <2>4. LET call == Call(mended, notice, back)
          IN  call \in Sending /\ call.msg = notice /\ call.from = back
      BY <1>2, <2>2, <2>3 DEF Call, Sending
    <2> QED
      BY <1>2, <2>1, <2>2, <2>3, <2>4, NetworkAssumption DEF Failed, Routing, IsCall
  <1> QED
    BY <1>1, <1>2

(* A call that passes on a message.                                         *)
LEMMA CallType ==
    ASSUME NEW n \in Node, NEW row \in Rows, NEW msg \in Message, msg.dest \in Node,
           HasRoute(row, msg.dest), NEW from \in Node \cup {None},
           from = None => msg.source = n
    PROVE  IsCall(n, Call(row, msg, from), msg) /\ Call(row, msg, from).msg = msg
  <1>1. Call(row, msg, from) \in Sending
    BY DEF Rows, HasRoute, Call, Sending
  <1> QED
    BY <1>1, NetworkAssumption DEF Call, IsCall

LEMMA RouteType ==
    ASSUME NEW n \in Node, NEW row \in Rows, NEW msg \in Message, msg.dest \in Node,
           NEW from \in Node \cup {None}, from = None => msg.source = n
    PROVE  LET next == Route(n, row, msg, from)
           IN  next.row \in Rows /\ IsCall(n, next.call, msg)
  <1>1. CASE HasRoute(row, msg.dest)
    BY <1>1, CallType DEF Route, Routing
  <1>2. CASE ~HasRoute(row, msg.dest)
    BY <1>2, FailedType DEF Route
  <1> QED
    BY <1>1, <1>2

(* peekAtMessage() enters routes by way of the node the packet came from.   *)
LEMMA PeekedType ==
    ASSUME NEW n \in Node, NEW row \in Rows, NEW p \in Packet, NEW stale
    PROVE  Peeked(n, row, p, stale) \in Rows
  BY AddRoutesType DEF Peeked, Packet

-----------------------------------------------------------------------------
(* Steps.                                                                   *)

LEMMA SendtoWaitStep ==
    ASSUME MeshInv, NEW n \in Node, NEW d \in Node \cup {Broadcast}, SendtoWait(n, d)
    PROVE  MeshInv' /\ Service!Next
  <1> PICK k0, msg : k0 = Len(sent[n]) + 1 /\ msg = AppMessage(n, d, k0)
    OBVIOUS
  <1>1. NetInv /\ NetworkTypeOK /\ Post(n, d) /\ out[n] = None /\ arp[n] = None
    BY DEF MeshInv, NetInv, SendtoWait, Post, Listening
  <1>2. 0 \in 0 .. MaxHops /\ k0 \in Nat
    <2>1. 0 \in 0 .. MaxHops
      BY NoHops
    <2>2. k0 \in Nat
      BY <1>1, PostSent
    <2> QED
      BY <2>1, <2>2
  <1>3. msg \in Message /\ msg.type = "app" /\ msg.dest = d /\ msg.source = n
    BY <1>2, EmptySeq DEF AppMessage, Message
  <1>4. /\ UNCHANGED <<setting, routes, got, lost, strayed>>
        /\ \/ /\ d = Broadcast /\ inbox' \in Heard(n, msg)
              /\ result' = [result EXCEPT ![n] = "NONE"]
              /\ UNCHANGED <<out, arp>>
           \/ /\ d # Broadcast /\ HasRoute(routes[n], d)
              /\ out' = [out EXCEPT ![n] = Call(routes[n], msg, None)]
              /\ inbox' = Emptied(n)
              /\ UNCHANGED <<result, arp>>
           \/ /\ d # Broadcast
              /\ arp' = [arp EXCEPT ![n] = [address |-> d, deaf |-> FALSE]]
              /\ inbox' \in Heard(n, DiscoveryRequest(n, d))
              /\ UNCHANGED <<out, result>>
           \/ /\ result' = [result EXCEPT ![n] = "INVALID_LENGTH"]
              /\ UNCHANGED <<inbox, out, arp>>
    BY DEF SendtoWait
  <1>5. result' \in [Node -> {"none", "NONE", "INVALID_LENGTH", "NO_ROUTE", "UNABLE_TO_DELIVER"}]
    BY <1>1, <1>4 DEF NetworkTypeOK
  <1>6. out' = out => out' = [out EXCEPT ![n] = None]
    BY <1>1 DEF NetworkTypeOK
  <1>7. inbox' = Emptied(n) \/ inbox' = inbox => NothingNew
    BY <1>1 DEF NothingNew, Emptied, NetworkTypeOK
  <1>8. /\ sent' \in [Node -> Seq(Node \cup {Broadcast})]
        /\ Len(sent'[n]) = k0 /\ k0 \in DOMAIN sent'[n] /\ sent'[n][k0] = d
        /\ \A m \in Node \ {n} : sent'[m] = sent[m]
    BY <1>1 DEF Post, NetworkTypeOK
  <1>9. Service!Next
    BY <1>1, <1>4 DEF Post, Service!Next, Service!Post
  <1>10. ASSUME NetInv', UNCHANGED arp, out' = out \/ out' = [out EXCEPT ![n] = Call(routes[n], msg, None)],
                \A s, k : Absent(s, k) /\ ~(s = n /\ k = k0) => Absent(s, k)'
         PROVE  MeshInv'
    <2>1. TypeOK'
      BY <1>4, <1>10 DEF MeshInv, TypeOK, NetInv
    <2>2. Unsent'
      BY <1>1, <1>8, <1>10 DEF MeshInv, Unsent
    <2>3. ASSUME NEW m \in Node, out'[m] # None, out'[m].from = None
          PROVE  out'[m].msg.source = m
      <3>1. CASE m = n /\ out' = [out EXCEPT ![n] = Call(routes[n], msg, None)]
        BY <1>1, <1>3, <3>1 DEF NetworkTypeOK, Call
      <3>2. CASE out'[m] = out[m]
        BY <2>3, <3>2 DEF MeshInv, OwnMessages
      <3> QED
        BY <1>1, <1>10, <3>1, <3>2 DEF NetworkTypeOK
    <2> QED
      BY <1>10, <2>1, <2>2, <2>3 DEF MeshInv, OwnMessages
  <1>11. CASE d = Broadcast /\ inbox' \in Heard(n, msg) /\ UNCHANGED <<out, arp>>
    <2>1. NetInv' /\ \A s, k : Absent(s, k) /\ ~(s = n /\ k = k0) => Absent(s, k)'
      BY <1>1, <1>4, <1>5, <1>6, <1>11, PostStep
    <2> QED
      BY <1>9, <1>10, <1>11, <2>1
  <1>12. CASE /\ d # Broadcast /\ HasRoute(routes[n], d)
              /\ out' = [out EXCEPT ![n] = Call(routes[n], msg, None)]
              /\ inbox' = Emptied(n) /\ UNCHANGED arp
    <2> PICK call : call = Call(routes[n], msg, None)
      OBVIOUS
    <2>1. routes[n] \in Rows
      BY <1>1 DEF NetworkTypeOK, Rows
    <2>2. IsCall(n, call, msg) /\ call.msg = msg
      BY <1>3, <1>12, <2>1, CallType
    <2>3. NetInv' /\ \A s, k : Absent(s, k) /\ ~(s = n /\ k = k0) => Absent(s, k)'
      <3>1. call \in Sending \cup {None} /\ call.msg = AppMessage(n, d, Len(sent[n]) + 1)
        BY <2>2 DEF IsCall
      <3>2. /\ NothingNew /\ out' = [out EXCEPT ![n] = call]
            /\ UNCHANGED <<setting, routes, got, lost>>
        BY <1>4, <1>7, <1>12
      <3> QED
        BY <1>1, <1>5, <1>12, <3>1, <3>2, PostStep
    <2> QED
      BY <1>9, <1>10, <1>12, <2>3
  <1>13. CASE inbox' = inbox /\ UNCHANGED <<out, arp>>
    <2>1. NetInv' /\ \A s, k : Absent(s, k) /\ ~(s = n /\ k = k0) => Absent(s, k)'
      BY <1>1, <1>4, <1>5, <1>6, <1>7, <1>13, PostStep
    <2> QED
      BY <1>9, <1>10, <1>13, <2>1
  <1>14. CASE /\ d # Broadcast
              /\ arp' = [arp EXCEPT ![n] = [address |-> d, deaf |-> FALSE]]
              /\ inbox' \in Heard(n, DiscoveryRequest(n, d))
              /\ out' = out
    <2> PICK request : request = DiscoveryRequest(n, d)
      OBVIOUS
    <2>1. request \in Message /\ request.type = "request"
      BY <1>2, <1>14, EmptySeq DEF DiscoveryRequest, Message
    <2>2. NothingNew
      BY <1>1, <1>14, <2>1, HeardPackets DEF NothingNew
    <2>3. NetInv' /\ Absent(n, k0) /\ \A s, k : Absent(s, k) => Absent(s, k)'
      BY <1>1, <1>4, <1>5, <1>6, <1>14, <2>2, PostStep
    <2>4. TypeOK'
      BY <1>4, <1>14, <2>3 DEF MeshInv, TypeOK, NetInv, Arp
    <2>5. Unsent'
      <3>1. ASSUME NEW m \in Node, arp'[m] # None
            PROVE  /\ Len(sent'[m]) \in DOMAIN sent'[m]
                   /\ sent'[m][Len(sent'[m])] = arp'[m].address
                   /\ Absent(m, Len(sent[m]))'
        <4>1. CASE m = n
          BY <1>8, <1>14, <2>3, <4>1 DEF MeshInv, TypeOK
        <4>2. CASE m # n
          BY <1>8, <1>14, <2>3, <3>1, <4>2 DEF MeshInv, TypeOK, Unsent
        <4> QED
          BY <4>1, <4>2
      <3> QED
        BY <3>1 DEF Unsent
    <2>6. OwnMessages'
      BY <1>14 DEF MeshInv, OwnMessages
    <2> QED
      BY <1>9, <2>3, <2>4, <2>5, <2>6 DEF MeshInv
  <1> QED
    BY <1>4, <1>11, <1>12, <1>13, <1>14

LEMMA EndOfHopStep ==
    ASSUME MeshInv, NEW n \in Node, NEW ok \in BOOLEAN, Return(n, ok)
    PROVE  MeshInv' /\ UNCHANGED <<sent, got>>
  <1>1. NetInv /\ NetworkTypeOK /\ out[n] \in Sending /\ out[n] # None
    BY DEF MeshInv, NetInv, NetworkTypeOK, Return, MayReturn
  <1> PICK msg : msg = out[n].msg
    OBVIOUS
  <1>2. msg \in Message /\ msg.dest \in Node
    BY <1>1 DEF NetInv, Underway, Sending, Message
  <1>3. out[n].from \in Node \cup {None} /\ (out[n].from = None => msg.source = n)
    BY <1>1 DEF MeshInv, OwnMessages, Sending
  <1>4. routes[n] \in Rows
    BY <1>1 DEF NetworkTypeOK, Rows
  <1>5. PICK next :
            /\ next.row \in Rows /\ IsCall(n, next.call, msg)
            /\ next.call # None => next.call.msg.type = "failure"
            /\ routes' = [routes EXCEPT ![n] = next.row]
            /\ out' = [out EXCEPT ![n] = next.call]
    <2>1. CASE ok
      <3>1. LET next == Routing(routes[n], None)
            IN  /\ next.row \in Rows /\ IsCall(n, next.call, msg) /\ next.call = None
                /\ routes' = [routes EXCEPT ![n] = next.row]
                /\ out' = [out EXCEPT ![n] = next.call]
        BY <1>4, <2>1 DEF Return, Routing, IsCall
      <3> QED
        BY <3>1
    <2>2. CASE ~ok
      <3>1. LET next == Failed(n, routes[n], msg, out[n].from)
            IN  /\ routes' = [routes EXCEPT ![n] = next.row]
                /\ out' = [out EXCEPT ![n] = next.call]
        BY <2>2 DEF Return, WayBack
      <3> QED
        BY <1>2, <1>3, <1>4, <3>1, FailedType
    <2> QED
      BY <2>1, <2>2
  <1> PICK call : call = next.call
    OBVIOUS
  <1>6. /\ MayReturn(n, ok) /\ inbox' = Abandoned(n) /\ result' = Reported(n, ok)
        /\ lost' = LostIf(n, ok) /\ UNCHANGED <<setting, sent, got, arp, strayed>>
    BY DEF Return
  <1>7. routes' \in [Node -> [Node -> Node \cup {None}]]
    BY <1>1, <1>5 DEF NetworkTypeOK, Rows
  <1>8. /\ call \in Sending \cup {None}
        /\ call # None => /\ call.msg.type # "app" /\ call.msg.dest # Broadcast
                          /\ call.from = None => call.msg.source = n
    BY <1>5 DEF IsCall
  <1>9. NetInv' /\ \A s, k : Absent(s, k) => Absent(s, k)'
    BY <1>1, <1>5, <1>6, <1>7, <1>8, ReturnStep
  <1>10. TypeOK'
    BY <1>6, <1>9 DEF MeshInv, TypeOK, NetInv
  <1>11. Unsent'
    BY <1>6, <1>9 DEF MeshInv, Unsent
  <1>12. OwnMessages'
    BY <1>1, <1>5, <1>8 DEF MeshInv, OwnMessages, NetworkTypeOK
  <1> QED
    BY <1>6, <1>9, <1>10, <1>11, <1>12 DEF MeshInv

LEMMA HopStep ==
    ASSUME MeshInv, NEW n \in Node, Arrive(n) /\ UNCHANGED <<arp, strayed>>
    PROVE  MeshInv' /\ UNCHANGED <<sent, got>>
  <1>1. NetInv' /\ \A s, k : Absent(s, k) => Absent(s, k)'
    BY ArriveStep DEF MeshInv
  <1>2. UNCHANGED <<out, sent, got, arp>>
    BY DEF Arrive
  <1> QED
    BY <1>1, <1>2 DEF MeshInv, TypeOK, NetInv, OwnMessages, Unsent

LEMMA ArpTimeoutStep ==
    ASSUME MeshInv, NEW n \in Node, ArpTimeout(n)
    PROVE  MeshInv' /\ UNCHANGED <<sent, got>>
  <1>1. /\ arp' = [arp EXCEPT ![n] = None] /\ result' = [result EXCEPT ![n] = "NO_ROUTE"]
        /\ UNCHANGED <<setting, routes, inbox, out, sent, got, lost, strayed>>
    BY DEF ArpTimeout
  <1>2. TypeOK' /\ NetworkTypeOK'
    BY <1>1 DEF MeshInv, TypeOK, NetworkTypeOK
  <1>3. Underway' /\ Awaited' /\ GivenSent' /\ OneCopy'
    BY <1>1, NothingSent DEF MeshInv
  <1>4. \A s, k : Absent(s, k)' <=> Absent(s, k)
    BY <1>1 DEF Absent, NoCopy, Holds, Loose, Waiting, GivenTo, IsMessage
  <1>5. Unsent' /\ OwnMessages'
    BY <1>1, <1>4 DEF MeshInv, TypeOK, Unsent, OwnMessages
  <1> QED
    BY <1>1, <1>2, <1>3, <1>5 DEF MeshInv, NetInv

(* A packet is taken, and the node may send something: the same message, a  *)
(* message of the mesh, or the one it has found a route for.                *)
LEMMA ContinueStep ==
    ASSUME MeshInv, NEW n \in Node, Listening(n), inbox[n] # None,
           NEW row \in Rows, NEW call \in Sending \cup {None},
           call # None =>
              /\ call.msg.dest # Broadcast
              /\ call.from = None => call.msg.source = n
              /\ call.msg.type = "app" =>
                    \/ /\ inbox[n].msg.type = "app"
                       /\ call.msg.source = inbox[n].msg.source
                       /\ call.msg.about = inbox[n].msg.about
                       /\ call.msg.dest = inbox[n].msg.dest
                    \/ /\ arp[n] # None /\ arp'[n] = None
                       /\ call.msg = AppMessage(n, arp[n].address, Len(sent[n])),
           routes' = [routes EXCEPT ![n] = row],
           out' = [Acknowledged(inbox[n]) EXCEPT ![n] = call],
           NothingNew, inbox'[n] = None,
           arp' \in [Node -> Arp \cup {None}],
           \A m \in Node : arp'[m] # None => arp[m] # None /\ arp'[m].address = arp[m].address,
           strayed' \in BOOLEAN, UNCHANGED <<setting, result, sent, got, lost>>
    PROVE  MeshInv'
  <1>1. NetInv /\ NetworkTypeOK
    BY DEF MeshInv, NetInv
  <1>2. routes' \in [Node -> [Node -> Node \cup {None}]]
    BY <1>1 DEF NetworkTypeOK, Rows
  <1>3. /\ out'[n] = call
        /\ \A m \in Node \ {n} : out'[m] # None =>
              out[m] # None /\ out'[m].msg = out[m].msg /\ out'[m].from = out[m].from
        /\ \A s, k : IsMessage(inbox[n].msg, s, k) => ~NoCopy(s, k)
    BY <1>1, TakenCopies
  <1>4. ASSUME call # None, call.msg.type = "app"
        PROVE  \/ /\ inbox[n].msg.type = "app"
                  /\ call.msg.source = inbox[n].msg.source
                  /\ call.msg.about = inbox[n].msg.about
                  /\ call.msg.dest = inbox[n].msg.dest
               \/ Genuine(call.msg) /\ Absent(call.msg.source, call.msg.about)
    <2>1. ASSUME arp[n] # None, call.msg = AppMessage(n, arp[n].address, Len(sent[n]))
          PROVE  Genuine(call.msg) /\ Absent(call.msg.source, call.msg.about)
      <3>1. /\ call.msg.source = n /\ call.msg.about = Len(sent[n])
            /\ call.msg.dest = arp[n].address
        BY <2>1 DEF AppMessage
      <3> QED
        BY <2>1, <3>1 DEF MeshInv, Unsent, Genuine
    <2> QED
      BY <1>4, <2>1
  <1>5. /\ NetInv'
        /\ \A s, k : Absent(s, k) /\ ~(call # None /\ IsMessage(call.msg, s, k)) => Absent(s, k)'
    BY <1>1, <1>2, <1>4, RelayStep
  <1>6. ASSUME NEW m \in Node, arp'[m] # None
        PROVE  Absent(m, Len(sent[m]))'
    <2> PICK k : k = Len(sent[m])
      OBVIOUS
    <2>1. Absent(m, k)
      BY <1>6 DEF MeshInv, Unsent
    <2>2. ~(call # None /\ IsMessage(call.msg, m, k))
      <3>1. ~IsMessage(inbox[n].msg, m, k)
        BY <1>3, <2>1 DEF Absent
      <3>2. call.msg = AppMessage(n, arp[n].address, Len(sent[n])) => call.msg.source = n
        BY DEF AppMessage
      <3> QED
        BY <1>6, <3>1, <3>2 DEF IsMessage
    <2> QED
      BY <1>5, <2>1, <2>2
  <1>7. Unsent'
    BY <1>6 DEF MeshInv, Unsent
  <1>8. OwnMessages'
    BY <1>3 DEF MeshInv, OwnMessages
  <1>9. TypeOK'
    BY <1>5 DEF TypeOK, NetInv
  <1> QED
    BY <1>5, <1>7, <1>8, <1>9 DEF MeshInv

LEMMA TakeStep ==
    ASSUME MeshInv, NEW n \in Node, Take(n)
    PROVE  MeshInv' /\ (Service!Next \/ UNCHANGED <<sent, got>>)
  <1> PICK p, msg : p = inbox[n] /\ msg = p.msg
    OBVIOUS
  <1>1. /\ NetInv /\ NetworkTypeOK /\ TypeOK /\ Listening(n) /\ p # None /\ p \in Packet
        /\ UNCHANGED <<setting, sent, lost>> /\ strayed' \in BOOLEAN
    BY DEF MeshInv, NetInv, NetworkTypeOK, Take
  <1>2. /\ msg \in Message /\ p.from \in Node /\ msg.source \in Node
        /\ msg.dest \in Node \cup {Broadcast} /\ msg.hops \in 0 .. MaxHops
        /\ msg.path \in Seq(Node)
    BY <1>1 DEF Packet, Message
  <1>3. routes[n] \in Rows
    BY <1>1 DEF NetworkTypeOK, Rows
  <1>4. PICK row \in Rows :
            \/ Relay(n, p, row)
            \/ TakeInArp(n, p, row)
            \/ TakeApplication(n, p, row)
            \/ TakeRequest(n, p, row)
            \/ TakeOther(n, p, row)
    BY <1>1, <1>3, PeekedType DEF Take
  <1>5. inbox' = Emptied(n) => NothingNew /\ inbox'[n] = None
    BY <1>1 DEF NothingNew, Emptied, NetworkTypeOK
  <1>6. ASSUME NEW next, Continue(n, p, next), next.row \in Rows,
               next.call \in Sending \cup {None},
               next.call # None =>
                  /\ next.call.msg.dest # Broadcast
                  /\ next.call.from = None => next.call.msg.source = n
                  /\ next.call.msg.type = "app" =>
                        \/ /\ msg.type = "app" /\ next.call.msg.source = msg.source
                           /\ next.call.msg.about = msg.about /\ next.call.msg.dest = msg.dest
                        \/ /\ arp[n] # None /\ arp'[n] = None
                           /\ next.call.msg = AppMessage(n, arp[n].address, Len(sent[n])),
               NothingNew, inbox'[n] = None,
               arp' \in [Node -> Arp \cup {None}],
               \A m \in Node : arp'[m] # None => arp[m] # None /\ arp'[m].address = arp[m].address,
               UNCHANGED <<result, got>>
        PROVE  MeshInv' /\ UNCHANGED <<sent, got>>
    BY <1>1, <1>6, ContinueStep DEF Continue
  <1>7. CASE Relay(n, p, row)
    <2> PICK next : next = IF MayRelay(msg) THEN Route(n, row, Relayed(msg), p.from)
                           ELSE Routing(row, None)
      OBVIOUS
    <2>1. /\ Continue(n, p, next) /\ inbox' = Emptied(n) /\ msg.dest \in Node
          /\ UNCHANGED <<result, got, arp>>
      BY <1>2, <1>7 DEF Relay, IsForUs
    <2>2. CASE MayRelay(msg)
      <3> PICK sentOn : sentOn = Relayed(msg)
        OBVIOUS
      <3>1. msg.hops + 1 \in 0 .. MaxHops
        <4>1. msg.hops < MaxHops /\ msg.hops \in 0 .. MaxHops
          BY <1>2, <2>2 DEF MayRelay
        <4>2. MaxHops \in Nat
          BY NetworkAssumption
        <4> QED
          BY <4>1, <4>2
      <3>2. /\ sentOn \in Message /\ sentOn.type = msg.type /\ sentOn.source = msg.source
            /\ sentOn.about = msg.about /\ sentOn.dest = msg.dest
        BY <1>2, <3>1 DEF Relayed, Message
      <3>3. next.row \in Rows /\ IsCall(n, next.call, sentOn)
        BY <1>2, <2>1, <2>2, <3>2, RouteType, NetworkAssumption
      <3> QED
        BY <1>1, <1>5, <1>6, <2>1, <3>2, <3>3 DEF IsCall, TypeOK
    <2>3. CASE ~MayRelay(msg)
      <3>1. next.row = row /\ next.call = None
        BY <2>3 DEF Routing
      <3> QED
        BY <1>1, <1>5, <1>6, <2>1, <3>1 DEF TypeOK
    <2> QED
      BY <2>2, <2>3
  <1>8. CASE TakeOther(n, p, row)
    <2> PICK next : next = Routing(row, None)
      OBVIOUS
    <2>1. /\ Continue(n, p, next) /\ inbox' = Emptied(n) /\ UNCHANGED <<result, got, arp>>
          /\ next.row = row /\ next.call = None
      BY <1>8 DEF TakeOther, Routing
    <2> QED
      BY <1>1, <1>5, <1>6, <2>1 DEF TypeOK
  <1>9. CASE TakeInArp(n, p, row)
    <2> PICK address : address = arp[n].address
      OBVIOUS
    <2>1. /\ arp[n] # None /\ arp[n] \in Arp /\ address \in Node
          /\ inbox' = Emptied(n) /\ UNCHANGED <<result, got>>
      BY <1>1, <1>9 DEF TakeInArp, TypeOK, Arp
    <2>2. CASE /\ Continue(n, p, Route(n, AddRoutes(row, {address}, p.from),
                                       AppMessage(n, address, Len(sent[n])), None))
               /\ arp' = [arp EXCEPT ![n] = None]
      <3> PICK own, found, next :
              /\ own = AppMessage(n, address, Len(sent[n]))
              /\ found = AddRoutes(row, {address}, p.from)
              /\ next = Route(n, found, own, None)
        OBVIOUS
      <3>1. /\ own \in Message /\ own.dest = address /\ own.source = n
        <4>1. 0 \in 0 .. MaxHops
          BY NoHops
        <4>2. Len(sent[n]) \in Nat
          BY <1>1 DEF NetworkTypeOK
        <4> QED
          BY <2>1, <4>1, <4>2, EmptySeq DEF AppMessage, Message
      <3>2. found \in Rows
        BY <1>2, AddRoutesType
      <3>3. next.row \in Rows /\ IsCall(n, next.call, own)
        BY <2>1, <3>1, <3>2, RouteType
      <3>4. arp' \in [Node -> Arp \cup {None}] /\ arp'[n] = None
            /\ \A m \in Node : arp'[m] # None => arp[m] # None /\ arp'[m].address = arp[m].address
        BY <1>1, <2>2 DEF TypeOK
      <3> QED
        BY <1>5, <1>6, <2>1, <2>2, <3>3, <3>4 DEF IsCall
    <2>3. CASE /\ Continue(n, p, Routing(row, None))
               /\ arp' = arp \/ arp' = [arp EXCEPT ![n].deaf = TRUE]
      <3> PICK next : next = Routing(row, None)
        OBVIOUS
      <3>1. next.row = row /\ next.call = None
        BY DEF Routing
      <3>2. arp' \in [Node -> Arp \cup {None}]
            /\ \A m \in Node : arp'[m] # None => arp[m] # None /\ arp'[m].address = arp[m].address
        <4>1. \A a \in Arp : [a EXCEPT !.deaf = TRUE] \in Arp
                             /\ [a EXCEPT !.deaf = TRUE].address = a.address
          BY DEF Arp
        <4> QED
          BY <1>1, <2>1, <2>3, <4>1 DEF TypeOK
      <3> QED
        BY <1>5, <1>6, <2>1, <2>3, <3>1, <3>2
    <2> QED
      BY <1>9, <2>2, <2>3 DEF TakeInArp
  <1>10. CASE TakeRequest(n, p, row)
    <2> PICK back : back = AddRoutes(row, {msg.source} \cup Members(msg.path), p.from)
      OBVIOUS
    <2>1. back \in Rows /\ msg.type = "request" /\ UNCHANGED <<result, got, arp>>
      BY <1>2, <1>10, AddRoutesType DEF TakeRequest, IsNewRequest
    <2>2. CASE /\ Continue(n, p, Route(n, back, DiscoveryResponse(n, msg), p.from))
               /\ inbox' = Emptied(n)
      <3> PICK response, next : /\ response = DiscoveryResponse(n, msg)
                                /\ next = Route(n, back, response, p.from)
        OBVIOUS
      <3>1. response \in Message /\ response.dest \in Node /\ response.type = "response"
        BY <1>2 DEF DiscoveryResponse, Message
      <3>2. next.row \in Rows /\ IsCall(n, next.call, response)
        BY <1>2, <2>1, <3>1, RouteType, NetworkAssumption
      <3> QED
        BY <1>1, <1>5, <1>6, <2>1, <2>2, <3>1, <3>2 DEF IsCall, TypeOK
    <2>3. CASE /\ Continue(n, p, Routing(back, None))
               /\ inbox' \in Heard(n, Forwarded(n, msg)) \/ inbox' = Emptied(n)
      <3> PICK request, next : request = Forwarded(n, msg) /\ next = Routing(back, None)
        OBVIOUS
      <3>1. request \in Message /\ request.type = "request"
        <4>1. Append(msg.path, n) \in Seq(Node)
          BY <1>2
        <4>2. \A m \in Message, q \in Seq(Node) :
                 /\ [m EXCEPT !.path = q] \in Message
                 /\ [m EXCEPT !.path = q].type = m.type
          BY DEF Message
        <4> QED
          BY <1>2, <2>1, <4>1, <4>2 DEF Forwarded
      <3>2. NothingNew /\ inbox'[n] = None
        BY <1>1, <1>5, <2>3, <3>1, HeardPackets DEF NothingNew
      <3>3. next.row = back /\ next.call = None
        BY DEF Routing
      <3> QED
        BY <1>1, <1>6, <2>1, <2>3, <3>2, <3>3 DEF TypeOK
    <2> QED
      BY <1>10, <2>2, <2>3 DEF TakeRequest
  <1>11. CASE TakeApplication(n, p, row)
    <2>1. /\ IsForUs(n, msg) /\ msg.type = "app" /\ GiveOut(n, msg)
          /\ routes' = [routes EXCEPT ![n] = row]
          /\ out' = [Acknowledged(p) EXCEPT ![n] = None]
          /\ inbox' = Emptied(n) /\ UNCHANGED <<result, arp>>
      BY <1>11 DEF TakeApplication, Continue, Routing
    <2>2. routes' \in [Node -> [Node -> Node \cup {None}]]
      BY <1>1, <2>1 DEF NetworkTypeOK, Rows
    <2>3. /\ NetInv' /\ Service!Give(n, msg.source, msg.about)
          /\ \A s \in Node : \A k : Absent(s, k) => Absent(s, k)'
      BY <1>1, <1>5, <2>1, <2>2, GiveStep
    <2>4. Service!Next
      BY <1>2, <2>3 DEF Service!Next, Service!Give
    <2>5. TypeOK'
      BY <1>1, <2>1, <2>3 DEF TypeOK, NetInv
    <2>6. Unsent'
      BY <1>1, <2>1, <2>3 DEF MeshInv, Unsent
    <2>7. OwnMessages'
      <3>1. /\ out'[n] = None
            /\ \A m \in Node \ {n} : out'[m] # None =>
                  out[m] # None /\ out'[m].msg = out[m].msg /\ out'[m].from = out[m].from
        BY <1>1, <1>5, <2>1, TakenCopies
      <3> QED
        BY <3>1 DEF MeshInv, OwnMessages
    <2> QED
      BY <2>3, <2>4, <2>5, <2>6, <2>7 DEF MeshInv
  <1> QED
    BY <1>4, <1>7, <1>8, <1>9, <1>10, <1>11

LEMMA MeshStep ==
    ASSUME MeshInv, [Next]_vars
    PROVE  MeshInv' /\ [Service!Next]_<<sent, got>>
  <1>1. CASE UNCHANGED vars
    <2>1. UNCHANGED <<setting, routes, inbox, out, result, sent, got, lost, arp, strayed>>
      BY <1>1 DEF vars
    <2>2. Underway' /\ Awaited' /\ GivenSent' /\ OneCopy'
      BY <2>1, NothingSent DEF MeshInv
    <2>3. \A s, k : Absent(s, k)' <=> Absent(s, k)
      BY <2>1 DEF Absent, NoCopy, Holds, Loose, Waiting, GivenTo, IsMessage
    <2>4. TypeOK' /\ NetworkTypeOK' /\ OwnMessages' /\ Unsent'
      BY <2>1, <2>3 DEF MeshInv, TypeOK, NetworkTypeOK, OwnMessages, Unsent
    <2> QED
      BY <2>1, <2>2, <2>4 DEF MeshInv, NetInv
  <1>2. CASE Next
    <2>1. PICK n \in Node :
            \/ \E d \in Node \cup {Broadcast} : SendtoWait(n, d)
            \/ ArpTimeout(n)
            \/ Arrive(n) /\ UNCHANGED <<arp, strayed>>
            \/ \E ok \in BOOLEAN : Return(n, ok)
            \/ Take(n)
      BY <1>2 DEF Next
    <2> QED
      BY <2>1, SendtoWaitStep, ArpTimeoutStep, HopStep, EndOfHopStep, TakeStep
  <1> QED
    BY <1>1, <1>2

LEMMA MeshInvariant == Spec => []MeshInv
  BY MeshInit, MeshStep, PTL DEF Spec

-----------------------------------------------------------------------------
(* The lists of requests and responses.                                     *)

\* The nodes a request has passed, with the one that sent it.
Walk(msg) == <<msg.source>> \o msg.path

\* What nodes broadcast, and what they send to one node: a request is never
\* passed on by sendtoWait(), so that it is heard from the last node it lists,
\* and in sight of that node.
WellWalked(n, p) ==
    /\ Listed(p.msg)
    /\ p.msg.type = "request" =>
          /\ p.msg.dest = Broadcast
          /\ n \in InSight(p.from)
          /\ Walk(p.msg)[Len(Walk(p.msg))] = p.from
          /\ Len(Walk(p.msg)) <= MaxHops + 1

Directed(msg) == Listed(msg) /\ msg.type # "request"

WalkInv ==
    \A n \in Node :
        /\ inbox[n] # None => WellWalked(n, inbox[n])
        /\ out[n] # None => Directed(out[n].msg)

(* The walk of a message, and a walk one node longer.                       *)
LEMMA WalkType ==
    ASSUME NEW a \in Node, NEW path \in Seq(Node)
    PROVE  /\ <<a>> \o path \in Seq(Node)
           /\ Len(<<a>> \o path) = Len(path) + 1
           /\ (<<a>> \o path)[1] = a
           /\ \A i \in DOMAIN path : (<<a>> \o path)[i + 1] = path[i]
  OBVIOUS

LEMMA WalkOn ==
    ASSUME NEW a \in Node, NEW path \in Seq(Node), NEW b \in Node
    PROVE  /\ <<a>> \o Append(path, b) = Append(<<a>> \o path, b)
           /\ <<a>> \o path \o <<b>> = Append(<<a>> \o path, b)
  OBVIOUS

(* A node in sight of the last one of a path, and not on it, prolongs it.   *)
LEMMA PathGrows ==
    ASSUME NEW s \in Seq(Node), s # <<>>, IsPath(s), NEW n \in Node,
           n \in InSight(s[Len(s)]), \A i \in DOMAIN s : s[i] # n
    PROVE  IsPath(Append(s, n))
  <1> PICK t : t = Append(s, n)
    OBVIOUS
  <1>1. /\ DOMAIN s = 1 .. Len(s) /\ Len(s) \in Nat /\ Len(s) >= 1
        /\ DOMAIN t = 1 .. Len(s) + 1 /\ Len(t) = Len(s) + 1
        /\ \A i \in 1 .. Len(s) : t[i] = s[i]
        /\ t[Len(s) + 1] = n
    BY EmptySeq
  <1>2. \A i, j \in DOMAIN t : i # j => t[i] # t[j]
    BY <1>1 DEF IsPath
  <1>3. ASSUME NEW i \in 1 .. Len(s) PROVE t[i + 1] \in InSight(t[i])
    <2>1. CASE i = Len(s)
      BY <1>1, <2>1
    <2>2. CASE i \in 1 .. Len(s) - 1
      <3>1. i \in 1 .. Len(s) /\ i + 1 \in 1 .. Len(s)
        BY <1>1, <2>2
      <3>2. s[i + 1] \in InSight(s[i])
        BY <2>2 DEF IsPath
      <3> QED
        BY <1>1, <3>1, <3>2
    <2>3. i = Len(s) \/ i \in 1 .. Len(s) - 1
      <3>1. Len(s) \in Nat
        BY <1>1
      <3> QED
        BY <3>1
    <2> QED
      BY <2>1, <2>2, <2>3
  <1>4. Len(t) - 1 = Len(s)
    BY <1>1
  <1> QED
    BY <1>2, <1>3, <1>4 DEF IsPath

(* The network does not change.                                             *)
LEMMA SightSteady ==
    ASSUME UNCHANGED setting
    PROVE  /\ \A msg : Listed(msg)' <=> Listed(msg)
           /\ \A msg : Directed(msg)' <=> Directed(msg)
           /\ \A n, p : WellWalked(n, p)' <=> WellWalked(n, p)
  <1>1. \A n : InSight(n)' = InSight(n)
    BY DEF InSight
  <1>2. \A s : IsPath(s)' <=> IsPath(s)
    BY <1>1 DEF IsPath
  <1>3. \A msg : Listed(msg)' <=> Listed(msg)
    BY <1>2 DEF Listed
  <1> QED
    BY <1>1, <1>3 DEF Directed, WellWalked, Walk

(* What a node does to a packet or a call that is not about its list.       *)
LEMMA SameList ==
    ASSUME NEW msg, NEW msg1, msg1.type = msg.type, msg1.source = msg.source,
           msg1.dest = msg.dest, msg1.path = msg.path, msg1.about = msg.about
    PROVE  /\ Listed(msg1) <=> Listed(msg)
           /\ Directed(msg1) <=> Directed(msg)
  BY DEF Listed, Directed

(* What route() sends if it may send msg on: that, or a failure notice.     *)
LEMMA DirectedCall ==
    ASSUME NEW n, NEW call, NEW msg, IsCall(n, call, msg), call # None, Directed(msg)
    PROVE  Directed(call.msg)
  <1>1. CASE call.msg = msg
    BY <1>1
  <1>2. CASE call.msg.type = "failure"
    BY <1>2 DEF Directed, Listed
  <1> QED
    BY <1>1, <1>2 DEF IsCall

(* The invariant, from what a step does to each FIFO and each call.         *)
LEMMA WalkFromParts ==
    ASSUME UNCHANGED setting,
           \A m \in Node : inbox'[m] # None => WellWalked(m, inbox'[m]),
           \A m \in Node : out'[m] # None => Directed(out'[m].msg)
    PROVE  WalkInv'
  BY SightSteady DEF WalkInv

(* A message that is heard, with the list it has when n sends it.           *)
LEMMA HeardWalk ==
    ASSUME NetworkTypeOK, WalkInv, NEW n \in Node, NEW msg, inbox' \in Heard(n, msg),
           Listed(msg),
           msg.type = "request" =>
              /\ msg.dest = Broadcast
              /\ Walk(msg)[Len(Walk(msg))] = n
              /\ Len(Walk(msg)) <= MaxHops + 1
    PROVE  \A m \in Node : inbox'[m] # None => WellWalked(m, inbox'[m])
  <1> PICK near, packet : /\ near = {m \in InSight(n) : Listening(m)}
                          /\ packet = [from |-> n, awaited |-> FALSE, msg |-> msg]
    OBVIOUS
  <1>1. PICK R \in SUBSET near :
            inbox' = [m \in Node |-> IF m \in R THEN packet ELSE IF m = n THEN None ELSE inbox[m]]
    BY DEF Heard
  <1> SUFFICES ASSUME NEW m \in Node, inbox'[m] # None PROVE WellWalked(m, inbox'[m])
    OBVIOUS
  <1>2. CASE m \in R
    <2>1. inbox'[m] = packet /\ packet.from = n /\ packet.msg = msg /\ m \in InSight(n)
      BY <1>1, <1>2
    <2> QED
      BY <2>1 DEF WellWalked
  <1>3. CASE m \notin R
    <2>1. inbox'[m] = inbox[m]
      BY <1>1, <1>3
    <2> QED
      BY <2>1 DEF WalkInv
  <1> QED
    BY <1>2, <1>3

(* The sketch sends a message, or a request with an empty list.             *)
LEMMA SendtoWaitWalk ==
    ASSUME NetworkTypeOK, WalkInv, NEW n \in Node, NEW d \in Node \cup {Broadcast},
           SendtoWait(n, d)
    PROVE  WalkInv'
  <1> PICK app, request : /\ app = AppMessage(n, d, Len(sent[n]) + 1)
                          /\ request = DiscoveryRequest(n, d)
    OBVIOUS
  <1>1. Directed(app) /\ Listed(app) /\ app.type = "app"
    BY DEF AppMessage, Directed, Listed
  <1>2. /\ request.type = "request" /\ request.dest = Broadcast /\ Listed(request)
        /\ Walk(request)[Len(Walk(request))] = n
        /\ Len(Walk(request)) <= MaxHops + 1
    <2>1. Walk(request) = <<n>>
      <3>1. <<n>> \o <<>> = <<n>>
        OBVIOUS
      <3> QED
        BY <3>1 DEF Walk, DiscoveryRequest
    <2>2. IsPath(<<n>>)
      BY DEF IsPath
    <2>3. MaxHops \in Nat
      BY NetworkAssumption
    <2> QED
      BY <2>1, <2>2, <2>3 DEF DiscoveryRequest, Listed, Walk
  <1>3. /\ UNCHANGED setting
        /\ \/ inbox' \in Heard(n, app) \/ inbox' \in Heard(n, request)
           \/ inbox' = Emptied(n) \/ inbox' = inbox
        /\ \/ out' = out
           \/ out' = [out EXCEPT ![n] = Call(routes[n], app, None)]
    BY DEF SendtoWait
  <1>4. \A m \in Node : inbox'[m] # None => WellWalked(m, inbox'[m])
    <2>1. CASE inbox' \in Heard(n, app)
      BY <1>1, <2>1, HeardWalk
    <2>2. CASE inbox' \in Heard(n, request)
      BY <1>2, <2>2, HeardWalk
    <2>3. CASE inbox' = Emptied(n) \/ inbox' = inbox
      BY <2>3 DEF NetworkTypeOK, Emptied, WalkInv
    <2> QED
      BY <1>3, <2>1, <2>2, <2>3
  <1>5. \A m \in Node : out'[m] # None => Directed(out'[m].msg)
    BY <1>1, <1>3 DEF NetworkTypeOK, WalkInv, Call
  <1> QED
    BY <1>3, <1>4, <1>5, WalkFromParts

(* A hop ends; what follows is at most a failure notice.                    *)
LEMMA ReturnWalk ==
    ASSUME MeshInv, WalkInv, NEW n \in Node, NEW ok \in BOOLEAN, Return(n, ok)
    PROVE  WalkInv'
  <1>1. NetworkTypeOK /\ out[n] \in Sending /\ out[n] # None /\ NetInv
    BY DEF MeshInv, NetInv, NetworkTypeOK, Return, MayReturn
  <1> PICK msg : msg = out[n].msg
    OBVIOUS
  <1>2. PICK call : /\ call # None => Directed(call.msg)
                    /\ out' = [out EXCEPT ![n] = call]
    <2>1. CASE ok
      <3>1. out' = [out EXCEPT ![n] = None]
        BY <2>1 DEF Return, Routing
      <3> QED
        BY <3>1
    <2>2. CASE ~ok
      <3>1. /\ msg \in Message /\ msg.dest \in Node
            /\ out[n].from \in Node \cup {None} /\ (out[n].from = None => msg.source = n)
        BY <1>1 DEF MeshInv, OwnMessages, NetInv, Underway, Sending, Message
      <3>2. routes[n] \in Rows
        BY <1>1 DEF NetworkTypeOK, Rows
      <3> PICK next : next = Failed(n, routes[n], msg, out[n].from)
        OBVIOUS
      <3>3. next.call # None => next.call.msg.type = "failure"
        BY <3>1, <3>2, FailedType
      <3>4. out' = [out EXCEPT ![n] = next.call]
        BY <2>2 DEF Return, WayBack
      <3> QED
        BY <3>3, <3>4 DEF Directed, Listed
    <2> QED
      BY <2>1, <2>2
  <1>3. UNCHANGED setting /\ inbox' = Abandoned(n)
    BY DEF Return
  <1>4. \A m \in Node : out'[m] # None => Directed(out'[m].msg)
    BY <1>1, <1>2 DEF NetworkTypeOK, WalkInv
  <1>5. ASSUME NEW m \in Node, inbox'[m] # None PROVE WellWalked(m, inbox'[m])
    <2>1. \/ inbox'[m] = inbox[m]
          \/ /\ inbox[m] = OnAir(n)
             /\ inbox'[m] = [inbox[m] EXCEPT !.awaited = FALSE]
      BY <1>3 DEF Abandoned
    <2>2. CASE inbox'[m] = inbox[m]
      BY <1>5, <2>2 DEF WalkInv
    <2>3. CASE /\ inbox[m] = OnAir(n)
               /\ inbox'[m] = [inbox[m] EXCEPT !.awaited = FALSE]
      <3>1. inbox'[m].msg = msg /\ Directed(msg)
        BY <1>1, <2>3 DEF OnAir, WalkInv
      <3> QED
        BY <3>1 DEF Directed, WellWalked
    <2> QED
      BY <2>1, <2>2, <2>3
  <1> QED
    BY <1>3, <1>4, <1>5, WalkFromParts

(* A transmission arrives: it is not a request.                             *)
LEMMA ArriveWalk ==
    ASSUME MeshInv, WalkInv, NEW n \in Node, Arrive(n)
    PROVE  WalkInv'
  <1>1. /\ NetworkTypeOK /\ out[n] # None /\ UNCHANGED <<setting, out>>
        /\ inbox' = [inbox EXCEPT ![out[n].to] = OnAir(n)]
    BY DEF MeshInv, NetInv, Arrive, Waiting
  <1>2. Directed(OnAir(n).msg)
    BY <1>1 DEF OnAir, WalkInv
  <1>3. \A m \in Node : inbox'[m] # None => WellWalked(m, inbox'[m])
    BY <1>1, <1>2 DEF NetworkTypeOK, WalkInv, WellWalked, Directed
  <1>4. \A m \in Node : out'[m] # None => Directed(out'[m].msg)
    BY <1>1 DEF WalkInv
  <1> QED
    BY <1>1, <1>3, <1>4, WalkFromParts

(* A packet is taken: the FIFO is empty, and a call that follows is sound.  *)
LEMMA ContinueWalk ==
    ASSUME MeshInv, WalkInv, NEW n \in Node, NEW next, Continue(n, inbox[n], next),
           inbox[n] # None, UNCHANGED setting,
           next.call # None => Directed(next.call.msg),
           \A m \in Node : inbox'[m] # None => WellWalked(m, inbox'[m])
    PROVE  WalkInv'
  <1>1. out' = [Acknowledged(inbox[n]) EXCEPT ![n] = next.call] /\ NetworkTypeOK /\ NetInv
    BY DEF Continue, MeshInv, NetInv
  <1> PICK call, p : call = next.call /\ p = inbox[n]
    OBVIOUS
  <1>2. \A m \in Node : \/ m = n /\ out'[m] = call
                        \/ out'[m] = out[m]
                        \/ p.awaited /\ m = p.from /\ out'[m] = [out[m] EXCEPT !.taken = TRUE]
    BY <1>1 DEF Acknowledged
  <1>3. ASSUME NEW m \in Node, p.awaited, m = p.from,
               out'[m] = [out[m] EXCEPT !.taken = TRUE]
        PROVE  Directed(out'[m].msg)
    <2>1. out[m] # None /\ out[m] \in Sending
      BY <1>1, <1>3 DEF NetInv, Awaited, Waiting, NetworkTypeOK
    <2>2. [out[m] EXCEPT !.taken = TRUE].msg = out[m].msg
      BY <2>1 DEF Sending
    <2> QED
      BY <1>3, <2>1, <2>2 DEF WalkInv
  <1>4. \A m \in Node : out'[m] # None => Directed(out'[m].msg)
    BY <1>2, <1>3 DEF WalkInv
  <1> QED
    BY <1>4, WalkFromParts

LEMMA TakeWalk ==
    ASSUME MeshInv, WalkInv, NEW n \in Node, Take(n)
    PROVE  WalkInv'
  <1> PICK p, msg : p = inbox[n] /\ msg = p.msg
    OBVIOUS
  <1>1. /\ NetInv /\ NetworkTypeOK /\ TypeOK /\ p # None /\ p \in Packet
        /\ UNCHANGED setting
    BY DEF MeshInv, NetInv, NetworkTypeOK, Take
  <1>2. /\ msg \in Message /\ p.from \in Node /\ msg.source \in Node
        /\ msg.dest \in Node \cup {Broadcast} /\ msg.path \in Seq(Node)
        /\ WellWalked(n, p)
    BY <1>1 DEF Packet, Message, WalkInv
  <1>3. PICK row \in Rows :
            \/ Relay(n, p, row)
            \/ TakeInArp(n, p, row)
            \/ TakeApplication(n, p, row)
            \/ TakeRequest(n, p, row)
            \/ TakeOther(n, p, row)
    <2>1. routes[n] \in Rows
      BY <1>1 DEF NetworkTypeOK, Rows
    <2> QED
      BY <1>1, <2>1, PeekedType DEF Take
  <1>4. inbox' = Emptied(n) =>
           \A m \in Node : inbox'[m] # None => WellWalked(m, inbox'[m])
    BY <1>1 DEF Emptied, NetworkTypeOK, WalkInv
  <1>5. ASSUME NEW next, Continue(n, p, next), next.call # None => Directed(next.call.msg),
               \/ inbox' = Emptied(n)
               \/ \A m \in Node : inbox'[m] # None => WellWalked(m, inbox'[m])
        PROVE  WalkInv'
    BY <1>1, <1>4, <1>5, ContinueWalk
  <1>6. CASE Relay(n, p, row)
    <2> PICK next : next = IF MayRelay(msg) THEN Route(n, row, Relayed(msg), p.from)
                           ELSE Routing(row, None)
      OBVIOUS
    <2>1. Continue(n, p, next) /\ inbox' = Emptied(n) /\ msg.dest \in Node
      BY <1>2, <1>6 DEF Relay, IsForUs
    <2>2. ASSUME MayRelay(msg), next.call # None PROVE Directed(next.call.msg)
      <3> PICK sentOn : sentOn = Relayed(msg)
        OBVIOUS
      <3>1. msg.hops + 1 \in 0 .. MaxHops
        <4>1. msg.hops < MaxHops /\ msg.hops \in 0 .. MaxHops
          BY <1>2, <2>2 DEF MayRelay, Message
        <4>2. MaxHops \in Nat
          BY NetworkAssumption
        <4> QED
          BY <4>1, <4>2
      <3>2. /\ sentOn \in Message /\ sentOn.type = msg.type /\ sentOn.source = msg.source
            /\ sentOn.dest = msg.dest /\ sentOn.path = msg.path /\ sentOn.about = msg.about
        BY <1>2, <3>1 DEF Relayed, Message
      <3>3. IsCall(n, next.call, sentOn)
        BY <1>2, <2>1, <2>2, <3>2, RouteType, NetworkAssumption
      <3>4. Directed(msg)
        BY <1>2, <2>1, NetworkAssumption DEF WellWalked, Directed
      <3>5. Directed(sentOn)
        BY <3>2, <3>4, SameList
      <3> QED
        BY <2>2, <3>3, <3>5, DirectedCall
    <2>3. ~MayRelay(msg) => next.call = None
      BY DEF Routing
    <2> QED
      BY <1>5, <2>1, <2>2, <2>3
  <1>7. CASE TakeOther(n, p, row) \/ TakeApplication(n, p, row)
    <2> PICK next : next = Routing(row, None)
      OBVIOUS
    <2>1. Continue(n, p, next) /\ inbox' = Emptied(n) /\ next.call = None
      BY <1>7 DEF TakeOther, TakeApplication, Routing
    <2> QED
      BY <1>5, <2>1
  <1>8. CASE TakeInArp(n, p, row)
    <2> PICK address : address = arp[n].address
      OBVIOUS
    <2>1. arp[n] \in Arp /\ address \in Node /\ inbox' = Emptied(n)
      BY <1>1, <1>8 DEF TakeInArp, TypeOK, Arp
    <2>2. CASE Continue(n, p, Route(n, AddRoutes(row, {address}, p.from),
                                    AppMessage(n, address, Len(sent[n])), None))
      <3> PICK own, found, next :
              /\ own = AppMessage(n, address, Len(sent[n]))
              /\ found = AddRoutes(row, {address}, p.from)
              /\ next = Route(n, found, own, None)
        OBVIOUS
      <3>1. own \in Message /\ own.dest = address /\ own.source = n /\ own.type = "app"
        <4>1. 0 \in 0 .. MaxHops
          BY NoHops
        <4>2. Len(sent[n]) \in Nat
          BY <1>1 DEF NetworkTypeOK
        <4> QED
          BY <2>1, <4>1, <4>2, EmptySeq DEF AppMessage, Message
      <3>2. found \in Rows
        BY <1>2, AddRoutesType
      <3>3. IsCall(n, next.call, own)
        BY <2>1, <3>1, <3>2, RouteType
      <3>4. Directed(own)
        BY <3>1 DEF Directed, Listed
      <3>5. next.call # None => Directed(next.call.msg)
        BY <3>3, <3>4, DirectedCall
      <3> QED
        BY <1>5, <2>1, <2>2, <3>5
    <2>3. CASE Continue(n, p, Routing(row, None))
      <3> PICK next : next = Routing(row, None)
        OBVIOUS
      <3>1. next.call = None
        BY DEF Routing
      <3> QED
        BY <1>5, <2>1, <2>3, <3>1
    <2> QED
      BY <1>8, <2>2, <2>3 DEF TakeInArp
  <1>9. CASE TakeRequest(n, p, row)
    <2> PICK back, walk : /\ back = AddRoutes(row, {msg.source} \cup Members(msg.path), p.from)
                          /\ walk = Walk(msg)
      OBVIOUS
    <2>1. back \in Rows /\ IsNewRequest(n, msg) /\ msg.type = "request"
      BY <1>2, <1>9, AddRoutesType DEF TakeRequest, IsNewRequest
    <2>2. /\ walk \in Seq(Node) /\ Len(walk) = Len(msg.path) + 1 /\ walk # <<>>
          /\ \A i \in DOMAIN walk : walk[i] # n
      <3>1. /\ walk \in Seq(Node) /\ Len(walk) = Len(msg.path) + 1
            /\ walk[1] = msg.source
            /\ \A i \in DOMAIN msg.path : walk[i + 1] = msg.path[i]
        <4>1. msg.source \in Node /\ msg.path \in Seq(Node)
          BY <1>2, <2>1
        <4>2. walk = <<msg.source>> \o msg.path
          BY DEF Walk
        <4>3. PICK a \in Node, path \in Seq(Node) : a = msg.source /\ path = msg.path
          BY <4>1
        <4>4. PICK w : w = <<a>> \o path
          OBVIOUS
        <4>5. /\ w \in Seq(Node) /\ Len(w) = Len(path) + 1 /\ w[1] = a
              /\ \A i \in DOMAIN path : w[i + 1] = path[i]
          BY <4>4, WalkType
        <4>6. walk = w
          BY <4>2, <4>3, <4>4
        <4> QED
          BY <4>3, <4>5, <4>6
      <3>2. msg.source # n /\ \A i \in DOMAIN msg.path : msg.path[i] # n
        BY <2>1 DEF IsNewRequest, Members
      <3>3. ASSUME NEW i \in DOMAIN walk PROVE walk[i] # n
        <4>1. i = 1 \/ i - 1 \in DOMAIN msg.path
          BY <1>2, <3>1
        <4>2. i - 1 \in DOMAIN msg.path => walk[i - 1 + 1] = msg.path[i - 1]
          BY <3>1
        <4>3. i - 1 + 1 = i
          BY <3>1
        <4> QED
          BY <3>1, <3>2, <4>1, <4>2, <4>3
      <3>4. walk # <<>>
        BY <1>2, <3>1, EmptySeq
      <3> QED
        BY <3>1, <3>3, <3>4
    <2>3. IsPath(Append(walk, n))
      <3>1. IsPath(walk) /\ n \in InSight(walk[Len(walk)])
        BY <1>2, <2>1 DEF WellWalked, Listed, Walk
      <3> QED
        BY <2>2, <3>1, PathGrows
    <2>4. CASE /\ Continue(n, p, Route(n, back, DiscoveryResponse(n, msg), p.from))
               /\ inbox' = Emptied(n) /\ IsPhysicalAddress(n, msg.about)
      <3> PICK response, next : /\ response = DiscoveryResponse(n, msg)
                                /\ next = Route(n, back, response, p.from)
        OBVIOUS
      <3>1. /\ response \in Message /\ response.dest = msg.source
            /\ response.type = "response" /\ response.path = msg.path
            /\ response.about = n
        BY <1>2, <2>4 DEF DiscoveryResponse, Message, IsPhysicalAddress
      <3>2. IsCall(n, next.call, response)
        BY <1>2, <2>1, <3>1, RouteType, NetworkAssumption
      <3>3. Directed(response)
        <4>1. <<msg.source>> \o msg.path \o <<n>> = Append(walk, n)
          BY <1>2, WalkOn DEF Walk
        <4> QED
          BY <2>3, <3>1, <4>1 DEF Directed, Listed
      <3>4. next.call # None => Directed(next.call.msg)
        BY <3>2, <3>3, DirectedCall
      <3> QED
        BY <1>5, <2>4, <3>4
    <2>5. CASE /\ Continue(n, p, Routing(back, None))
               /\ \/ Len(msg.path) < MaxHops /\ inbox' \in Heard(n, Forwarded(n, msg))
                  \/ inbox' = Emptied(n)
      <3> PICK request, next : request = Forwarded(n, msg) /\ next = Routing(back, None)
        OBVIOUS
      <3>1. /\ request.type = "request" /\ request.dest = msg.dest
            /\ request.source = msg.source /\ request.path = Append(msg.path, n)
        BY <1>2, <2>1 DEF Forwarded, Message
      <3>2. Walk(request) = Append(walk, n)
        <4>1. <<msg.source>> \o Append(msg.path, n) = Append(walk, n)
          BY <1>2, WalkOn DEF Walk
        <4> QED
          BY <3>1, <4>1 DEF Walk
      <3>3. /\ Walk(request)[Len(Walk(request))] = n
            /\ Len(Walk(request)) = Len(msg.path) + 2
        BY <2>2, <3>2
      <3>4. Listed(request) /\ request.dest = Broadcast
        BY <1>2, <2>1, <2>3, <3>1, <3>2 DEF Listed, Walk, WellWalked
      <3>5. \/ inbox' = Emptied(n)
            \/ \A m \in Node : inbox'[m] # None => WellWalked(m, inbox'[m])
        <4>1. CASE Len(msg.path) < MaxHops /\ inbox' \in Heard(n, request)
          <5>1. Len(Walk(request)) <= MaxHops + 1
            <6>1. Len(msg.path) \in Nat /\ MaxHops \in Nat
              BY <1>2, NetworkAssumption
            <6> QED
              BY <3>3, <4>1, <6>1
          <5> QED
            BY <1>1, <3>3, <3>4, <4>1, <5>1, HeardWalk
        <4> QED
          BY <2>5, <4>1
      <3>6. next.call = None
        BY DEF Routing
      <3> QED
        BY <1>5, <2>5, <3>5, <3>6
    <2> QED
      BY <1>9, <2>4, <2>5 DEF TakeRequest
  <1> QED
    BY <1>3, <1>6, <1>7, <1>8, <1>9

LEMMA WalkStep ==
    ASSUME MeshInv, WalkInv, [Next]_vars
    PROVE  WalkInv'
  <1>1. CASE UNCHANGED vars
    <2>1. UNCHANGED <<setting, inbox, out>>
      BY <1>1 DEF vars
    <2> QED
      BY <2>1, WalkFromParts DEF WalkInv
  <1>2. CASE Next
    <2>1. PICK n \in Node :
            \/ \E d \in Node \cup {Broadcast} : SendtoWait(n, d)
            \/ ArpTimeout(n)
            \/ Arrive(n)
            \/ \E ok \in BOOLEAN : Return(n, ok)
            \/ Take(n)
      BY <1>2 DEF Next
    <2>2. CASE ArpTimeout(n)
      <3>1. UNCHANGED <<setting, inbox, out>>
        BY <2>2 DEF ArpTimeout
      <3> QED
        BY <3>1, WalkFromParts DEF WalkInv
    <2>3. NetworkTypeOK
      BY DEF MeshInv, NetInv
    <2> QED
      BY <2>1, <2>2, <2>3, SendtoWaitWalk, ArriveWalk, ReturnWalk, TakeWalk
  <1> QED
    BY <1>1, <1>2

LEMMA WalkInvariant == Spec => []WalkInv
  <1>1. Init => WalkInv
    BY DEF Init, NetworkInit, WalkInv
  <1>2. MeshInv /\ WalkInv /\ [Next]_vars => WalkInv'
    BY WalkStep
  <1> QED
    BY <1>1, <1>2, MeshInvariant, PTL DEF Spec

-----------------------------------------------------------------------------
(* Where neighbours lead.                                                   *)

(* A set of numbers has a least one.                                        *)
LEMMA LeastNumber ==
    ASSUME NEW T, T \subseteq Nat, T # {}
    PROVE  \E m \in T : \A k \in T : m <= k
  <1> PICK R : R = {pair \in Nat \X Nat : pair[1] < pair[2]}
    OBVIOUS
  <1>1. IsWellFoundedOn(R, Nat)
    BY NatLessThanWellFounded DEF OpToRel
  <1>2. PICK m \in T : \A k \in T : <<k, m>> \notin R
    BY <1>1, WFMin
  <1>3. ASSUME NEW k \in T PROVE m <= k
    <2>1. k < m => <<k, m>> \in R
      BY SMT
    <2>2. m \in Nat /\ k \in Nat /\ ~(k < m)
      BY <1>2, <2>1
    <2> QED
      BY <2>2
  <1> QED
    BY <1>3

LEMMA SightSymmetric ==
    ASSUME NEW w, NEW n \in Node, NEW m \in Sees(w, n)
    PROVE  m \in Node /\ m # n /\ n \in Sees(w, m)
  <1>1. {n, m} = {m, n}
    OBVIOUS
  <1> QED
    BY <1>1 DEF Sees

(* A neighbour leads to itself, never to the node, and on to all neighbours *)
(* of the nodes it leads to.                                                *)
LEMMA BeyondNode ==
    ASSUME NEW w, NEW n \in Node, NEW h \in Node \ {n}
    PROVE  /\ h \in Beyond(w, n, h) /\ n \notin Beyond(w, n, h)
           /\ Beyond(w, n, h) \subseteq Node
           /\ \A d \in Beyond(w, n, h), e \in Node :
                 e \in Sees(w, d) /\ e # n => e \in Beyond(w, n, h)
  <1>1. h \in Beyond(w, n, h) /\ Beyond(w, n, h) \subseteq Node
    BY DEF Beyond
  <1>2. n \notin Beyond(w, n, h)
    <2>1. Node \ {n} \in SUBSET Node /\ h \in Node \ {n} /\ IsClosed(w, n, Node \ {n})
      BY DEF IsClosed, Sees
    <2> QED
      BY <2>1 DEF Beyond
  <1>3. ASSUME NEW d \in Beyond(w, n, h), NEW e \in Node, e \in Sees(w, d), e # n
        PROVE  e \in Beyond(w, n, h)
    <2>1. ASSUME NEW S \in SUBSET Node, h \in S, IsClosed(w, n, S) PROVE e \in S
      <3>1. d \in S
        BY <2>1 DEF Beyond
      <3> QED
        BY <1>3, <2>1, <3>1 DEF IsClosed
    <2> QED
      BY <2>1 DEF Beyond
  <1> QED
    BY <1>1, <1>2, <1>3

(* What is led to is in every set that no hop leaves.                       *)
LEMMA BeyondLeast ==
    ASSUME NEW w, NEW n, NEW h, NEW S \in SUBSET Node, h \in S, IsClosed(w, n, S)
    PROVE  Beyond(w, n, h) \subseteq S
  BY DEF Beyond

LEMMA BeyondBeyond ==
    ASSUME NEW w, NEW n \in Node, NEW h \in Node \ {n}, NEW d \in Beyond(w, n, h)
    PROVE  Beyond(w, n, d) \subseteq Beyond(w, n, h)
  <1> PICK S : S = Beyond(w, n, h)
    OBVIOUS
  <1>1. S \in SUBSET Node /\ d \in S
    BY BeyondNode
  <1>2. IsClosed(w, n, S)
    BY BeyondNode DEF IsClosed, Sees
  <1> QED
    BY <1>1, <1>2, BeyondLeast

(* In a network without cycles, what lies beyond one neighbour of n is      *)
(* beyond n for another one, and not beyond n for the first.                *)
LEMMA BeyondAway ==
    ASSUME NEW w, NoCycles(w), NEW n \in Node, NEW h \in Sees(w, n), NEW m \in Sees(w, n),
           h # m
    PROVE  Beyond(w, n, h) \subseteq Beyond(w, m, n)
  <1>1. h \in Node \ {n} /\ m \in Node \ {n} /\ n \in Sees(w, m)
    BY SightSymmetric
  <1>2. ASSUME NEW S \in SUBSET Node, n \in S, IsClosed(w, m, S)
        PROVE  Beyond(w, n, h) \subseteq S
    <2> PICK T : T = S \cap Beyond(w, n, h)
      OBVIOUS
    <2>1. T \in SUBSET Node /\ h \in T
      BY <1>1, <1>2, BeyondNode DEF IsClosed
    <2>2. m \notin Beyond(w, n, h)
      BY <1>1, BeyondNode DEF NoCycles
    <2>3. IsClosed(w, n, T)
      <3> SUFFICES ASSUME NEW x \in T, NEW y \in Sees(w, x), y # n PROVE y \in T
        BY DEF IsClosed
      <3>1. y \in Node /\ y \in Beyond(w, n, h)
        BY <1>1, <2>1, BeyondNode DEF Sees
      <3> QED
        BY <1>2, <2>2, <3>1 DEF IsClosed
    <2> QED
      BY <2>1, <2>3, BeyondLeast
  <1> QED
    BY <1>1, <1>2, BeyondNode DEF Beyond

LEMMA BeyondApart ==
    ASSUME NEW w, NoCycles(w), NEW n \in Node, NEW h \in Sees(w, n)
    PROVE  Beyond(w, n, h) \cap Beyond(w, h, n) = {}
  <1>1. h \in Node \ {n} /\ n \in Node \ {h} /\ n \in Sees(w, h)
    BY SightSymmetric
  <1> PICK S : S = Node \ Beyond(w, h, n)
    OBVIOUS
  <1>2. S \in SUBSET Node /\ h \in S
    BY <1>1, BeyondNode
  <1>3. ASSUME NEW x \in S, NEW y \in Sees(w, x), y # n, y \in Beyond(w, h, n)
        PROVE  FALSE
    <2>1. y \in Node /\ x \in Node /\ x \in Sees(w, y)
      BY <1>2, <1>3, SightSymmetric
    <2>2. x = h
      BY <1>1, <1>2, <1>3, <2>1, BeyondNode
    <2>3. y \in Beyond(w, h, y)
      BY <2>1, <2>2, <1>3, BeyondNode, SightSymmetric
    <2> QED
      BY <1>1, <1>3, <2>2, <2>3 DEF NoCycles
  <1>4. IsClosed(w, n, S)
    BY <1>2, <1>3 DEF IsClosed, Sees
  <1> QED
    BY <1>2, <1>4, BeyondLeast

(* A part of a path that does not pass n is on one side of it.              *)
LEMMA PathOnOneSide ==
    ASSUME NEW s \in Seq(Node), IsPath(s), NEW n \in Node,
           NEW i \in DOMAIN s, NEW j \in DOMAIN s, i <= j,
           \A k \in DOMAIN s : i <= k /\ k <= j => s[k] # n
    PROVE  s[i] \in Beyond(setting.network, n, s[j])
  <1> PICK w : w = setting.network
    OBVIOUS
  <1>1. /\ DOMAIN s = 1 .. Len(s) /\ Len(s) \in Nat /\ i \in Nat /\ j \in Nat
        /\ \A k \in DOMAIN s : s[k] \in Node
    OBVIOUS
  <1>2. s[j] \in Node \ {n}
    BY <1>1
  <1> PICK T : T = {m \in Nat : m <= j - i /\ s[j - m] \notin Beyond(w, n, s[j])}
    OBVIOUS
  <1>3. ASSUME T # {} PROVE FALSE
    <2>1. PICK m \in T : \A k \in T : m <= k
      BY <1>3, LeastNumber
    <2>2. m \in Nat /\ m <= j - i /\ s[j - m] \notin Beyond(w, n, s[j])
      BY <2>1
    <2>3. m # 0
      <3>1. j - 0 = j
        BY <1>1
      <3> QED
        BY <1>2, <2>2, <3>1, BeyondNode
    <2>4. /\ m - 1 \in Nat /\ ~(m <= m - 1) /\ m - 1 <= j - i
          /\ j - m \in 1 .. Len(s) - 1 /\ j - m \in DOMAIN s
          /\ j - (m - 1) = j - m + 1
          /\ i <= j - m /\ j - m <= j
      BY <1>1, <2>2, <2>3
    <2>5. s[j - m + 1] \in Beyond(w, n, s[j])
      BY <2>1, <2>4
    <2>6. /\ s[j - m] \in Node /\ s[j - m] # n
          /\ s[j - m + 1] \in Sees(w, s[j - m])
      BY <1>1, <2>4 DEF IsPath, InSight
    <2>7. s[j - m] \in Sees(w, s[j - m + 1])
      BY <2>6, SightSymmetric
    <2> QED
      BY <1>2, <2>2, <2>5, <2>6, <2>7, BeyondNode
  <1>4. j - i \in Nat /\ j - (j - i) = i
    BY <1>1
  <1> QED
    BY <1>3, <1>4

(* Everybody in sight of everybody: no node is in the way of another.       *)
LEMMA OpenSight == NoCutNode(0)
  <1> SUFFICES ASSUME NEW n \in Node, NEW h \in Sees(0, n), NEW d \in Node \ {n}
               PROVE  d \in Beyond(0, n, h)
    BY DEF NoCutNode
  <1>1. h \in Node \ {n} /\ (d # h => d \in Sees(0, h))
    BY SightSymmetric DEF Sees, Links
  <1> QED
    BY <1>1, BeyondNode

(* The neighbours of each node in the networks of four.                     *)
LEMMA SeesNumbers ==
    ASSUME Node = 1 .. 4, NEW n \in Node
    PROVE  \A m :
              /\ m \in Sees(1, n) <=> m \in Node /\ (n + 1 = m \/ m + 1 = n)
              /\ m \in Sees(2, n) <=> m \in Node \ {n} /\ (n + m # 5 \/ n \in {2, 3})
              /\ m \in Sees(3, n) <=> m \in Node \ {n} /\ n + m # 5
              /\ m \in Sees(4, n) <=> m \in Node \ {n} /\ (n = 2 \/ m = 2)
  <1>1. ASSUME NEW m \in Node \ {n}
        PROVE  /\ {n, m} \in Links(1) <=> (n + 1 = m \/ m + 1 = n)
               /\ {n, m} \in Links(2) <=> (n + m # 5 \/ n \in {2, 3})
               /\ {n, m} \in Links(3) <=> n + m # 5
               /\ {n, m} \in Links(4) <=> (n = 2 \/ m = 2)
    <2> DEFINE Pair(c, d) == (n = c /\ m = d) \/ (n = d /\ m = c)
    <2>1. \A c, d : {n, m} = {c, d} <=> Pair(c, d)
      OBVIOUS
    <2>2. /\ Links(1) = {{1, 2}, {2, 3}, {3, 4}}
          /\ Links(2) = {{1, 2}, {1, 3}, {2, 3}, {2, 4}, {3, 4}}
          /\ Links(3) = {{1, 2}, {1, 3}, {2, 4}, {3, 4}}
          /\ Links(4) = {{1, 2}, {2, 3}, {2, 4}}
      BY DEF Links
    <2>3. /\ {n, m} \in Links(1) <=> (Pair(1, 2) \/ Pair(2, 3) \/ Pair(3, 4))
          /\ {n, m} \in Links(2) <=>
                (Pair(1, 2) \/ Pair(1, 3) \/ Pair(2, 3) \/ Pair(2, 4) \/ Pair(3, 4))
          /\ {n, m} \in Links(3) <=> (Pair(1, 2) \/ Pair(1, 3) \/ Pair(2, 4) \/ Pair(3, 4))
          /\ {n, m} \in Links(4) <=> (Pair(1, 2) \/ Pair(2, 3) \/ Pair(2, 4))
      <3> HIDE DEF Pair
      <3> QED
        BY <2>1, <2>2
    <2> QED
      BY <2>3
  <1>2. \A w, m : m \in Sees(w, n) <=> m \in Node \ {n} /\ {n, m} \in Links(w)
    BY DEF Sees
  <1>3. \A m \in Node : n + 1 = m \/ m + 1 = n => m # n
    OBVIOUS
  <1> QED
    BY <1>1, <1>2, <1>3

(* From a neighbour of n, and from its neighbours, everybody is reached.    *)
LEMMA TwoSteps ==
    ASSUME NEW w, NEW n \in Node, NEW h \in Sees(w, n), NEW d \in Node \ {n},
           \/ d = h
           \/ d \in Sees(w, h)
           \/ \E e \in Node \ {n} : e \in Sees(w, h) /\ d \in Sees(w, e)
    PROVE  d \in Beyond(w, n, h)
  <1>1. h \in Node \ {n}
    BY SightSymmetric
  <1> QED
    BY <1>1, BeyondNode

(* The networks that a test can simulate.                                   *)
LEMMA SimulatedNetworks ==
    ASSUME Node = 1 .. 4, NEW w \in 0 .. 4
    PROVE  NoCycles(w) \/ NoCutNode(w)
  <1> DEFINE Line(n, h) == IF h < n THEN {d \in Node : d < n} ELSE {d \in Node : n < d}
  <1>1. NoCycles(1)
    <2> SUFFICES ASSUME NEW n \in Node, NEW h \in Sees(1, n), NEW m \in Sees(1, n), h # m
                 PROVE  Beyond(1, n, h) \cap Beyond(1, n, m) = {}
      BY DEF NoCycles
    <2>1. ASSUME NEW k \in Sees(1, n) PROVE Beyond(1, n, k) \subseteq Line(n, k)
      <3>1. k \in Line(n, k) /\ Line(n, k) \in SUBSET Node
        BY SeesNumbers
      <3>2. IsClosed(1, n, Line(n, k))
        BY <3>1, SeesNumbers DEF IsClosed
      <3> QED
        BY <3>1, <3>2, BeyondLeast
    <2>2. Line(n, h) \cap Line(n, m) = {}
      BY SeesNumbers
    <2> QED
      BY <2>1, <2>2
  <1>2. NoCutNode(2) /\ NoCutNode(3)
    <2> SUFFICES ASSUME NEW n \in Node, NEW d \in Node \ {n}, NEW v \in {2, 3},
                        NEW h \in Sees(v, n)
                 PROVE  d \in Beyond(v, n, h)
      BY DEF NoCutNode
    <2>1. ASSUME NEW e \in Node \ {n}, d # h, d \notin Sees(v, h), e # h, e # d
          PROVE  e \in Sees(v, h) /\ d \in Sees(v, e)
      BY <2>1, SeesNumbers
    <2>2. \E e \in Node \ {n} : e # h /\ e # d
      OBVIOUS
    <2> QED
      BY <2>1, <2>2, TwoSteps
  <1>3. NoCycles(4)
    <2> SUFFICES ASSUME NEW n \in Node, NEW h \in Sees(4, n), NEW m \in Sees(4, n), h # m
                 PROVE  Beyond(4, n, h) \cap Beyond(4, n, m) = {}
      BY DEF NoCycles
    <2>1. n = 2
      BY SeesNumbers
    <2>2. ASSUME NEW k \in Sees(4, n) PROVE Beyond(4, n, k) \subseteq {k}
      <3>1. k \in {k} /\ {k} \in SUBSET Node /\ IsClosed(4, n, {k})
        BY <2>1, SeesNumbers DEF IsClosed
      <3> QED
        BY <3>1, BeyondLeast
    <2> QED
      BY <2>2
  <1> QED
    BY <1>1, <1>2, <1>3, OpenSight

-----------------------------------------------------------------------------
(* Routes.                                                                  *)

\* The nodes on the side of h, seen from n.
Side(n, h) == Beyond(setting.network, n, h)

\* Requests are for, and responses from, a node to which the one that asks has sent a
\* message.
Asked(n, address) ==
    {n, address} \subseteq Node /\ \E k \in DOMAIN sent[n] : sent[n][k] = address

Sought(msg) ==
    CASE msg.type = "request"  -> Asked(msg.source, msg.about)
      [] msg.type = "response" -> Asked(msg.dest, msg.about) /\ msg.source = msg.about
      [] OTHER -> TRUE

\* Where there is one way only, and nothing leads off it.
OneWay == NoCycles(setting.network) /\ OneDestination /\ ~strayed

\* Whoever is sent to, routed over or heard is in sight; and where there is one way, it
\* is in the direction of the destination, and of the source for what comes from there.
\* straight: does this still hold?  A step may take an octet for a node.
GoodRow(straight, n, row) ==
    \A d \in Node : row[d] # None =>
        row[d] \in InSight(n) /\ (straight => d \in Side(n, row[d]))

GoodCall(straight, n, call) ==
    /\ Sought(call.msg)
    /\ call.to \in InSight(n)
    /\ straight => call.msg.dest \in Side(n, call.to) /\ call.msg.source \in Side(call.to, n)
    /\ call.from # None =>
          /\ call.from \in InSight(n)
          /\ straight /\ call.msg.source # n => call.msg.source \in Side(n, call.from)

GoodPacket(straight, n, p) ==
    /\ Sought(p.msg)
    /\ p.from \in InSight(n)
    /\ straight /\ p.msg.type # "request" =>
          /\ p.msg.source \in Side(n, p.from)
          /\ p.msg.dest # Broadcast => p.msg.dest \in Side(p.from, n)

RoutesAre(straight) ==
    \A n \in Node :
        /\ GoodRow(straight, n, routes[n])
        /\ inbox[n] # None => GoodPacket(straight, n, inbox[n])
        /\ out[n] # None => GoodCall(straight, n, out[n])

RouteInv == RoutesAre(OneWay)

(* The network does not change, and what was sent is not forgotten.         *)
LEMMA GoodSteady ==
    ASSUME UNCHANGED setting,
           \A s \in Node : \A k \in DOMAIN sent[s] :
              k \in DOMAIN sent'[s] /\ sent'[s][k] = sent[s][k]
    PROVE  \A straight, n :
              /\ \A row : GoodRow(straight, n, row) => GoodRow(straight, n, row)'
              /\ \A call : GoodCall(straight, n, call) => GoodCall(straight, n, call)'
              /\ \A p : GoodPacket(straight, n, p) => GoodPacket(straight, n, p)'
  <1>1. \A n, h : InSight(n)' = InSight(n) /\ Side(n, h)' = Side(n, h)
    BY DEF InSight, Side
  <1>2. \A s, a : Asked(s, a) => Asked(s, a)'
    BY DEF Asked
  <1>3. \A msg : Sought(msg) => Sought(msg)'
    BY <1>2 DEF Sought
  <1> QED
    BY <1>1, <1>3 DEF GoodRow, GoodCall, GoodPacket

(* Routes over a node in sight that are entered, or deleted.                *)
LEMMA GoodRowAdded ==
    ASSUME NEW straight \in BOOLEAN, straight => OneWay,
           NEW n \in Node, NEW row \in Rows, GoodRow(straight, n, row), NEW D,
           NEW h \in Node \cup {None},
           h # None => h \in InSight(n) /\ (straight => D \cap Node \subseteq Side(n, h))
    PROVE  GoodRow(straight, n, AddRoutes(row, D, h))
  BY DEF GoodRow, AddRoutes

(* A call that passes a message on: its source is the node itself or on the *)
(* side it comes from, which is not where the destination is.               *)
LEMMA GoodCallOn ==
    ASSUME NEW straight \in BOOLEAN, straight => OneWay,
           NEW n \in Node, NEW row \in Rows, GoodRow(straight, n, row),
           NEW msg \in Message, msg.dest \in Node, HasRoute(row, msg.dest), Sought(msg),
           NEW from \in Node \cup {None},
           from = None => msg.source = n,
           from # None =>
              /\ from \in InSight(n)
              /\ straight /\ msg.source # n =>
                    msg.source \in Side(n, from) /\ msg.dest \in Side(from, n)
    PROVE  GoodCall(straight, n, Call(row, msg, from))
  <1> PICK to, w : to = row[msg.dest] /\ w = setting.network
    OBVIOUS
  <1>1. /\ to \in InSight(n) /\ to \in Node /\ to # None
        /\ straight => msg.dest \in Side(n, to)
    BY DEF HasRoute, GoodRow, InSight, Sees
  <1>2. ASSUME straight PROVE msg.source \in Side(to, n)
    <2>1. CASE msg.source = n
      <3>1. to \in Node /\ n \in Node \ {to}
        BY <1>1, SightSymmetric DEF InSight
      <3> QED
        BY <2>1, <3>1, BeyondNode DEF Side
    <2>2. CASE msg.source # n
      <3>1. /\ from \in Sees(w, n) /\ to \in Sees(w, n) /\ NoCycles(w)
            /\ msg.source \in Beyond(w, n, from) /\ msg.dest \in Beyond(w, from, n)
            /\ msg.dest \in Beyond(w, n, to)
        BY <1>1, <1>2, <2>2 DEF InSight, Side, OneWay
      <3>2. from # to
        BY <3>1, BeyondApart
      <3> QED
        BY <3>1, <3>2, BeyondAway DEF Side
    <2> QED
      BY <2>1, <2>2
  <1> QED
    BY <1>1, <1>2 DEF Call, GoodCall

(* A node that cannot pass on a message to its destination has a way back   *)
(* to its source, for a notice.                                             *)
LEMMA GoodFailure ==
    ASSUME NEW straight \in BOOLEAN, straight => OneWay,
           NEW n \in Node, NEW row \in Rows, GoodRow(straight, n, row),
           NEW msg \in Message, msg.dest \in Node,
           NEW back \in Node \cup {None}, back = None => msg.source = n,
           back # None =>
              back \in InSight(n) /\ (straight /\ msg.source # n => msg.source \in Side(n, back))
    PROVE  LET next == Failed(n, row, msg, back)
           IN  GoodRow(straight, n, next.row) /\ (next.call # None => GoodCall(straight, n, next.call))
  <1>1. AddRoutes(row, {msg.dest}, None) \in Rows /\ GoodRow(straight, n, AddRoutes(row, {msg.dest}, None))
    BY AddRoutesType, GoodRowAdded
  <1>2. CASE msg.source = n
    BY <1>1, <1>2 DEF Failed, Routing
  <1>3. CASE msg.source # n
    <2> PICK mended, notice : /\ mended = WithoutRoute(row, msg, back)
                              /\ notice = FailureNotice(n, msg)
      OBVIOUS
    <2>1. msg.source \in Node
      BY DEF Message
    <2>2. /\ mended \in Rows /\ GoodRow(straight, n, mended) /\ mended[msg.source] = back
      <3>1. mended \in Rows /\ GoodRow(straight, n, mended)
        BY <1>1, <1>3, <2>1, AddRoutesType, GoodRowAdded DEF WithoutRoute
      <3> QED
        BY <2>1, <3>1 DEF WithoutRoute, AddRoutes
    <2>3. /\ notice \in Message /\ notice.dest = msg.source /\ notice.source = n
          /\ notice.type = "failure"
      <3>1. 0 \in 0 .. MaxHops
        BY NoHops
      <3> QED
        BY <2>1, <3>1, EmptySeq DEF FailureNotice, Message
    <2>4. back # None /\ HasRoute(mended, notice.dest)
      BY <1>3, <2>2, <2>3 DEF HasRoute
    <2>5. GoodCall(straight, n, Call(mended, notice, back))
      BY <2>1, <2>2, <2>3, <2>4, GoodCallOn DEF Sought
    <2> QED
      BY <1>3, <2>2, <2>5 DEF Failed, Routing
  <1> QED
    BY <1>2, <1>3

LEMMA GoodRoute ==
    ASSUME NEW straight \in BOOLEAN, straight => OneWay,
           NEW n \in Node, NEW row \in Rows, GoodRow(straight, n, row),
           NEW msg \in Message, msg.dest \in Node, Sought(msg),
           NEW from \in Node \cup {None},
           from = None => msg.source = n,
           from # None =>
              /\ from \in InSight(n)
              /\ straight /\ msg.source # n =>
                    msg.source \in Side(n, from) /\ msg.dest \in Side(from, n)
    PROVE  LET next == Route(n, row, msg, from)
           IN  GoodRow(straight, n, next.row) /\ (next.call # None => GoodCall(straight, n, next.call))
  <1>1. CASE HasRoute(row, msg.dest)
    BY <1>1, GoodCallOn DEF Route, Routing
  <1>2. CASE ~HasRoute(row, msg.dest)
    BY <1>2, GoodFailure DEF Route
  <1> QED
    BY <1>1, <1>2


(* The nodes of a path behind n are on the side of the last one.            *)
LEMMA BehindOnOneSide ==
    ASSUME NEW s \in Seq(Node), IsPath(s), NEW i \in DOMAIN s, NEW j \in DOMAIN s, i < j
    PROVE  s[j] \in Side(s[i], s[Len(s)]) /\ s[i] # s[Len(s)]
  <1>1. /\ DOMAIN s = 1 .. Len(s) /\ Len(s) \in Nat /\ i \in Nat /\ j \in Nat
        /\ s[i] \in Node /\ Len(s) \in DOMAIN s /\ j <= Len(s) /\ i # Len(s)
    OBVIOUS
  <1>2. ASSUME NEW k \in DOMAIN s, j <= k PROVE s[k] # s[i]
    <2>1. k # i
      BY <1>1, <1>2
    <2> QED
      BY <2>1 DEF IsPath
  <1> QED
    BY <1>1, <1>2, PathOnOneSide DEF Side, IsPath

(* A response that passes: its source, and the nodes of its list behind     *)
(* this one, are on the side it comes from.                                 *)
LEMMA GoodPeeked ==
    ASSUME NEW straight \in BOOLEAN, straight => OneWay,
           NEW n \in Node, NEW row \in Rows, GoodRow(straight, n, row),
           NEW p \in Packet, WellWalked(n, p), GoodPacket(straight, n, p), NEW stale,
           straight => ~IsTakenForNode(n, p.msg, stale)
    PROVE  GoodRow(straight, n, Peeked(n, row, p, stale))
  <1> PICK msg : msg = p.msg
    OBVIOUS
  <1>1. /\ msg \in Message /\ p.from \in Node /\ p.from \in InSight(n) /\ p.from # None
        /\ msg.path \in Seq(Node) /\ Sought(msg)
    BY NetworkAssumption DEF Packet, Message, GoodPacket
  <1>2. CASE msg.type = "response"
    <2> PICK D, path : D = {msg.about} \cup Behind(n, path, stale) /\ path = msg.path
      OBVIOUS
    <2>1. ASSUME straight PROVE D \cap Node \subseteq Side(n, p.from)
      <3> PICK walk : walk = <<msg.dest>> \o path \o <<msg.about>>
        OBVIOUS
      <3>1. /\ msg.about = msg.source /\ msg.about \in Node /\ msg.dest \in Node
            /\ msg.about \in Side(n, p.from) /\ IsPath(walk)
            /\ OneTooFar(n, path) => stale \notin Node
        BY <1>1, <1>2, <2>1 DEF Sought, Asked, GoodPacket, WellWalked, Listed, IsTakenForNode
      <3>2. /\ walk \in Seq(Node) /\ Len(walk) = Len(path) + 2
            /\ walk[Len(walk)] = msg.about
            /\ \A i \in DOMAIN path : walk[i + 1] = path[i]
        <4> PICK a \in Node, b \in Node : a = msg.dest /\ b = msg.about
          BY <3>1
        <4> PICK s : s = <<a>> \o path
          OBVIOUS
        <4>1. walk = Append(s, b) /\ s \in Seq(Node) /\ Len(s) = Len(path) + 1
              /\ \A i \in DOMAIN path : s[i + 1] = path[i]
          BY <1>1, WalkType, WalkOn
        <4> QED
          BY <1>1, <4>1
      <3>3. ASSUME NEW i \in DOMAIN path, NEW k \in 1 .. i - 2, path[k] = n
            PROVE  path[i] \in Side(n, p.from)
        <4>1. k + 1 \in DOMAIN walk /\ i + 1 \in DOMAIN walk /\ k + 1 < i + 1
          <5>1. Len(path) \in Nat /\ i \in 1 .. Len(path) /\ k \in Nat /\ 1 <= k /\ k <= i - 2
            BY <1>1
          <5> QED
            BY <3>2, <5>1
        <4>2. k \in DOMAIN path
          BY <1>1
        <4>3. path[i] \in Side(n, msg.about)
          <5>1. walk[k + 1] = n /\ walk[i + 1] = path[i] /\ walk[Len(walk)] = msg.about
            BY <3>2, <3>3, <4>2
          <5>2. walk[i + 1] \in Side(walk[k + 1], walk[Len(walk)])
            BY <3>1, <3>2, <4>1, BehindOnOneSide
          <5> QED
            BY <5>1, <5>2
        <4>4. p.from \in Node \ {n}
          BY <1>1, SightSymmetric DEF InSight
        <4> QED
          BY <3>1, <4>3, <4>4, BeyondBeyond DEF Side
      <3> QED
        BY <3>1, <3>3 DEF Behind
    <2> QED
      BY <1>1, <1>2, <2>1, GoodRowAdded DEF Peeked
  <1>3. CASE msg.type # "response"
    BY <1>3, GoodRowAdded DEF Peeked
  <1> QED
    BY <1>2, <1>3

(* A request that passes: its source and the nodes it lists are on the side *)
(* it comes from.                                                           *)
LEMMA GoodWaysBack ==
    ASSUME NEW straight \in BOOLEAN, straight => OneWay,
           NEW n \in Node, NEW row \in Rows, GoodRow(straight, n, row),
           NEW p \in Packet, WellWalked(n, p), GoodPacket(straight, n, p), IsNewRequest(n, p.msg)
    PROVE  GoodRow(straight, n, AddRoutes(row, {p.msg.source} \cup Members(p.msg.path), p.from))
  <1> PICK msg, walk, path : msg = p.msg /\ walk = Walk(msg) /\ path = msg.path
    OBVIOUS
  <1>1. /\ msg.source \in Node /\ path \in Seq(Node) /\ p.from \in Node
        /\ p.from \in InSight(n) /\ msg.type = "request"
        /\ msg.source # n /\ \A i \in DOMAIN path : path[i] # n
        /\ IsPath(walk) /\ walk[Len(walk)] = p.from
    BY DEF Packet, Message, WellWalked, Listed, Walk, GoodPacket, IsNewRequest, Members
  <1>2. /\ walk \in Seq(Node) /\ Len(walk) = Len(path) + 1 /\ walk[1] = msg.source
        /\ \A i \in DOMAIN path : walk[i + 1] = path[i]
    <2> PICK a \in Node : a = msg.source
      BY <1>1
    <2>1. walk = <<a>> \o path
      BY DEF Walk
    <2> QED
      BY <1>1, <2>1, WalkType
  <1>3. ASSUME NEW i \in DOMAIN walk PROVE walk[i] # n
    <2>1. i = 1 \/ (i - 1 \in DOMAIN path /\ i - 1 + 1 = i)
      BY <1>1, <1>2
    <2> QED
      BY <1>1, <1>2, <2>1
  <1>4. ASSUME NEW i \in DOMAIN walk PROVE walk[i] \in Side(n, p.from)
    <2>1. Len(walk) \in DOMAIN walk /\ i <= Len(walk)
      BY <1>1, <1>2
    <2> QED
      BY <1>1, <1>2, <1>3, <2>1, PathOnOneSide DEF Side
  <1>5. {msg.source} \cup Members(path) \subseteq Side(n, p.from)
    <2>1. /\ 1 \in DOMAIN walk
          /\ \A i \in DOMAIN path : i + 1 \in DOMAIN walk
      BY <1>1, <1>2
    <2> QED
      BY <1>2, <1>4, <2>1 DEF Members
  <1> QED
    BY <1>1, <1>5, GoodRowAdded

\* What steps leave alone.
Kept ==
    /\ UNCHANGED setting
    /\ \A s \in Node : \A k \in DOMAIN sent[s] :
          k \in DOMAIN sent'[s] /\ sent'[s][k] = sent[s][k]

(* What n broadcasts is heard in sight: a request, or a message of its own. *)
LEMMA GoodHeard ==
    ASSUME NEW straight \in BOOLEAN, straight => OneWay,
           NetworkTypeOK, RoutesAre(straight), Kept, NEW n \in Node, NEW msg, inbox' \in Heard(n, msg),
           Sought(msg)',
           msg.type # "request" => msg.source = n /\ msg.dest = Broadcast
    PROVE  \A m \in Node : (inbox[m] # None => GoodPacket(straight, m, inbox[m]))'
  <1> PICK near, packet : /\ near = {m \in InSight(n) : Listening(m)}
                          /\ packet = [from |-> n, awaited |-> FALSE, msg |-> msg]
    OBVIOUS
  <1>1. PICK R \in SUBSET near :
            inbox' = [m \in Node |-> IF m \in R THEN packet ELSE IF m = n THEN None ELSE inbox[m]]
    BY DEF Heard
  <1> SUFFICES ASSUME NEW m \in Node, inbox'[m] # None PROVE GoodPacket(straight, m, inbox[m])'
    OBVIOUS
  <1>2. CASE m \in R
    <2>1. /\ inbox'[m] = packet /\ packet.from = n /\ packet.msg = msg /\ m \in InSight(n)
          /\ InSight(m)' = InSight(m) /\ Side(m, n)' = Side(m, n)
      BY <1>1, <1>2 DEF Kept, InSight, Side
    <2>2. n \in InSight(m) /\ n \in Node \ {m}
      BY <2>1, SightSymmetric DEF InSight
    <2>3. n \in Side(m, n)
      BY <2>2, BeyondNode DEF Side
    <2> QED
      BY <2>1, <2>2, <2>3 DEF GoodPacket
  <1>3. CASE m \notin R
    <2>1. inbox'[m] = inbox[m] /\ inbox[m] # None
      BY <1>1, <1>3
    <2> QED
      BY <2>1, GoodSteady DEF RoutesAre, Kept
  <1> QED
    BY <1>2, <1>3


(* The invariant, from what a step does to tables, FIFOs and calls.         *)
LEMMA RoutesFromParts ==
    ASSUME NEW straight \in BOOLEAN, straight => OneWay,
           Kept,
           \A m \in Node : GoodRow(straight, m, routes'[m]),
           \A m \in Node : (inbox[m] # None => GoodPacket(straight, m, inbox[m]))',
           \A m \in Node : out'[m] # None => GoodCall(straight, m, out'[m])
    PROVE  RoutesAre(straight)'
  BY GoodSteady DEF RoutesAre, Kept

(* Packets that stay, and those that nobody waits for any longer.           *)
LEMMA SamePackets ==
    ASSUME NEW straight \in BOOLEAN, straight => OneWay,
           RoutesAre(straight), Kept,
           \A m \in Node : inbox'[m] # None =>
              inbox[m] # None /\ inbox'[m].msg = inbox[m].msg /\ inbox'[m].from = inbox[m].from
    PROVE  \A m \in Node : (inbox[m] # None => GoodPacket(straight, m, inbox[m]))'
  <1> SUFFICES ASSUME NEW m \in Node, inbox'[m] # None PROVE GoodPacket(straight, m, inbox[m])'
    OBVIOUS
  <1> PICK p, q : p = inbox[m] /\ q = inbox'[m]
    OBVIOUS
  <1>1. GoodPacket(straight, m, p)
    BY DEF RoutesAre
  <1>2. GoodPacket(straight, m, q)
    BY <1>1 DEF GoodPacket
  <1>3. GoodPacket(straight, m, q)'
    BY <1>2, GoodSteady DEF Kept
  <1> QED
    BY <1>3

LEMMA SendtoWaitRoutes ==
    ASSUME NEW straight \in BOOLEAN, straight => OneWay,
           MeshInv, RoutesAre(straight), NEW n \in Node, NEW d \in Node \cup {Broadcast}, SendtoWait(n, d)
    PROVE  RoutesAre(straight)'
  <1> PICK app, request : /\ app = AppMessage(n, d, Len(sent[n]) + 1)
                          /\ request = DiscoveryRequest(n, d)
    OBVIOUS
  <1>1. /\ NetworkTypeOK /\ UNCHANGED <<setting, routes>>
        /\ sent' = [sent EXCEPT ![n] = Append(@, d)]
        /\ sent[n] \in Seq(Node \cup {Broadcast}) /\ Len(sent[n]) \in Nat
    BY DEF MeshInv, NetInv, NetworkTypeOK, SendtoWait, Post
  <1>2. /\ \A s \in Node \ {n} : sent'[s] = sent[s]
        /\ sent'[n] = Append(sent[n], d)
    BY <1>1 DEF NetworkTypeOK
  <1>3. Kept /\ Len(sent[n]) + 1 \in DOMAIN sent'[n] /\ sent'[n][Len(sent[n]) + 1] = d
    <2>1. \A k \in DOMAIN sent[n] : k \in DOMAIN sent'[n] /\ sent'[n][k] = sent[n][k]
      BY <1>1, <1>2
    <2>2. Len(sent[n]) + 1 \in DOMAIN sent'[n] /\ sent'[n][Len(sent[n]) + 1] = d
      BY <1>1, <1>2
    <2> QED
      BY <1>1, <1>2, <2>1, <2>2 DEF Kept
  <1>4. /\ app.type = "app" /\ app.source = n /\ app.dest = d /\ Sought(app) /\ Sought(app)'
        /\ request.type = "request" /\ (d \in Node => Sought(request)')
    BY <1>3 DEF AppMessage, DiscoveryRequest, Sought, Asked
  <1>5. /\ \/ d = Broadcast /\ inbox' \in Heard(n, app)
           \/ d # Broadcast /\ inbox' \in Heard(n, request)
           \/ inbox' = Emptied(n) \/ inbox' = inbox
        /\ \/ out' = out
           \/ /\ d # Broadcast /\ HasRoute(routes[n], d)
              /\ out' = [out EXCEPT ![n] = Call(routes[n], app, None)]
    BY DEF SendtoWait
  <1>6. \A m \in Node : (inbox[m] # None => GoodPacket(straight, m, inbox[m]))'
    <2>1. CASE inbox' = Emptied(n) \/ inbox' = inbox
      <3>1. \A m \in Node : inbox'[m] # None => inbox'[m] = inbox[m]
        BY <1>1, <2>1 DEF Emptied, NetworkTypeOK
      <3> QED
        BY <1>3, <3>1, SamePackets
    <2>2. CASE d = Broadcast /\ inbox' \in Heard(n, app)
      BY <1>1, <1>3, <1>4, <2>2, GoodHeard
    <2>3. CASE d # Broadcast /\ inbox' \in Heard(n, request)
      BY <1>1, <1>3, <1>4, <2>3, GoodHeard
    <2> QED
      BY <1>5, <2>1, <2>2, <2>3
  <1>7. ASSUME d # Broadcast, HasRoute(routes[n], d)
        PROVE  GoodCall(straight, n, Call(routes[n], app, None))
    <2>1. app \in Message
      <3>1. 0 \in 0 .. MaxHops /\ Len(sent[n]) + 1 \in Nat
        BY <1>1, NetworkAssumption
      <3> QED
        BY <3>1, EmptySeq DEF AppMessage, Message
    <2>2. routes[n] \in Rows /\ GoodRow(straight, n, routes[n])
      BY <1>1 DEF NetworkTypeOK, Rows, RoutesAre
    <2> QED
      BY <1>4, <1>7, <2>1, <2>2, GoodCallOn
  <1>8. \A m \in Node : out'[m] # None => GoodCall(straight, m, out'[m])
    BY <1>1, <1>5, <1>7 DEF NetworkTypeOK, RoutesAre
  <1> QED
    BY <1>1, <1>3, <1>6, <1>8, RoutesFromParts DEF RoutesAre

LEMMA ReturnRoutes ==
    ASSUME NEW straight \in BOOLEAN, straight => OneWay,
           MeshInv, RoutesAre(straight), NEW n \in Node, NEW ok \in BOOLEAN, Return(n, ok)
    PROVE  RoutesAre(straight)'
  <1>1. /\ NetworkTypeOK /\ NetInv /\ out[n] \in Sending /\ out[n] # None /\ Kept
        /\ inbox' = Abandoned(n)
    BY DEF MeshInv, NetInv, NetworkTypeOK, Return, MayReturn, Kept
  <1> PICK msg : msg = out[n].msg
    OBVIOUS
  <1>2. /\ msg \in Message /\ msg.dest \in Node
        /\ out[n].from \in Node \cup {None} /\ (out[n].from = None => msg.source = n)
        /\ GoodCall(straight, n, out[n]) /\ routes[n] \in Rows /\ GoodRow(straight, n, routes[n])
    BY <1>1 DEF MeshInv, OwnMessages, NetInv, Underway, Sending, Message, NetworkTypeOK, Rows,
                RoutesAre
  <1>3. PICK row, call :
            /\ GoodRow(straight, n, row) /\ (call # None => GoodCall(straight, n, call))
            /\ routes' = [routes EXCEPT ![n] = row]
            /\ out' = [out EXCEPT ![n] = call]
    <2>1. CASE ok
      <3>1. routes' = [routes EXCEPT ![n] = routes[n]] /\ out' = [out EXCEPT ![n] = None]
        BY <2>1 DEF Return, Routing
      <3> QED
        BY <1>2, <3>1
    <2>2. CASE ~ok
      <3> PICK next : next = Failed(n, routes[n], msg, out[n].from)
        OBVIOUS
      <3>1. GoodRow(straight, n, next.row) /\ (next.call # None => GoodCall(straight, n, next.call))
        <4>1. out[n].from # None =>
                 /\ out[n].from \in InSight(n)
                 /\ straight /\ msg.source # n => msg.source \in Side(n, out[n].from)
          BY <1>2 DEF GoodCall
        <4> QED
          BY <1>2, <4>1, GoodFailure
      <3>2. /\ routes' = [routes EXCEPT ![n] = next.row]
            /\ out' = [out EXCEPT ![n] = next.call]
        BY <2>2 DEF Return, WayBack
      <3> QED
        BY <3>1, <3>2
    <2> QED
      BY <2>1, <2>2
  <1>4. \A m \in Node : (inbox[m] # None => GoodPacket(straight, m, inbox[m]))'
    <2>1. ASSUME NEW m \in Node, inbox'[m] # None
          PROVE  inbox[m] # None /\ inbox'[m].msg = inbox[m].msg /\ inbox'[m].from = inbox[m].from
      <3>1. \/ inbox'[m] = inbox[m]
            \/ inbox[m] = OnAir(n) /\ inbox'[m] = [inbox[m] EXCEPT !.awaited = FALSE]
        BY <1>1 DEF Abandoned
      <3>2. inbox[m] # None => inbox[m] \in Packet
        BY <1>1 DEF NetworkTypeOK
      <3>3. OnAir(n) # None
        <4>1. OnAir(n) \in Packet
          BY <1>2 DEF OnAir, Packet
        <4> QED
          BY <4>1, NoneAssumption
      <3> QED
        BY <2>1, <3>1, <3>2, <3>3 DEF Packet
    <2> QED
      BY <1>1, <2>1, SamePackets
  <1>5. /\ \A m \in Node : GoodRow(straight, m, routes'[m])
        /\ \A m \in Node : out'[m] # None => GoodCall(straight, m, out'[m])
    BY <1>1, <1>3 DEF NetworkTypeOK, RoutesAre
  <1> QED
    BY <1>1, <1>4, <1>5, RoutesFromParts

LEMMA ArriveRoutes ==
    ASSUME NEW straight \in BOOLEAN, straight => OneWay,
           MeshInv, RoutesAre(straight), NEW n \in Node, Arrive(n)
    PROVE  RoutesAre(straight)'
  <1>1. /\ NetworkTypeOK /\ out[n] # None /\ UNCHANGED <<routes, out>> /\ Kept
        /\ inbox' = [inbox EXCEPT ![out[n].to] = OnAir(n)]
    BY DEF MeshInv, NetInv, Arrive, Waiting, Kept
  <1> PICK to, p : to = out[n].to /\ p = OnAir(n)
    OBVIOUS
  <1>2. to \in InSight(n) /\ to \in Node /\ p.from = n /\ p.msg = out[n].msg /\ GoodCall(straight, n, out[n])
    BY <1>1 DEF RoutesAre, GoodCall, InSight, Sees, OnAir
  <1>3. GoodPacket(straight, to, p)
    <2>1. n \in InSight(to)
      BY <1>2, SightSymmetric DEF InSight
    <2> QED
      BY <1>2, <2>1 DEF GoodCall, GoodPacket
  <1>4. GoodPacket(straight, to, p)'
    BY <1>1, <1>3, GoodSteady DEF Kept
  <1>5. ASSUME NEW m \in Node, inbox'[m] # None PROVE GoodPacket(straight, m, inbox[m])'
    <2>1. CASE m = to
      BY <1>1, <1>4, <2>1 DEF NetworkTypeOK
    <2>2. CASE m # to
      <3> PICK q : q = inbox[m]
        OBVIOUS
      <3>1. inbox'[m] = q /\ GoodPacket(straight, m, q)
        BY <1>1, <1>5, <2>2 DEF NetworkTypeOK, RoutesAre
      <3>2. GoodPacket(straight, m, q)'
        BY <1>1, <3>1, GoodSteady DEF Kept
      <3> QED
        BY <3>1, <3>2
    <2> QED
      BY <2>1, <2>2
  <1> QED
    BY <1>1, <1>5, RoutesFromParts DEF RoutesAre


(* A packet is taken, and something may be sent.                            *)
LEMMA ContinueRoutes ==
    ASSUME NEW straight \in BOOLEAN, straight => OneWay,
           MeshInv, RoutesAre(straight), NEW n \in Node, NEW next, Continue(n, inbox[n], next),
           inbox[n] # None, UNCHANGED <<setting, sent>>,
           GoodRow(straight, n, next.row), next.call # None => GoodCall(straight, n, next.call),
           \/ inbox' = Emptied(n)
           \/ \A m \in Node : (inbox[m] # None => GoodPacket(straight, m, inbox[m]))'
    PROVE  RoutesAre(straight)'
  <1>1. /\ NetworkTypeOK /\ NetInv /\ Kept
        /\ out' = [Acknowledged(inbox[n]) EXCEPT ![n] = next.call]
        /\ routes' = [routes EXCEPT ![n] = next.row]
    BY DEF Continue, MeshInv, NetInv, Kept
  <1> PICK call, p, row : call = next.call /\ p = inbox[n] /\ row = next.row
    OBVIOUS
  <1>2. \A m \in Node : \/ m = n /\ out'[m] = call
                        \/ out'[m] = out[m]
                        \/ p.awaited /\ m = p.from /\ out'[m] = [out[m] EXCEPT !.taken = TRUE]
    BY <1>1 DEF Acknowledged
  <1>3. ASSUME NEW m \in Node, p.awaited, m = p.from,
               out'[m] = [out[m] EXCEPT !.taken = TRUE]
        PROVE  GoodCall(straight, m, out'[m])
    <2>1. out[m] # None /\ out[m] \in Sending
      BY <1>1, <1>3 DEF NetInv, Awaited, Waiting, NetworkTypeOK
    <2>2. /\ out'[m].msg = out[m].msg /\ out'[m].to = out[m].to /\ out'[m].from = out[m].from
      BY <1>3, <2>1 DEF Sending
    <2>3. GoodCall(straight, m, out[m])
      BY <2>1 DEF RoutesAre
    <2> QED
      BY <2>2, <2>3 DEF GoodCall
  <1>4. \A m \in Node : out'[m] # None => GoodCall(straight, m, out'[m])
    BY <1>2, <1>3 DEF RoutesAre
  <1>5. \A m \in Node : GoodRow(straight, m, routes'[m])
    BY <1>1 DEF NetworkTypeOK, RoutesAre
  <1>6. \A m \in Node : (inbox[m] # None => GoodPacket(straight, m, inbox[m]))'
    <2>1. CASE inbox' = Emptied(n)
      <3>1. \A m \in Node : inbox'[m] # None => inbox'[m] = inbox[m]
        BY <1>1, <2>1 DEF Emptied, NetworkTypeOK
      <3> QED
        BY <1>1, <3>1, SamePackets
    <2> QED
      BY <2>1
  <1> QED
    BY <1>1, <1>4, <1>5, <1>6, RoutesFromParts

LEMMA TakeRoutes ==
    ASSUME NEW straight \in BOOLEAN, straight => OneWay,
           MeshInv, WalkInv, RoutesAre(straight), NEW n \in Node, Take(n),
           straight => ~strayed'
    PROVE  RoutesAre(straight)'
  <1> PICK p, msg : p = inbox[n] /\ msg = p.msg
    OBVIOUS
  <1>1. /\ NetworkTypeOK /\ TypeOK /\ p # None /\ p \in Packet
        /\ UNCHANGED <<setting, sent>> /\ Kept
    BY DEF MeshInv, NetInv, NetworkTypeOK, Take, Kept
  <1>2. /\ msg \in Message /\ p.from \in Node /\ msg.source \in Node
        /\ msg.dest \in Node \cup {Broadcast} /\ p.from # None
        /\ WellWalked(n, p) /\ GoodPacket(straight, n, p) /\ Sought(msg) /\ p.from \in InSight(n)
    BY <1>1, NetworkAssumption DEF Packet, Message, WalkInv, RoutesAre, GoodPacket
  <1>3. PICK row \in Rows :
            /\ GoodRow(straight, n, row)
            /\ \/ Relay(n, p, row)
               \/ TakeInArp(n, p, row)
               \/ TakeApplication(n, p, row)
               \/ TakeRequest(n, p, row)
               \/ TakeOther(n, p, row)
    <2>1. routes[n] \in Rows /\ GoodRow(straight, n, routes[n])
      BY <1>1 DEF NetworkTypeOK, Rows, RoutesAre
    <2>2. PICK stale \in StaleOctets :
            LET row == Peeked(n, routes[n], p, stale)
            IN  /\ straight => ~IsTakenForNode(n, msg, stale)
                /\ \/ Relay(n, p, row)
                   \/ TakeInArp(n, p, row)
                   \/ TakeApplication(n, p, row)
                   \/ TakeRequest(n, p, row)
                   \/ TakeOther(n, p, row)
      BY DEF Take
    <2>3. Peeked(n, routes[n], p, stale) \in Rows /\ GoodRow(straight, n, Peeked(n, routes[n], p, stale))
      BY <1>1, <1>2, <2>1, <2>2, PeekedType, GoodPeeked
    <2> QED
      BY <2>2, <2>3
  <1>4. ASSUME NEW next, Continue(n, p, next),
               GoodRow(straight, n, next.row), next.call # None => GoodCall(straight, n, next.call),
               \/ inbox' = Emptied(n)
               \/ \A m \in Node : (inbox[m] # None => GoodPacket(straight, m, inbox[m]))'
        PROVE  RoutesAre(straight)'
    BY <1>1, <1>4, ContinueRoutes
  <1>5. CASE Relay(n, p, row)
    <2> PICK next : next = IF MayRelay(msg) THEN Route(n, row, Relayed(msg), p.from)
                           ELSE Routing(row, None)
      OBVIOUS
    <2>1. Continue(n, p, next) /\ inbox' = Emptied(n) /\ msg.dest \in Node
      BY <1>2, <1>5 DEF Relay, IsForUs
    <2>2. CASE MayRelay(msg)
      <3> PICK sentOn : sentOn = Relayed(msg)
        OBVIOUS
      <3>1. msg.hops + 1 \in 0 .. MaxHops
        <4>1. msg.hops < MaxHops /\ msg.hops \in 0 .. MaxHops
          BY <1>2, <2>2 DEF MayRelay, Message
        <4>2. MaxHops \in Nat
          BY NetworkAssumption
        <4> QED
          BY <4>1, <4>2
      <3>2. /\ sentOn \in Message /\ sentOn.type = msg.type /\ sentOn.source = msg.source
            /\ sentOn.dest = msg.dest /\ sentOn.about = msg.about
        BY <1>2, <3>1 DEF Relayed, Message
      <3>3. Sought(sentOn)
        BY <1>2, <3>2 DEF Sought
      <3>4. straight => sentOn.source \in Side(n, p.from) /\ sentOn.dest \in Side(p.from, n)
        BY <1>2, <2>1, <3>2, NetworkAssumption DEF GoodPacket, WellWalked
      <3>5. GoodRow(straight, n, next.row) /\ (next.call # None => GoodCall(straight, n, next.call))
        BY <1>2, <1>3, <2>1, <2>2, <3>2, <3>3, <3>4, GoodRoute
      <3> QED
        BY <1>4, <2>1, <3>5
    <2>3. CASE ~MayRelay(msg)
      <3>1. next.row = row /\ next.call = None
        BY <2>3 DEF Routing
      <3> QED
        BY <1>3, <1>4, <2>1, <3>1
    <2> QED
      BY <2>2, <2>3
  <1>6. CASE TakeOther(n, p, row) \/ TakeApplication(n, p, row)
    <2> PICK next : next = Routing(row, None)
      OBVIOUS
    <2>1. Continue(n, p, next) /\ inbox' = Emptied(n) /\ next.call = None /\ next.row = row
      BY <1>6 DEF TakeOther, TakeApplication, Routing
    <2> QED
      BY <1>3, <1>4, <2>1
  <1>7. CASE TakeInArp(n, p, row)
    <2> PICK address : address = arp[n].address
      OBVIOUS
    <2>1. arp[n] \in Arp /\ address \in Node /\ inbox' = Emptied(n) /\ IsForUs(n, msg)
          /\ arp[n] # None
      BY <1>1, <1>7 DEF TakeInArp, TypeOK, Arp
    <2>2. CASE /\ msg.type = "response"
               /\ Continue(n, p, Route(n, AddRoutes(row, {address}, p.from),
                                       AppMessage(n, address, Len(sent[n])), None))
      <3> PICK own, found, next :
              /\ own = AppMessage(n, address, Len(sent[n]))
              /\ found = AddRoutes(row, {address}, p.from)
              /\ next = Route(n, found, own, None)
        OBVIOUS
      <3>1. /\ own \in Message /\ own.dest = address /\ own.source = n /\ own.type = "app"
        <4>1. 0 \in 0 .. MaxHops
          BY NoHops
        <4>2. Len(sent[n]) \in Nat
          BY <1>1 DEF NetworkTypeOK
        <4> QED
          BY <2>1, <4>1, <4>2, EmptySeq DEF AppMessage, Message
      <3>2. ASSUME straight PROVE address \in Side(n, p.from)
        <4>1. msg.dest = n /\ Asked(n, msg.about) /\ msg.about = msg.source
          <5>1. Asked(msg.dest, msg.about) /\ msg.about = msg.source
            BY <1>2, <2>2 DEF Sought
          <5>2. msg.dest # Broadcast
            BY <5>1, NetworkAssumption DEF Asked
          <5> QED
            BY <2>1, <5>1, <5>2 DEF IsForUs
        <4>2. Asked(n, address)
          BY <2>1 DEF MeshInv, Unsent, Asked
        <4>3. msg.about = address
          <5>1. PICK j, k \in DOMAIN sent[n] : sent[n][j] = msg.about /\ sent[n][k] = address
            BY <4>1, <4>2 DEF Asked
          <5>2. Broadcast \notin {msg.about, address}
            BY <4>1, <4>2, NetworkAssumption DEF Asked
          <5> QED
            BY <3>2, <5>1, <5>2 DEF OneWay, OneDestination
        <4> QED
          BY <1>2, <2>2, <3>2, <4>1, <4>3 DEF GoodPacket
      <3>3. found \in Rows /\ GoodRow(straight, n, found)
        BY <1>2, <1>3, <3>2, AddRoutesType, GoodRowAdded
      <3>4. Sought(own)
        BY <3>1 DEF Sought
      <3>5. GoodRow(straight, n, next.row) /\ (next.call # None => GoodCall(straight, n, next.call))
        BY <2>1, <3>1, <3>3, <3>4, GoodRoute
      <3> QED
        BY <1>4, <2>1, <2>2, <3>5
    <2>3. CASE Continue(n, p, Routing(row, None))
      <3> PICK next : next = Routing(row, None)
        OBVIOUS
      <3>1. next.call = None /\ next.row = row
        BY DEF Routing
      <3> QED
        BY <1>3, <1>4, <2>1, <2>3, <3>1
    <2> QED
      BY <1>7, <2>2, <2>3 DEF TakeInArp
  <1>8. CASE TakeRequest(n, p, row)
    <2> PICK back : back = AddRoutes(row, {msg.source} \cup Members(msg.path), p.from)
      OBVIOUS
    <2>1. /\ back \in Rows /\ GoodRow(straight, n, back) /\ IsNewRequest(n, msg) /\ msg.type = "request"
      <3>1. IsNewRequest(n, msg)
        BY <1>8 DEF TakeRequest
      <3>2. back \in Rows
        BY <1>2, AddRoutesType
      <3>3. GoodRow(straight, n, back)
        BY <1>1, <1>2, <1>3, <3>1, GoodWaysBack
      <3> QED
        BY <3>1, <3>2, <3>3 DEF IsNewRequest
    <2>2. CASE /\ Continue(n, p, Route(n, back, DiscoveryResponse(n, msg), p.from))
               /\ inbox' = Emptied(n) /\ IsPhysicalAddress(n, msg.about)
      <3> PICK response, next : /\ response = DiscoveryResponse(n, msg)
                                /\ next = Route(n, back, response, p.from)
        OBVIOUS
      <3>1. /\ response \in Message /\ response.dest = msg.source
            /\ response.type = "response" /\ response.source = n
            /\ response.about = n /\ msg.about = n
        BY <1>2, <2>2 DEF DiscoveryResponse, Message, IsPhysicalAddress
      <3>2. Sought(response)
        BY <1>2, <2>1, <3>1 DEF Sought, Asked
      <3>3. GoodRow(straight, n, next.row) /\ (next.call # None => GoodCall(straight, n, next.call))
        BY <1>2, <2>1, <3>1, <3>2, GoodRoute
      <3> QED
        BY <1>4, <2>2, <3>3
    <2>3. CASE /\ Continue(n, p, Routing(back, None))
               /\ inbox' \in Heard(n, Forwarded(n, msg)) \/ inbox' = Emptied(n)
      <3> PICK request, next : request = Forwarded(n, msg) /\ next = Routing(back, None)
        OBVIOUS
      <3>1. /\ request.type = "request" /\ request.source = msg.source
            /\ request.about = msg.about
        BY <1>2, <2>1 DEF Forwarded, Message
      <3>2. Sought(request)'
        <4>1. Sought(request)
          BY <1>2, <2>1, <3>1 DEF Sought
        <4> QED
          BY <1>1, <4>1 DEF Sought, Asked
      <3>3. \/ inbox' = Emptied(n)
            \/ \A m \in Node : (inbox[m] # None => GoodPacket(straight, m, inbox[m]))'
        BY <1>1, <2>3, <3>1, <3>2, GoodHeard
      <3>4. next.call = None /\ next.row = back
        BY DEF Routing
      <3> QED
        BY <1>4, <2>1, <2>3, <3>3, <3>4
    <2> QED
      BY <1>8, <2>2, <2>3 DEF TakeRequest
  <1> QED
    BY <1>3, <1>5, <1>6, <1>7, <1>8

(* No step undoes what was sent, or that an octet was taken for a node.     *)
LEMMA StepsKeep ==
    ASSUME MeshInv, [Next]_vars
    PROVE  Kept /\ (strayed => strayed')
  <1>1. NetworkTypeOK
    BY DEF MeshInv, NetInv
  <1>2. ASSUME NEW n \in Node, NEW d \in Node \cup {Broadcast}, SendtoWait(n, d)
        PROVE  Kept /\ (strayed => strayed')
    <2>1. /\ UNCHANGED <<setting, strayed>> /\ sent' = [sent EXCEPT ![n] = Append(@, d)]
          /\ sent[n] \in Seq(Node \cup {Broadcast})
      BY <1>1, <1>2 DEF SendtoWait, Post, NetworkTypeOK
    <2>2. \A k \in DOMAIN sent[n] : k \in DOMAIN sent'[n] /\ sent'[n][k] = sent[n][k]
      <3>1. sent'[n] = Append(sent[n], d)
        BY <1>1, <2>1 DEF NetworkTypeOK
      <3> QED
        BY <2>1, <3>1
    <2> QED
      BY <1>1, <2>1, <2>2 DEF Kept, NetworkTypeOK
  <1>3. ASSUME NEW n \in Node, Take(n) PROVE Kept /\ (strayed => strayed')
    BY <1>3 DEF Take, Kept
  <1>4. ASSUME NEW n \in Node,
               \/ ArpTimeout(n)
               \/ Arrive(n) /\ UNCHANGED <<arp, strayed>>
               \/ \E ok \in BOOLEAN : Return(n, ok)
        PROVE  Kept /\ (strayed => strayed')
    BY <1>4 DEF ArpTimeout, Arrive, Return, Kept
  <1>5. CASE UNCHANGED vars
    BY <1>5 DEF vars, Kept
  <1> QED
    BY <1>2, <1>3, <1>4, <1>5 DEF Next

LEMMA RouteStep ==
    ASSUME MeshInv, WalkInv, RouteInv, [Next]_vars
    PROVE  RouteInv'
  <1> PICK straight \in BOOLEAN : straight = OneWay'
    BY DEF OneWay
  <1>a. straight => OneWay /\ ~strayed'
    <2>1. setting' = setting /\ (strayed => strayed')
      BY StepsKeep DEF Kept
    <2>2. OneDestination' => OneDestination
      BY StepsKeep DEF Kept, OneDestination
    <2> QED
      BY <2>1, <2>2 DEF OneWay
  <1>b. RoutesAre(straight)
    BY <1>a DEF RouteInv, RoutesAre, GoodRow, GoodCall, GoodPacket
  <1> SUFFICES RoutesAre(straight)'
    BY DEF RouteInv
  <1>1. ASSUME UNCHANGED <<setting, routes, inbox, out, sent>>
        PROVE  RoutesAre(straight)'
    <2>1. Kept
      BY <1>1 DEF Kept
    <2> QED
      BY <1>1, <2>1, <1>a, <1>b, SamePackets, RoutesFromParts DEF RoutesAre
  <1>2. CASE UNCHANGED vars
    BY <1>1, <1>2 DEF vars
  <1>3. CASE Next
    <2>1. PICK n \in Node :
            \/ \E d \in Node \cup {Broadcast} : SendtoWait(n, d)
            \/ ArpTimeout(n)
            \/ Arrive(n)
            \/ \E ok \in BOOLEAN : Return(n, ok)
            \/ Take(n)
      BY <1>3 DEF Next
    <2>2. CASE ArpTimeout(n)
      <3>1. UNCHANGED <<setting, routes, inbox, out, sent>>
        BY <2>2 DEF ArpTimeout
      <3> QED
        BY <1>1, <3>1
    <2> QED
      BY <1>a, <1>b, <2>1, <2>2, SendtoWaitRoutes, ArriveRoutes, ReturnRoutes, TakeRoutes
  <1> QED
    BY <1>2, <1>3

(* Initially there are no routes, and nothing is on its way.                *)
LEMMA RouteInvariant == Spec => []RouteInv
  <1>1. Init => RouteInv
    BY DEF Init, NetworkInit, NoRoutes, RouteInv, RoutesAre, GoodRow
  <1>2. MeshInv /\ WalkInv /\ RouteInv /\ [Next]_vars => RouteInv'
    BY RouteStep
  <1> QED
    BY <1>1, <1>2, MeshInvariant, WalkInvariant, PTL DEF Spec

(* Where nobody is cut off when one node is left out, every neighbour leads *)
(* everywhere; where there are no cycles, RouteInv says where routes lead.  *)
LEMMA RoutesFollow ==
    ASSUME NetworkTypeOK, RouteInv, OneDestination, ~strayed,
           NoCycles(setting.network) \/ NoCutNode(setting.network)
    PROVE  RoutesLeadOn
  <1> SUFFICES ASSUME NEW n \in Node, NEW d \in Node \ {n}, routes[n][d] # None
               PROVE  /\ routes[n][d] \in InSight(n)
                      /\ d \in LeadsOn[setting.network][n][routes[n][d]]
    BY DEF RoutesLeadOn
  <1> PICK h, w : h = routes[n][d] /\ w = setting.network
    OBVIOUS
  <1>1. h \in Sees(w, n) /\ (OneWay => d \in Beyond(w, n, h))
    BY DEF RouteInv, RoutesAre, GoodRow, InSight, Side
  <1>2. w \in 0 .. 4
    BY NetworkAssumption DEF NetworkTypeOK, Setting
  <1>3. LeadsOn[w][n][h] = Beyond(w, n, h)
    BY <1>1, <1>2 DEF LeadsOn
  <1>4. d \in Beyond(w, n, h)
    BY <1>1 DEF OneWay, NoCutNode
  <1> QED
    BY <1>1, <1>3, <1>4 DEF InSight

-----------------------------------------------------------------------------
(***************************************************************************)
(* A node that cannot pass a message on always knows to whom to send the   *)
(* notice of that, and over which node: type correctness depends on it.    *)
(***************************************************************************)
THEOREM MeshTypeCorrect == Spec => []TypeOK
  <1>1. MeshInv => TypeOK
    BY DEF MeshInv
  <1> QED
    BY <1>1, MeshInvariant, PTL

(***************************************************************************)
(* However often a hop gives up on a message that the next hop has taken,  *)
(* and whatever answers doArp() gets, a message for one node is never in   *)
(* two places it can go on from.                                           *)
(***************************************************************************)
THEOREM MeshKeepsOneCopy == Spec => []OneCopy
  <1>1. MeshInv => OneCopy
    BY DEF MeshInv, NetInv
  <1> QED
    BY <1>1, MeshInvariant, PTL

(***************************************************************************)
(* RHMesh implements MessageService: recvfromAck() gives a message only to *)
(* the node it is for, and to no sketch twice, whatever routes were        *)
(* discovered and lost.                                                    *)
(***************************************************************************)
THEOREM MeshImplementsService == Spec => ImplementsService
  BY MeshInit, MeshStep, MeshInvariant, PTL DEF Spec, ImplementsService, Service!Spec

(***************************************************************************)
(* No broadcast storm: whatever is lost, and however requests of several   *)
(* nodes cross, a request has been passed on along a walk in the network   *)
(* that meets no node twice and is no longer than the hop limit, and the   *)
(* list of a response is a path between the two nodes it connects.         *)
(***************************************************************************)
THEOREM MeshPathsAreWalked == Spec => []PathsAreWalked
  <1>1. WalkInv => PathsAreWalked
    BY DEF WalkInv, PathsAreWalked, WellWalked, Directed, Walk
  <1> QED
    BY <1>1, WalkInvariant, PTL

(***************************************************************************)
(* In any network, and whatever is late or lost: a next hop is only ever a *)
(* node in sight, though routes are learned from messages that list nodes  *)
(* far away.                                                               *)
(***************************************************************************)
THEOREM NextHopsInSight ==
    Spec => [](\A n, d \in Node : routes[n][d] \in InSight(n) \cup {None})
  <1>1. RouteInv => \A n, d \in Node : routes[n][d] \in InSight(n) \cup {None}
    BY DEF RouteInv, RoutesAre, GoodRow
  <1> QED
    BY <1>1, RouteInvariant, PTL

(***************************************************************************)
(* DiscoveredRoutesLeadOn, whatever is lost and however many discoveries   *)
(* cross: every route leads on, to a next hop from which the destination   *)
(* can be reached without coming back, as long as no sketch looks for a    *)
(* second node and no octet behind a list was taken for a node.  Neither   *)
(* is assumed: the step that breaks the rule is what ends the claim.  The  *)
(* networks are any of those in which either there is one way only, or     *)
(* none matters: SimulatedNetworks says that these are all the code knows. *)
(***************************************************************************)
THEOREM MeshRoutesLeadOn ==
    ASSUME \A s \in Settings : NoCycles(s.network) \/ NoCutNode(s.network)
    PROVE  Spec => []DiscoveredRoutesLeadOn
  <1>1. MeshInv /\ RouteInv => DiscoveredRoutesLeadOn
    <2> SUFFICES ASSUME MeshInv, RouteInv, OneDestination, ~strayed PROVE RoutesLeadOn
      BY DEF DiscoveredRoutesLeadOn
    <2>1. NetworkTypeOK /\ setting \in Settings
      BY DEF MeshInv, NetInv, NetworkTypeOK
    <2> QED
      BY <2>1, RoutesFollow
  <1> QED
    BY <1>1, MeshInvariant, RouteInvariant, PTL
=============================================================================
