---------------------------- MODULE RHRouter_proofs ----------------------------
(***************************************************************************)
(* Proofs about RHRouter: for any nodes, routes (wrong ones, and ones that *)
(* change), networks and hop limit.                                        *)
(***************************************************************************)
EXTENDS RHRouter, RelayNetwork_proofs

\* RHRouter knows one kind of message.
OnlyApplication ==
    \A n \in Node : /\ inbox[n] # None => inbox[n].msg.type = "app"
                    /\ out[n] # None => out[n].msg.type = "app"

RouterInv == TypeOK /\ NetInv /\ OnlyApplication

(* Initially nothing was sent.                                              *)
LEMMA RouterInit == Init => RouterInv /\ Service!Init
  <1> SUFFICES ASSUME Init PROVE RouterInv /\ Service!Init
    OBVIOUS
  <1>1. \A s, k : GivenTo(s, k) = {}
    BY DEF Init, NetworkInit, GivenTo
  <1>2. /\ \A n \in Node : inbox[n] = None /\ out[n] = None
        /\ \A s \in Node : DOMAIN sent[s] = {}
    BY DEF Init, NetworkInit
  <1>3. NetworkTypeOK /\ TypeOK
    BY NetworkAssumption, RouterAssumption, EmptySeq
       DEF Init, NetworkInit, NetworkTypeOK, TypeOK, RoutesLead
  <1>4. Underway /\ Awaited /\ GivenSent /\ OneCopy /\ OnlyApplication
    BY <1>1, <1>2 DEF Underway, Awaited, GivenSent, OneCopy, OnlyApplication
  <1> QED
    BY <1>3, <1>4 DEF RouterInv, NetInv, Init, NetworkInit, Service!Init

(* A call that passes on a message.                                         *)
LEMMA CallType ==
    ASSUME NetworkTypeOK, NEW n \in Node, NEW msg \in Message,
           msg.dest \in Node, HasRoute(routes[n], msg.dest), NEW from \in Node \cup {None}
    PROVE  LET call == Call(routes[n], msg, from)
           IN  call \in Sending /\ call # None /\ call.msg = msg
  <1>1. Call(routes[n], msg, from) \in Sending
    BY DEF NetworkTypeOK, HasRoute, Call, Sending
  <1> QED
    BY <1>1, NoneAssumption DEF Call

LEMMA SendtoWaitStep ==
    ASSUME RouterInv, NEW n \in Node, NEW d \in Node \cup {Broadcast}, SendtoWait(n, d)
    PROVE  RouterInv' /\ Service!Next
  <1> PICK msg : msg = AppMessage(n, d, Len(sent[n]) + 1)
    OBVIOUS
  <1>1. NetInv /\ NetworkTypeOK /\ Post(n, d) /\ out[n] = None
    BY DEF RouterInv, NetInv, SendtoWait, Post, Listening
  <1>2. msg \in Message /\ msg.type = "app" /\ msg.dest = d
    <2>1. 0 \in 0 .. MaxHops /\ Len(sent[n]) + 1 \in Nat
      BY <1>1, NetworkAssumption DEF NetworkTypeOK
    <2> QED
      BY <2>1, EmptySeq DEF AppMessage, Message
  <1>3. /\ UNCHANGED <<setting, routes, got, lost, changes, leading>>
        /\ \/ /\ d = Broadcast /\ inbox' \in Heard(n, msg)
              /\ result' = [result EXCEPT ![n] = "NONE"] /\ out' = out
           \/ /\ d # Broadcast /\ HasRoute(routes[n], d)
              /\ out' = [out EXCEPT ![n] = Call(routes[n], msg, None)]
              /\ inbox' = Emptied(n) /\ result' = result
           \/ /\ \/ result' = [result EXCEPT ![n] = "INVALID_LENGTH"]
                 \/ result' = [result EXCEPT ![n] = "NO_ROUTE"]
              /\ inbox' = inbox /\ out' = out
    BY DEF SendtoWait
  <1>4. result' \in [Node -> {"none", "NONE", "INVALID_LENGTH", "NO_ROUTE", "UNABLE_TO_DELIVER"}]
    BY <1>1, <1>3 DEF NetworkTypeOK
  <1>5. out' = out => out' = [out EXCEPT ![n] = None]
    BY <1>1 DEF NetworkTypeOK
  <1>6. inbox' = Emptied(n) \/ inbox' = inbox => NothingNew
    BY <1>1 DEF NothingNew, Emptied, NetworkTypeOK
  <1>7. NetInv' /\ OnlyApplication'
    <2>1. CASE d = Broadcast /\ inbox' \in Heard(n, msg) /\ out' = out
      <3>1. NetInv'
        BY <1>1, <1>3, <1>4, <1>5, <2>1, PostStep
      <3>2. \A m \in Node : inbox'[m] \in {inbox[m], None} \/ inbox'[m].msg = msg
        BY <1>1, <1>2, <2>1, HeardPackets
      <3> QED
        BY <1>2, <2>1, <3>1, <3>2 DEF RouterInv, OnlyApplication
    <2>2. CASE /\ d # Broadcast /\ HasRoute(routes[n], d)
               /\ out' = [out EXCEPT ![n] = Call(routes[n], msg, None)]
               /\ inbox' = Emptied(n)
      <3> PICK call : call = Call(routes[n], msg, None)
        OBVIOUS
      <3>1. call \in Sending /\ call.msg = msg
        BY <1>1, <1>2, <2>2, CallType
      <3>2. NetInv'
        BY <1>1, <1>3, <1>4, <1>6, <2>2, <3>1, PostStep
      <3> QED
        BY <1>1, <1>2, <2>2, <3>1, <3>2 DEF RouterInv, OnlyApplication, Emptied, NetworkTypeOK
    <2>3. CASE inbox' = inbox /\ out' = out
      <3>1. NetInv'
        BY <1>1, <1>3, <1>4, <1>5, <1>6, <2>3, PostStep
      <3> QED
        BY <2>3, <3>1 DEF RouterInv, OnlyApplication
    <2> QED
      BY <1>3, <2>1, <2>2, <2>3
  <1>8. TypeOK'
    BY <1>3, <1>7 DEF RouterInv, TypeOK, NetInv
  <1>9. Service!Next
    BY <1>1, <1>3 DEF Post, Service!Next, Service!Post
  <1> QED
    BY <1>7, <1>8, <1>9 DEF RouterInv

LEMMA HopStep ==
    ASSUME RouterInv, NEW n \in Node, Arrive(n) /\ UNCHANGED <<changes, leading>>
    PROVE  RouterInv' /\ UNCHANGED <<sent, got>>
  <1>1. NetInv'
    BY ArriveStep DEF RouterInv
  <1>2. OnlyApplication'
    BY DEF RouterInv, NetInv, NetworkTypeOK, OnlyApplication, Arrive, Waiting, OnAir
  <1> QED
    BY <1>1, <1>2 DEF RouterInv, TypeOK, NetInv, Arrive

LEMMA EndOfHopStep ==
    ASSUME RouterInv, NEW n \in Node, NEW ok \in BOOLEAN, Return(n, ok)
    PROVE  RouterInv' /\ UNCHANGED <<sent, got>>
  <1>1. NetInv'
    BY ReturnStep DEF RouterInv, NetInv, NetworkTypeOK, Return
  <1>2. OnlyApplication'
    <2>1. ASSUME NEW m \in Node, inbox'[m] # None PROVE inbox'[m].msg.type = "app"
      <3>1. CASE inbox[m] = None
        <4>1. OnAir(n) # None
          BY OnAirType DEF RouterInv, NetInv, Return, MayReturn
        <4> QED
          BY <2>1, <3>1, <4>1 DEF Return, Abandoned
      <3>2. CASE inbox[m] # None
        <4>1. inbox[m] \in Packet /\ inbox[m].msg.type = "app"
          BY <3>2 DEF RouterInv, NetInv, NetworkTypeOK, OnlyApplication
        <4>2. \A p \in Packet : [p EXCEPT !.awaited = FALSE].msg = p.msg
          BY DEF Packet
        <4> QED
          BY <4>1, <4>2 DEF Return, Abandoned
      <3> QED
        BY <3>1, <3>2
    <2>2. ASSUME NEW m \in Node, out'[m] # None PROVE out'[m].msg.type = "app"
      BY <2>2 DEF RouterInv, NetInv, NetworkTypeOK, OnlyApplication, Return
    <2> QED
      BY <2>1, <2>2 DEF OnlyApplication
  <1> QED
    BY <1>1, <1>2 DEF RouterInv, TypeOK, NetInv, Return

LEMMA TakeStep ==
    ASSUME RouterInv, NEW n \in Node, Take(n)
    PROVE  RouterInv' /\ (Service!Next \/ UNCHANGED <<sent, got>>)
  <1> PICK p, msg : p = inbox[n] /\ msg = p.msg
    OBVIOUS
  <1>1. /\ NetInv /\ NetworkTypeOK /\ OnlyApplication
        /\ Listening(n) /\ p # None /\ p \in Packet
        /\ msg \in Message /\ msg.type = "app" /\ msg.hops \in 0 .. MaxHops
        /\ msg.dest \in Node \cup {Broadcast} /\ p.from \in Node
        /\ inbox' = Emptied(n)
        /\ UNCHANGED <<setting, routes, result, sent, lost, changes, leading>>
    BY DEF RouterInv, NetInv, NetworkTypeOK, OnlyApplication, Take, Packet, Message
  <1>2. /\ NothingNew /\ inbox'[n] = None
        /\ \A m \in Node : inbox'[m] # None => inbox'[m] = inbox[m]
    BY <1>1 DEF NothingNew, Emptied, NetworkTypeOK
  <1>3. routes' \in [Node -> [Node -> Node \cup {None}]]
    BY <1>1 DEF NetworkTypeOK
  <1>4. \/ /\ IsForUs(n, msg) /\ GiveOut(n, msg) /\ out' = Acknowledged(p)
        \/ /\ ~IsForUs(n, msg) /\ MayRelay(msg) /\ HasRoute(routes[n], msg.dest)
           /\ out' = [Acknowledged(p) EXCEPT ![n] = Call(routes[n], Relayed(msg), p.from)]
           /\ UNCHANGED got
        \/ out' = Acknowledged(p) /\ UNCHANGED got
    BY DEF Take
  <1>5. out' = Acknowledged(p) => out' = [Acknowledged(p) EXCEPT ![n] = None]
    <2>1. ~(p.awaited /\ p.from = n)
      BY <1>1 DEF NetInv, Awaited, Waiting, Listening
    <2>2. Acknowledged(p)[n] = None
      BY <1>1, <2>1 DEF Acknowledged, Listening
    <2> QED
      BY <2>2 DEF Acknowledged
  <1>6. ASSUME NEW call \in Sending \cup {None}, call # None => call.msg.type = "app",
               out' = [Acknowledged(p) EXCEPT ![n] = call]
        PROVE  OnlyApplication'
    <2>1. /\ out'[n] = call
          /\ \A m \in Node \ {n} : out'[m] # None => out[m] # None /\ out'[m].msg = out[m].msg
      BY <1>1, <1>2, <1>6, TakenCopies
    <2> QED
      BY <1>1, <1>2, <1>6, <2>1 DEF OnlyApplication
  <1>7. TypeOK /\ NetInv' => TypeOK'
    BY <1>1 DEF TypeOK, NetInv
  <1>8. CASE IsForUs(n, msg) /\ GiveOut(n, msg) /\ out' = Acknowledged(p)
    <2>1. NetInv' /\ Service!Give(n, msg.source, msg.about)
      BY <1>1, <1>2, <1>3, <1>5, <1>8, GiveStep
    <2>2. Service!Next
      BY <1>1, <2>1 DEF Service!Next, Service!Give, Message
    <2> QED
      BY <1>5, <1>6, <1>7, <1>8, <2>1, <2>2 DEF RouterInv
  <1>9. CASE /\ ~IsForUs(n, msg) /\ MayRelay(msg) /\ HasRoute(routes[n], msg.dest)
             /\ out' = [Acknowledged(p) EXCEPT ![n] = Call(routes[n], Relayed(msg), p.from)]
             /\ UNCHANGED got
    <2> PICK call, next : next = Relayed(msg) /\ call = Call(routes[n], next, p.from)
      OBVIOUS
    <2>1. /\ next \in Message /\ next.type = "app" /\ next.source = msg.source
          /\ next.about = msg.about /\ next.dest = msg.dest
      <3>1. msg.hops + 1 \in 0 .. MaxHops
        BY <1>1, <1>9, NetworkAssumption DEF MayRelay
      <3> QED
        BY <1>1, <3>1 DEF Relayed, Message
    <2>2. msg.dest \in Node /\ msg.dest # Broadcast
      BY <1>1, <1>9 DEF IsForUs
    <2>3. call \in Sending /\ call # None /\ call.msg = next
      BY <1>1, <1>9, <2>1, <2>2, CallType
    <2>4. NetInv'
      BY <1>1, <1>2, <1>3, <1>9, <2>1, <2>2, <2>3, RelayStep
    <2> QED
      BY <1>1, <1>6, <1>7, <1>9, <2>1, <2>3, <2>4 DEF RouterInv
  <1>10. CASE out' = Acknowledged(p) /\ UNCHANGED got
    <2>1. NetInv'
      BY <1>1, <1>2, <1>3, <1>5, <1>10, RelayStep
    <2> QED
      BY <1>1, <1>5, <1>6, <1>7, <1>10, <2>1 DEF RouterInv
  <1> QED
    BY <1>4, <1>8, <1>9, <1>10

LEMMA ChangeRouteStep ==
    ASSUME RouterInv, NEW n \in Node, NEW d \in Node, NEW h \in InSight(n) \cup {None},
           ChangeRoute(n, d, h)
    PROVE  RouterInv' /\ UNCHANGED <<sent, got>>
  <1>1. /\ routes' = [routes EXCEPT ![n][d] = h] /\ changes < MaxChanges
        /\ changes' = changes + 1 /\ leading' = (leading /\ RoutesLead(routes'))
        /\ UNCHANGED <<setting, inbox, out, result, sent, got, lost>>
    BY DEF ChangeRoute
  <1>2. h \in Node \cup {None}
    BY InSightType
  <1>3. changes' \in 0 .. MaxChanges /\ leading' \in BOOLEAN
    BY <1>1, RouterAssumption DEF RouterInv, TypeOK
  <1>4. NetworkTypeOK'
    BY <1>1, <1>2 DEF RouterInv, NetInv, NetworkTypeOK
  <1>5. Underway' /\ Awaited' /\ GivenSent' /\ OneCopy' /\ OnlyApplication'
    BY <1>1, NothingSent DEF RouterInv, OnlyApplication
  <1> QED
    BY <1>1, <1>3, <1>4, <1>5 DEF RouterInv, NetInv, TypeOK

LEMMA RouterStep ==
    ASSUME RouterInv, [Next]_vars
    PROVE  RouterInv' /\ [Service!Next]_<<sent, got>>
  <1>1. CASE UNCHANGED vars
    <2>1. UNCHANGED <<setting, routes, inbox, out, result, sent, got, lost, changes, leading>>
      BY <1>1 DEF vars
    <2>2. Underway' /\ Awaited' /\ GivenSent' /\ OneCopy'
      BY <2>1, NothingSent DEF RouterInv
    <2>3. TypeOK' /\ NetworkTypeOK' /\ OnlyApplication'
      BY <2>1 DEF RouterInv, TypeOK, NetworkTypeOK, OnlyApplication
    <2> QED
      BY <2>1, <2>2, <2>3 DEF RouterInv, NetInv
  <1>2. CASE Next
    <2>1. PICK n \in Node :
            \/ \E d \in Node \cup {Broadcast} : SendtoWait(n, d)
            \/ Arrive(n) /\ UNCHANGED <<changes, leading>>
            \/ \E ok \in BOOLEAN : Return(n, ok)
            \/ Take(n)
            \/ \E d \in Node \ {n}, h \in InSight(n) \cup {None} : ChangeRoute(n, d, h)
      BY <1>2 DEF Next
    <2> QED
      BY <2>1, SendtoWaitStep, HopStep, EndOfHopStep, TakeStep, ChangeRouteStep
  <1> QED
    BY <1>1, <1>2

LEMMA RouterInvariant == Spec => []RouterInv
  BY RouterInit, RouterStep, PTL DEF Spec

-----------------------------------------------------------------------------
(***************************************************************************)
(* Tables, FIFOs and calls hold what they should, and the hop count of a   *)
(* message stays within the limit wherever the routes lead.                *)
(***************************************************************************)
THEOREM RouterTypeCorrect == Spec => []TypeOK
  <1>1. RouterInv => TypeOK
    BY DEF RouterInv
  <1> QED
    BY <1>1, RouterInvariant, PTL

(***************************************************************************)
(* However often a hop gives up on a message that the next hop has taken,  *)
(* a message for one node is never in two places it can go on from.        *)
(***************************************************************************)
THEOREM RouterKeepsOneCopy == Spec => []OneCopy
  <1>1. RouterInv => OneCopy
    BY DEF RouterInv, NetInv
  <1> QED
    BY <1>1, RouterInvariant, PTL

(***************************************************************************)
(* RHRouter implements MessageService: recvfromAck() gives a message only  *)
(* to the node it is for, and to no sketch twice.                          *)
(***************************************************************************)
THEOREM RouterImplementsService == Spec => ImplementsService
  BY RouterInit, RouterStep, RouterInvariant, PTL DEF Spec, ImplementsService, Service!Spec
=============================================================================
