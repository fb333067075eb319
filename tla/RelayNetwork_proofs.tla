-------------------------- MODULE RelayNetwork_proofs --------------------------
(***************************************************************************)
(* What RHRouter and RHMesh have in common is enough for OneCopy: lemmas   *)
(* about the kinds of steps both are made of, for any number of nodes, any *)
(* hop limit, any network and any number of messages.                      *)
(***************************************************************************)
EXTENDS RelayNetwork, SequenceTheorems, TLAPS

-----------------------------------------------------------------------------
(* The invariant.                                                           *)

\* An application message is one that its source has sent, to whom it was sent.
Genuine(msg) ==
    msg.type = "app" =>
        /\ msg.about \in DOMAIN sent[msg.source]
        /\ msg.dest = sent[msg.source][msg.about]

\* Messages on their way; broadcasts are not passed on by sendtoWait().
Underway ==
    \A n \in Node :
        /\ inbox[n] # None => Genuine(inbox[n].msg)
        /\ out[n] # None => Genuine(out[n].msg) /\ out[n].msg.dest # Broadcast

\* A packet whose sender waits is what the sender sends, to this node.
Awaited ==
    \A n \in Node :
        inbox[n] # None /\ inbox[n].awaited =>
            LET m == inbox[n].from
            IN  Waiting(m) /\ out[m].to = n /\ inbox[n] = OnAir(m)

\* What was given out was sent.
GivenSent == \A s \in Node : \A k : GivenTo(s, k) # {} => k \in DOMAIN sent[s]

\* A message that is nowhere on its way, and was not given out.
Absent(s, k) == NoCopy(s, k) /\ GivenTo(s, k) = {}

NetInv == NetworkTypeOK /\ Underway /\ Awaited /\ GivenSent /\ OneCopy

-----------------------------------------------------------------------------
(* Helpers.                                                                 *)

(* Nodes in sight are nodes.                                                *)
LEMMA InSightType == \A n \in Node : InSight(n) \subseteq Node
  BY DEF InSight, Sees

(* A node that is on no list of given messages has not been given one.      *)
LEMMA GivenToIsGiven ==
    ASSUME NEW n \in Node, NEW s \in Node, NEW k, NEW d, n \notin GivenTo(s, k)
    PROVE  ~Service!IsGiven(n, [source |-> s, number |-> k, dest |-> d])
  BY DEF GivenTo, Service!IsGiven

(* What is sent is added to what was.                                       *)
LEMMA PostSent ==
    ASSUME NetworkTypeOK, NEW n \in Node, NEW d \in Node \cup {Broadcast}, Post(n, d)
    PROVE  /\ sent' \in [Node -> Seq(Node \cup {Broadcast})]
           /\ \A s \in Node : \A k \in DOMAIN sent[s] :
                 k \in DOMAIN sent'[s] /\ sent'[s][k] = sent[s][k]
           /\ Len(sent[n]) + 1 \in Nat \ {0}
           /\ Len(sent[n]) + 1 \in DOMAIN sent'[n]
           /\ Len(sent[n]) + 1 \notin DOMAIN sent[n]
           /\ sent'[n][Len(sent[n]) + 1] = d
           /\ \A s \in Node : \A k \in DOMAIN sent'[s] :
                 k \in DOMAIN sent[s] \/ (s = n /\ k = Len(sent[n]) + 1)
  BY DEF NetworkTypeOK, Post

(* GiveOut() adds one node to those a message was given to.                 *)
LEMMA GiveOutGiven ==
    ASSUME NetworkTypeOK, NEW n \in Node, NEW msg \in Message,
           msg.about \in Nat \ {0}, GiveOut(n, msg)
    PROVE  /\ got' \in [Node -> Seq(Given)]
           /\ \A s \in Node : \A k :
                 GivenTo(s, k)' = GivenTo(s, k) \cup
                    {m \in {n} : msg.source = s /\ msg.about = k}
  <1> DEFINE g == [source |-> msg.source, number |-> msg.about, dest |-> msg.dest]
  <1>1. g \in Given
    BY DEF Message, Given
  <1>2. /\ got' \in [Node -> Seq(Given)]
        /\ \A m \in Node \ {n} : got'[m] = got[m]
        /\ DOMAIN got'[n] = DOMAIN got[n] \cup {Len(got[n]) + 1}
        /\ \A i \in DOMAIN got[n] : got'[n][i] = got[n][i]
        /\ got'[n][Len(got[n]) + 1] = g
    BY <1>1 DEF NetworkTypeOK, GiveOut
  <1>3. ASSUME NEW s \in Node, NEW k, NEW m \in Node
        PROVE  m \in GivenTo(s, k)' <=>
                  m \in GivenTo(s, k) \/ (m = n /\ msg.source = s /\ msg.about = k)
    <2>1. CASE m # n
      BY <2>1, <1>2 DEF GivenTo
    <2>2. CASE m = n
      <3> DEFINE top == Len(got[n]) + 1
                 Names(h) == h.source = s /\ h.number = k
      <3>1. Names(g) <=> msg.source = s /\ msg.about = k
        OBVIOUS
      <3> HIDE DEF g
      <3>2. /\ n \in GivenTo(s, k) <=> \E i \in DOMAIN got[n] : Names(got[n][i])
            /\ n \in GivenTo(s, k)' <=> \E i \in DOMAIN got'[n] : Names(got'[n][i])
        BY DEF GivenTo
      <3> HIDE DEF Names
      <3>3. (\E i \in DOMAIN got'[n] : Names(got'[n][i]))
                <=> (\E i \in DOMAIN got[n] : Names(got[n][i])) \/ Names(g)
        BY <1>2, Zenon
      <3> QED
        BY <2>2, <3>1, <3>2, <3>3
    <2> QED
      BY <2>1, <2>2
  <1>4. \A s \in Node : \A k : GivenTo(s, k) \subseteq Node /\ GivenTo(s, k)' \subseteq Node
    BY DEF GivenTo
  <1> QED
    BY <1>2, <1>3, <1>4

(* OneCopy after a step that sends nothing, from each message.              *)
LEMMA OneCopyOfEach ==
    ASSUME sent' = sent,
           \A s \in Node : \A k \in DOMAIN sent[s] :
              /\ sent[s][k] = Broadcast =>
                    \A n \in Node : n \in GivenTo(s, k)' => ~Loose(n, s, k)'
              /\ sent[s][k] # Broadcast => SingleCopy(s, k)'
    PROVE  OneCopy'
  <1>1. \A s, k : \A n \in GivenTo(s, k)' : n \in Node
    BY DEF GivenTo
  <1> QED
    BY <1>1 DEF OneCopy

(* A message that nothing new happens to has no more copies than before.    *)
LEMMA FewerCopies ==
    ASSUME NEW s, NEW k, SingleCopy(s, k), GivenTo(s, k)' = GivenTo(s, k),
           \A n \in Node : /\ Holds(n, s, k)' => Holds(n, s, k)
                           /\ Loose(n, s, k)' => Loose(n, s, k)
    PROVE  SingleCopy(s, k)'
  BY DEF SingleCopy, NoCopy

(* A copy that goes from one place to another is still the only one.        *)
LEMMA MovedCopy ==
    ASSUME NEW s, NEW k, SingleCopy(s, k), GivenTo(s, k)' = GivenTo(s, k),
           ~NoCopy(s, k), NEW n \in Node,
           \/ \A m \in Node : (Holds(m, s, k)' => m = n) /\ ~Loose(m, s, k)'
           \/ \A m \in Node : ~Holds(m, s, k)' /\ (Loose(m, s, k)' => m = n)
    PROVE  SingleCopy(s, k)'
  BY DEF SingleCopy, NoCopy

(* A message that was given out has no copy left.                           *)
LEMMA NoCopyLeft ==
    ASSUME NEW s, NEW k, NoCopy(s, k)'
    PROVE  SingleCopy(s, k)'
  BY DEF SingleCopy, NoCopy

-----------------------------------------------------------------------------
(* Steps.                                                                   *)

(* Steps that send, receive and give out nothing.                           *)
LEMMA NothingSent ==
    ASSUME NetInv, UNCHANGED <<inbox, out, sent, got>>
    PROVE  Underway' /\ Awaited' /\ GivenSent' /\ OneCopy'
  BY DEF NetInv, Underway, Genuine, Awaited, Waiting, OnAir, GivenSent, GivenTo,
         OneCopy, SingleCopy, NoCopy, Holds, Loose, IsMessage

(* A transmission that reaches the next hop is a packet it may take, and    *)
(* replaces one.                                                            *)
LEMMA ArriveStep ==
    ASSUME NetInv, NEW n \in Node, Arrive(n)
    PROVE  NetInv' /\ \A s, k : Absent(s, k) => Absent(s, k)'
  <1> DEFINE to == out[n].to
  <1>1. /\ out[n] \in Sending /\ out[n] # None /\ ~out[n].taken /\ to \in Node
        /\ OnAir(n) \in Packet
    BY DEF NetInv, NetworkTypeOK, Arrive, Waiting, Sending, OnAir, Packet
  <1>2. /\ inbox' = [inbox EXCEPT ![to] = OnAir(n)]
        /\ UNCHANGED <<setting, routes, out, result, sent, got, lost>>
    BY DEF Arrive
  <1>3. NetworkTypeOK'
    BY <1>1, <1>2 DEF NetInv, NetworkTypeOK
  <1>4. Underway'
    BY <1>1, <1>2 DEF NetInv, NetworkTypeOK, Underway, Genuine, OnAir
  <1>5. Awaited'
    BY <1>1, <1>2 DEF NetInv, NetworkTypeOK, Awaited, Waiting, OnAir
  <1>6. OneCopy' /\ \A s, k : Absent(s, k) => Absent(s, k)'
    <2>1. \A m \in Node : \A s, k : /\ Holds(m, s, k)' => Holds(m, s, k)
                                    /\ Loose(m, s, k)' => Loose(m, s, k)
      BY <1>1, <1>2 DEF NetInv, NetworkTypeOK, Holds, Loose, Waiting, OnAir, IsMessage
    <2>2. \A s, k : GivenTo(s, k)' = GivenTo(s, k)
      BY <1>2 DEF GivenTo
    <2>3. ASSUME NEW s \in Node, NEW k \in DOMAIN sent[s], sent[s][k] # Broadcast
          PROVE  SingleCopy(s, k)'
      <3>1. SingleCopy(s, k)
        BY <2>3 DEF NetInv, OneCopy
      <3> QED
        BY <2>1, <2>2, <3>1, FewerCopies
    <2>4. ASSUME NEW s \in Node, NEW k \in DOMAIN sent[s], sent[s][k] = Broadcast,
                 NEW m \in Node, m \in GivenTo(s, k)'
          PROVE  ~Loose(m, s, k)'
      BY <2>1, <2>2, <2>4 DEF NetInv, OneCopy
    <2>5. \A s, k : Absent(s, k) => Absent(s, k)'
      BY <2>1, <2>2 DEF Absent, NoCopy
    <2> QED
      BY <1>2, <2>3, <2>4, <2>5, OneCopyOfEach
  <1>7. GivenSent'
    BY <1>2 DEF NetInv, GivenSent, GivenTo
  <1> QED
    BY <1>3, <1>4, <1>5, <1>6, <1>7 DEF NetInv

(* What a node sends is a packet.                                           *)
LEMMA OnAirType ==
    ASSUME NetworkTypeOK, NEW n \in Node, out[n] # None
    PROVE  OnAir(n) \in Packet /\ OnAir(n) # None
  <1>1. out[n] \in Sending
    BY DEF NetworkTypeOK
  <1>2. OnAir(n) \in Packet
    BY <1>1 DEF OnAir, Packet, Sending
  <1> QED
    BY <1>2, NoneAssumption

(* FIFOs in which nothing has appeared that an application would want.      *)
NothingNew ==
    /\ inbox' \in [Node -> Packet \cup {None}]
    /\ \A m \in Node :
          \/ inbox'[m] \in {inbox[m], None}
          \/ ~inbox'[m].awaited /\ inbox'[m].msg.type # "app"

(* The end of a hop: whether it is known to have taken the message or not,  *)
(* the copy is where it was, or with the next hop.  The node may go on with *)
(* a message of the mesh.                                                   *)
LEMMA ReturnStep ==
    ASSUME NetInv, NEW n \in Node, NEW ok \in BOOLEAN, NEW call \in Sending \cup {None},
           MayReturn(n, ok),
           call # None => call.msg.type # "app" /\ call.msg.dest # Broadcast,
           out' = [out EXCEPT ![n] = call],
           inbox' = Abandoned(n),
           result' = Reported(n, ok),
           lost' = LostIf(n, ok),
           routes' \in [Node -> [Node -> Node \cup {None}]],
           UNCHANGED <<setting, sent, got>>
    PROVE  NetInv' /\ \A s, k : Absent(s, k) => Absent(s, k)'
  <1> DEFINE to == out[n].to
  <1>1. /\ out[n] \in Sending /\ out[n] # None /\ to \in Node /\ out[n].msg \in Message
        /\ OnAir(n) \in Packet /\ OnAir(n) # None
        /\ OnAir(n).from = n /\ OnAir(n).awaited /\ OnAir(n).msg = out[n].msg
    <2>1. out[n] \in Sending /\ out[n] # None
      BY DEF NetInv, NetworkTypeOK, MayReturn
    <2>2. to \in Node /\ out[n].msg \in Message
      BY <2>1 DEF Sending
    <2>3. OnAir(n) \in Packet /\ OnAir(n) # None
      BY <2>1, OnAirType DEF NetInv
    <2> QED
      BY <2>1, <2>2, <2>3 DEF OnAir
  <1>2. ASSUME NEW m \in Node
        PROVE  \/ inbox'[m] = inbox[m] /\ ~(inbox[m] # None /\ inbox[m].awaited /\ inbox[m].from = n)
               \/ /\ m = to /\ ~out[n].taken
                  /\ inbox[m] \in Packet /\ inbox[m] # None /\ inbox[m].msg = out[n].msg
                  /\ inbox'[m] \in Packet
                  /\ ~inbox'[m].awaited /\ inbox'[m].msg = out[n].msg
    <2>1. CASE inbox[m] # OnAir(n)
      BY <2>1 DEF NetInv, Awaited, Abandoned
    <2>2. CASE inbox[m] = OnAir(n)
      <3>1. inbox'[m] = [inbox[m] EXCEPT !.awaited = FALSE]
        BY <2>2 DEF Abandoned
      <3>2. /\ inbox'[m] \in Packet /\ ~inbox'[m].awaited
            /\ inbox'[m].msg = inbox[m].msg
        <4>1. \A p \in Packet : /\ [p EXCEPT !.awaited = FALSE] \in Packet
                                /\ ~[p EXCEPT !.awaited = FALSE].awaited
                                /\ [p EXCEPT !.awaited = FALSE].msg = p.msg
          BY DEF Packet
        <4>2. inbox[m] \in Packet
          BY <1>1, <2>2
        <4> QED
          BY <3>1, <4>1, <4>2
      <3>3. m = to /\ ~out[n].taken
        BY <1>1, <2>2 DEF NetInv, Awaited, Waiting
      <3> QED
        BY <1>1, <2>2, <3>2, <3>3
    <2> QED
      BY <2>1, <2>2
  <1>3. inbox' \in [Node -> Packet \cup {None}]
    BY <1>2 DEF Abandoned, NetInv, NetworkTypeOK
  <1>4. /\ result' \in [Node -> {"none", "NONE", "INVALID_LENGTH", "NO_ROUTE", "UNABLE_TO_DELIVER"}]
        /\ lost' \subseteq Message
    <2>1. [out[n].msg EXCEPT !.hops = 0] \in Message
      <3>1. 0 \in 0 .. MaxHops
        BY NetworkAssumption
      <3> QED
        BY <1>1, <3>1 DEF Message
    <2> QED
      BY <2>1 DEF NetInv, NetworkTypeOK, Reported, Outcome, LostIf
  <1>5. NetworkTypeOK'
    BY <1>3, <1>4 DEF NetInv, NetworkTypeOK
  <1>6. Underway'
    <2>1. ASSUME NEW m \in Node, inbox'[m] # None
          PROVE  Genuine(inbox[m].msg)'
      BY <1>1, <1>2, <2>1 DEF NetInv, Underway, Genuine
    <2>2. ASSUME NEW m \in Node, out'[m] # None
          PROVE  Genuine(out[m].msg)' /\ out'[m].msg.dest # Broadcast
      BY <2>2 DEF NetInv, NetworkTypeOK, Underway, Genuine
    <2> QED
      BY <2>1, <2>2 DEF Underway
  <1>7. Awaited'
    <2>1. ASSUME NEW m \in Node, inbox'[m] # None, inbox'[m].awaited
          PROVE  /\ Waiting(inbox[m].from)'
                 /\ out'[inbox'[m].from].to = m
                 /\ inbox'[m] = OnAir(inbox[m].from)'
      <3>1. inbox'[m] = inbox[m] /\ inbox[m].from # n
        BY <1>2, <2>1
      <3>2. inbox[m].from \in Node
        BY <2>1, <3>1 DEF NetInv, NetworkTypeOK, Packet
      <3>3. out'[inbox[m].from] = out[inbox[m].from]
        BY <3>1, <3>2 DEF NetInv, NetworkTypeOK
      <3> QED
        <4>1. Waiting(inbox[m].from) /\ out[inbox[m].from].to = m /\ inbox[m] = OnAir(inbox[m].from)
          BY <2>1, <3>1 DEF NetInv, Awaited
        <4> QED
          BY <3>1, <3>3, <4>1 DEF Waiting, OnAir
    <2> QED
      BY <2>1 DEF Awaited
  <1>8. OneCopy' /\ \A s, k : Absent(s, k) => Absent(s, k)'
    <2>1. \A s, k : GivenTo(s, k)' = GivenTo(s, k)
      BY DEF GivenTo
    <2>2. ASSUME NEW m \in Node, NEW s, NEW k
          PROVE  /\ Holds(m, s, k)' => Holds(m, s, k) /\ m # n
                 /\ Loose(m, s, k)' =>
                       Loose(m, s, k) \/ (m = to /\ Holds(n, s, k))
      BY <1>1, <1>2 DEF NetInv, NetworkTypeOK, Holds, Loose, Waiting, IsMessage
    <2>3. ASSUME NEW s \in Node, NEW k \in DOMAIN sent[s], sent[s][k] # Broadcast
          PROVE  SingleCopy(s, k)'
      <3>1. SingleCopy(s, k)
        BY <2>3 DEF NetInv, OneCopy
      <3>2. CASE Holds(n, s, k)
        <4>1. \A m \in Node : ~Holds(m, s, k)' /\ (Loose(m, s, k)' => m = to)
          BY <2>2, <3>1, <3>2 DEF SingleCopy
        <4> QED
          BY <1>1, <2>1, <3>1, <3>2, <4>1, MovedCopy DEF NoCopy
      <3>3. CASE ~Holds(n, s, k)
        BY <2>1, <2>2, <3>1, <3>3, FewerCopies
      <3> QED
        BY <3>2, <3>3
    <2>4. ASSUME NEW s \in Node, NEW k \in DOMAIN sent[s], sent[s][k] = Broadcast,
                 NEW m \in Node, m \in GivenTo(s, k)'
          PROVE  ~Loose(m, s, k)'
      <3>1. ~Holds(n, s, k)
        BY <2>4, <1>1 DEF NetInv, Underway, Genuine, Holds, IsMessage
      <3> QED
        BY <2>1, <2>2, <2>4, <3>1 DEF NetInv, OneCopy
    <2>5. \A s, k : Absent(s, k) => Absent(s, k)'
      BY <1>1, <2>1, <2>2 DEF Absent, NoCopy
    <2> QED
      BY <2>3, <2>4, <2>5, OneCopyOfEach
  <1>9. GivenSent'
    BY DEF NetInv, GivenSent, GivenTo
  <1> QED
    BY <1>5, <1>6, <1>7, <1>8, <1>9 DEF NetInv

(* The FIFOs after a message of n was broadcast.                            *)
LEMMA HeardPackets ==
    ASSUME NetworkTypeOK, NEW n \in Node, NEW msg \in Message, inbox' \in Heard(n, msg)
    PROVE  /\ inbox' \in [Node -> Packet \cup {None}]
           /\ inbox'[n] = None
           /\ \A m \in Node : \/ inbox'[m] \in {inbox[m], None}
                              \/ /\ m # n /\ inbox'[m] \in Packet
                                 /\ ~inbox'[m].awaited /\ inbox'[m].msg = msg
  <1> DEFINE near   == {m \in InSight(n) : Listening(m)}
             packet == [from |-> n, awaited |-> FALSE, msg |-> msg]
  <1>1. PICK R \in SUBSET near :
            inbox' = [m \in Node |-> IF m \in R THEN packet ELSE IF m = n THEN None ELSE inbox[m]]
    BY DEF Heard
  <1>2. n \notin R
    BY <1>1 DEF InSight, Sees
  <1>3. packet \in Packet
    BY DEF Packet
  <1> QED
    BY <1>1, <1>2, <1>3 DEF NetworkTypeOK

(* A message that a sketch sends is new: it is nowhere yet.                 *)
LEMMA UnsentHasNoCopy ==
    ASSUME NetInv, NEW s \in Node, NEW k, k \notin DOMAIN sent[s]
    PROVE  Absent(s, k)
  <1>1. GivenTo(s, k) = {}
    BY DEF NetInv, GivenSent
  <1>2. ASSUME NEW n \in Node PROVE ~Holds(n, s, k) /\ ~Loose(n, s, k)
    BY DEF NetInv, Underway, Genuine, Holds, Loose, Waiting, IsMessage
  <1> QED
    BY <1>1, <1>2 DEF Absent, NoCopy

(* sendtoWait() of a sketch: a message for one node is in the call, one for *)
(* all in the FIFOs of those who heard it, and nowhere else.                *)
LEMMA PostStep ==
    ASSUME NetInv, NEW n \in Node, NEW d \in Node \cup {Broadcast}, Post(n, d),
           NEW call \in Sending \cup {None},
           call # None =>
              d # Broadcast /\ call.msg = AppMessage(n, d, Len(sent[n]) + 1),
           out' = [out EXCEPT ![n] = call],
           \/ NothingNew
           \/ /\ call = None /\ d = Broadcast
              /\ inbox' \in Heard(n, AppMessage(n, d, Len(sent[n]) + 1)),
           result' \in [Node -> {"none", "NONE", "INVALID_LENGTH", "NO_ROUTE", "UNABLE_TO_DELIVER"}],
           UNCHANGED <<setting, routes, got, lost>>
    PROVE  /\ NetInv'
           /\ Absent(n, Len(sent[n]) + 1)
           /\ \A s, k :
                 /\ Absent(s, k)
                 /\ s = n /\ k = Len(sent[n]) + 1 => call = None /\ d # Broadcast
                 => Absent(s, k)'
  <1> PICK k0, msg : k0 = Len(sent[n]) + 1 /\ msg = AppMessage(n, d, k0)
    OBVIOUS
  <1>1. NetworkTypeOK
    BY DEF NetInv
  <1>2. /\ sent' \in [Node -> Seq(Node \cup {Broadcast})]
        /\ \A s \in Node : \A k \in DOMAIN sent[s] :
              k \in DOMAIN sent'[s] /\ sent'[s][k] = sent[s][k]
        /\ k0 \in Nat \ {0} /\ k0 \in DOMAIN sent'[n] /\ k0 \notin DOMAIN sent[n]
        /\ sent'[n][k0] = d
        /\ \A s \in Node : \A k \in DOMAIN sent'[s] :
              k \in DOMAIN sent[s] \/ (s = n /\ k = k0)
    BY <1>1, PostSent
  <1>3. /\ msg \in Message
        /\ msg.type = "app" /\ msg.source = n /\ msg.about = k0 /\ msg.dest = d
    <2>1. 0 \in 0 .. MaxHops
      BY NetworkAssumption
    <2> QED
      BY <1>2, <2>1, EmptySeq DEF AppMessage, Message
  <1>4. /\ inbox' \in [Node -> Packet \cup {None}]
        /\ \A m \in Node :
              \/ inbox'[m] \in {inbox[m], None}
              \/ ~inbox'[m].awaited /\ inbox'[m].msg.type # "app"
              \/ ~inbox'[m].awaited /\ inbox'[m].msg = msg /\ d = Broadcast /\ call = None
    <2>1. CASE NothingNew
      BY <2>1 DEF NothingNew
    <2>2. CASE call = None /\ d = Broadcast /\ inbox' \in Heard(n, msg)
      BY <1>1, <1>3, <2>2, HeardPackets
    <2> QED
      BY <2>1, <2>2
  <1>5. out[n] = None
    BY DEF Post, Listening
  <1>6. /\ out' \in [Node -> Sending \cup {None}]
        /\ out'[n] = call /\ \A m \in Node \ {n} : out'[m] = out[m]
    BY <1>1 DEF NetworkTypeOK
  <1>7. NetworkTypeOK'
    BY <1>1, <1>2, <1>4, <1>6 DEF NetworkTypeOK
  <1>8. Underway'
    <2>1. ASSUME NEW m \in Node, inbox'[m] # None PROVE Genuine(inbox[m].msg)'
      <3>1. CASE inbox'[m] = inbox[m]
        <4>1. inbox[m].msg.source \in Node
          BY <1>1, <2>1, <3>1 DEF NetworkTypeOK, Packet, Message
        <4>2. Genuine(inbox[m].msg)
          BY <2>1, <3>1 DEF NetInv, Underway
        <4> QED
          BY <1>2, <3>1, <4>1, <4>2 DEF Genuine
      <3>2. CASE inbox'[m].msg.type # "app"
        BY <3>2 DEF Genuine
      <3>3. CASE inbox'[m].msg = msg
        BY <1>2, <1>3, <3>3 DEF Genuine
      <3> QED
        BY <1>4, <2>1, <3>1, <3>2, <3>3
    <2>2. ASSUME NEW m \in Node, out'[m] # None
          PROVE  Genuine(out[m].msg)' /\ out'[m].msg.dest # Broadcast
      <3>1. CASE m = n
        BY <1>2, <1>3, <1>6, <2>2, <3>1 DEF Genuine
      <3>2. CASE m # n
        <4>1. out[m].msg.source \in Node
          BY <1>1, <1>6, <2>2, <3>2 DEF NetworkTypeOK, Sending, Message
        <4> QED
          BY <1>2, <1>6, <2>2, <3>2, <4>1 DEF NetInv, Underway, Genuine
      <3> QED
        BY <3>1, <3>2
    <2> QED
      BY <2>1, <2>2 DEF Underway
  <1>9. Awaited'
    <2>1. ASSUME NEW m \in Node, inbox'[m] # None, inbox'[m].awaited
          PROVE  /\ Waiting(inbox[m].from)'
                 /\ out'[inbox'[m].from].to = m
                 /\ inbox'[m] = OnAir(inbox[m].from)'
      <3>1. inbox'[m] = inbox[m]
        BY <1>4, <2>1
      <3>2. /\ inbox[m].from \in Node
            /\ Waiting(inbox[m].from) /\ out[inbox[m].from].to = m
            /\ inbox[m] = OnAir(inbox[m].from)
        BY <1>1, <2>1, <3>1 DEF NetInv, Awaited, NetworkTypeOK, Packet
      <3>3. out'[inbox[m].from] = out[inbox[m].from]
        BY <1>5, <1>6, <3>2 DEF Waiting
      <3> QED
        BY <3>1, <3>2, <3>3 DEF Waiting, OnAir
    <2> QED
      BY <2>1 DEF Awaited
  <1>10. \A s, k : GivenTo(s, k)' = GivenTo(s, k)
    BY DEF GivenTo
  <1>11. GivenSent'
    BY <1>2, <1>10 DEF NetInv, GivenSent
  <1>12. /\ OneCopy' /\ Absent(n, k0)
         /\ \A s, k : /\ Absent(s, k)
                      /\ s = n /\ k = k0 => call = None /\ d # Broadcast
                      => Absent(s, k)'
    <2>1. NoCopy(n, k0) /\ GivenTo(n, k0) = {}
      BY <1>2, UnsentHasNoCopy DEF Absent
    <2>2. ASSUME NEW m \in Node, NEW s, NEW k, ~(s = n /\ k = k0)
          PROVE  /\ Holds(m, s, k)' => Holds(m, s, k)
                 /\ Loose(m, s, k)' => Loose(m, s, k)
      BY <1>3, <1>4, <1>6, <2>2 DEF Holds, Loose, Waiting, IsMessage
    <2>3. ASSUME NEW m \in Node
          PROVE  /\ Holds(m, n, k0)' => m = n /\ call # None
                 /\ Loose(m, n, k0)' => d = Broadcast
      BY <1>3, <1>4, <1>6, <2>1 DEF NoCopy, Holds, Loose, Waiting, IsMessage
    <2>4. ASSUME NEW s \in Node, NEW k \in DOMAIN sent'[s]
          PROVE  IF sent'[s][k] = Broadcast
                 THEN \A m \in Node : m \in GivenTo(s, k)' => ~Loose(m, s, k)'
                 ELSE SingleCopy(s, k)'
      <3>1. CASE s = n /\ k = k0
        <4>1. CASE d = Broadcast
          BY <1>2, <1>10, <2>1, <3>1, <4>1
        <4>2. CASE d # Broadcast
          <5>1. SingleCopy(n, k0)'
            BY <1>10, <2>1, <2>3, <4>2 DEF SingleCopy
          <5> QED
            BY <1>2, <3>1, <4>2, <5>1
        <4> QED
          BY <4>1, <4>2
      <3>2. CASE k \in DOMAIN sent[s] /\ ~(s = n /\ k = k0)
        <4>1. CASE sent[s][k] = Broadcast
          BY <1>2, <1>10, <2>2, <3>2, <4>1 DEF NetInv, OneCopy
        <4>2. CASE sent[s][k] # Broadcast
          <5>1. SingleCopy(s, k)
            BY <3>2, <4>2 DEF NetInv, OneCopy
          <5>2. SingleCopy(s, k)'
            BY <1>10, <2>2, <3>2, <5>1, FewerCopies
          <5> QED
            BY <1>2, <3>2, <4>2, <5>2
        <4> QED
          BY <4>1, <4>2
      <3> QED
        BY <1>2, <3>1, <3>2
    <2>5. \A s, k : \A m \in GivenTo(s, k)' : m \in Node
      BY DEF GivenTo
    <2>6. \A s, k : /\ Absent(s, k)
                    /\ s = n /\ k = k0 => call = None /\ d # Broadcast
                    => Absent(s, k)'
      BY <1>10, <2>2, <2>3 DEF Absent, NoCopy
    <2> QED
      BY <2>1, <2>4, <2>5, <2>6 DEF OneCopy, Absent
  <1> QED
    BY <1>7, <1>8, <1>9, <1>11, <1>12 DEF NetInv

(* What a node takes leaves no other copy behind: neither with the node it  *)
(* came from, which now knows that it was taken, nor in a FIFO.             *)
LEMMA TakenCopies ==
    ASSUME NetInv, NEW n \in Node, Listening(n), inbox[n] # None,
           NEW call \in Sending \cup {None},
           out' = [Acknowledged(inbox[n]) EXCEPT ![n] = call],
           NothingNew, inbox'[n] = None
    PROVE  /\ out' \in [Node -> Sending \cup {None}]
           /\ out'[n] = call
           /\ \A m \in Node \ {n} : out'[m] # None =>
                 out[m] # None /\ out'[m].msg = out[m].msg /\ out'[m].from = out[m].from
           /\ Awaited'
           /\ \A m \in Node : \A s, k :
                 /\ Holds(m, s, k)' /\ m # n => Holds(m, s, k)
                 /\ Loose(m, s, k)' => m # n /\ Loose(m, s, k)
           /\ \A s, k : IsMessage(inbox[n].msg, s, k) => ~NoCopy(s, k)
           /\ \A s, k : SingleCopy(s, k) /\ IsMessage(inbox[n].msg, s, k) =>
                 \A m \in Node : (Holds(m, s, k)' => m = n) /\ ~Loose(m, s, k)'
  <1> PICK p : p = inbox[n]
    OBVIOUS
  <1>1. NetworkTypeOK /\ p \in Packet /\ p # None /\ p.from \in Node
    BY DEF NetInv, NetworkTypeOK, Packet
  <1>2. p.awaited => /\ Waiting(p.from) /\ out[p.from].to = n /\ p.msg = out[p.from].msg
                     /\ out[p.from] \in Sending
                     /\ p.from # n
    BY <1>1 DEF NetInv, NetworkTypeOK, Awaited, OnAir, Waiting, Listening
  <1>3. ASSUME NEW m \in Node, m # n
        PROVE  \/ /\ p.awaited /\ m = p.from
                  /\ out'[m] \in Sending /\ out'[m].taken
                  /\ out'[m].msg = out[m].msg /\ out'[m].from = out[m].from
                  /\ out[m] # None
               \/ /\ ~(p.awaited /\ m = p.from)
                  /\ out'[m] = out[m]
    <2>1. CASE p.awaited /\ m = p.from
      <3>1. out'[m] = [out[m] EXCEPT !.taken = TRUE]
        BY <1>3, <2>1 DEF Acknowledged
      <3>2. out[m] \in Sending /\ out[m] # None
        BY <1>2, <2>1 DEF Waiting
      <3>3. \A c \in Sending :
               LET t == [c EXCEPT !.taken = TRUE]
               IN  t \in Sending /\ t.taken /\ t.msg = c.msg /\ t.from = c.from
        BY DEF Sending
      <3> QED
        BY <2>1, <3>1, <3>2, <3>3
    <2>2. CASE ~(p.awaited /\ m = p.from)
      BY <1>3, <2>2 DEF Acknowledged
    <2> QED
      BY <2>1, <2>2
  <1>4. out'[n] = call
    BY DEF Acknowledged
  <1>5. out' \in [Node -> Sending \cup {None}]
    BY <1>1, <1>3, <1>4 DEF Acknowledged, NetworkTypeOK
  <1>6. \A m \in Node \ {n} : out'[m] # None =>
                 out[m] # None /\ out'[m].msg = out[m].msg /\ out'[m].from = out[m].from
    BY <1>3
  <1>7. ASSUME NEW m \in Node, NEW s, NEW k
        PROVE  /\ Holds(m, s, k)' /\ m # n => Holds(m, s, k) /\ ~(p.awaited /\ m = p.from)
               /\ Loose(m, s, k)' => m # n /\ Loose(m, s, k)
    <2>1. Holds(m, s, k)' /\ m # n => Holds(m, s, k) /\ ~(p.awaited /\ m = p.from)
      BY <1>3 DEF Holds, Waiting
    <2>2. Loose(m, s, k)' => m # n /\ Loose(m, s, k)
      BY DEF NothingNew, Loose, IsMessage
    <2> QED
      BY <2>1, <2>2
  <1>8. ASSUME NEW s, NEW k, IsMessage(p.msg, s, k)
        PROVE  /\ ~NoCopy(s, k)
               /\ SingleCopy(s, k) => \A m \in Node : (Holds(m, s, k)' => m = n) /\ ~Loose(m, s, k)'
    <2>1. CASE p.awaited
      <3>1. Holds(p.from, s, k)
        BY <1>2, <1>8, <2>1 DEF Holds
      <3> QED
        BY <1>1, <1>7, <1>8, <2>1, <3>1 DEF SingleCopy, NoCopy
    <2>2. CASE ~p.awaited
      <3>1. Loose(n, s, k)
        BY <1>1, <1>8, <2>2 DEF Loose
      <3> QED
        BY <1>1, <1>7, <1>8, <3>1 DEF SingleCopy, NoCopy
    <2> QED
      BY <2>1, <2>2
  <1>9. Awaited'
    <2>1. ASSUME NEW m \in Node, inbox'[m] # None, inbox'[m].awaited
          PROVE  /\ Waiting(inbox[m].from)'
                 /\ out'[inbox'[m].from].to = m
                 /\ inbox'[m] = OnAir(inbox[m].from)'
      <3>1. inbox'[m] = inbox[m] /\ m # n
        BY <2>1 DEF NothingNew
      <3>2. /\ inbox[m].from \in Node
            /\ Waiting(inbox[m].from) /\ out[inbox[m].from].to = m
            /\ inbox[m] = OnAir(inbox[m].from)
        BY <1>1, <2>1, <3>1 DEF NetInv, Awaited, NetworkTypeOK, Packet
      <3>3. inbox[m].from # n /\ ~(p.awaited /\ inbox[m].from = p.from)
        BY <1>2, <3>1, <3>2 DEF Waiting, Listening
      <3>4. out'[inbox[m].from] = out[inbox[m].from]
        BY <1>3, <3>2, <3>3
      <3> QED
        BY <3>1, <3>2, <3>4 DEF Waiting, OnAir
    <2> QED
      BY <2>1 DEF Awaited
  <1> QED
    BY <1>4, <1>5, <1>6, <1>7, <1>8, <1>9

(* What taking a packet keeps, whatever is done with it.                    *)
LEMMA TakeKeeps ==
    ASSUME NetInv, NEW n \in Node, Listening(n), inbox[n] # None,
           NEW call \in Sending \cup {None},
           call # None => Genuine(call.msg) /\ call.msg.dest # Broadcast,
           out' = [Acknowledged(inbox[n]) EXCEPT ![n] = call],
           NothingNew, inbox'[n] = None,
           routes' \in [Node -> [Node -> Node \cup {None}]],
           got' \in [Node -> Seq(Given)],
           UNCHANGED <<setting, result, sent, lost>>
    PROVE  NetworkTypeOK' /\ Underway' /\ Awaited'
  <1>1. /\ out' \in [Node -> Sending \cup {None}]
        /\ out'[n] = call
        /\ \A m \in Node \ {n} : out'[m] # None => out[m] # None /\ out'[m].msg = out[m].msg
        /\ Awaited'
    BY TakenCopies
  <1>2. NetworkTypeOK'
    BY <1>1 DEF NetInv, NetworkTypeOK, NothingNew
  <1>3. ASSUME NEW m \in Node, inbox'[m] # None PROVE Genuine(inbox[m].msg)'
    BY <1>3 DEF NetInv, Underway, Genuine, NothingNew
  <1>4. ASSUME NEW m \in Node, out'[m] # None
        PROVE  Genuine(out[m].msg)' /\ out'[m].msg.dest # Broadcast
    <2>1. CASE m = n
      BY <1>1, <1>4, <2>1 DEF Genuine
    <2>2. CASE m # n
      BY <1>1, <1>4, <2>2 DEF NetInv, Underway, Genuine
    <2> QED
      BY <2>1, <2>2
  <1> QED
    BY <1>1, <1>2, <1>3, <1>4 DEF Underway

(* A packet is taken and goes on, or is thrown away; or the node sends      *)
(* something of the mesh, or a message of its own that was not sent so far. *)
LEMMA RelayStep ==
    ASSUME NetInv, NEW n \in Node, Listening(n), inbox[n] # None,
           NEW call \in Sending \cup {None},
           call # None =>
              /\ call.msg.dest # Broadcast
              /\ call.msg.type = "app" =>
                    \/ /\ inbox[n].msg.type = "app"
                       /\ call.msg.source = inbox[n].msg.source
                       /\ call.msg.about = inbox[n].msg.about
                       /\ call.msg.dest = inbox[n].msg.dest
                    \/ Genuine(call.msg) /\ Absent(call.msg.source, call.msg.about),
           out' = [Acknowledged(inbox[n]) EXCEPT ![n] = call],
           NothingNew, inbox'[n] = None,
           routes' \in [Node -> [Node -> Node \cup {None}]],
           UNCHANGED <<setting, result, sent, got, lost>>
    PROVE  /\ NetInv'
           /\ \A s, k : Absent(s, k) /\ ~(call # None /\ IsMessage(call.msg, s, k)) => Absent(s, k)'
  <1>1. call # None => Genuine(call.msg)
    BY DEF NetInv, Underway, Genuine
  <1>2. NetworkTypeOK' /\ Underway' /\ Awaited'
    BY <1>1, TakeKeeps DEF NetInv, NetworkTypeOK
  <1>3. \A s, k : GivenTo(s, k)' = GivenTo(s, k)
    BY DEF GivenTo
  <1>4. GivenSent'
    BY <1>3 DEF NetInv, GivenSent
  <1>5. /\ out'[n] = call
        /\ \A m \in Node : \A s, k :
              /\ Holds(m, s, k)' /\ m # n => Holds(m, s, k)
              /\ Loose(m, s, k)' => m # n /\ Loose(m, s, k)
        /\ \A s, k : IsMessage(inbox[n].msg, s, k) => ~NoCopy(s, k)
        /\ \A s, k : SingleCopy(s, k) /\ IsMessage(inbox[n].msg, s, k) =>
              \A m \in Node : (Holds(m, s, k)' => m = n) /\ ~Loose(m, s, k)'
    BY TakenCopies
  <1>6. ASSUME NEW s, NEW k
        PROVE  Holds(n, s, k)' =>
                  /\ call # None /\ IsMessage(call.msg, s, k)
                  /\ IsMessage(inbox[n].msg, s, k) \/ Absent(s, k)
    BY <1>5 DEF Holds, Waiting, IsMessage
  <1>7. ASSUME NEW s \in Node, NEW k \in DOMAIN sent[s], sent[s][k] # Broadcast
        PROVE  SingleCopy(s, k)'
    <2>1. SingleCopy(s, k)
      BY <1>7 DEF NetInv, OneCopy
    <2>2. CASE IsMessage(inbox[n].msg, s, k)
      BY <1>3, <1>5, <2>1, <2>2, MovedCopy
    <2>3. CASE Absent(s, k)
      BY <1>3, <1>5, <2>3 DEF Absent, SingleCopy, NoCopy
    <2>4. CASE ~IsMessage(inbox[n].msg, s, k) /\ ~Absent(s, k)
      <3>1. \A m \in Node : /\ Holds(m, s, k)' => Holds(m, s, k)
                            /\ Loose(m, s, k)' => Loose(m, s, k)
        BY <1>5, <1>6, <2>4
      <3> QED
        BY <1>3, <2>1, <3>1, FewerCopies
    <2> QED
      BY <2>2, <2>3, <2>4
  <1>8. ASSUME NEW s \in Node, NEW k \in DOMAIN sent[s], sent[s][k] = Broadcast,
               NEW m \in Node, m \in GivenTo(s, k)'
        PROVE  ~Loose(m, s, k)'
    BY <1>3, <1>5, <1>8 DEF NetInv, OneCopy
  <1>9. OneCopy'
    BY <1>7, <1>8, OneCopyOfEach
  <1>10. \A s, k : Absent(s, k) /\ ~(call # None /\ IsMessage(call.msg, s, k)) => Absent(s, k)'
    BY <1>3, <1>5, <1>6 DEF Absent, NoCopy
  <1> QED
    BY <1>2, <1>4, <1>9, <1>10 DEF NetInv

(* A packet is taken and its message given to the sketch: it was nowhere    *)
(* else, and had not been given out.                                        *)
LEMMA GiveStep ==
    ASSUME NetInv, NEW n \in Node, Listening(n), inbox[n] # None,
           inbox[n].msg.type = "app", IsForUs(n, inbox[n].msg),
           out' = [Acknowledged(inbox[n]) EXCEPT ![n] = None],
           NothingNew, inbox'[n] = None,
           GiveOut(n, inbox[n].msg),
           routes' \in [Node -> [Node -> Node \cup {None}]],
           UNCHANGED <<setting, result, sent, lost>>
    PROVE  /\ NetInv'
           /\ \A s \in Node : \A k : Absent(s, k) => Absent(s, k)'
           /\ Service!Give(n, inbox[n].msg.source, inbox[n].msg.about)
  <1> PICK msg : msg = inbox[n].msg
    OBVIOUS
  <1>1. /\ NetworkTypeOK /\ msg \in Message /\ msg.source \in Node
        /\ msg.about \in DOMAIN sent[msg.source]
        /\ msg.dest = sent[msg.source][msg.about]
    BY DEF NetInv, NetworkTypeOK, Underway, Genuine, Packet, Message
  <1>2. msg.about \in Nat \ {0}
    BY <1>1 DEF NetworkTypeOK
  <1>3. /\ got' \in [Node -> Seq(Given)]
        /\ \A s \in Node : \A k :
              GivenTo(s, k)' = GivenTo(s, k) \cup
                 {m \in {n} : msg.source = s /\ msg.about = k}
    BY <1>1, <1>2, GiveOutGiven
  <1>4. NetworkTypeOK' /\ Underway' /\ Awaited'
    BY <1>3, TakeKeeps
  <1>5. GivenSent'
    BY <1>1, <1>3 DEF NetInv, GivenSent
  <1>6. /\ out'[n] = None
        /\ \A m \in Node : \A s, k :
              /\ Holds(m, s, k)' /\ m # n => Holds(m, s, k)
              /\ Loose(m, s, k)' => m # n /\ Loose(m, s, k)
        /\ \A s, k : IsMessage(inbox[n].msg, s, k) => ~NoCopy(s, k)
        /\ \A s, k : SingleCopy(s, k) /\ IsMessage(inbox[n].msg, s, k) =>
              \A m \in Node : (Holds(m, s, k)' => m = n) /\ ~Loose(m, s, k)'
    BY TakenCopies
  <1>7. \A s, k : ~Holds(n, s, k)'
    BY <1>6 DEF Holds, Waiting
  <1>8. ASSUME NEW s \in Node, NEW k \in DOMAIN sent[s], sent[s][k] # Broadcast
        PROVE  SingleCopy(s, k)'
    <2>1. SingleCopy(s, k)
      BY <1>8 DEF NetInv, OneCopy
    <2>2. CASE IsMessage(inbox[n].msg, s, k)
      BY <1>6, <1>7, <2>1, <2>2, NoCopyLeft DEF NoCopy
    <2>3. CASE ~IsMessage(inbox[n].msg, s, k)
      <3>1. GivenTo(s, k)' = GivenTo(s, k)
        <4>1. ~(msg.source = s /\ msg.about = k)
          BY <2>3 DEF IsMessage
        <4>2. {m \in {n} : msg.source = s /\ msg.about = k} = {}
          BY <4>1
        <4>3. GivenTo(s, k)' = GivenTo(s, k) \cup {}
          BY <1>3, <4>2, Zenon
        <4> QED
          BY <4>3
      <3> QED
        BY <1>6, <1>7, <2>1, <3>1, FewerCopies
    <2> QED
      BY <2>2, <2>3
  <1>9. ASSUME NEW s \in Node, NEW k \in DOMAIN sent[s], sent[s][k] = Broadcast,
               NEW m \in Node, m \in GivenTo(s, k)'
        PROVE  ~Loose(m, s, k)'
    BY <1>3, <1>6, <1>9 DEF NetInv, OneCopy
  <1>10. OneCopy'
    BY <1>8, <1>9, OneCopyOfEach
  <1>11. n \notin GivenTo(msg.source, msg.about)
    <2>1. IsMessage(msg, msg.source, msg.about)
      BY DEF IsMessage
    <2>2. CASE msg.dest = Broadcast
      <3>1. ~inbox[n].awaited
        <4>1. inbox[n].from \in Node
          BY DEF NetInv, NetworkTypeOK, Packet
        <4>2. ASSUME inbox[n].awaited
              PROVE  Waiting(inbox[n].from) /\ inbox[n] = OnAir(inbox[n].from)
          BY <4>2 DEF NetInv, Awaited
        <4> QED
          BY <2>2, <4>1, <4>2 DEF NetInv, Underway, Waiting, OnAir
      <3>2. Loose(n, msg.source, msg.about)
        BY <2>1, <3>1 DEF Loose
      <3> QED
        BY <1>1, <2>2, <3>2 DEF NetInv, OneCopy
    <2>3. CASE msg.dest # Broadcast
      <3>1. SingleCopy(msg.source, msg.about)
        BY <1>1, <2>3 DEF NetInv, OneCopy
      <3> QED
        BY <1>6, <2>1, <3>1 DEF SingleCopy
    <2> QED
      BY <2>2, <2>3
  <1>12. Service!Give(n, msg.source, msg.about)
    <2>1. sent[msg.source][msg.about] \in {n, Broadcast}
      BY <1>1 DEF IsForUs
    <2>2. got' = [got EXCEPT ![n] =
                    Append(@, [source |-> msg.source, number |-> msg.about,
                               dest |-> sent[msg.source][msg.about]])]
      BY <1>1 DEF GiveOut
    <2> QED
      BY <1>1, <1>11, <2>1, <2>2, GivenToIsGiven DEF Service!Give
  <1>13. ASSUME NEW s \in Node, NEW k, Absent(s, k)
         PROVE  Absent(s, k)'
    <2>1. ~(msg.source = s /\ msg.about = k)
      BY <1>6, <1>13 DEF IsMessage, Absent
    <2>2. {m \in {n} : msg.source = s /\ msg.about = k} = {}
      BY <2>1
    <2>3. GivenTo(s, k)' = GivenTo(s, k) \cup {}
      BY <1>3, <2>2, Zenon
    <2> QED
      BY <1>6, <1>7, <1>13, <2>3 DEF Absent, NoCopy
  <1> QED
    BY <1>4, <1>5, <1>10, <1>12, <1>13 DEF NetInv
=============================================================================
