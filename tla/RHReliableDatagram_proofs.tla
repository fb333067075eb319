----------------------- MODULE RHReliableDatagram_proofs -----------------------
(***************************************************************************)
(* Proofs about RHReliableDatagram, for any set of nodes, any width of the *)
(* ID, any number of retries, and with losses, restarts and plain sendto() *)
(* calls unless a theorem says otherwise; and, at the end, about the two   *)
(* sketches of DatagramSketches on top of it.                              *)
(***************************************************************************)
EXTENDS DatagramSketches, TLAPS

-----------------------------------------------------------------------------
(* Type correctness.                                                        *)

(* Arithmetic modulo OctetSize stays in a uint8_t.                          *)
LEMMA OctetModulo ==
    ASSUME NEW x \in Nat
    PROVE  /\ x % OctetSize \in Octet
           /\ x % CounterSize \in 0 .. CounterSize - 1
  BY ConstantsAssumption DEF Octet

(* A frame that is polled is a frame.                                       *)
LEMMA PolledType ==
    ASSUME TypeOK, NEW n \in Node
    PROVE  Polled(n) \in Frame \cup {NoFrame}
  BY DEF TypeOK, Polled

(* A transmission of a frame keeps the types of the FIFOs and receivers.    *)
LEMMA TransmitType ==
    ASSUME TypeOK, NEW n \in Node, NEW f \in Frame, Transmit(n, f)
    PROVE  /\ fifo' \in [Node -> Frame \cup {NoFrame}]
           /\ rxOn' \in [Node -> BOOLEAN]
  BY DEF TypeOK, Transmit, Drained

(* The return of sendtoWait() keeps the types of what it assigns.           *)
LEMMA ReturnType ==
    ASSUME TypeOK, NEW n \in Node, NEW ok \in BOOLEAN, ReturnFromSendtoWait(n, ok)
    PROVE  /\ pc' \in [Node -> {"idle", "wait", "ackd"}]
           /\ outcome' \in [Node -> Outcome]
           /\ cur' \in [Node -> Call]
           /\ retries' \in [Node -> Octet]
  <1>1. 0 \in Octet
    BY ConstantsAssumption DEF Octet
  <1>2. [to |-> cur[n].to, msg |-> cur[n].msg, ok |-> ok] \in Outcome
    BY DEF TypeOK, Call, Outcome
  <1>3. NoCall \in Call
    BY <1>1 DEF NoCall, Call
  <1> QED
    BY <1>1, <1>2, <1>3 DEF TypeOK, ReturnFromSendtoWait

(***************************************************************************)
(* Every step of every node keeps every variable within its type; in       *)
(* particular sequence numbers, seen IDs and the retry counter stay within *)
(* an octet.                                                               *)
(***************************************************************************)
LEMMA TypeStep == TypeOK /\ HeldData /\ [Next]_vars => TypeOK'
  <1> SUFFICES ASSUME TypeOK, HeldData, [Next]_vars PROVE TypeOK'
    OBVIOUS
  <1> USE DEF driverVars, managerVars, callVars, historyVars
  <1>1. ASSUME NEW n \in Node, Available(n) PROVE TypeOK'
    BY <1>1, PolledType DEF TypeOK, Available, Drained
  <1>2. ASSUME NEW n \in Node, NEW to \in (Node \ {n}) \cup {Broadcast},
               NEW fits \in Fits, SendtoWait(n, to, fits)
        PROVE TypeOK'
    <2> DEFINE id == NextSequenceNumber(n)
               msg == sent[n] + 1
    <2>1. id \in Octet /\ 1 % OctetSize \in Octet /\ msg \in Nat /\ fits \in BOOLEAN
      <3>1. lastSequenceNumber[n] + 1 \in Nat /\ sent[n] \in Nat
        BY ConstantsAssumption DEF TypeOK, Octet
      <3>2. fits \in BOOLEAN
        BY ConstantsAssumption
      <3> QED
        BY <3>1, <3>2, OctetModulo DEF NextSequenceNumber
    <2>2. DataFrame(n, to, id, msg) \in Frame
      BY <2>1 DEF DataFrame, Frame
    <2>3. /\ fifo' \in [Node -> Frame \cup {NoFrame}]
          /\ rxOn' \in [Node -> BOOLEAN]
      BY <1>2, <2>2, TransmitType DEF TypeOK, SendtoWait
    <2> HIDE DEF id, msg
    <2>4. /\ sent' = [sent EXCEPT ![n] = msg]
          /\ lastSequenceNumber' = [lastSequenceNumber EXCEPT ![n] = id]
          /\ SetHeader(n, id, FALSE)
          /\ \/ /\ outcome' = [outcome EXCEPT ![n] = [to |-> to, msg |-> msg, ok |-> TRUE]]
                /\ UNCHANGED <<pc, cur, retries>>
             \/ /\ pc' = [pc EXCEPT ![n] = "wait"]
                /\ cur' = [cur EXCEPT ![n] = [to |-> to, id |-> id, msg |-> msg, fits |-> fits]]
                /\ retries' = [retries EXCEPT ![n] = 1 % OctetSize]
                /\ UNCHANGED outcome
          /\ UNCHANGED <<seenIds, retransmissions, rxBuf, held, log>>
      BY <1>2 DEF SendtoWait, id, msg
    <2>5. /\ [to |-> to, msg |-> msg, ok |-> TRUE] \in Outcome
          /\ [to |-> to, id |-> id, msg |-> msg, fits |-> fits] \in Call
      BY <2>1 DEF Outcome, Call
    <2>6. /\ outcome \in [Node -> Outcome]
          /\ cur \in [Node -> Call]
          /\ pc \in [Node -> {"idle", "wait", "ackd"}]
          /\ retries \in [Node -> Octet]
      BY DEF TypeOK
    <2>7. /\ outcome' \in [Node -> Outcome]
          /\ cur' \in [Node -> Call]
          /\ pc' \in [Node -> {"idle", "wait", "ackd"}]
          /\ retries' \in [Node -> Octet]
      <3>1. CASE outcome' = [outcome EXCEPT ![n] = [to |-> to, msg |-> msg, ok |-> TRUE]]
                 /\ UNCHANGED <<pc, cur, retries>>
        BY <2>5, <2>6, <3>1
      <3>2. CASE /\ pc' = [pc EXCEPT ![n] = "wait"]
                 /\ cur' = [cur EXCEPT ![n] = [to |-> to, id |-> id, msg |-> msg, fits |-> fits]]
                 /\ retries' = [retries EXCEPT ![n] = 1 % OctetSize]
                 /\ UNCHANGED outcome
        BY <2>1, <2>5, <2>6, <3>2
      <3> QED
        BY <2>4, <3>1, <3>2
    <2> QED
      BY <2>1, <2>3, <2>4, <2>7 DEF TypeOK, SetHeader
  <1>3. ASSUME NEW n \in Node, Retransmit(n) PROVE TypeOK'
    <2>1. RetransmittedFrame(n) \in Frame
      BY DEF TypeOK, RetransmittedFrame, DataFrame, Frame, Call
    <2>2. /\ fifo' \in [Node -> Frame \cup {NoFrame}]
          /\ rxOn' \in [Node -> BOOLEAN]
      BY <1>3, <2>1, TransmitType DEF TypeOK, Retransmit
    <2>3. retries' \in [Node -> Octet]
      <3>1. retries[n] + 1 \in Nat
        BY ConstantsAssumption DEF TypeOK, Octet
      <3> QED
        BY <1>3, <3>1, OctetModulo DEF TypeOK, Retransmit
    <2>4. retransmissions' \in [Node -> 0 .. CounterSize - 1]
      <3>1. retransmissions[n] + 1 \in Nat
        BY ConstantsAssumption DEF TypeOK
      <3>2. (retransmissions[n] + 1) % CounterSize \in 0 .. CounterSize - 1
        BY <3>1, OctetModulo
      <3> QED
        BY <1>3, <3>2 DEF TypeOK, Retransmit
    <2>5. cur[n].id \in Octet
      BY DEF TypeOK, Call
    <2> QED
      BY <1>3, <2>2, <2>3, <2>4, <2>5 DEF TypeOK, Retransmit, SetHeader
  <1>4. ASSUME NEW n \in Node, GiveUp(n) PROVE TypeOK'
    BY <1>4, ReturnType DEF TypeOK, GiveUp
  <1>5. ASSUME NEW n \in Node, RecvWhileWaiting(n) PROVE TypeOK'
    <2> DEFINE f == Polled(n)
    <2>1. f \in Frame /\ AckFrame(n, f) \in Frame
      BY <1>5, PolledType DEF RecvWhileWaiting, AckFrame, Frame
    <2> HIDE DEF f
    <2>2. rxBuf' = [rxBuf EXCEPT ![n] = NoFrame]
      BY <1>5 DEF RecvWhileWaiting
    <2>3. UNCHANGED <<managerVars, held, sent, log>>
      BY <1>5 DEF RecvWhileWaiting
    <2>4. \/ /\ ReturnFromSendtoWait(n, TRUE)
             /\ fifo' = Drained(n)
             /\ UNCHANGED <<txHeaderId, txHeaderAck, rxOn>>
          \/ /\ Acknowledge(n, f)
             /\ UNCHANGED <<pc, cur, retries, outcome>>
          \/ /\ fifo' = Drained(n)
             /\ UNCHANGED <<txHeaderId, txHeaderAck, rxOn, pc, cur, retries, outcome>>
      BY <1>5 DEF RecvWhileWaiting, f
    <2>5. CASE Acknowledge(n, f) /\ UNCHANGED <<pc, cur, retries, outcome>>
      BY <2>1, <2>2, <2>3, <2>5, TransmitType DEF TypeOK, Acknowledge, SetHeader, Frame
    <2>6. CASE /\ ReturnFromSendtoWait(n, TRUE)
               /\ fifo' = Drained(n)
               /\ UNCHANGED <<txHeaderId, txHeaderAck, rxOn>>
      BY <2>2, <2>3, <2>6, ReturnType DEF TypeOK, Drained
    <2>7. CASE /\ fifo' = Drained(n)
               /\ UNCHANGED <<txHeaderId, txHeaderAck, rxOn, pc, cur, retries, outcome>>
      BY <2>2, <2>3, <2>7 DEF TypeOK, Drained
    <2> QED
      BY <2>4, <2>5, <2>6, <2>7
  <1>6. ASSUME NEW n \in Node, RecvfromAck(n) PROVE TypeOK'
    <2> DEFINE f == Polled(n)
    <2>1. f \in Frame /\ AckFrame(n, f) \in Frame
      BY <1>6, PolledType DEF RecvfromAck, AckFrame, Frame
    <2> HIDE DEF f
    <2>2. rxBuf' = [rxBuf EXCEPT ![n] = NoFrame] /\ UNCHANGED <<managerVars, cur, retries, historyVars>>
      BY <1>6 DEF RecvfromAck
    <2>3. \/ UNCHANGED <<pc, held>>
          \/ pc' = [pc EXCEPT ![n] = "ackd"] /\ held' = [held EXCEPT ![n] = f]
      BY <1>6 DEF RecvfromAck, f
    <2>4. \/ Acknowledge(n, f)
          \/ fifo' = Drained(n) /\ UNCHANGED <<txHeaderId, txHeaderAck, rxOn>>
      BY <1>6 DEF RecvfromAck, f
    <2>5. /\ fifo' \in [Node -> Frame \cup {NoFrame}]
          /\ rxOn' \in [Node -> BOOLEAN]
          /\ txHeaderId' \in [Node -> Octet]
          /\ txHeaderAck' \in [Node -> BOOLEAN]
      <3>1. CASE Acknowledge(n, f)
        <4>1. Transmit(n, AckFrame(n, f)) /\ f.id \in Octet
          BY <2>1, <3>1 DEF Acknowledge, Frame
        <4>2. fifo' \in [Node -> Frame \cup {NoFrame}] /\ rxOn' \in [Node -> BOOLEAN]
          BY <2>1, <4>1, TransmitType
        <4>3. /\ txHeaderId' = [txHeaderId EXCEPT ![n] = f.id]
              /\ txHeaderAck' = [txHeaderAck EXCEPT ![n] = TRUE]
          BY <3>1 DEF Acknowledge, SetHeader
        <4>4. txHeaderId' \in [Node -> Octet] /\ txHeaderAck' \in [Node -> BOOLEAN]
          BY <4>1, <4>3 DEF TypeOK
        <4> QED
          BY <4>2, <4>4
      <3>2. CASE fifo' = Drained(n) /\ UNCHANGED <<txHeaderId, txHeaderAck, rxOn>>
        BY <3>2 DEF TypeOK, Drained
      <3> QED
        BY <2>4, <3>1, <3>2
    <2>6. rxBuf' \in [Node -> Frame \cup {NoFrame}]
      BY <2>2 DEF TypeOK
    <2>7. /\ pc' \in [Node -> {"idle", "wait", "ackd"}]
          /\ held' \in [Node -> Frame \cup {NoFrame}]
      <3>1. CASE UNCHANGED <<pc, held>>
        BY <3>1 DEF TypeOK
      <3>2. CASE pc' = [pc EXCEPT ![n] = "ackd"] /\ held' = [held EXCEPT ![n] = f]
        BY <2>1, <3>2 DEF TypeOK
      <3> QED
        BY <2>3, <3>1, <3>2
    <2>8. /\ lastSequenceNumber' \in [Node -> Octet]
          /\ seenIds' \in [Node -> [Node -> Octet]]
          /\ retransmissions' \in [Node -> 0 .. CounterSize - 1]
          /\ cur' \in [Node -> Call]
          /\ retries' \in [Node -> Octet]
          /\ sent' \in [Node -> Nat]
          /\ log' \in [Node -> Seq(Node \X Nat)]
          /\ outcome' \in [Node -> Outcome]
      BY <2>2 DEF TypeOK, managerVars, historyVars
    <2> QED
      BY <2>5, <2>6, <2>7, <2>8 DEF TypeOK
  <1>7. ASSUME NEW n \in Node, Deliver(n) PROVE TypeOK'
    <2>1. held[n] \in Frame
      BY <1>7 DEF TypeOK, Deliver, HeldData, Data
    <2>2. <<held[n].from, held[n].msg>> \in Node \X Nat /\ held[n].id \in Octet /\ held[n].from \in Node
      BY <2>1 DEF Frame
    <2>3. log' \in [Node -> Seq(Node \X Nat)]
      <3>1. Append(log[n], <<held[n].from, held[n].msg>>) \in Seq(Node \X Nat)
        BY <2>2 DEF TypeOK
      <3>2. log \in [Node -> Seq(Node \X Nat)]
        BY DEF TypeOK
      <3>3. \/ log' = log
            \/ log' = [log EXCEPT ![n] = Append(log[n], <<held[n].from, held[n].msg>>)]
        BY <1>7 DEF Deliver
      <3> QED
        BY <3>1, <3>2, <3>3
    <2>4. seenIds' \in [Node -> [Node -> Octet]]
      <3>1. seenIds \in [Node -> [Node -> Octet]]
        BY DEF TypeOK
      <3>2. [seenIds[n] EXCEPT ![held[n].from] = held[n].id] \in [Node -> Octet]
        BY <2>2, <3>1
      <3>3. \/ seenIds' = seenIds
            \/ seenIds' = [seenIds EXCEPT ![n] = [seenIds[n] EXCEPT ![held[n].from] = held[n].id]]
        BY <1>7 DEF Deliver
      <3> QED
        BY <3>1, <3>2, <3>3
    <2>5. /\ pc' = [pc EXCEPT ![n] = "idle"]
          /\ held' = [held EXCEPT ![n] = NoFrame]
          /\ UNCHANGED <<driverVars, lastSequenceNumber, retransmissions, cur,
                         retries, sent, outcome>>
      BY <1>7 DEF Deliver
    <2> QED
      BY <2>3, <2>4, <2>5 DEF TypeOK
  <1>8. ASSUME NEW n \in Node, NEW to \in (Node \ {n}) \cup {Broadcast}, Sendto(n, to)
        PROVE TypeOK'
    <2> DEFINE f == [to |-> to, from |-> n, id |-> txHeaderId[n],
                     ack |-> txHeaderAck[n], msg |-> sent[n] + 1]
    <2>1. f \in Frame
      BY DEF TypeOK, Frame
    <2>2. Transmit(n, f)
      BY <1>8 DEF Sendto
    <2> HIDE DEF f
    <2>3. /\ fifo' \in [Node -> Frame \cup {NoFrame}]
          /\ rxOn' \in [Node -> BOOLEAN]
      BY <2>1, <2>2, TransmitType
    <2>4. sent' \in [Node -> Nat]
      BY <1>8 DEF TypeOK, Sendto
    <2>5. UNCHANGED <<txHeaderId, txHeaderAck, rxBuf, managerVars, callVars, log, outcome>>
      BY <1>8 DEF Sendto
    <2> QED
      BY <2>3, <2>4, <2>5 DEF TypeOK
  <1>9. ASSUME NEW n \in Node, ResetRetransmissions(n) PROVE TypeOK'
    BY <1>9, ConstantsAssumption DEF TypeOK, ResetRetransmissions
  <1>10. ASSUME NEW n \in Node, Restart(n) PROVE TypeOK'
    <2>1. 0 \in Octet /\ 0 \in 0 .. CounterSize - 1
      BY ConstantsAssumption DEF Octet
    <2>2. [m \in Node |-> 0] \in [Node -> Octet]
      BY <2>1
    <2>3. <<>> \in Seq(Node \X Nat)
      OBVIOUS
    <2>4. NoCall \in Call /\ NoOutcome \in Outcome
      BY <2>1 DEF NoCall, NoOutcome, Call, Outcome
    <2> QED
      BY <1>10, <2>1, <2>2, <2>3, <2>4 DEF TypeOK, Restart, SetHeader, Drained
  <1>11. CASE UNCHANGED vars
    BY <1>11 DEF TypeOK, vars
  <1> QED
    BY <1>1, <1>2, <1>3, <1>4, <1>5, <1>6, <1>7, <1>8, <1>9, <1>10, <1>11 DEF Next

(* recvfromAck() works on a message, not on an ACK, once it has acknowledged. *)
LEMMA HeldStep == TypeOK /\ HeldData /\ [Next]_vars => HeldData'
  <1> SUFFICES ASSUME TypeOK, HeldData, [Next]_vars PROVE HeldData'
    OBVIOUS
  <1> USE DEF driverVars, managerVars, callVars, historyVars, HeldData
  <1>1. ASSUME NEW n \in Node, RecvfromAck(n) PROVE HeldData'
    BY <1>1 DEF TypeOK, RecvfromAck, Data
  <1>2. ASSUME NEW n \in Node, Deliver(n) PROVE HeldData'
    BY <1>2 DEF TypeOK, Deliver
  <1>3. ASSUME NEW n \in Node, Restart(n) PROVE HeldData'
    BY <1>3 DEF TypeOK, Restart
  <1>4. ASSUME NEW n \in Node, GiveUp(n) PROVE HeldData'
    BY <1>4 DEF TypeOK, GiveUp, ReturnFromSendtoWait
  <1>5. ASSUME NEW n \in Node, RecvWhileWaiting(n) PROVE HeldData'
    BY <1>5 DEF TypeOK, RecvWhileWaiting, ReturnFromSendtoWait
  <1>6. ASSUME NEW n \in Node, NEW to, NEW fits, SendtoWait(n, to, fits) PROVE HeldData'
    BY <1>6 DEF TypeOK, SendtoWait
  <1>7. ASSUME NEW n \in Node,
               \/ Available(n) \/ Retransmit(n) \/ ResetRetransmissions(n)
               \/ \E to \in (Node \ {n}) \cup {Broadcast} : Sendto(n, to)
        PROVE HeldData'
    BY <1>7 DEF Available, Retransmit, ResetRetransmissions, Sendto
  <1>8. CASE UNCHANGED vars
    BY <1>8 DEF vars
  <1> QED
    BY <1>1, <1>2, <1>3, <1>4, <1>5, <1>6, <1>7, <1>8 DEF Next

(* The state after power-up is type correct.                                *)
LEMMA TypeInit == Init => TypeOK
  <1> SUFFICES ASSUME Init PROVE TypeOK
    OBVIOUS
  <1>1. 0 \in Octet /\ 0 \in 0 .. CounterSize - 1
    BY ConstantsAssumption DEF Octet
  <1>2. [m \in Node |-> 0] \in [Node -> Octet]
    BY <1>1
  <1>3. <<>> \in Seq(Node \X Nat)
    OBVIOUS
  <1>4. NoCall \in Call /\ NoOutcome \in Outcome
    BY <1>1 DEF NoCall, NoOutcome, Call, Outcome
  <1> QED
    BY <1>1, <1>2, <1>3, <1>4 DEF Init, TypeOK

(***************************************************************************)
(* TypeOK is an invariant: every counter and ID stays within its width in  *)
(* every execution of sendtoWait(), recvfromAck() and restarts, and        *)
(* recvfromAck() never works on a frame it does not have.                  *)
(***************************************************************************)
THEOREM TypeCorrect == Spec => []TypeOK
  <1>1. Init => TypeOK /\ HeldData
    BY TypeInit DEF Init, HeldData
  <1> QED
    BY <1>1, TypeStep, HeldStep, PTL DEF Spec

-----------------------------------------------------------------------------
(* Order of delivery.                                                       *)

(* A frame that counts is a frame of some node.                             *)
LEMMA DataType ==
    ASSUME NEW f \in Frame \cup {NoFrame}, Data(f)
    PROVE  f \in Frame /\ f.from \in Node /\ f.msg \in Nat /\ f.id \in Octet
  BY DEF Data, Frame

(* What a transmission of f does to the FIFOs.                              *)
LEMMA TransmitEffect ==
    ASSUME TypeOK, NEW n \in Node, NEW f, Transmit(n, f)
    PROVE  /\ \A m \in Node : fifo'[m] \in {f, fifo[m], NoFrame}
           /\ fifo'[n] = NoFrame
  BY DEF TypeOK, Transmit, Drained

(***************************************************************************)
(* The steps that send nothing new: frames only move on (from the FIFO to  *)
(* the buffer, from either to recvfromAck()) or vanish, and calls only     *)
(* end.                                                                    *)
(***************************************************************************)
LEMMA MoveOrder ==
    ASSUME TypeOK, OrderInv, UNCHANGED <<sent, seenIds, log>>,
           \A m \in Node : pc'[m] = "wait" => pc[m] = "wait" /\ cur'[m] = cur[m],
           \A m \in Node :
              \/ /\ held'[m] \in {held[m], NoFrame}
                 /\ rxBuf'[m] \in {rxBuf[m], NoFrame}
                 /\ Data(fifo'[m]) => fifo'[m] = fifo[m]
              \/ /\ held'[m] = held[m]
                 /\ rxBuf'[m] \in {rxBuf[m], fifo[m]}
                 /\ fifo'[m] = NoFrame
              \/ /\ held'[m] \in {rxBuf[m], fifo[m]}
                 /\ rxBuf'[m] = NoFrame
                 /\ ~Data(fifo'[m])
    PROVE  OrderInv'
  <1> SUFFICES ASSUME NEW m \in Node
               PROVE  /\ pc'[m] = "wait" => cur'[m].msg = sent'[m]
                      /\ PendingInOrder(m)'
                      /\ PendingFollowsLog(m, held[m])'
                      /\ PendingFollowsLog(m, rxBuf[m])'
                      /\ PendingFollowsLog(m, fifo[m])'
                      /\ LogFollowsSent(m)'
    BY DEF OrderInv
  <1>1. pc'[m] = "wait" => cur'[m].msg = sent'[m]
    BY DEF OrderInv
  <1>2. PendingInOrder(m)'
    BY DEF OrderInv, PendingInOrder, Before, Data
  <1>3. ASSUME NEW f \in Frame \cup {NoFrame}, PendingFollowsLog(m, f)
        PROVE  Data(f) =>
                 /\ f.msg <= sent'[f.from]
                 /\ pc'[f.from] = "wait" /\ f.msg = sent'[f.from] => f.id = cur'[f.from].id
                 /\ \A i \in 1 .. Len(log'[m]) :
                       log'[m][i][1] = f.from =>
                          /\ log'[m][i][2] <= f.msg
                          /\ log'[m][i][2] = f.msg => seenIds'[m][f.from] = f.id
    BY <1>3, DataType DEF PendingFollowsLog
  <1>4. /\ held[m] \in Frame \cup {NoFrame} /\ PendingFollowsLog(m, held[m])
        /\ rxBuf[m] \in Frame \cup {NoFrame} /\ PendingFollowsLog(m, rxBuf[m])
        /\ fifo[m] \in Frame \cup {NoFrame} /\ PendingFollowsLog(m, fifo[m])
    BY DEF TypeOK, OrderInv
  <1>5. \A f \in {held'[m], rxBuf'[m], fifo'[m]} :
           Data(f) => f \in {held[m], rxBuf[m], fifo[m]}
    BY DEF Data
  <1>6. /\ PendingFollowsLog(m, held[m])'
        /\ PendingFollowsLog(m, rxBuf[m])'
        /\ PendingFollowsLog(m, fifo[m])'
    <2>1. \A f \in {held'[m], rxBuf'[m], fifo'[m]} : Data(f) =>
                 /\ f.msg <= sent'[f.from]
                 /\ pc'[f.from] = "wait" /\ f.msg = sent'[f.from] => f.id = cur'[f.from].id
                 /\ \A i \in 1 .. Len(log'[m]) :
                       log'[m][i][1] = f.from =>
                          /\ log'[m][i][2] <= f.msg
                          /\ log'[m][i][2] = f.msg => seenIds'[m][f.from] = f.id
      BY <1>3, <1>4, <1>5
    <2> QED
      BY <2>1 DEF PendingFollowsLog, Data
  <1>7. LogFollowsSent(m)'
    BY DEF OrderInv, LogFollowsSent
  <1> QED
    BY <1>1, <1>2, <1>6, <1>7

(***************************************************************************)
(* The steps that put a frame f of node n on the air: f carries a new      *)
(* message, or repeats the one the running sendtoWait() is about, with the *)
(* ID it had.                                                              *)
(***************************************************************************)
LEMMA SendOrder ==
    ASSUME TypeOK, OrderInv, UNCHANGED <<seenIds, log, held, rxBuf>>,
           NEW n \in Node, NEW f \in Frame, f.from = n,
           sent' = [sent EXCEPT ![n] = f.msg],
           \/ f.msg = sent[n] + 1
           \/ pc[n] = "wait" /\ f.msg = sent[n] /\ f.id = cur[n].id,
           \A m \in Node : fifo'[m] \in {f, fifo[m], NoFrame},
           \A m \in Node \ {n} : pc'[m] = pc[m] /\ cur'[m] = cur[m],
           pc'[n] = "wait" => cur'[n].msg = f.msg /\ cur'[n].id = f.id
    PROVE  OrderInv'
  <1> SUFFICES ASSUME NEW m \in Node
               PROVE  /\ pc'[m] = "wait" => cur'[m].msg = sent'[m]
                      /\ PendingInOrder(m)'
                      /\ PendingFollowsLog(m, held[m])'
                      /\ PendingFollowsLog(m, rxBuf[m])'
                      /\ PendingFollowsLog(m, fifo[m])'
                      /\ LogFollowsSent(m)'
    BY DEF OrderInv
  <1>0. /\ f.msg \in Nat /\ f.id \in Octet
        /\ sent \in [Node -> Nat]
        /\ sent'[n] = f.msg /\ \A k \in Node \ {n} : sent'[k] = sent[k]
        /\ sent[n] <= f.msg
    BY DEF TypeOK, Frame
  <1>1. pc'[m] = "wait" => cur'[m].msg = sent'[m]
    BY <1>0 DEF OrderInv
  <1>2. ASSUME NEW g \in Frame \cup {NoFrame}, PendingFollowsLog(m, g), Data(g)
        PROVE  /\ g.msg <= sent'[g.from]
               /\ pc'[g.from] = "wait" /\ g.msg = sent'[g.from] => g.id = cur'[g.from].id
               /\ \A i \in 1 .. Len(log'[m]) :
                     log'[m][i][1] = g.from =>
                        /\ log'[m][i][2] <= g.msg
                        /\ log'[m][i][2] = g.msg => seenIds'[m][g.from] = g.id
               /\ g.from = n => g.msg <= f.msg /\ (g.msg = f.msg => g.id = f.id)
    <2>1. g \in Frame /\ g.from \in Node /\ g.msg \in Nat
      BY <1>2, DataType
    <2>2. g.msg <= sent[g.from]
      BY <1>2 DEF PendingFollowsLog
    <2>3. CASE g.from = n
      BY <1>0, <1>2, <2>1, <2>2, <2>3 DEF PendingFollowsLog
    <2>4. CASE g.from # n
      BY <1>0, <1>2, <2>1, <2>2, <2>4 DEF PendingFollowsLog
    <2> QED
      BY <2>3, <2>4
  <1>3. \A i \in 1 .. Len(log[m]) : log[m][i][1] = n =>
           /\ log[m][i][2] \in Nat
           /\ log[m][i][2] <= f.msg
           /\ log[m][i][2] = f.msg => seenIds[m][n] = f.id
    <2> SUFFICES ASSUME NEW i \in 1 .. Len(log[m]), log[m][i][1] = n
                 PROVE  /\ log[m][i][2] \in Nat
                        /\ log[m][i][2] <= f.msg
                        /\ log[m][i][2] = f.msg => seenIds[m][n] = f.id
      OBVIOUS
    <2>1. log[m][i] \in Node \X Nat
      BY DEF TypeOK
    <2>2. /\ log[m][i][2] <= sent[n]
          /\ pc[n] = "wait" /\ log[m][i][2] = sent[n] => seenIds[m][n] = cur[n].id
      BY DEF OrderInv, LogFollowsSent
    <2> QED
      BY <1>0, <2>1, <2>2
  <1>4. /\ held[m] \in Frame \cup {NoFrame} /\ PendingFollowsLog(m, held[m])
        /\ rxBuf[m] \in Frame \cup {NoFrame} /\ PendingFollowsLog(m, rxBuf[m])
        /\ fifo[m] \in Frame \cup {NoFrame} /\ PendingFollowsLog(m, fifo[m])
    BY DEF TypeOK, OrderInv
  <1>5. PendingFollowsLog(m, held[m])' /\ PendingFollowsLog(m, rxBuf[m])'
    BY <1>2, <1>4 DEF PendingFollowsLog, Data
  <1>6. PendingFollowsLog(m, fifo[m])'
    <2>1. CASE fifo'[m] = NoFrame
      BY <2>1 DEF PendingFollowsLog, Data
    <2>2. CASE fifo'[m] = fifo[m]
      <3>1. Data(fifo[m]) \/ ~Data(fifo'[m])
        BY <2>2
      <3>2. CASE Data(fifo[m])
        BY <1>2, <1>4, <2>2, <3>2 DEF PendingFollowsLog
      <3>3. CASE ~Data(fifo'[m])
        BY <3>3 DEF PendingFollowsLog, Data
      <3> QED
        BY <3>1, <3>2, <3>3
    <2>3. CASE fifo'[m] = f
      <3>1. /\ f.msg <= sent'[f.from]
            /\ pc'[f.from] = "wait" => f.id = cur'[f.from].id
        BY <1>0
      <3> QED
        BY <1>3, <2>3, <3>1 DEF PendingFollowsLog, Data
    <2> QED
      BY <2>1, <2>2, <2>3
  <1>7. PendingInOrder(m)'
    <2>1. Before(held[m], f) /\ Before(rxBuf[m], f)
      BY <1>2, <1>4 DEF Before
    <2>2. PendingInOrder(m)
      BY DEF OrderInv
    <2>3. Before(held[m], NoFrame) /\ Before(rxBuf[m], NoFrame)
      BY DEF Before, Data
    <2>4. held'[m] = held[m] /\ rxBuf'[m] = rxBuf[m] /\ fifo'[m] \in {f, fifo[m], NoFrame}
      OBVIOUS
    <2> QED
      BY <2>1, <2>2, <2>3, <2>4 DEF PendingInOrder, Before, Data
  <1>8. LogFollowsSent(m)'
    <2> SUFFICES ASSUME NEW i \in 1 .. Len(log[m]), NEW k \in Node, log[m][i][1] = k
                 PROVE  /\ log[m][i][2] <= sent'[k]
                        /\ pc'[k] = "wait" /\ log[m][i][2] = sent'[k]
                              => seenIds[m][k] = cur'[k].id
      BY DEF LogFollowsSent
    <2>1. CASE k = n
      BY <1>0, <1>3, <2>1
    <2>2. CASE k # n
      BY <1>0, <2>2, SMTT(30) DEF OrderInv, LogFollowsSent
    <2> QED
      BY <2>1, <2>2
  <1> QED
    BY <1>1, <1>5, <1>6, <1>7, <1>8

(* A node that starts again has nothing pending, nothing delivered, no call. *)
LEMMA RestartOrder ==
    ASSUME TypeOK, OrderInv, NEW n \in Node, Restart(n)
    PROVE  OrderInv'
  <1> USE DEF historyVars
  <1>1. /\ \A m \in Node \ {n} :
              /\ held'[m] = held[m] /\ rxBuf'[m] = rxBuf[m] /\ fifo'[m] = fifo[m]
              /\ pc'[m] = pc[m] /\ cur'[m] = cur[m]
              /\ log'[m] = log[m] /\ seenIds'[m] = seenIds[m]
        /\ held'[n] = NoFrame /\ rxBuf'[n] = NoFrame /\ fifo'[n] = NoFrame
        /\ log'[n] = <<>> /\ pc'[n] = "idle" /\ sent' = sent
    BY DEF TypeOK, Restart, Drained
  <1> SUFFICES ASSUME NEW m \in Node
               PROVE  /\ pc'[m] = "wait" => cur'[m].msg = sent'[m]
                      /\ PendingInOrder(m)'
                      /\ PendingFollowsLog(m, held[m])'
                      /\ PendingFollowsLog(m, rxBuf[m])'
                      /\ PendingFollowsLog(m, fifo[m])'
                      /\ LogFollowsSent(m)'
    BY DEF OrderInv
  <1>2. CASE m = n
    BY <1>1, <1>2 DEF PendingInOrder, PendingFollowsLog, LogFollowsSent, Before, Data
  <1>3. CASE m # n
    <2>1. /\ pc[m] = "wait" => cur[m].msg = sent[m]
          /\ PendingInOrder(m)
          /\ LogFollowsSent(m)
      BY DEF OrderInv
    <2>2. \A k \in Node : pc'[k] = "wait" => pc[k] = "wait" /\ cur'[k] = cur[k]
      BY <1>1
    <2>3. PendingInOrder(m)' /\ LogFollowsSent(m)' /\ (pc'[m] = "wait" => cur'[m].msg = sent'[m])
      BY <1>1, <1>3, <2>1, <2>2 DEF PendingInOrder, LogFollowsSent, Before, Data
    <2>4. ASSUME NEW f \in Frame \cup {NoFrame}, PendingFollowsLog(m, f), Data(f)
          PROVE  /\ f.msg <= sent'[f.from]
                 /\ pc'[f.from] = "wait" /\ f.msg = sent'[f.from] => f.id = cur'[f.from].id
                 /\ \A i \in 1 .. Len(log'[m]) :
                       log'[m][i][1] = f.from =>
                          /\ log'[m][i][2] <= f.msg
                          /\ log'[m][i][2] = f.msg => seenIds'[m][f.from] = f.id
      BY <1>1, <1>3, <2>2, <2>4, DataType, SMTT(30) DEF PendingFollowsLog
    <2>5. /\ held[m] \in Frame \cup {NoFrame} /\ PendingFollowsLog(m, held[m])
          /\ rxBuf[m] \in Frame \cup {NoFrame} /\ PendingFollowsLog(m, rxBuf[m])
          /\ fifo[m] \in Frame \cup {NoFrame} /\ PendingFollowsLog(m, fifo[m])
      BY DEF TypeOK, OrderInv
    <2>6. /\ PendingFollowsLog(m, held[m])'
          /\ PendingFollowsLog(m, rxBuf[m])'
          /\ PendingFollowsLog(m, fifo[m])'
      <3>1. held'[m] = held[m] /\ rxBuf'[m] = rxBuf[m] /\ fifo'[m] = fifo[m]
        BY <1>1, <1>3
      <3> QED
        BY <2>4, <2>5, <3>1, SMTT(30) DEF PendingFollowsLog
    <2> QED
      BY <2>3, <2>6
  <1> QED
    BY <1>2, <1>3

(***************************************************************************)
(* The end of recvfromAck(): what it gives to the sketch is newer than all *)
(* the sketch had of that sender, and the frames still pending are not     *)
(* older.                                                                  *)
(***************************************************************************)
LEMMA DeliverOrder ==
    ASSUME TypeOK, HeldData, OrderInv, InOrder, NEW n \in Node, Deliver(n)
    PROVE  OrderInv' /\ InOrder'
  <1> USE DEF driverVars
  <1> DEFINE f == held[n]
  <1>1. /\ Data(f) /\ f \in Frame
        /\ f.from \in Node /\ f.msg \in Nat /\ f.id \in Octet
    BY DataType DEF TypeOK, HeldData, Deliver
  <1>2. /\ held' = [held EXCEPT ![n] = NoFrame] /\ rxBuf' = rxBuf /\ fifo' = fifo
        /\ sent' = sent /\ cur' = cur
        /\ \A m \in Node : pc'[m] = "wait" => pc[m] = "wait"
    BY DEF TypeOK, Deliver
  <1>3. CASE AlreadySeen(n, f)
    <2>1. seenIds' = seenIds /\ log' = log
      BY <1>3 DEF Deliver
    <2>2. \A m \in Node : /\ held'[m] \in {held[m], NoFrame}
                          /\ rxBuf'[m] = rxBuf[m] /\ fifo'[m] = fifo[m]
      BY <1>2 DEF TypeOK
    <2>3. OrderInv'
      BY <1>2, <2>1, <2>2, MoveOrder
    <2> QED
      BY <2>1, <2>3 DEF InOrder
  <1>4. CASE ~AlreadySeen(n, f)
    <2>1. /\ seenIds' = [seenIds EXCEPT ![n][f.from] = f.id]
          /\ log' = [log EXCEPT ![n] = Append(@, <<f.from, f.msg>>)]
      BY <1>4 DEF Deliver
    <2>2. /\ \A m \in Node \ {n} : /\ log'[m] = log[m] /\ seenIds'[m] = seenIds[m]
                                   /\ held'[m] = held[m]
          /\ seenIds'[n][f.from] = f.id
          /\ \A k \in Node \ {f.from} : seenIds'[n][k] = seenIds[n][k]
          /\ log'[n] = Append(log[n], <<f.from, f.msg>>)
          /\ held'[n] = NoFrame
      BY <1>1, <1>2, <2>1 DEF TypeOK
    <2>3. /\ Len(log'[n]) = Len(log[n]) + 1
          /\ Len(log[n]) \in Nat
          /\ \A i \in 1 .. Len(log[n]) : log'[n][i] = log[n][i]
          /\ log'[n][Len(log[n]) + 1] = <<f.from, f.msg>>
      BY <1>1, <2>2 DEF TypeOK
    <2>4. \A i \in 1 .. Len(log[n]) : /\ log[n][i][1] \in Node /\ log[n][i][2] \in Nat
                                      /\ log[n][i][1] = f.from => log[n][i][2] < f.msg
      <3> SUFFICES ASSUME NEW i \in 1 .. Len(log[n])
                   PROVE  /\ log[n][i][1] \in Node /\ log[n][i][2] \in Nat
                          /\ log[n][i][1] = f.from => log[n][i][2] < f.msg
        OBVIOUS
      <3>1. log[n][i] \in Node \X Nat
        BY DEF TypeOK
      <3>2. PendingFollowsLog(n, f)
        BY DEF OrderInv
      <3>3. log[n][i][1] = f.from =>
               log[n][i][2] <= f.msg /\ (log[n][i][2] = f.msg => seenIds[n][f.from] = f.id)
        BY <1>1, <3>2 DEF PendingFollowsLog
      <3> QED
        BY <1>1, <1>4, <3>1, <3>3 DEF AlreadySeen
    <2>5. InOrder'
      <3> SUFFICES ASSUME NEW m \in Node, NEW i \in 1 .. Len(log'[m]), NEW j \in 1 .. Len(log'[m]),
                          i < j, log'[m][i][1] = log'[m][j][1]
                   PROVE  log'[m][i][2] < log'[m][j][2]
        BY DEF InOrder
      <3>1. CASE m # n
        BY <2>2, <3>1 DEF InOrder
      <3>2. CASE m = n /\ j \in 1 .. Len(log[n])
        <4>1. /\ i \in 1 .. Len(log[n]) /\ j \in 1 .. Len(log[n])
              /\ log'[n][i] = log[n][i] /\ log'[n][j] = log[n][j]
          BY <2>3, <3>2
        <4> QED
          BY <3>2, <4>1 DEF InOrder
      <3>3. CASE m = n /\ j = Len(log[n]) + 1
        <4>1. /\ i \in 1 .. Len(log[n])
              /\ log'[n][i] = log[n][i] /\ log'[n][j] = <<f.from, f.msg>>
          BY <2>3, <3>3
        <4>2. log[n][i][1] = f.from
          BY <3>3, <4>1
        <4>3. log[n][i][2] < f.msg
          BY <2>4, <4>1, <4>2
        <4> QED
          BY <3>3, <4>1, <4>3
      <3>4. m = n => j \in 1 .. Len(log[n]) \/ j = Len(log[n]) + 1
        BY <2>3
      <3> QED
        BY <3>1, <3>2, <3>3, <3>4
    <2>6. ASSUME NEW m \in Node PROVE LogFollowsSent(m)'
      <3>1. LogFollowsSent(m) /\ LogFollowsSent(n)
        BY DEF OrderInv
      <3>2. CASE m # n
        BY <1>2, <2>2, <3>1, <3>2 DEF LogFollowsSent
      <3>3. CASE m = n
        <4> SUFFICES ASSUME NEW i \in 1 .. Len(log'[n]), NEW k \in Node, log'[n][i][1] = k
                     PROVE  /\ log'[n][i][2] <= sent[k]
                            /\ pc'[k] = "wait" /\ log'[n][i][2] = sent[k]
                                  => seenIds'[n][k] = cur[k].id
          BY <1>2, <3>3 DEF LogFollowsSent
        <4>0. PendingFollowsLog(n, f)
          BY DEF OrderInv
        <4>1. CASE i = Len(log[n]) + 1
          BY <1>1, <1>2, <2>2, <2>3, <4>0, <4>1 DEF PendingFollowsLog
        <4>2. CASE i \in 1 .. Len(log[n]) /\ k # f.from
          BY <1>2, <2>2, <2>3, <3>1, <4>2 DEF LogFollowsSent
        <4>3. CASE i \in 1 .. Len(log[n]) /\ k = f.from
          <5>1. log[n][i][2] < f.msg /\ f.msg <= sent[k] /\ sent[k] \in Nat
            BY <1>1, <2>3, <2>4, <4>0, <4>3 DEF PendingFollowsLog, TypeOK
          <5>2. log'[n][i] = log[n][i] /\ log[n][i][2] \in Nat
            BY <2>3, <2>4, <4>3
          <5> QED
            BY <1>1, <5>1, <5>2
        <4> QED
          BY <2>3, <4>1, <4>2, <4>3
      <3> QED
        BY <3>2, <3>3
    <2>7. ASSUME NEW m \in Node, NEW g \in Frame \cup {NoFrame}, PendingFollowsLog(m, g),
                 m = n => Before(f, g), Data(g)
          PROVE  /\ g.msg <= sent'[g.from]
                 /\ pc'[g.from] = "wait" /\ g.msg = sent'[g.from] => g.id = cur'[g.from].id
                 /\ \A i \in 1 .. Len(log'[m]) :
                       log'[m][i][1] = g.from =>
                          /\ log'[m][i][2] <= g.msg
                          /\ log'[m][i][2] = g.msg => seenIds'[m][g.from] = g.id
      <3>1. g.from \in Node /\ g.msg \in Nat
        BY <2>7, DataType
      <3>2. /\ g.msg <= sent'[g.from]
            /\ pc'[g.from] = "wait" /\ g.msg = sent'[g.from] => g.id = cur'[g.from].id
        BY <1>2, <2>7, <3>1 DEF PendingFollowsLog
      <3>3. ASSUME NEW i \in 1 .. Len(log'[m]), log'[m][i][1] = g.from
            PROVE  /\ log'[m][i][2] <= g.msg
                   /\ log'[m][i][2] = g.msg => seenIds'[m][g.from] = g.id
        <4>1. CASE m # n
          BY <2>2, <2>7, <3>3, <4>1 DEF PendingFollowsLog
        <4>2. CASE m = n /\ g.from # f.from
          <5>1. i \in 1 .. Len(log[n]) /\ log'[n][i] = log[n][i]
            BY <2>3, <3>3, <4>2
          <5>2. seenIds'[n][g.from] = seenIds[n][g.from]
            BY <2>2, <3>1, <4>2
          <5> QED
            BY <2>7, <3>3, <4>2, <5>1, <5>2 DEF PendingFollowsLog
        <4>3. CASE m = n /\ g.from = f.from
          <5>1. f.msg <= g.msg /\ (f.msg = g.msg => f.id = g.id)
            BY <1>1, <2>7, <4>3 DEF Before
          <5>2. CASE i = Len(log[n]) + 1
            BY <2>2, <2>3, <4>3, <5>1, <5>2
          <5>3. CASE i \in 1 .. Len(log[n])
            <6>1. /\ log'[n][i] = log[n][i] /\ log[n][i][2] \in Nat
                  /\ log[n][i][2] < f.msg
              BY <2>3, <2>4, <3>3, <4>3, <5>3
            <6> HIDE DEF f
            <6> QED
              BY <1>1, <3>1, <4>3, <5>1, <6>1
          <5> QED
            BY <2>3, <3>3, <4>3, <5>2, <5>3
        <4> QED
          BY <4>1, <4>2, <4>3
      <3> QED
        BY <3>2, <3>3
    <2>8. ASSUME NEW m \in Node
          PROVE  /\ PendingFollowsLog(m, held[m])'
                 /\ PendingFollowsLog(m, rxBuf[m])'
                 /\ PendingFollowsLog(m, fifo[m])'
      <3>1. /\ held[m] \in Frame \cup {NoFrame} /\ PendingFollowsLog(m, held[m])
            /\ rxBuf[m] \in Frame \cup {NoFrame} /\ PendingFollowsLog(m, rxBuf[m])
            /\ fifo[m] \in Frame \cup {NoFrame} /\ PendingFollowsLog(m, fifo[m])
            /\ m = n => Before(f, rxBuf[m]) /\ Before(f, fifo[m])
        BY DEF TypeOK, OrderInv, PendingInOrder
      <3>2. PendingFollowsLog(m, rxBuf[m])' /\ PendingFollowsLog(m, fifo[m])'
        BY <1>2, <2>7, <3>1 DEF PendingFollowsLog
      <3>3. PendingFollowsLog(m, held[m])'
        <4>1. CASE m = n
          BY <2>2, <4>1 DEF PendingFollowsLog, Data
        <4>2. CASE m # n
          <5>1. held'[m] = held[m]
            BY <2>2, <4>2
          <5> QED
            BY <2>7, <3>1, <4>2, <5>1 DEF PendingFollowsLog
        <4> QED
          BY <4>1, <4>2
      <3> QED
        BY <3>2, <3>3
    <2>9. ASSUME NEW m \in Node
          PROVE  PendingInOrder(m)' /\ (pc'[m] = "wait" => cur'[m].msg = sent'[m])
      BY <1>2, <2>2 DEF OrderInv, PendingInOrder, Before, Data
    <2> QED
      BY <2>5, <2>6, <2>8, <2>9 DEF OrderInv
  <1> QED
    BY <1>3, <1>4

(* Every step preserves the order of what is pending and of what was delivered. *)
LEMMA OrderStep ==
    TypeOK /\ HeldData /\ OrderInv /\ InOrder /\ [Next]_vars => OrderInv' /\ InOrder'
  <1> SUFFICES ASSUME TypeOK, HeldData, OrderInv, InOrder, [Next]_vars
               PROVE  OrderInv' /\ InOrder'
    OBVIOUS
  <1> USE DEF driverVars, managerVars, callVars, historyVars
  <1>0. ASSUME log' = log PROVE InOrder'
    BY <1>0 DEF InOrder
  <1>1. ASSUME NEW n \in Node, Available(n) PROVE OrderInv' /\ log' = log
    <2>1. \A m \in Node : /\ held'[m] = held[m]
                          /\ m # n => rxBuf'[m] = rxBuf[m] /\ fifo'[m] = fifo[m]
                          /\ m = n => rxBuf'[m] \in {rxBuf[m], fifo[m]} /\ fifo'[m] = NoFrame
      BY <1>1 DEF TypeOK, Available, Polled, Drained
    <2> QED
      BY <1>1, <2>1, MoveOrder DEF Available
  <1>2. ASSUME NEW n \in Node, NEW to \in (Node \ {n}) \cup {Broadcast},
               NEW fits \in Fits, SendtoWait(n, to, fits)
        PROVE  OrderInv' /\ log' = log
    <2> DEFINE f == DataFrame(n, to, NextSequenceNumber(n), sent[n] + 1)
    <2>1. f \in Frame /\ f.from = n /\ f.msg = sent[n] + 1 /\ f.id = NextSequenceNumber(n)
      <3>1. lastSequenceNumber[n] + 1 \in Nat /\ sent[n] + 1 \in Nat
        BY ConstantsAssumption DEF TypeOK, Octet
      <3>2. NextSequenceNumber(n) \in Octet
        BY <3>1, OctetModulo DEF NextSequenceNumber
      <3> QED
        BY <3>1, <3>2 DEF DataFrame, Frame
    <2>2. \A m \in Node : fifo'[m] \in {f, fifo[m], NoFrame}
      BY <1>2, TransmitEffect DEF SendtoWait
    <2>3. /\ sent' = [sent EXCEPT ![n] = f.msg]
          /\ UNCHANGED <<seenIds, log, held, rxBuf>>
          /\ pc[n] = "idle"
      BY <1>2, <2>1 DEF SendtoWait
    <2>4. /\ \A m \in Node \ {n} : pc'[m] = pc[m] /\ cur'[m] = cur[m]
          /\ pc'[n] = "wait" => cur'[n].msg = f.msg /\ cur'[n].id = f.id
      <3> HIDE DEF f
      <3>1. \/ UNCHANGED <<pc, cur>>
            \/ /\ pc' = [pc EXCEPT ![n] = "wait"]
               /\ cur' = [cur EXCEPT ![n] = [to |-> to, id |-> f.id, msg |-> f.msg, fits |-> fits]]
        BY <1>2, <2>1 DEF SendtoWait
      <3> QED
        BY <2>3, <3>1 DEF TypeOK
    <2> HIDE DEF f
    <2> QED
      BY <2>1, <2>2, <2>3, <2>4, SendOrder
  <1>3. ASSUME NEW n \in Node, Retransmit(n) PROVE OrderInv' /\ log' = log
    <2> DEFINE f == RetransmittedFrame(n)
    <2>1. f \in Frame /\ f.from = n /\ f.msg = cur[n].msg /\ f.id = cur[n].id
      BY DEF TypeOK, RetransmittedFrame, DataFrame, Frame, Call
    <2>2. pc[n] = "wait" /\ cur[n].msg = sent[n]
      BY <1>3 DEF Retransmit, OrderInv
    <2>3. \A m \in Node : fifo'[m] \in {f, fifo[m], NoFrame}
      BY <1>3, TransmitEffect DEF Retransmit
    <2>4. UNCHANGED <<seenIds, log, held, rxBuf, sent, pc, cur>>
      BY <1>3 DEF Retransmit
    <2> HIDE DEF f
    <2>5. sent' = [sent EXCEPT ![n] = f.msg]
      BY <2>1, <2>2, <2>4 DEF TypeOK
    <2> QED
      BY <2>1, <2>2, <2>3, <2>4, <2>5, SendOrder
  <1>4. ASSUME NEW n \in Node, GiveUp(n) PROVE OrderInv' /\ log' = log
    <2>1. \A m \in Node : pc'[m] = "wait" => pc[m] = "wait" /\ cur'[m] = cur[m]
      BY <1>4 DEF TypeOK, GiveUp, ReturnFromSendtoWait
    <2> QED
      BY <1>4, <2>1, MoveOrder DEF GiveUp
  <1>5. ASSUME NEW n \in Node, RecvWhileWaiting(n) PROVE OrderInv' /\ log' = log
    <2> DEFINE f == AckFrame(n, Polled(n))
    <2>1. UNCHANGED <<sent, seenIds, log, held>> /\ rxBuf' = [rxBuf EXCEPT ![n] = NoFrame]
      BY <1>5 DEF RecvWhileWaiting
    <2>2. \A m \in Node : pc'[m] = "wait" => pc[m] = "wait" /\ cur'[m] = cur[m]
      BY <1>5 DEF TypeOK, RecvWhileWaiting, ReturnFromSendtoWait
    <2>3. \A m \in Node : fifo'[m] \in {f, fifo[m], NoFrame}
      <3>1. fifo' = Drained(n) \/ Transmit(n, f)
        BY <1>5 DEF RecvWhileWaiting, Acknowledge
      <3> HIDE DEF f
      <3> QED
        BY <3>1, TransmitEffect DEF Drained, TypeOK
    <2>4. ~Data(f) /\ ~Data(NoFrame)
      BY DEF Data, AckFrame
    <2> HIDE DEF f
    <2>5. \A m \in Node : rxBuf'[m] \in {rxBuf[m], NoFrame}
      BY <2>1 DEF TypeOK
    <2> QED
      BY <2>1, <2>2, <2>3, <2>4, <2>5, MoveOrder
  <1>6. ASSUME NEW n \in Node, RecvfromAck(n) PROVE OrderInv' /\ log' = log
    <2> DEFINE f == AckFrame(n, Polled(n))
    <2>1. UNCHANGED <<sent, seenIds, log, cur>> /\ rxBuf' = [rxBuf EXCEPT ![n] = NoFrame]
      BY <1>6 DEF RecvfromAck
    <2>2. \A m \in Node : pc'[m] = "wait" => pc[m] = "wait"
      BY <1>6 DEF TypeOK, RecvfromAck
    <2>3. /\ \A m \in Node : fifo'[m] \in {f, fifo[m], NoFrame}
          /\ fifo'[n] = NoFrame
      <3>1. fifo' = Drained(n) \/ Transmit(n, f)
        BY <1>6 DEF RecvfromAck, Acknowledge
      <3> HIDE DEF f
      <3> QED
        BY <3>1, TransmitEffect DEF Drained, TypeOK
    <2>4. ~Data(f) /\ ~Data(NoFrame)
      BY DEF Data, AckFrame
    <2>5. \A m \in Node : /\ m # n => held'[m] = held[m] /\ rxBuf'[m] = rxBuf[m]
                          /\ m = n => /\ held'[m] \in {held[m], rxBuf[m], fifo[m]}
                                      /\ rxBuf'[m] = NoFrame
      BY <1>6, <2>1 DEF TypeOK, RecvfromAck, Polled
    <2> HIDE DEF f
    <2> QED
      BY <2>1, <2>2, <2>3, <2>4, <2>5, MoveOrder
  <1>7. ASSUME NEW n \in Node, Deliver(n) PROVE OrderInv' /\ InOrder'
    BY <1>7, DeliverOrder
  <1>8. ASSUME NEW n \in Node, NEW to \in (Node \ {n}) \cup {Broadcast}, Sendto(n, to)
        PROVE  OrderInv' /\ log' = log
    <2> DEFINE f == [to |-> to, from |-> n, id |-> txHeaderId[n],
                     ack |-> txHeaderAck[n], msg |-> sent[n] + 1]
    <2>1. f \in Frame /\ f.from = n /\ f.msg = sent[n] + 1
      BY DEF TypeOK, Frame
    <2>2. \A m \in Node : fifo'[m] \in {f, fifo[m], NoFrame}
      BY <1>8, TransmitEffect DEF Sendto
    <2>3. /\ sent' = [sent EXCEPT ![n] = f.msg]
          /\ UNCHANGED <<seenIds, log, held, rxBuf, pc, cur>>
          /\ pc[n] = "idle"
      BY <1>8, <2>1 DEF Sendto
    <2> HIDE DEF f
    <2> QED
      BY <2>1, <2>2, <2>3, SendOrder
  <1>9. ASSUME NEW n \in Node, ResetRetransmissions(n) PROVE OrderInv' /\ log' = log
    BY <1>9, MoveOrder DEF ResetRetransmissions
  <1>10. ASSUME NEW n \in Node, Restart(n) PROVE OrderInv' /\ InOrder'
    <2>1. /\ log'[n] = <<>>
          /\ \A m \in Node \ {n} : log'[m] = log[m]
      BY <1>10 DEF TypeOK, Restart
    <2> QED
      BY <1>10, <2>1, RestartOrder DEF InOrder
  <1>11. CASE UNCHANGED vars
    BY <1>0, <1>11, MoveOrder DEF vars
  <1> QED
    BY <1>0, <1>1, <1>2, <1>3, <1>4, <1>5, <1>6, <1>7, <1>8, <1>9, <1>10, <1>11 DEF Next

(* Nothing is on its way when all nodes are switched on.                    *)
LEMMA OrderInit == Init => TypeOK /\ HeldData /\ OrderInv /\ InOrder
  <1>1. Init => HeldData /\ InOrder
    BY DEF Init, HeldData, InOrder
  <1>2. Init => OrderInv
    <2> SUFFICES ASSUME Init, NEW n \in Node
                 PROVE  /\ pc[n] = "wait" => cur[n].msg = sent[n]
                        /\ PendingInOrder(n)
                        /\ PendingFollowsLog(n, held[n])
                        /\ PendingFollowsLog(n, rxBuf[n])
                        /\ PendingFollowsLog(n, fifo[n])
                        /\ LogFollowsSent(n)
      BY DEF OrderInv
    <2>1. /\ held[n] = NoFrame /\ rxBuf[n] = NoFrame /\ fifo[n] = NoFrame
          /\ pc[n] = "idle" /\ log[n] = <<>>
      BY DEF Init
    <2> QED
      BY <2>1 DEF PendingInOrder, PendingFollowsLog, LogFollowsSent, Before, Data
  <1> QED
    BY <1>1, <1>2, TypeInit

(* The inductive invariant of the order of delivery, from power-up on.      *)
LEMMA OrderInvariant == Spec => [](TypeOK /\ HeldData /\ OrderInv /\ InOrder)
  BY OrderInit, TypeStep, HeldStep, OrderStep, PTL DEF Spec

(***************************************************************************)
(* At most once and in order, for any number of nodes, messages, losses,   *)
(* restarts and plain sendto() calls, and for every width of the ID: the   *)
(* duplicate test of recvfromAck() on the last ID alone never lets a       *)
(* message through twice, nor an older one after a newer one.              *)
(***************************************************************************)
THEOREM DeliveryInOrder == Spec => []InOrder
  BY OrderInvariant, PTL

(***************************************************************************)
(* The frames of one sender that a node holds, in recvfromAck(), in the    *)
(* driver's buffer and in the FIFO, are in the order in which they were    *)
(* sent and none is older than what the sketch got; a message keeps its ID *)
(* while it may be sent again.  This is why a retransmission is never      *)
(* mistaken for a new message, however small the ID and whatever is lost.  *)
(***************************************************************************)
THEOREM FramesInOrder == Spec => []OrderInv
  BY OrderInvariant, PTL

-----------------------------------------------------------------------------
(* The number of retransmissions.                                           *)

(***************************************************************************)
(* A running sendtoWait() has counted its transmissions in retries, and    *)
(* every one but the first is in _retransmissions, unless the counter was  *)
(* reset or wrapped around: what is left of the budget of this message is  *)
(* what the loop may still use.                                            *)
(***************************************************************************)
RetriesInv ==
    \A n \in Node :
        /\ pc[n] = "wait" =>
              /\ retries[n] \in 1 .. Retries + 1
              /\ retransmissions[n] + Retries + 1 <= Retries * sent[n] + retries[n]
        /\ pc[n] # "wait" => retransmissions[n] <= Retries * sent[n]

(* One more message adds Retries to the budget.                             *)
LEMMA Budget ==
    ASSUME NEW r \in Nat, NEW s \in Nat
    PROVE  r * s \in Nat /\ r * (s + 1) = r * s + r
  OBVIOUS

(* A counter of so many values, counted on, grows by one or starts again.   *)
LEMMA CountOn ==
    ASSUME NEW c \in Nat \ {0}, NEW x \in 0 .. c - 1
    PROVE  /\ (x + 1) % c <= x + 1
           /\ x + 1 < c => (x + 1) % c = x + 1
  <1>1. CASE x + 1 < c
    BY <1>1
  <1>2. CASE x + 1 = c
    BY <1>2
  <1> QED
    BY <1>1, <1>2

(* Retransmissions are counted within the budget by every step.             *)
LEMMA RetriesStep ==
    ASSUME Retries + 1 < OctetSize, TypeOK, RetriesInv, [Next]_vars
    PROVE  RetriesInv'
  <1> USE DEF driverVars, managerVars, callVars, historyVars
  <1>0. /\ pc \in [Node -> {"idle", "wait", "ackd"}]
        /\ retries \in [Node -> Octet]
        /\ retransmissions \in [Node -> 0 .. CounterSize - 1]
        /\ sent \in [Node -> Nat]
        /\ Retries \in Nat /\ OctetSize \in Nat /\ CounterSize \in Nat \ {0}
        /\ Octet = 0 .. OctetSize - 1
    BY ConstantsAssumption DEF TypeOK, Octet
  <1>1. ASSUME NEW n \in Node, NEW to \in (Node \ {n}) \cup {Broadcast},
               NEW fits \in Fits, SendtoWait(n, to, fits)
        PROVE  RetriesInv'
    <2>1. /\ pc[n] = "idle"
          /\ sent' = [sent EXCEPT ![n] = sent[n] + 1]
          /\ UNCHANGED retransmissions
          /\ \/ UNCHANGED <<pc, retries>>
             \/ pc' = [pc EXCEPT ![n] = "wait"] /\ retries' = [retries EXCEPT ![n] = 1 % OctetSize]
      BY <1>1 DEF SendtoWait
    <2>2. 1 % OctetSize = 1
      <3>1. OctetSize \in Nat \ {0} /\ 0 \in 0 .. OctetSize - 1 /\ 0 + 1 < OctetSize
        BY <1>0
      <3>2. (0 + 1) % OctetSize = 0 + 1
        BY <3>1, CountOn
      <3> QED
        BY <3>2
    <2>3. /\ Retries * (sent[n] + 1) = Retries * sent[n] + Retries
          /\ Retries * sent[n] \in Nat
      BY <1>0, Budget
    <2>4. retransmissions[n] <= Retries * sent[n]
      BY <2>1 DEF RetriesInv
    <2> DEFINE old == Retries * sent[n]
               new == Retries * (sent[n] + 1)
    <2>5. /\ sent'[n] = sent[n] + 1 /\ Retries * sent'[n] = new
          /\ \A m \in Node \ {n} : sent'[m] = sent[m]
      BY <1>0, <2>1
    <2>6. \A m \in Node \ {n} : /\ pc'[m] = pc[m] /\ retries'[m] = retries[m]
                                /\ retransmissions'[m] = retransmissions[m]
                                /\ Retries * sent'[m] = Retries * sent[m]
      BY <1>0, <2>1, <2>5
    <2>7. /\ pc'[n] = "wait" => retries'[n] = 1
          /\ retransmissions'[n] = retransmissions[n]
      BY <1>0, <2>1, <2>2
    <2> HIDE DEF old, new
    <2>8. /\ pc'[n] = "wait" =>
               /\ retries'[n] \in 1 .. Retries + 1
               /\ retransmissions'[n] + Retries + 1 <= new + retries'[n]
          /\ pc'[n] # "wait" => retransmissions'[n] <= new
      <3>1. new = old + Retries /\ old \in Nat /\ retransmissions[n] <= old
        BY <2>3, <2>4 DEF old, new
      <3>2. retransmissions[n] \in Nat
        BY <1>0
      <3> QED
        BY <1>0, <2>7, <3>1, <3>2
    <2> QED
      BY <2>5, <2>6, <2>8 DEF RetriesInv
  <1>2. ASSUME NEW n \in Node, Retransmit(n) PROVE RetriesInv'
    <2>1. /\ pc[n] = "wait" /\ retries[n] <= Retries
          /\ retries' = [retries EXCEPT ![n] = (retries[n] + 1) % OctetSize]
          /\ \/ retransmissions' = [retransmissions EXCEPT ![n] = (retransmissions[n] + 1) % CounterSize]
             \/ retransmissions' = retransmissions
          /\ UNCHANGED <<pc, sent>>
      BY <1>2 DEF Retransmit, RetriesLeft
    <2>2. (retries[n] + 1) % OctetSize = retries[n] + 1
      <3>1. /\ OctetSize \in Nat \ {0} /\ retries[n] \in 0 .. OctetSize - 1
            /\ retries[n] + 1 < OctetSize
        BY <1>0, <2>1
      <3> QED
        BY <3>1, CountOn
    <2>3. (retransmissions[n] + 1) % CounterSize <= retransmissions[n] + 1
      BY <1>0, CountOn
    <2>4. /\ retries'[n] = retries[n] + 1
          /\ retransmissions'[n] <= retransmissions[n] + 1
          /\ (retransmissions[n] + 1) % CounterSize \in Nat
          /\ retransmissions'[n] \in Nat
          /\ \A m \in Node \ {n} : /\ retries'[m] = retries[m]
                                   /\ retransmissions'[m] = retransmissions[m]
      BY <1>0, <2>1, <2>2, <2>3
    <2>5. /\ retries[n] \in 1 .. Retries + 1
          /\ retransmissions[n] + Retries + 1 <= Retries * sent[n] + retries[n]
      BY <2>1 DEF RetriesInv
    <2> DEFINE budget == Retries * sent[n]
    <2>6. budget \in Nat
      BY <1>0, Budget
    <2> HIDE DEF budget
    <2>7. /\ retries'[n] \in 1 .. Retries + 1
          /\ retransmissions'[n] + Retries + 1 <= budget + retries'[n]
      <3>1. retransmissions[n] + Retries + 1 <= budget + retries[n]
        BY <2>5 DEF budget
      <3>2. /\ retransmissions[n] \in Nat /\ Retries \in Nat /\ retries[n] \in Nat
            /\ retries[n] <= Retries /\ retries'[n] = retries[n] + 1
        BY <1>0, <2>1, <2>4
      <3> QED
        BY <2>4, <2>6, <3>1, <3>2
    <2> QED
      BY <2>1, <2>4, <2>7 DEF RetriesInv, budget
  <1>3. ASSUME NEW n \in Node,
               \/ ReturnFromSendtoWait(n, TRUE) \/ ReturnFromSendtoWait(n, FALSE),
               pc[n] = "wait", UNCHANGED <<retransmissions, sent>>
        PROVE  RetriesInv'
    <2>1. /\ retries[n] \in 1 .. Retries + 1
          /\ retransmissions[n] + Retries + 1 <= Retries * sent[n] + retries[n]
      BY <1>3 DEF RetriesInv
    <2> DEFINE budget == Retries * sent[n]
    <2>2. budget \in Nat /\ retransmissions[n] \in Nat
      BY <1>0, Budget
    <2>3. retransmissions[n] + Retries + 1 <= budget + retries[n]
      BY <2>1
    <2> HIDE DEF budget
    <2>4. retransmissions[n] <= budget
      BY <1>0, <2>1, <2>2, <2>3
    <2>5. /\ pc'[n] = "idle"
          /\ \A m \in Node \ {n} : pc'[m] = pc[m] /\ retries'[m] = retries[m]
      BY <1>0, <1>3 DEF ReturnFromSendtoWait
    <2> QED
      BY <1>3, <2>4, <2>5 DEF RetriesInv, budget
  <1>4. ASSUME NEW n \in Node, GiveUp(n) PROVE RetriesInv'
    BY <1>3, <1>4 DEF GiveUp
  <1>5. ASSUME UNCHANGED <<retransmissions, sent, retries>>,
               \A m \in Node : pc'[m] = "wait" <=> pc[m] = "wait"
        PROVE  RetriesInv'
    BY <1>5 DEF RetriesInv
  <1>6. ASSUME NEW n \in Node, RecvWhileWaiting(n) PROVE RetriesInv'
    <2>1. pc[n] = "wait" /\ UNCHANGED <<retransmissions, sent>>
      BY <1>6 DEF RecvWhileWaiting
    <2>2. ReturnFromSendtoWait(n, TRUE) \/ UNCHANGED <<pc, retries>>
      BY <1>6 DEF RecvWhileWaiting
    <2> QED
      BY <1>3, <1>5, <2>1, <2>2
  <1>7. ASSUME NEW n \in Node, RecvfromAck(n) \/ Deliver(n) PROVE RetriesInv'
    <2>1. UNCHANGED <<retransmissions, sent, retries>>
      BY <1>7 DEF RecvfromAck, Deliver
    <2>2. /\ pc[n] # "wait"
          /\ pc' \in {pc, [pc EXCEPT ![n] = "ackd"], [pc EXCEPT ![n] = "idle"]}
      BY <1>7 DEF RecvfromAck, Deliver
    <2>3. \A m \in Node : pc'[m] = "wait" <=> pc[m] = "wait"
      BY <1>0, <2>2
    <2> QED
      BY <1>5, <2>1, <2>3
  <1>8. ASSUME NEW n \in Node, NEW to \in (Node \ {n}) \cup {Broadcast}, Sendto(n, to)
        PROVE  RetriesInv'
    <2>1. /\ pc[n] = "idle"
          /\ sent' = [sent EXCEPT ![n] = sent[n] + 1]
          /\ UNCHANGED <<retransmissions, pc, retries>>
      BY <1>8 DEF Sendto
    <2>2. Retries * (sent[n] + 1) >= Retries * sent[n] /\ Retries * (sent[n] + 1) \in Nat
      BY <1>0, Budget
    <2>3. sent'[n] = sent[n] + 1 /\ \A m \in Node \ {n} : sent'[m] = sent[m]
      BY <1>0, <2>1
    <2>4. retransmissions[n] <= Retries * sent[n] /\ retransmissions[n] \in Nat
      BY <1>0, <2>1 DEF RetriesInv
    <2> DEFINE old == Retries * sent[n]
               new == Retries * (sent[n] + 1)
    <2>5. old \in Nat /\ new \in Nat /\ old <= new /\ retransmissions[n] <= old /\ new = Retries * sent'[n]
      BY <1>0, <2>2, <2>3, <2>4, Budget
    <2> HIDE DEF old, new
    <2>6. retransmissions[n] <= new
      BY <2>4, <2>5
    <2> QED
      BY <2>1, <2>3, <2>5, <2>6 DEF RetriesInv
  <1>9. ASSUME NEW n \in Node, ResetRetransmissions(n) \/ Restart(n) PROVE RetriesInv'
    <2>1. /\ retransmissions' = [retransmissions EXCEPT ![n] = 0]
          /\ UNCHANGED sent
          /\ \/ pc[n] = "idle" /\ UNCHANGED <<pc, retries>>
             \/ pc' = [pc EXCEPT ![n] = "idle"] /\ retries' = [retries EXCEPT ![n] = 0]
      BY <1>9 DEF ResetRetransmissions, Restart
    <2>2. /\ pc'[n] = "idle" /\ retransmissions'[n] = 0
          /\ \A m \in Node \ {n} : /\ pc'[m] = pc[m] /\ retries'[m] = retries[m]
                                   /\ retransmissions'[m] = retransmissions[m]
      BY <1>0, <2>1
    <2>3. 0 <= Retries * sent[n]
      BY <1>0, Budget
    <2> QED
      BY <2>1, <2>2, <2>3 DEF RetriesInv
  <1>10. ASSUME NEW n \in Node, Available(n) PROVE RetriesInv'
    BY <1>5, <1>10 DEF Available
  <1>11. CASE UNCHANGED vars
    BY <1>5, <1>11 DEF vars
  <1> QED
    BY <1>1, <1>2, <1>4, <1>6, <1>7, <1>8, <1>9, <1>10, <1>11 DEF Next

(***************************************************************************)
(* What retransmissions() reports stays below Retries for each message     *)
(* handed over, unless setRetries() is given the largest value of an octet *)
(* (then the loop condition retries++ <= _retries never fails, and one     *)
(* message is repeated for ever).                                          *)
(***************************************************************************)
THEOREM RetransmissionsWithinBudget ==
    ASSUME Retries + 1 < OctetSize
    PROVE  Spec => []RetransmissionsBounded
  <1>1. Init => TypeOK /\ HeldData /\ RetriesInv
    <2>1. Init => HeldData
      BY DEF Init, HeldData
    <2>2. Init => RetriesInv
      <3> SUFFICES ASSUME Init, NEW n \in Node
                   PROVE  pc[n] = "idle" /\ retransmissions[n] <= Retries * sent[n]
        BY DEF RetriesInv
      <3>1. pc[n] = "idle" /\ retransmissions[n] = 0 /\ sent[n] = 0
        BY DEF Init
      <3>2. Retries \in Nat
        BY ConstantsAssumption DEF Octet
      <3> QED
        BY <3>1, <3>2
    <2> QED
      BY <2>1, <2>2, TypeInit
  <1>2. TypeOK /\ RetriesInv /\ [Next]_vars => RetriesInv'
    BY RetriesStep
  <1>3. TypeOK /\ RetriesInv => RetransmissionsBounded
    <2> SUFFICES ASSUME TypeOK, RetriesInv, NEW n \in Node
                 PROVE  retransmissions[n] <= Retries * sent[n]
      BY DEF RetransmissionsBounded
    <2> DEFINE budget == Retries * sent[n]
    <2>1. /\ retransmissions[n] \in Nat /\ Retries \in Nat
          /\ sent[n] \in Nat /\ retries[n] \in Nat
      BY ConstantsAssumption DEF TypeOK, Octet
    <2>2. budget \in Nat
      BY <2>1, Budget
    <2>3. /\ pc[n] = "wait" => /\ retries[n] <= Retries + 1
                               /\ retransmissions[n] + Retries + 1 <= budget + retries[n]
          /\ pc[n] # "wait" => retransmissions[n] <= budget
      BY DEF RetriesInv
    <2> HIDE DEF budget
    <2>4. retransmissions[n] <= budget
      BY <2>1, <2>2, <2>3
    <2> QED
      BY <2>4 DEF budget
  <1> QED
    BY <1>1, <1>2, <1>3, TypeStep, HeldStep, PTL DEF Spec

-----------------------------------------------------------------------------
(* Acknowledgement implies delivery.                                        *)

(***************************************************************************)
(* The service conditions: no node loses power, no sketch mixes plain      *)
(* sendto() calls with sendtoWait(), and no sender uses an ID twice.       *)
(***************************************************************************)
Steady == Restartable = {} /\ ~PlainSendto /\ MaxSends < OctetSize

(* A step of some other node, or of another call.                           *)
LogKept(b) ==
    /\ log'[b] = log[b]
    /\ seenIds'[b] = seenIds[b]
    /\ pc[b] = "ackd" => pc'[b] = "ackd" /\ held'[b] = held[b]

(* What a log holds stays in it; only recvfromAck() of its node adds to it. *)
LEMMA LogGrows ==
    ASSUME Restartable = {}, TypeOK, HeldData, [Next]_vars, NEW b \in Node
    PROVE  LogKept(b) \/ Deliver(b)
  <1> USE DEF driverVars, managerVars, callVars, historyVars, LogKept
  <1>1. ASSUME NEW n \in Node, RecvfromAck(n)
        PROVE  LogKept(b)
    BY <1>1 DEF TypeOK, RecvfromAck
  <1>2. ASSUME NEW n \in Node, Deliver(n), n # b
        PROVE  LogKept(b)
    BY <1>2 DEF TypeOK, Deliver
  <1>3. ASSUME NEW n \in Node, GiveUp(n)
        PROVE  LogKept(b)
    BY <1>3 DEF TypeOK, GiveUp, ReturnFromSendtoWait
  <1>4. ASSUME NEW n \in Node, RecvWhileWaiting(n)
        PROVE  LogKept(b)
    BY <1>4 DEF TypeOK, RecvWhileWaiting, ReturnFromSendtoWait
  <1>5. ASSUME NEW n \in Node, NEW to, NEW fits, SendtoWait(n, to, fits)
        PROVE  LogKept(b)
    BY <1>5 DEF TypeOK, SendtoWait
  <1>6. ASSUME NEW n \in Node,
               \/ Available(n) \/ Retransmit(n) \/ ResetRetransmissions(n)
               \/ \E to \in (Node \ {n}) \cup {Broadcast} : Sendto(n, to)
        PROVE  LogKept(b)
    BY <1>6 DEF Available, Retransmit, ResetRetransmissions, Sendto
  <1>7. CASE UNCHANGED vars
    BY <1>7 DEF vars
  <1>8. ASSUME NEW n \in Node PROVE ~Restart(n)
    BY DEF Restart
  <1> QED
    BY <1>1, <1>2, <1>3, <1>4, <1>5, <1>6, <1>7, <1>8 DEF Next

(* What the last step of recvfromAck() does to the log and the IDs seen.    *)
LEMMA DeliverLog ==
    ASSUME TypeOK, HeldData, AckInv, NEW b \in Node, Deliver(b)
    PROVE  /\ held[b] \in Frame
           /\ \A m \in Node, msg \in Nat :
                 m = held[b].from /\ msg = held[b].msg => Delivered(m, b, msg)'
           /\ \A m \in Node, msg \in Nat : Delivered(m, b, msg) => Delivered(m, b, msg)'
           /\ \A m \in Node, msg \in Nat :
                 msg = seenIds'[b][m] /\ msg # 0 => Delivered(m, b, msg)'
           /\ \A n \in Node \ {b} : log'[n] = log[n] /\ seenIds'[n] = seenIds[n]
  <1> DEFINE f == held[b]
  <1>1. /\ f \in Frame /\ f.from \in Node /\ f.msg \in Nat /\ f.id \in Octet
        /\ f.id = f.msg /\ f.id # 0
    BY DataType DEF TypeOK, HeldData, Deliver, AckInv, FrameIsTrue
  <1>2. \A m \in Node : seenIds[b][m] # 0 => Delivered(m, b, seenIds[b][m])
    BY DEF AckInv
  <1>3. CASE AlreadySeen(b, f)
    <2>1. seenIds' = seenIds /\ log' = log
      BY <1>3 DEF Deliver
    <2>2. Delivered(f.from, b, f.msg)
      BY <1>1, <1>2, <1>3 DEF AlreadySeen
    <2> HIDE DEF f
    <2>3. \A m \in Node, msg \in Nat : Delivered(m, b, msg) <=> Delivered(m, b, msg)'
      BY <2>1 DEF Delivered
    <2>4. \A m \in Node, msg \in Nat : m = f.from /\ msg = f.msg => Delivered(m, b, msg)'
      BY <2>2, <2>3
    <2>5. \A m \in Node, msg \in Nat : msg = seenIds'[b][m] /\ msg # 0 => Delivered(m, b, msg)'
      BY <1>2, <2>1, <2>3
    <2> QED
      BY <1>1, <2>1, <2>3, <2>4, <2>5 DEF f
  <1>4. CASE ~AlreadySeen(b, f)
    <2>1. /\ seenIds' = [seenIds EXCEPT ![b][f.from] = f.id]
          /\ log' = [log EXCEPT ![b] = Append(@, <<f.from, f.msg>>)]
      BY <1>4 DEF Deliver
    <2>2. /\ \A n \in Node \ {b} : log'[n] = log[n] /\ seenIds'[n] = seenIds[n]
          /\ seenIds'[b][f.from] = f.id
          /\ \A m \in Node \ {f.from} : seenIds'[b][m] = seenIds[b][m]
      BY <1>1, <2>1 DEF TypeOK
    <2>3. /\ Len(log'[b]) = Len(log[b]) + 1
          /\ Len(log[b]) \in Nat
          /\ \A i \in 1 .. Len(log[b]) : log'[b][i] = log[b][i]
          /\ log'[b][Len(log[b]) + 1] = <<f.from, f.msg>>
      BY <1>1, <2>1 DEF TypeOK
    <2>4. \A m \in Node, msg \in Nat : m = f.from /\ msg = f.msg => Delivered(m, b, msg)'
      <3>1. Len(log'[b]) \in 1 .. Len(log'[b]) /\ log'[b][Len(log'[b])] = <<f.from, f.msg>>
        BY <2>3
      <3> HIDE DEF f
      <3> QED
        BY <3>1 DEF Delivered
    <2>5. \A m \in Node, msg \in Nat : Delivered(m, b, msg) => Delivered(m, b, msg)'
      BY <2>3, SMTT(30) DEF Delivered
    <2>6. \A m \in Node, msg \in Nat : msg = seenIds'[b][m] /\ msg # 0 => Delivered(m, b, msg)'
      <3> SUFFICES ASSUME NEW m \in Node, NEW msg \in Nat, msg = seenIds'[b][m], msg # 0
                   PROVE  Delivered(m, b, msg)'
        OBVIOUS
      <3>1. CASE m = f.from
        BY <1>1, <2>2, <2>4, <3>1
      <3>2. CASE m # f.from
        BY <1>2, <2>2, <2>5, <3>2
      <3> QED
        BY <3>1, <3>2
    <2> QED
      BY <1>1, <2>2, <2>4, <2>5, <2>6
  <1> QED
    BY <1>3, <1>4

(* Once recvfromAck() has taken a message, it or the sketch keeps it.       *)
LEMMA TakenStays ==
    ASSUME Restartable = {}, TypeOK, HeldData, AckInv, [Next]_vars,
           NEW m \in Node, NEW b \in Node, NEW msg \in Nat, Taken(m, b, msg)
    PROVE  Taken(m, b, msg)'
  <1>1. CASE Deliver(b)
    <2>1. CASE Delivered(m, b, msg)
      BY <1>1, <2>1, DeliverLog DEF Taken
    <2>2. CASE InDelivery(m, b, msg)
      <3>1. held[b].from = m /\ held[b].msg = msg
        BY <2>2 DEF InDelivery
      <3> QED
        BY <1>1, <3>1, DeliverLog DEF Taken
    <2> QED
      BY <2>1, <2>2 DEF Taken
  <1>2. CASE LogKept(b)
    BY <1>2 DEF LogKept, Taken, Delivered, InDelivery
  <1> QED
    BY <1>1, <1>2, LogGrows

(* AckInv and AckedImpliesDelivered after a step, part by part.             *)
LEMMA AckFromParts ==
    ASSUME TypeOK',
           \A n \in Node : /\ lastSequenceNumber'[n] = sent'[n] /\ sent'[n] <= MaxSends
                           /\ pc'[n] = "wait" => cur'[n].id = cur'[n].msg /\ cur'[n].id # 0,
           \A m, n \in Node, msg \in Nat :
              msg = seenIds'[n][m] /\ msg # 0 => Delivered(m, n, msg)',
           \A n \in Node, f \in Frame \cup {NoFrame} :
              f \in {held'[n], rxBuf'[n], fifo'[n]} => FrameIsTrue(f)',
           \A n, to \in Node, msg \in Nat :
              outcome'[n].ok /\ outcome'[n].to = to /\ outcome'[n].msg = msg => Taken(n, to, msg)'
    PROVE  AckInv' /\ AckedImpliesDelivered'
  <1>1. ASSUME NEW n \in Node
        PROVE  FrameIsTrue(held[n])' /\ FrameIsTrue(rxBuf[n])' /\ FrameIsTrue(fifo[n])'
    <2>1. \A f \in Frame \cup {NoFrame} : f \in {held'[n], rxBuf'[n], fifo'[n]} =>
             /\ f # NoFrame /\ f.ack => f.to \in Node /\ Taken(f.to, f.from, f.id)'
             /\ Data(f) => f.id = f.msg /\ f.id # 0
      BY DEF FrameIsTrue
    <2>2. {held'[n], rxBuf'[n], fifo'[n]} \subseteq Frame \cup {NoFrame}
      BY DEF TypeOK
    <2> QED
      BY <2>1, <2>2 DEF FrameIsTrue, Taken, Delivered, InDelivery, Data
  <1>2. ASSUME NEW n \in Node, NEW m \in Node, seenIds'[n][m] # 0
        PROVE  Delivered(m, n, seenIds[n][m])'
    <2>1. seenIds'[n][m] \in Nat
      BY ConstantsAssumption DEF TypeOK, Octet
    <2> QED
      BY <1>2, <2>1 DEF Delivered
  <1>3. AckInv'
    BY <1>1, <1>2 DEF AckInv
  <1>4. AckedImpliesDelivered'
    <2> SUFFICES ASSUME NEW n \in Node, NEW to \in Node, outcome'[n].ok, outcome'[n].to = to
                 PROVE  (Delivered(n, to, outcome[n].msg) \/ InDelivery(n, to, outcome[n].msg))'
      BY DEF AckedImpliesDelivered
    <2>1. outcome'[n].msg \in Nat
      BY DEF TypeOK, Outcome
    <2>2. \A msg \in Nat : outcome'[n].msg = msg => Taken(n, to, msg)'
      OBVIOUS
    <2> QED
      BY <2>1, <2>2 DEF Taken, Delivered, InDelivery
  <1> QED
    BY <1>3, <1>4

(***************************************************************************)
(* Every step preserves the truth of acknowledgements: new frames are      *)
(* numbered like their message, and what is acknowledged has been taken.   *)
(***************************************************************************)
LEMMA AckStep ==
    ASSUME Steady, TypeOK, HeldData, AckInv, AckedImpliesDelivered, [Next]_vars
    PROVE  AckInv' /\ AckedImpliesDelivered'
  <1> USE DEF driverVars, managerVars, callVars, historyVars
  <1>1. TypeOK'
    BY TypeStep
  <1>2. \A m, n \in Node, msg \in Nat : Taken(m, n, msg) => Taken(m, n, msg)'
    BY TakenStays DEF Steady
  <1>3. \A f \in Frame \cup {NoFrame} : FrameIsTrue(f) => FrameIsTrue(f)'
    <2> SUFFICES ASSUME NEW f \in Frame \cup {NoFrame}, FrameIsTrue(f)
                 PROVE  FrameIsTrue(f)'
      OBVIOUS
    <2>1. Data(f)' <=> Data(f)
      BY DEF Data
    <2>2. f # NoFrame /\ f.ack => f.to \in Node /\ Taken(f.to, f.from, f.id)'
      <3> SUFFICES ASSUME f # NoFrame, f.ack PROVE f.to \in Node /\ Taken(f.to, f.from, f.id)'
        OBVIOUS
      <3>1. f.to \in Node /\ f.from \in Node /\ f.id \in Nat /\ Taken(f.to, f.from, f.id)
        BY ConstantsAssumption DEF FrameIsTrue, Frame, Octet
      <3> QED
        BY <1>2, <3>1
    <2> QED
      BY <2>1, <2>2 DEF FrameIsTrue
  <1>4. \A m, n \in Node, msg \in Nat : msg = seenIds'[n][m] /\ msg # 0 => Delivered(m, n, msg)'
    <2> SUFFICES ASSUME NEW m \in Node, NEW n \in Node, NEW msg \in Nat,
                        msg = seenIds'[n][m], msg # 0
                 PROVE  Delivered(m, n, msg)'
      OBVIOUS
    <2>1. CASE Deliver(n)
      BY <2>1, DeliverLog
    <2>2. CASE LogKept(n)
      <3>1. log'[n] = log[n] /\ seenIds'[n] = seenIds[n]
        BY <2>2 DEF LogKept
      <3>2. Delivered(m, n, msg)
        BY <3>1 DEF AckInv
      <3> QED
        BY <3>1, <3>2 DEF Delivered
    <2>3. LogKept(n) \/ Deliver(n)
      BY LogGrows DEF Steady
    <2> QED
      BY <2>1, <2>2, <2>3
  <1>5. \A n \in Node : /\ {held[n], rxBuf[n], fifo[n]} \subseteq Frame \cup {NoFrame}
                        /\ \A f \in {held[n], rxBuf[n], fifo[n]} : FrameIsTrue(f)
    BY DEF TypeOK, AckInv
  <1>6. FrameIsTrue(NoFrame)
    BY DEF FrameIsTrue, Data
  <1>7. ASSUME \A n \in Node :
                  /\ lastSequenceNumber'[n] = sent'[n] /\ sent'[n] <= MaxSends
                  /\ pc'[n] = "wait" => cur'[n].id = cur'[n].msg /\ cur'[n].id # 0,
               \A n \in Node, f \in Frame \cup {NoFrame} :
                  f \in {held'[n], rxBuf'[n], fifo'[n]} => FrameIsTrue(f) \/ FrameIsTrue(f)',
               \A n, to \in Node, msg \in Nat :
                  outcome'[n].ok /\ outcome'[n].to = to /\ outcome'[n].msg = msg
                     => Taken(n, to, msg)
        PROVE  AckInv' /\ AckedImpliesDelivered'
    BY <1>1, <1>2, <1>3, <1>4, <1>7, AckFromParts
  <1>8. \A n, to \in Node, msg \in Nat :
           outcome[n].ok /\ outcome[n].to = to /\ outcome[n].msg = msg => Taken(n, to, msg)
    BY DEF AckedImpliesDelivered, Taken, Steady
  <1>9. \A n \in Node :
           /\ lastSequenceNumber[n] = sent[n] /\ sent[n] <= MaxSends /\ sent[n] \in Nat
           /\ pc[n] = "wait" => cur[n].id = cur[n].msg /\ cur[n].id # 0
    BY DEF AckInv, TypeOK
  <1>10. ASSUME NEW n \in Node, Available(n) PROVE AckInv' /\ AckedImpliesDelivered'
    <2>1. \A m \in Node : /\ held'[m] = held[m]
                          /\ rxBuf'[m] \in {rxBuf[m], fifo[m]}
                          /\ fifo'[m] \in {fifo[m], NoFrame}
      BY <1>10 DEF TypeOK, Available, Polled, Drained
    <2> QED
      BY <1>5, <1>6, <1>7, <1>8, <1>9, <1>10, <2>1 DEF Available
  <1>11. ASSUME NEW n \in Node, NEW to \in (Node \ {n}) \cup {Broadcast},
                NEW fits \in Fits, SendtoWait(n, to, fits)
         PROVE  AckInv' /\ AckedImpliesDelivered'
    <2> DEFINE id == NextSequenceNumber(n)
               msg == sent[n] + 1
               f == DataFrame(n, to, id, msg)
    <2>1. msg <= MaxSends /\ msg \in Nat /\ msg # 0 /\ id = msg
      <3>1. sent[n] \in Nat /\ sent[n] < MaxSends /\ MaxSends \in Nat
        BY <1>11, ConstantsAssumption DEF TypeOK, SendtoWait
      <3>2. lastSequenceNumber[n] + 1 \in 0 .. OctetSize - 1 /\ OctetSize \in Nat \ {0}
        BY <1>9, <3>1, ConstantsAssumption DEF Steady
      <3>3. (lastSequenceNumber[n] + 1) % OctetSize = lastSequenceNumber[n] + 1
        BY <3>2
      <3> QED
        BY <1>9, <3>1, <3>3 DEF NextSequenceNumber
    <2>2. FrameIsTrue(f) /\ f.id = id /\ f.msg = msg
      BY <2>1 DEF FrameIsTrue, Data, DataFrame
    <2>3. \A m \in Node : fifo'[m] \in {f, fifo[m], NoFrame}
      BY <1>11, TransmitEffect DEF SendtoWait
    <2> HIDE DEF f, id, msg
    <2>4. /\ sent' = [sent EXCEPT ![n] = msg]
          /\ lastSequenceNumber' = [lastSequenceNumber EXCEPT ![n] = id]
          /\ UNCHANGED <<rxBuf, held>>
          /\ \/ /\ to = Broadcast
                /\ outcome' = [outcome EXCEPT ![n] = [to |-> to, msg |-> msg, ok |-> TRUE]]
                /\ UNCHANGED <<pc, cur>>
             \/ /\ pc' = [pc EXCEPT ![n] = "wait"]
                /\ cur' = [cur EXCEPT ![n] = [to |-> to, id |-> id, msg |-> msg, fits |-> fits]]
                /\ UNCHANGED outcome
      BY <1>11 DEF SendtoWait, id, msg
    <2>5. \A m \in Node : lastSequenceNumber'[m] = sent'[m] /\ sent'[m] <= MaxSends
      BY <1>9, <2>1, <2>4 DEF TypeOK
    <2>6. \A m \in Node : pc'[m] = "wait" => cur'[m].id = cur'[m].msg /\ cur'[m].id # 0
      BY <1>9, <2>1, <2>4 DEF TypeOK
    <2>7. \A m, k \in Node, j \in Nat :
             outcome'[m].ok /\ outcome'[m].to = k /\ outcome'[m].msg = j => Taken(m, k, j)
      <3>1. outcome \in [Node -> Outcome]
        BY DEF TypeOK
      <3>2. CASE /\ to = Broadcast
                 /\ outcome' = [outcome EXCEPT ![n] = [to |-> to, msg |-> msg, ok |-> TRUE]]
        <4>1. outcome'[n].to \notin Node /\ \A m \in Node \ {n} : outcome'[m] = outcome[m]
          BY <3>1, <3>2, ConstantsAssumption
        <4> QED
          BY <1>8, <4>1
      <3>3. CASE UNCHANGED outcome
        BY <1>8, <3>3
      <3> QED
        BY <2>4, <3>2, <3>3
    <2>8. \A m \in Node, g \in Frame \cup {NoFrame} :
             g \in {held'[m], rxBuf'[m], fifo'[m]} => FrameIsTrue(g)
      BY <1>5, <1>6, <2>2, <2>3, <2>4
    <2> QED
      BY <1>7, <2>5, <2>6, <2>7, <2>8
  <1>12. ASSUME NEW n \in Node, Retransmit(n) PROVE AckInv' /\ AckedImpliesDelivered'
    <2> DEFINE f == RetransmittedFrame(n)
    <2>1. FrameIsTrue(f)
      BY <1>9, <1>12 DEF Retransmit, FrameIsTrue, Data, RetransmittedFrame, DataFrame
    <2>2. \A m \in Node : fifo'[m] \in {f, fifo[m], NoFrame}
      BY <1>12, TransmitEffect DEF Retransmit
    <2> HIDE DEF f
    <2>3. UNCHANGED <<lastSequenceNumber, rxBuf, held, sent, pc, cur, outcome>>
      BY <1>12 DEF Retransmit
    <2> QED
      BY <1>5, <1>6, <1>7, <1>8, <1>9, <2>1, <2>2, <2>3
  <1>13. ASSUME NEW n \in Node, GiveUp(n) PROVE AckInv' /\ AckedImpliesDelivered'
    <2>1. UNCHANGED <<driverVars, lastSequenceNumber, held, sent>>
      BY <1>13 DEF GiveUp
    <2>2. \A m \in Node : pc'[m] = "wait" => pc[m] = "wait" /\ cur'[m] = cur[m]
      BY <1>13 DEF TypeOK, GiveUp, ReturnFromSendtoWait
    <2>3. \A m \in Node : outcome'[m] = outcome[m] \/ ~outcome'[m].ok
      BY <1>13 DEF TypeOK, GiveUp, ReturnFromSendtoWait
    <2> QED
      BY <1>5, <1>7, <1>8, <1>9, <2>1, <2>2, <2>3
  <1>14. ASSUME NEW n \in Node, RecvWhileWaiting(n) PROVE AckInv' /\ AckedImpliesDelivered'
    <2> DEFINE g == Polled(n)
               f == AckFrame(n, g)
    <2>1. /\ g \in {rxBuf[n], fifo[n]} /\ g # NoFrame /\ g \in Frame
          /\ FrameIsTrue(g) /\ pc[n] = "wait"
      BY <1>5, <1>14 DEF RecvWhileWaiting, Polled
    <2>2. UNCHANGED <<lastSequenceNumber, held, sent>> /\ rxBuf' = [rxBuf EXCEPT ![n] = NoFrame]
      BY <1>14 DEF RecvWhileWaiting
    <2>3. \A m \in Node : pc'[m] = "wait" => pc[m] = "wait" /\ cur'[m] = cur[m]
      BY <1>14 DEF TypeOK, RecvWhileWaiting, ReturnFromSendtoWait
    <2>4. fifo' = Drained(n) \/ (IsRepeatedRequest(n, g) /\ Transmit(n, f))
      BY <1>14 DEF RecvWhileWaiting, Acknowledge
    <2>5. \/ outcome' = outcome
          \/ /\ IsOurAck(n, g)
             /\ outcome' = [outcome EXCEPT ![n] = [to |-> cur[n].to, msg |-> cur[n].msg, ok |-> TRUE]]
      BY <1>14 DEF RecvWhileWaiting, ReturnFromSendtoWait
    <2> HIDE DEF g
    <2>6. \A m \in Node : /\ fifo'[m] \in {f, fifo[m], NoFrame}
                          /\ fifo'[m] = f => fifo'[m] = fifo[m] \/ IsRepeatedRequest(n, g) \/ f = NoFrame
      <3> HIDE DEF f
      <3>1. CASE fifo' = Drained(n)
        BY <3>1 DEF Drained, TypeOK
      <3>2. CASE IsRepeatedRequest(n, g) /\ Transmit(n, f)
        BY <3>2, TransmitEffect
      <3> QED
        BY <2>4, <3>1, <3>2
    <2>7. IsRepeatedRequest(n, g) => FrameIsTrue(f)
      <3> SUFFICES ASSUME IsRepeatedRequest(n, g) PROVE FrameIsTrue(f)
        OBVIOUS
      <3>1. g.id # 0 /\ g.id = seenIds[n][g.from] /\ g.from \in Node
        BY <2>1 DEF FrameIsTrue, Data, IsRepeatedRequest, AlreadySeen, Frame
      <3>2. Delivered(g.from, n, g.id)
        BY <3>1 DEF AckInv
      <3> QED
        BY <3>1, <3>2 DEF FrameIsTrue, Taken, Data, AckFrame
    <2>8. \A m \in Node, h \in Frame \cup {NoFrame} :
             h \in {held'[m], rxBuf'[m], fifo'[m]} => FrameIsTrue(h)
      <3> HIDE DEF f
      <3>1. \A m \in Node : held'[m] = held[m] /\ rxBuf'[m] \in {rxBuf[m], NoFrame}
        BY <2>2 DEF TypeOK
      <3> QED
        BY <1>5, <1>6, <2>6, <2>7, <3>1
    <2>9. \A m, k \in Node, j \in Nat :
             outcome'[m].ok /\ outcome'[m].to = k /\ outcome'[m].msg = j => Taken(m, k, j)
      <3>1. IsOurAck(n, g) => Taken(n, cur[n].to, cur[n].msg)
        BY <1>9, <2>1 DEF IsOurAck, FrameIsTrue
      <3> QED
        <4>1. CASE outcome' = outcome
          BY <1>8, <4>1
        <4>2. CASE /\ IsOurAck(n, g)
                   /\ outcome' = [outcome EXCEPT ![n] = [to |-> cur[n].to, msg |-> cur[n].msg, ok |-> TRUE]]
          <5>1. /\ outcome'[n].to = cur[n].to /\ outcome'[n].msg = cur[n].msg
                /\ \A m \in Node \ {n} : outcome'[m] = outcome[m]
            BY <4>2 DEF TypeOK
          <5> QED
            BY <1>8, <3>1, <4>2, <5>1
        <4> QED
          BY <2>5, <4>1, <4>2
    <2> QED
      BY <1>7, <1>9, <2>2, <2>3, <2>8, <2>9
  <1>15. ASSUME NEW n \in Node, RecvfromAck(n) PROVE AckInv' /\ AckedImpliesDelivered'
    <2> DEFINE g == Polled(n)
               f == AckFrame(n, g)
    <2>1. /\ g \in {rxBuf[n], fifo[n]} /\ g # NoFrame /\ g \in Frame
          /\ FrameIsTrue(g)
      BY <1>5, <1>15 DEF RecvfromAck, Polled
    <2>2. UNCHANGED <<lastSequenceNumber, sent, cur, outcome>> /\ rxBuf' = [rxBuf EXCEPT ![n] = NoFrame]
      BY <1>15 DEF RecvfromAck
    <2>3. \A m \in Node : pc'[m] = "wait" => pc[m] = "wait"
      BY <1>15 DEF TypeOK, RecvfromAck
    <2>4. \/ fifo' = Drained(n)
          \/ ~g.ack /\ Transmit(n, f) /\ pc' = [pc EXCEPT ![n] = "ackd"] /\ held' = [held EXCEPT ![n] = g]
      BY <1>15 DEF RecvfromAck, Acknowledge
    <2>5. \A m \in Node : held'[m] \in {held[m], g}
      BY <1>15 DEF TypeOK, RecvfromAck
    <2> HIDE DEF g
    <2>6. CASE fifo' = Drained(n)
      <3>1. \A m \in Node : rxBuf'[m] \in {rxBuf[m], NoFrame} /\ fifo'[m] \in {fifo[m], NoFrame}
        BY <2>2, <2>6 DEF TypeOK, Drained
      <3> QED
        BY <1>5, <1>6, <1>7, <1>8, <1>9, <2>1, <2>2, <2>3, <2>5, <3>1
    <2>7. CASE ~g.ack /\ Transmit(n, f) /\ pc' = [pc EXCEPT ![n] = "ackd"] /\ held' = [held EXCEPT ![n] = g]
      <3>1. g.id = g.msg /\ g.from \in Node
        BY <2>1, <2>7 DEF FrameIsTrue, Data, Frame
      <3>2. pc'[n] = "ackd" /\ held'[n] = g
        BY <2>7 DEF TypeOK
      <3>3. PICK h \in Frame : h = g
        BY <2>1
      <3>4. InDelivery(h.from, n, h.id)'
        BY <3>1, <3>2, <3>3 DEF InDelivery
      <3>5. FrameIsTrue(AckFrame(n, h))'
        BY <3>1, <3>3, <3>4 DEF FrameIsTrue, Taken, Data, AckFrame
      <3>6. \A m \in Node : fifo'[m] \in {AckFrame(n, h), fifo[m], NoFrame}
        BY <2>7, <3>3, TransmitEffect
      <3>7. \A m \in Node : rxBuf'[m] \in {rxBuf[m], NoFrame}
        BY <2>2 DEF TypeOK
      <3>8. \A m \in Node, k \in Frame \cup {NoFrame} :
               k \in {held'[m], rxBuf'[m], fifo'[m]} => FrameIsTrue(k) \/ FrameIsTrue(k)'
        <4> SUFFICES ASSUME NEW m \in Node, NEW k \in Frame \cup {NoFrame},
                            k \in {held'[m], rxBuf'[m], fifo'[m]}
                     PROVE  FrameIsTrue(k) \/ FrameIsTrue(k)'
          OBVIOUS
        <4>1. k \in {held[m], g, rxBuf[m], fifo[m], NoFrame} \/ k = AckFrame(n, h)
          BY <2>5, <3>6, <3>7
        <4>2. CASE k \in {held[m], g, rxBuf[m], fifo[m], NoFrame}
          BY <1>5, <1>6, <2>1, <4>2
        <4>3. CASE k = AckFrame(n, h)
          BY <3>5, <4>3
        <4> QED
          BY <4>1, <4>2, <4>3
      <3> QED
        BY <1>7, <1>8, <1>9, <2>2, <2>3, <3>8
    <2> QED
      BY <2>4, <2>6, <2>7
  <1>16. ASSUME NEW n \in Node, Deliver(n) PROVE AckInv' /\ AckedImpliesDelivered'
    <2>1. UNCHANGED <<lastSequenceNumber, sent, cur, outcome, rxBuf, fifo>>
      BY <1>16 DEF Deliver
    <2>2. \A m \in Node : /\ pc'[m] = "wait" => pc[m] = "wait"
                          /\ held'[m] \in {held[m], NoFrame}
      BY <1>16 DEF TypeOK, Deliver
    <2> QED
      BY <1>5, <1>6, <1>7, <1>8, <1>9, <2>1, <2>2
  <1>17. ASSUME NEW n \in Node, ResetRetransmissions(n) PROVE AckInv' /\ AckedImpliesDelivered'
    BY <1>5, <1>7, <1>8, <1>9, <1>17 DEF ResetRetransmissions
  <1>18. ASSUME NEW n \in Node PROVE ~Restart(n) /\ \A to : ~Sendto(n, to)
    BY DEF Steady, Restart, Sendto
  <1>19. CASE UNCHANGED vars
    BY <1>5, <1>7, <1>8, <1>9, <1>19 DEF vars
  <1> QED
    BY <1>10, <1>11, <1>12, <1>13, <1>14, <1>15, <1>16, <1>17, <1>18, <1>19 DEF Next

(* Nothing is acknowledged when all nodes are switched on.                  *)
LEMMA AckInit == Init => TypeOK /\ HeldData /\ AckInv /\ AckedImpliesDelivered
  <1>1. Init => HeldData
    BY DEF Init, HeldData
  <1>2. Init => AckInv
    <2>1. FrameIsTrue(NoFrame)
      BY DEF FrameIsTrue, Data
    <2>2. MaxSends \in Nat
      BY ConstantsAssumption
    <2> SUFFICES ASSUME Init, NEW n \in Node
                 PROVE  /\ lastSequenceNumber[n] = sent[n]
                        /\ sent[n] <= MaxSends
                        /\ pc[n] = "wait" => cur[n].id = cur[n].msg /\ cur[n].id # 0
                        /\ \A m \in Node : seenIds[n][m] # 0 => Delivered(m, n, seenIds[n][m])
                        /\ FrameIsTrue(held[n])
                        /\ FrameIsTrue(rxBuf[n])
                        /\ FrameIsTrue(fifo[n])
      BY DEF AckInv
    <2>3. /\ lastSequenceNumber[n] = 0 /\ sent[n] = 0 /\ pc[n] = "idle"
          /\ \A m \in Node : seenIds[n][m] = 0
          /\ held[n] = NoFrame /\ rxBuf[n] = NoFrame /\ fifo[n] = NoFrame
      BY DEF Init
    <2> QED
      BY <2>1, <2>2, <2>3
  <1>3. Init => AckedImpliesDelivered
    BY DEF Init, AckedImpliesDelivered, NoOutcome
  <1> QED
    BY <1>1, <1>2, <1>3, TypeInit

(***************************************************************************)
(* While the service conditions hold, sendtoWait() returning true means    *)
(* that recvfromAck() of the addressed node has taken this very message:   *)
(* no stale ACK, no ACK of a third node and no re-acknowledgement is ever  *)
(* mistaken for it.                                                        *)
(***************************************************************************)
THEOREM AcknowledgedIsDelivered ==
    ASSUME Steady
    PROVE  Spec => []AckedImpliesDelivered
  <1>1. TypeOK /\ HeldData /\ AckInv /\ AckedImpliesDelivered /\ [Next]_vars
           => AckInv' /\ AckedImpliesDelivered'
    BY AckStep
  <1> QED
    BY <1>1, AckInit, TypeStep, HeldStep, PTL DEF Spec

-----------------------------------------------------------------------------
(* The abstract service.                                                    *)

\* What is known of RHReliableDatagram.
LibraryInv == TypeOK /\ HeldData /\ OrderInv /\ InOrder /\ AckInv /\ AckedImpliesDelivered

\* A running sendtoWait() is for one node.
Addressed == \A n \in Node : pc[n] = "wait" => cur[n].to \in Node

ServiceStep == [Service!Next]_<<sent, TakenBy, log, outcome>>

LEMMA LibraryInvariant ==
    ASSUME Steady
    PROVE  Spec => []LibraryInv
  <1>1. Init => LibraryInv
    BY OrderInit, AckInit DEF LibraryInv
  <1>2. LibraryInv /\ [Next]_vars => LibraryInv'
    BY TypeStep, HeldStep, OrderStep, AckStep DEF LibraryInv
  <1> QED
    BY <1>1, <1>2, PTL DEF Spec

LEMMA AddressedStep ==
    ASSUME TypeOK, Addressed, [Next]_vars
    PROVE  Addressed'
  <1> USE DEF driverVars, managerVars, callVars, historyVars
  <1> SUFFICES ASSUME NEW m \in Node, pc'[m] = "wait" PROVE cur'[m].to \in Node
    BY DEF Addressed
  <1>1. ASSUME pc'[m] = pc[m], cur'[m] = cur[m] PROVE cur'[m].to \in Node
    BY <1>1 DEF Addressed
  <1>2. ASSUME NEW n \in Node, NEW to, NEW fits, SendtoWait(n, to, fits),
               to \in Node \cup {Broadcast}
        PROVE  cur'[m].to \in Node
    BY <1>1, <1>2 DEF SendtoWait, TypeOK
  <1>3. ASSUME NEW n \in Node, GiveUp(n) \/ RecvWhileWaiting(n) PROVE cur'[m].to \in Node
    BY <1>1, <1>3 DEF GiveUp, RecvWhileWaiting, ReturnFromSendtoWait, TypeOK
  <1>4. ASSUME NEW n \in Node, RecvfromAck(n) \/ Deliver(n) \/ Restart(n)
        PROVE  cur'[m].to \in Node
    BY <1>1, <1>4 DEF RecvfromAck, Deliver, Restart, TypeOK
  <1>5. ASSUME UNCHANGED <<pc, cur>> PROVE cur'[m].to \in Node
    BY <1>1, <1>5
  <1>6. ASSUME NEW n \in Node,
               Available(n) \/ Retransmit(n) \/ ResetRetransmissions(n)
                  \/ \E to \in (Node \ {n}) \cup {Broadcast} : Sendto(n, to)
        PROVE  cur'[m].to \in Node
    BY <1>5, <1>6 DEF Available, Retransmit, ResetRetransmissions, Sendto
  <1>7. UNCHANGED vars => UNCHANGED <<pc, cur>>
    BY DEF vars
  <1> QED
    BY <1>2, <1>3, <1>4, <1>5, <1>6, <1>7 DEF Next

(* Where recvfromAck() neither begins nor ends.                             *)
LEMMA TakenByKept ==
    ASSUME UNCHANGED <<log, seenIds>>,
           \A m \in Node : /\ pc'[m] = "ackd" <=> pc[m] = "ackd"
                           /\ pc[m] = "ackd" => held'[m] = held[m]
    PROVE  TakenBy' = TakenBy
  BY DEF TakenBy, AlreadySeen

(* A message that is not seen yet is later than all that were given out.    *)
LEMMA NewIsLater ==
    ASSUME LibraryInv, NEW n \in Node, NEW f \in Frame, Data(f), PendingFollowsLog(n, f),
           ~AlreadySeen(n, f), FrameIsTrue(f)
    PROVE  /\ f.from \in Node /\ f.msg \in 1 .. sent[f.from]
           /\ \A i \in DOMAIN log[n] : log[n][i][1] = f.from => log[n][i][2] < f.msg
  <1>1. /\ f.from \in Node /\ f.msg \in Nat /\ f.msg # 0 /\ sent[f.from] \in Nat
        /\ log[n] \in Seq(Node \X Nat)
    BY DataType DEF FrameIsTrue, LibraryInv, TypeOK
  <1>2. f.msg <= sent[f.from]
    BY DEF PendingFollowsLog
  <1>3. ASSUME NEW i \in DOMAIN log[n], log[n][i][1] = f.from PROVE log[n][i][2] < f.msg
    <2>1. i \in 1 .. Len(log[n]) /\ log[n][i] \in Node \X Nat
      BY <1>1
    <2>2. PICK k \in Nat : k = log[n][i][2]
      BY <2>1
    <2>3. k <= f.msg /\ (k = f.msg => seenIds[n][f.from] = f.id)
      BY <1>3, <2>1, <2>2 DEF PendingFollowsLog
    <2>4. k # f.msg
      BY <2>3 DEF AlreadySeen
    <2>5. k < f.msg
      BY <1>1, <2>3, <2>4
    <2> QED
      BY <2>2, <2>5
  <1> QED
    BY <1>1, <1>2, <1>3

(* What a true acknowledgement says has been taken.                         *)
LEMMA TakenIsHad ==
    ASSUME LibraryInv, NEW m \in Node, NEW b \in Node, NEW k \in Nat, Taken(m, b, k)
    PROVE  \E i \in DOMAIN TakenBy[b] : TakenBy[b][i] = <<m, k>>
  <1>1. log[b] \in Seq(Node \X Nat)
    BY DEF LibraryInv, TypeOK
  <1>2. CASE Delivered(m, b, k)
    <2>1. PICK i \in 1 .. Len(log[b]) : log[b][i] = <<m, k>>
      BY <1>2 DEF Delivered
    <2>2. TakenBy[b] = log[b] \/ \E x : x \in Node \X Nat /\ TakenBy[b] = Append(log[b], x)
      <3>1. pc[b] = "ackd" => <<held[b].from, held[b].msg>> \in Node \X Nat
        BY DataType DEF LibraryInv, TypeOK, HeldData
      <3> QED
        BY <3>1 DEF TakenBy
    <2>3. ASSUME NEW x \in Node \X Nat
          PROVE  i \in DOMAIN Append(log[b], x) /\ Append(log[b], x)[i] = <<m, k>>
      BY <1>1, <2>1
    <2>4. CASE TakenBy[b] = log[b]
      <3>1. i \in DOMAIN log[b]
        BY <1>1
      <3> QED
        BY <2>1, <2>4, <3>1
    <2>5. ASSUME NEW x \in Node \X Nat, TakenBy[b] = Append(log[b], x)
          PROVE  \E j \in DOMAIN TakenBy[b] : TakenBy[b][j] = <<m, k>>
      BY <2>3, <2>5, Zenon
    <2> QED
      BY <2>2, <2>4, <2>5
  <1>3. CASE InDelivery(m, b, k) /\ ~Delivered(m, b, k)
    <2> PICK f : f = held[b]
      OBVIOUS
    <2>1. /\ pc[b] = "ackd" /\ f.from = m /\ f.msg = k /\ f \in Frame /\ Data(f)
          /\ FrameIsTrue(f)
      BY <1>3, DataType DEF InDelivery, LibraryInv, HeldData, AckInv, TypeOK
    <2>2. f.id = f.msg /\ f.id # 0
      BY <2>1 DEF FrameIsTrue
    <2>3. ~AlreadySeen(b, f)
      BY <1>3, <2>1, <2>2 DEF AlreadySeen, LibraryInv, AckInv
    <2>4. TakenBy[b] = Append(log[b], <<m, k>>)
      BY <2>1, <2>3 DEF TakenBy
    <2>5. /\ Len(log[b]) + 1 \in DOMAIN Append(log[b], <<m, k>>)
          /\ Append(log[b], <<m, k>>)[Len(log[b]) + 1] = <<m, k>>
      BY <1>1
    <2> QED
      BY <2>4, <2>5
  <1> QED
    BY <1>2, <1>3 DEF Taken

(* sendtoWait() returns what it may.                                        *)
LEMMA ReturnService ==
    ASSUME LibraryInv, Addressed, NEW n \in Node, NEW ok \in BOOLEAN,
           pc[n] = "wait", ReturnFromSendtoWait(n, ok),
           ok => Taken(n, cur[n].to, cur[n].msg), UNCHANGED <<sent, log, seenIds, held>>
    PROVE  ServiceStep
  <1>1. /\ cur[n].to \in Node /\ cur[n].msg = sent[n] /\ sent[n] \in Nat
    BY DEF Addressed, LibraryInv, OrderInv, TypeOK
  <1>2. TakenBy' = TakenBy
    BY TakenByKept DEF ReturnFromSendtoWait, LibraryInv, TypeOK
  <1>3. Service!Return(n, cur[n].to, ok)
    BY <1>1, <1>2, TakenIsHad DEF Service!Return, Service!HasTaken, ReturnFromSendtoWait
  <1> QED
    BY <1>1, <1>3 DEF ServiceStep, Service!Next

(* Steps that the layer above does not see.                                 *)
LEMMA HiddenService ==
    ASSUME UNCHANGED <<sent, log, seenIds, outcome>>,
           \A m \in Node : /\ pc'[m] = "ackd" <=> pc[m] = "ackd"
                           /\ pc[m] = "ackd" => held'[m] = held[m]
    PROVE  ServiceStep
  BY TakenByKept DEF ServiceStep

LEMMA SendService ==
    ASSUME LibraryInv, NEW n \in Node, NEW to, NEW fits, SendtoWait(n, to, fits)
    PROVE  ServiceStep
  <1>1. TakenBy' = TakenBy
    BY TakenByKept DEF SendtoWait, managerVars, LibraryInv, TypeOK
  <1>2. Service!Send(n)
    BY <1>1 DEF SendtoWait, Service!Send, LibraryInv, TypeOK
  <1> QED
    BY <1>2 DEF ServiceStep, Service!Next

(* recvfromAck() takes what it will find to be new.                         *)
LEMMA RecvfromAckService ==
    ASSUME LibraryInv, NEW n \in Node, RecvfromAck(n)
    PROVE  ServiceStep
  <1> PICK f : f = Polled(n)
    OBVIOUS
  <1>1. UNCHANGED <<sent, log, outcome, seenIds>> /\ pc[n] = "idle"
    BY DEF RecvfromAck, managerVars, historyVars
  <1>2. CASE f.ack
    <2>1. UNCHANGED <<pc, held>>
      BY <1>2 DEF RecvfromAck
    <2> QED
      BY <1>1, <2>1, HiddenService
  <1>3. CASE ~f.ack
    <2>1. /\ pc' = [pc EXCEPT ![n] = "ackd"] /\ held' = [held EXCEPT ![n] = f]
          /\ f \in {fifo[n], rxBuf[n]} /\ f # NoFrame
      BY <1>3 DEF RecvfromAck, Polled
    <2>2. /\ f \in Frame /\ Data(f) /\ PendingFollowsLog(n, f) /\ FrameIsTrue(f)
      BY <1>3, <2>1 DEF LibraryInv, TypeOK, Data, OrderInv, AckInv
    <2>3. /\ pc'[n] = "ackd" /\ held'[n] = f
          /\ \A m \in Node \ {n} : pc'[m] = pc[m] /\ held'[m] = held[m]
      BY <2>1 DEF LibraryInv, TypeOK
    <2>4. \A m \in Node \ {n} : TakenBy'[m] = TakenBy[m]
      BY <1>1, <2>3 DEF TakenBy, AlreadySeen
    <2>5. /\ TakenBy[n] = log[n]
          /\ TakenBy'[n] = IF AlreadySeen(n, f) THEN log[n]
                           ELSE Append(log[n], <<f.from, f.msg>>)
      BY <1>1, <2>3 DEF TakenBy, AlreadySeen
    <2>6. CASE AlreadySeen(n, f)
      <3>1. TakenBy' = TakenBy
        BY <2>4, <2>5, <2>6 DEF TakenBy
      <3> QED
        BY <1>1, <3>1 DEF ServiceStep
    <2>7. CASE ~AlreadySeen(n, f)
      <3>1. TakenBy' = [TakenBy EXCEPT ![n] = Append(@, <<f.from, f.msg>>)]
        BY <2>4, <2>5, <2>7 DEF TakenBy
      <3>2. /\ f.from \in Node /\ f.msg \in 1 .. sent[f.from]
            /\ \A i \in DOMAIN log[n] : log[n][i][1] = f.from => log[n][i][2] < f.msg
        BY <2>2, <2>7, NewIsLater
      <3>3. Service!Take(n, f.from, f.msg)
        BY <1>1, <2>5, <3>1, <3>2 DEF Service!Take
      <3> QED
        BY <3>2, <3>3 DEF ServiceStep, Service!Next
    <2> QED
      BY <2>6, <2>7
  <1> QED
    BY <1>2, <1>3

(* ... and gives that out.                                                  *)
LEMMA DeliverService ==
    ASSUME LibraryInv, NEW n \in Node, Deliver(n)
    PROVE  ServiceStep
  <1> PICK f : f = held[n]
    OBVIOUS
  <1>1. /\ pc[n] = "ackd" /\ pc' = [pc EXCEPT ![n] = "idle"]
        /\ held' = [held EXCEPT ![n] = NoFrame] /\ UNCHANGED <<sent, outcome>>
    BY DEF Deliver
  <1>2. /\ pc'[n] # "ackd"
        /\ \A m \in Node \ {n} : pc'[m] = pc[m] /\ held'[m] = held[m]
    BY <1>1 DEF LibraryInv, TypeOK
  <1>3. /\ TakenBy'[n] = log'[n]
        /\ TakenBy[n] = IF AlreadySeen(n, f) THEN log[n] ELSE Append(log[n], <<f.from, f.msg>>)
    BY <1>1, <1>2 DEF TakenBy
  <1>4. \A m \in Node \ {n} : log'[m] = log[m] /\ seenIds'[m] = seenIds[m]
    BY DEF Deliver, LibraryInv, TypeOK
  <1>5. \A m \in Node \ {n} : TakenBy'[m] = TakenBy[m]
    BY <1>2, <1>4 DEF TakenBy, AlreadySeen
  <1>6. log' = [log EXCEPT ![n] = TakenBy[n]]
    BY <1>3 DEF Deliver, LibraryInv, TypeOK
  <1>7. TakenBy' = TakenBy
    <2>1. log'[n] = TakenBy[n]
      BY <1>6 DEF LibraryInv, TypeOK
    <2> QED
      BY <1>3, <1>5, <2>1 DEF TakenBy
  <1>8. Service!Give(n)
    BY <1>1, <1>6, <1>7 DEF Service!Give
  <1> QED
    BY <1>8 DEF ServiceStep, Service!Next

(***************************************************************************)
(* Every step is one of the service, or none at all.                       *)
(***************************************************************************)
LEMMA StepOfService ==
    ASSUME Steady, LibraryInv, Addressed, [Next]_vars
    PROVE  ServiceStep
  <1> USE DEF driverVars, managerVars, callVars, historyVars
  <1>1. ASSUME UNCHANGED <<sent, log, seenIds, outcome, pc, held>> PROVE ServiceStep
    BY <1>1, HiddenService
  <1>2. CASE UNCHANGED vars
    BY <1>1, <1>2 DEF vars
  <1>3. ASSUME NEW n \in Node,
               Available(n) \/ Retransmit(n) \/ ResetRetransmissions(n)
        PROVE  ServiceStep
    BY <1>1, <1>3 DEF Available, Retransmit, ResetRetransmissions
  <1>4. ASSUME NEW n \in Node, GiveUp(n) PROVE ServiceStep
    BY <1>4, ReturnService DEF GiveUp
  <1>5. ASSUME NEW n \in Node, RecvWhileWaiting(n) PROVE ServiceStep
    <2> PICK f : f = Polled(n)
      OBVIOUS
    <2>1. /\ pc[n] = "wait" /\ UNCHANGED <<sent, log, seenIds, held>>
          /\ f \in {fifo[n], rxBuf[n]} /\ f # NoFrame
      BY <1>5 DEF RecvWhileWaiting, Polled
    <2>2. CASE IsOurAck(n, f)
      <3>1. ReturnFromSendtoWait(n, TRUE)
        BY <1>5, <2>2 DEF RecvWhileWaiting
      <3>2. FrameIsTrue(f) /\ cur[n].id = cur[n].msg
        BY <2>1 DEF LibraryInv, AckInv
      <3>3. Taken(n, cur[n].to, cur[n].msg)
        BY <2>1, <2>2, <3>2 DEF FrameIsTrue, IsOurAck
      <3> QED
        BY <2>1, <3>1, <3>3, ReturnService
    <2>3. CASE ~IsOurAck(n, f)
      BY <1>1, <1>5, <2>3 DEF RecvWhileWaiting
    <2> QED
      BY <2>2, <2>3
  <1>6. ASSUME NEW n \in Node PROVE /\ ~Restart(n)
                                    /\ ~\E to \in (Node \ {n}) \cup {Broadcast} : Sendto(n, to)
    BY DEF Steady, Restart, Sendto
  <1> QED
    BY <1>2, <1>3, <1>4, <1>5, <1>6, SendService, RecvfromAckService, DeliverService DEF Next

(***************************************************************************)
(* Under the service conditions RHReliableDatagram implements the abstract *)
(* service: of retransmissions, repeated acknowledgements and lost frames  *)
(* nothing is left but that a call may return false.                       *)
(***************************************************************************)
THEOREM LibraryImplementsService ==
    ASSUME Steady
    PROVE  Spec => ImplementsAcknowledgedService
  <1>1. Init => Addressed /\ Service!Init
    <2> SUFFICES ASSUME Init PROVE Addressed /\ Service!Init
      OBVIOUS
    <2>1. TakenBy = [n \in Node |-> <<>>]
      BY DEF Init, TakenBy
    <2> QED
      BY <2>1 DEF Init, Addressed, Service!Init, NoOutcome
  <1>2. LibraryInv /\ Addressed /\ [Next]_vars => Addressed'
    BY AddressedStep DEF LibraryInv
  <1>3. LibraryInv /\ Addressed /\ [Next]_vars
           => [Service!Next]_<<sent, TakenBy, log, outcome>>
    BY StepOfService DEF ServiceStep
  <1> QED
    BY <1>1, <1>2, <1>3, LibraryInvariant, PTL
       DEF Spec, ImplementsAcknowledgedService, Service!Spec

-----------------------------------------------------------------------------
(* The sketches.                                                            *)

Sketches == {Client, Server}

\* The frames node n has received and not worked off.
Pending(n) == {fifo[n], rxBuf[n]} \cup (IF pc[n] = "ackd" THEN {held[n]} ELSE {})

\* Where the sketches are, and where their calls.
Places ==
    /\ at \in [Sketches -> {"loop", "send", "reply", "await"}]
    /\ at[Client] # "reply" /\ at[Server] # "await"
    /\ \A n \in Sketches : at[n] = "send" <=> pc[n] = "wait"
    /\ at[Client] = "loop" => pc[Client] = "idle"
    /\ at[Server] = "reply" => pc[Server] = "idle"

\* Nobody else sends.
BetweenThem ==
    \A n \in Sketches : \A f \in Pending(n) : Data(f) => f.from \in Sketches \ {n}

\* The k-th message of the server answers the k-th one it got.
Answers ==
    /\ asked \in Seq(Nat)
    /\ Len(asked) = Len(log[Server])
    /\ \A i \in 1 .. Len(asked) : log[Server][i] = <<Client, asked[i]>>
    /\ Len(asked) = sent[Server] + (IF at[Server] = "reply" THEN 1 ELSE 0)

\* The client waits for a reply after its last request was acknowledged.
Asking ==
    /\ at[Client] = "send" => cur[Client].to = Server
    /\ at[Client] = "await" =>
          outcome[Client] = [to |-> Server, msg |-> sent[Client], ok |-> TRUE]

(***************************************************************************)
(* While it waits, all that has come from the server is the answer to what *)
(* the server got last, and that is the request.                           *)
(***************************************************************************)
Awaiting ==
    at[Client] = "await" => \A f \in Pending(Client) : Data(f) =>
        f.msg = Len(asked) /\ Delivered(Client, Server, sent[Client])

\* The replies taken are those of requests in ascending order.
Exchanged ==
    /\ exchanges \in Seq(Nat \X Nat)
    /\ \A i \in 1 .. Len(exchanges) :
          /\ exchanges[i][2] \in 1 .. Len(asked)
          /\ asked[exchanges[i][2]] = exchanges[i][1]
          /\ exchanges[i][1] <= sent[Client]
          /\ at[Client] \in {"send", "await"} => exchanges[i][1] < sent[Client]
          /\ \A j \in 1 .. i - 1 : exchanges[j][1] < exchanges[i][1]

SketchInv == Places /\ BetweenThem /\ Answers /\ Asking /\ Awaiting /\ Exchanged

\* All data frames that are new anywhere are those of node n with message k.
Emits(n, k) ==
    \A m \in Node : \A f \in Pending(m)' :
        Data(f) => f \in Pending(m) \/ (m # n /\ f.from = n /\ f.msg = k)

\* There is none that is new.
Moves == \A m \in Node : \A f \in Pending(m)' : Data(f) => f \in Pending(m)

\* The two nodes.
LEMMA TwoSketches ==
    /\ Client \in Node /\ Server \in Node /\ Client # Server
    /\ Client \in Sketches /\ Server \in Sketches
    /\ \A n \in Sketches : n \in Node /\ n # Broadcast
  BY SketchAssumption, ConstantsAssumption DEF Sketches

\* The steps that send no data.
LEMMA MovingSteps ==
    ASSUME TypeOK, NEW n \in Node,
           Available(n) \/ GiveUp(n) \/ RecvWhileWaiting(n) \/ RecvfromAck(n) \/ Deliver(n)
    PROVE  Moves
  <1> USE DEF driverVars, managerVars, callVars, historyVars
  <1> SUFFICES ASSUME NEW m \in Node, NEW f \in Pending(m)', Data(f)
               PROVE  f \in Pending(m)
    BY DEF Moves
  <1>1. f # NoFrame /\ ~f.ack
    BY DEF Data
  <1>2. Polled(n) \in {fifo[n], rxBuf[n]}
    BY DEF Polled
  <1>3. CASE Available(n)
    BY <1>1, <1>2, <1>3 DEF TypeOK, Available, Drained, Pending
  <1>4. CASE GiveUp(n)
    BY <1>1, <1>4 DEF TypeOK, GiveUp, ReturnFromSendtoWait, Pending
  <1>5. CASE RecvWhileWaiting(n) \/ RecvfromAck(n)
    <2> DEFINE a == AckFrame(n, Polled(n))
    <2>1. a.ack
      BY DEF AckFrame
    <2>2. fifo' = Drained(n) \/ Transmit(n, a)
      BY <1>5 DEF RecvWhileWaiting, RecvfromAck, Acknowledge
    <2> HIDE DEF a
    <2>3. fifo'[m] \in {a, fifo[m], NoFrame}
      BY <2>2, TransmitEffect DEF Drained, TypeOK
    <2>4. rxBuf'[m] \in {rxBuf[m], NoFrame}
      BY <1>5 DEF RecvWhileWaiting, RecvfromAck, TypeOK
    <2>5. pc'[m] = "ackd" => \/ pc[m] = "ackd" /\ held'[m] = held[m]
                             \/ held'[m] \in {fifo[m], rxBuf[m]}
      BY <1>2, <1>5 DEF RecvWhileWaiting, RecvfromAck, ReturnFromSendtoWait, TypeOK
    <2>6. f \in {fifo'[m], rxBuf'[m]} \/ (pc'[m] = "ackd" /\ f = held'[m])
      BY DEF Pending
    <2> QED
      BY <1>1, <2>1, <2>3, <2>4, <2>5, <2>6 DEF Pending
  <1>6. CASE Deliver(n)
    BY <1>1, <1>6 DEF TypeOK, Deliver, Pending
  <1> QED
    BY <1>3, <1>4, <1>5, <1>6

\* The steps that put data on the air.
LEMMA EmittingSteps ==
    ASSUME TypeOK, NEW n \in Node
    PROVE  /\ \A to : SendtoWait(n, to, TRUE) => Emits(n, sent[n] + 1)
           /\ Retransmit(n) => Emits(n, cur[n].msg)
  <1> USE DEF driverVars, managerVars, callVars, historyVars
  <1>1. ASSUME NEW d, NEW k, d.from = n, d.msg = k, UNCHANGED <<rxBuf, held>>,
               \A m \in Node : fifo'[m] \in {d, fifo[m], NoFrame},
               fifo'[n] = NoFrame,
               \A m \in Node : pc'[m] = "ackd" => pc[m] = "ackd"
        PROVE  Emits(n, k)
    <2> SUFFICES ASSUME NEW m \in Node, NEW f \in Pending(m)', Data(f)
                 PROVE  f \in Pending(m) \/ (m # n /\ f.from = n /\ f.msg = k)
      BY DEF Emits
    <2>1. f # NoFrame
      BY DEF Data
    <2>2. f \in {fifo'[m], rxBuf'[m]} \/ (pc'[m] = "ackd" /\ f = held'[m])
      BY DEF Pending
    <2> QED
      BY <1>1, <2>1, <2>2 DEF Pending
  <1>2. ASSUME NEW to, SendtoWait(n, to, TRUE)
        PROVE  Emits(n, sent[n] + 1)
    <2> DEFINE d == DataFrame(n, to, NextSequenceNumber(n), sent[n] + 1)
    <2>1. d.from = n /\ d.msg = sent[n] + 1
      BY DEF DataFrame
    <2>2. Transmit(n, d) /\ UNCHANGED <<rxBuf, held>>
      BY <1>2 DEF SendtoWait
    <2>3. \A m \in Node : pc'[m] = "ackd" => pc[m] = "ackd"
      BY <1>2 DEF SendtoWait, TypeOK
    <2> HIDE DEF d
    <2>4. fifo'[n] = NoFrame /\ \A m \in Node : fifo'[m] \in {d, fifo[m], NoFrame}
      BY <2>2, TransmitEffect
    <2> QED
      BY <1>1, <2>1, <2>2, <2>3, <2>4
  <1>3. ASSUME Retransmit(n)
        PROVE  Emits(n, cur[n].msg)
    <2> DEFINE d == RetransmittedFrame(n)
    <2>1. d.from = n /\ d.msg = cur[n].msg
      BY DEF RetransmittedFrame, DataFrame
    <2>2. UNCHANGED <<rxBuf, held, pc>>
      BY <1>3 DEF Retransmit
    <2>3. Transmit(n, d) \/ fifo' = fifo
      BY <1>3 DEF Retransmit
    <2> HIDE DEF d
    <2>4. CASE Transmit(n, d)
      BY <1>1, <2>1, <2>2, <2>4, TransmitEffect
    <2>5. CASE fifo' = fifo
      BY <2>2, <2>5 DEF Emits, Pending
    <2> QED
      BY <2>3, <2>4, <2>5
  <1> QED
    BY <1>2, <1>3

\* Only the two of them are heard, whoever of them sends.
LEMMA HeardBetweenThem ==
    ASSUME BetweenThem, Moves \/ \E n \in Sketches, k \in Nat : Emits(n, k)
    PROVE  BetweenThem'
  <1> SUFFICES ASSUME NEW m \in Sketches, NEW f \in Pending(m)', Data(f)
               PROVE  f.from \in Sketches \ {m}
    BY DEF BetweenThem, Data
  <1>1. f \in Pending(m) => f.from \in Sketches \ {m}
    BY DEF BetweenThem
  <1>2. m \in Node
    BY TwoSketches
  <1> QED
    BY <1>1, <1>2 DEF Moves, Emits

(***************************************************************************)
(* What the server got last is the request the client sent last, if the    *)
(* server got that.                                                        *)
(***************************************************************************)
LEMMA LastAsked ==
    ASSUME LibraryInv, Answers, Delivered(Client, Server, sent[Client])
    PROVE  Len(asked) \in 1 .. Len(asked) /\ asked[Len(asked)] = sent[Client]
  <1> DEFINE s == log[Server]
  <1>1. Client \in Node /\ Server \in Node
    BY TwoSketches
  <1>2. PICK i \in 1 .. Len(s) : s[i] = <<Client, sent[Client]>>
    BY DEF Delivered
  <1>3. Len(s) = Len(asked) /\ Len(s) \in Nat /\ sent[Client] \in Nat
    BY <1>1 DEF LibraryInv, TypeOK, Answers
  <1>4. Len(s) \in 1 .. Len(s) /\ s[Len(s)] = <<Client, asked[Len(s)]>>
    BY <1>2, <1>3 DEF Answers
  <1>5. asked[Len(s)] \in Nat
    BY <1>3, <1>4 DEF Answers
  <1>6. asked[Len(s)] <= sent[Client]
    <2>1. s[Len(s)][1] = Client /\ s[Len(s)][2] = asked[Len(s)]
      BY <1>4
    <2>2. LogFollowsSent(Server)
      BY <1>1 DEF LibraryInv, OrderInv
    <2> QED
      BY <1>1, <1>4, <2>1, <2>2 DEF LogFollowsSent
  <1>7. CASE i < Len(s)
    <2>1. /\ s[i][1] = Client /\ s[i][2] = sent[Client]
          /\ s[Len(s)][1] = Client /\ s[Len(s)][2] = asked[Len(s)]
      BY <1>2, <1>4
    <2>2. sent[Client] < asked[Len(s)]
      BY <1>1, <1>2, <1>4, <1>7, <2>1 DEF LibraryInv, InOrder
    <2> QED
      BY <1>3, <1>5, <1>6, <2>2
  <1>8. CASE i = Len(s)
    <2>1. asked[Len(s)] = sent[Client]
      BY <1>2, <1>4, <1>8
    <2> QED
      BY <1>3, <1>4, <2>1
  <1> QED
    BY <1>2, <1>3, <1>7, <1>8

(* While the client waits for a reply, the server has its request.          *)
LEMMA AwaitedIsTaken ==
    ASSUME Steady, LibraryInv, Asking, at[Client] = "await"
    PROVE  \/ Delivered(Client, Server, sent[Client])
           \/ pc[Server] = "ackd"
  <1>1. outcome[Client].ok /\ outcome[Client].to = Server /\ outcome[Client].msg = sent[Client]
    BY DEF Asking
  <1>2. Client \in Node /\ Server \in Node \ Restartable
    BY TwoSketches DEF Steady
  <1>3. \/ Delivered(Client, Server, outcome[Client].msg)
        \/ InDelivery(Client, Server, outcome[Client].msg)
    BY <1>1, <1>2 DEF LibraryInv, AckedImpliesDelivered
  <1> QED
    BY <1>1, <1>3 DEF InDelivery

-----------------------------------------------------------------------------
(***************************************************************************)
(* The steps by which nothing is sent and nothing delivered.               *)
(***************************************************************************)
LEMMA QuietStep ==
    ASSUME SketchInv, Places', Asking', Moves, UNCHANGED <<sent, log, asked, exchanges>>,
           at'[Server] = "reply" <=> at[Server] = "reply",
           at'[Client] \in {"send", "await"} => at[Client] \in {"send", "await"},
           \/ at'[Client] = "await" => at[Client] = "await"
           \/ \A f \in Pending(Client)' : ~Data(f)
    PROVE  SketchInv'
  <1>1. BetweenThem'
    BY HeardBetweenThem DEF SketchInv
  <1>2. Answers'
    BY DEF SketchInv, Answers
  <1>3. Awaiting'
    <2> SUFFICES ASSUME at[Client] = "await", NEW f \in Pending(Client)', Data(f)
                 PROVE  (f.msg = Len(asked) /\ Delivered(Client, Server, sent[Client]))'
      BY DEF Awaiting, Data
    <2>1. f \in Pending(Client)
      BY TwoSketches DEF Moves
    <2>2. f.msg = Len(asked) /\ Delivered(Client, Server, sent[Client])
      BY <2>1 DEF SketchInv, Awaiting
    <2> QED
      BY <2>2 DEF Delivered
  <1>4. Exchanged'
    BY DEF SketchInv, Exchanged
  <1> QED
    BY <1>1, <1>2, <1>3, <1>4 DEF SketchInv

(* A request is sent: the one before is behind the client.                  *)
LEMMA RequestStep ==
    ASSUME LibraryInv, SketchInv, Request
    PROVE  SketchInv'
  <1>1. /\ at[Client] = "loop" /\ at' = [at EXCEPT ![Client] = "send"]
        /\ SendtoWait(Client, Server, TRUE) /\ UNCHANGED <<asked, exchanges>>
    BY DEF Request
  <1>2. /\ sent' = [sent EXCEPT ![Client] = sent[Client] + 1]
        /\ pc' = [pc EXCEPT ![Client] = "wait"] /\ log' = log
        /\ cur'[Client].to = Server
    BY <1>1, TwoSketches DEF SendtoWait, LibraryInv, TypeOK, historyVars
  <1>3. at'[Client] = "send" /\ at'[Server] = at[Server] /\ pc'[Client] = "wait" /\ pc'[Server] = pc[Server]
    BY <1>1, <1>2, TwoSketches DEF SketchInv, Places, LibraryInv, TypeOK
  <1>4. Places'
    <2>1. at' \in [Sketches -> {"loop", "send", "reply", "await"}]
      BY <1>1 DEF SketchInv, Places
    <2>2. \A n \in Sketches : n = Client \/ n = Server
      BY DEF Sketches
    <2>3. \A n \in Sketches : at'[n] = "send" <=> pc'[n] = "wait"
      BY <1>3, <2>2 DEF SketchInv, Places
    <2> QED
      BY <1>3, <2>1, <2>3 DEF SketchInv, Places
  <1>5. BetweenThem'
    <2>1. Emits(Client, sent[Client] + 1)
      BY <1>1, EmittingSteps, TwoSketches DEF LibraryInv
    <2>2. sent[Client] + 1 \in Nat
      BY TwoSketches DEF LibraryInv, TypeOK
    <2> QED
      BY <2>1, <2>2, HeardBetweenThem, TwoSketches DEF SketchInv
  <1>6. Answers'
    <2>1. sent'[Server] = sent[Server]
      BY <1>2, TwoSketches DEF LibraryInv, TypeOK
    <2> QED
      BY <1>1, <1>2, <1>3, <2>1 DEF SketchInv, Answers
  <1>7. Asking' /\ Awaiting'
    BY <1>2, <1>3 DEF Asking, Awaiting
  <1>8. Exchanged'
    <2>1. sent'[Client] = sent[Client] + 1 /\ sent[Client] \in Nat
      BY <1>2, TwoSketches DEF LibraryInv, TypeOK
    <2>2. \A i \in 1 .. Len(exchanges) : exchanges[i][1] \in Nat
      BY DEF SketchInv, Exchanged
    <2>3. \A i \in 1 .. Len(exchanges) : exchanges[i][1] < sent'[Client]
      BY <2>1, <2>2 DEF SketchInv, Exchanged
    <2>4. \A i \in 1 .. Len(exchanges) : exchanges[i][1] <= sent'[Client]
      BY <2>1, <2>2, <2>3
    <2> QED
      BY <1>1, <2>3, <2>4 DEF SketchInv, Exchanged
  <1> QED
    BY <1>4, <1>5, <1>6, <1>7, <1>8 DEF SketchInv

(***************************************************************************)
(* Data of the server, sent while it has delivered what it got: if the     *)
(* client waits, it is the answer.                                         *)
(***************************************************************************)
LEMMA AwaitAnswer ==
    ASSUME Steady, LibraryInv, SketchInv, pc[Server] # "ackd", Emits(Server, Len(asked)),
           at'[Client] = at[Client], UNCHANGED <<log, asked>>, sent'[Client] = sent[Client]
    PROVE  Awaiting'
  <1> SUFFICES ASSUME at[Client] = "await", NEW f \in Pending(Client)', Data(f)
               PROVE  (f.msg = Len(asked) /\ Delivered(Client, Server, sent[Client]))'
    BY DEF Awaiting, Data
  <1>1. Delivered(Client, Server, sent[Client])
    BY AwaitedIsTaken DEF SketchInv
  <1>2. f.msg = Len(asked)
    BY TwoSketches DEF Emits, SketchInv, Awaiting
  <1> QED
    BY <1>1, <1>2 DEF Delivered

(* The server sends its reply, which has the number of what it answers.     *)
LEMMA ReplyStep ==
    ASSUME Steady, LibraryInv, SketchInv, Reply
    PROVE  /\ log[Server][Len(log[Server])][1] = Client
           /\ SketchInv'
  <1>0. /\ at[Server] = "reply" /\ at' = [at EXCEPT ![Server] = "send"]
        /\ SendtoWait(Server, log[Server][Len(log[Server])][1], TRUE)
        /\ UNCHANGED <<asked, exchanges>>
    BY DEF Reply
  <1>1. /\ sent[Server] \in Nat /\ Len(asked) = sent[Server] + 1
        /\ Len(log[Server]) = Len(asked)
    BY <1>0, TwoSketches DEF SketchInv, Answers, LibraryInv, TypeOK
  <1>2. log[Server][Len(log[Server])][1] = Client
    <2>1. Len(asked) \in 1 .. Len(asked)
      BY <1>1
    <2> QED
      BY <1>1, <2>1 DEF SketchInv, Answers
  <1>3. SendtoWait(Server, Client, TRUE)
    BY <1>0, <1>2
  <1>4. /\ sent' = [sent EXCEPT ![Server] = sent[Server] + 1]
        /\ pc' = [pc EXCEPT ![Server] = "wait"] /\ log' = log /\ pc[Server] = "idle"
        /\ cur'[Client] = cur[Client] /\ outcome' = outcome
    BY <1>3, TwoSketches DEF SendtoWait, LibraryInv, TypeOK, historyVars
  <1>5. /\ at'[Server] = "send" /\ at'[Client] = at[Client]
        /\ pc'[Server] = "wait" /\ pc'[Client] = pc[Client]
        /\ sent'[Server] = sent[Server] + 1 /\ sent'[Client] = sent[Client]
    BY <1>0, <1>4, TwoSketches DEF SketchInv, Places, LibraryInv, TypeOK
  <1>6. Places'
    <2>1. at' \in [Sketches -> {"loop", "send", "reply", "await"}]
      BY <1>0 DEF SketchInv, Places
    <2>2. \A n \in Sketches : n = Client \/ n = Server
      BY DEF Sketches
    <2>3. \A n \in Sketches : at'[n] = "send" <=> pc'[n] = "wait"
      BY <1>5, <2>2 DEF SketchInv, Places
    <2> QED
      BY <1>5, <2>1, <2>3 DEF SketchInv, Places
  <1>7. Emits(Server, Len(asked)) /\ Len(asked) \in Nat
    <2>1. Emits(Server, sent[Server] + 1)
      BY <1>3, EmittingSteps, TwoSketches DEF LibraryInv
    <2> QED
      BY <1>1, <2>1
  <1>8. BetweenThem'
    BY <1>7, HeardBetweenThem, TwoSketches DEF SketchInv
  <1>9. Answers'
    <2>1. Len(asked') = sent'[Server] + 0
      BY <1>0, <1>1, <1>5
    <2> QED
      BY <1>0, <1>4, <1>5, <2>1 DEF SketchInv, Answers
  <1>10. Asking'
    BY <1>4, <1>5 DEF SketchInv, Asking
  <1>11. Awaiting'
    BY <1>0, <1>4, <1>5, <1>7, AwaitAnswer
  <1>12. Exchanged'
    BY <1>0, <1>5 DEF SketchInv, Exchanged
  <1> QED
    BY <1>2, <1>6, <1>8, <1>9, <1>10, <1>11, <1>12 DEF SketchInv

(* A step within sendtoWait(), which may return.                            *)
LEMMA SendingStep ==
    ASSUME Steady, LibraryInv, SketchInv, NEW n \in Sketches, Sending(n)
    PROVE  SketchInv'
  <1> USE DEF driverVars, managerVars, callVars, historyVars
  <1>0. /\ at[n] = "send" /\ pc[n] = "wait" /\ n \in Node /\ UNCHANGED <<asked, exchanges>>
        /\ at' = [at EXCEPT ![n] = IF pc'[n] = "wait" THEN "send"
                                   ELSE IF n = Client /\ outcome'[n].ok THEN "await"
                                   ELSE "loop"]
        /\ Available(n) \/ Retransmit(n) \/ GiveUp(n) \/ RecvWhileWaiting(n)
    BY TwoSketches DEF Sending, SketchInv, Places
  <1>1. /\ UNCHANGED <<sent, log>>
        /\ \A m \in Node \ {n} : /\ pc'[m] = pc[m] /\ cur'[m] = cur[m]
                                 /\ outcome'[m] = outcome[m]
        /\ pc'[n] = "wait" => cur'[n] = cur[n]
        /\ pc'[n] \in {"wait", "idle"}
        /\ pc'[n] = "idle" /\ outcome'[n].ok =>
              /\ outcome'[n] = [to |-> cur[n].to, msg |-> cur[n].msg, ok |-> TRUE]
              /\ fifo'[n] = NoFrame /\ rxBuf'[n] = NoFrame
    <2>1. CASE Available(n) \/ Retransmit(n)
      BY <1>0, <2>1 DEF Available, Retransmit
    <2>2. CASE GiveUp(n)
      BY <1>0, <2>2 DEF GiveUp, ReturnFromSendtoWait, LibraryInv, TypeOK
    <2>3. CASE RecvWhileWaiting(n)
      <3>1. /\ UNCHANGED <<sent, log>> /\ rxBuf'[n] = NoFrame
            /\ \/ ReturnFromSendtoWait(n, TRUE) /\ fifo' = Drained(n)
               \/ UNCHANGED <<pc, cur, outcome>>
        BY <1>0, <2>3 DEF RecvWhileWaiting, LibraryInv, TypeOK
      <3>2. CASE ReturnFromSendtoWait(n, TRUE) /\ fifo' = Drained(n)
        <4>1. /\ pc'[n] = "idle" /\ fifo'[n] = NoFrame
              /\ outcome'[n] = [to |-> cur[n].to, msg |-> cur[n].msg, ok |-> TRUE]
          BY <1>0, <3>2 DEF ReturnFromSendtoWait, Drained, LibraryInv, TypeOK
        <4>2. \A m \in Node \ {n} : /\ pc'[m] = pc[m] /\ cur'[m] = cur[m]
                                    /\ outcome'[m] = outcome[m]
          BY <1>0, <3>2 DEF ReturnFromSendtoWait, LibraryInv, TypeOK
        <4> QED
          BY <3>1, <4>1, <4>2
      <3>3. CASE UNCHANGED <<pc, cur, outcome>>
        BY <1>0, <3>1, <3>3
      <3> QED
        BY <3>1, <3>2, <3>3
    <2> QED
      BY <1>0, <2>1, <2>2, <2>3
  <1>2. \A m \in Sketches \ {n} : at'[m] = at[m] /\ pc'[m] = pc[m] /\ m \in Node \ {n}
    BY <1>0, <1>1, TwoSketches DEF SketchInv, Places
  <1>3. at'[n] = IF pc'[n] = "wait" THEN "send"
                 ELSE IF n = Client /\ outcome'[n].ok THEN "await" ELSE "loop"
    BY <1>0 DEF SketchInv, Places
  <1>4. Places'
    <2>1. at' \in [Sketches -> {"loop", "send", "reply", "await"}]
      BY <1>0 DEF SketchInv, Places
    <2>2. \A m \in Sketches : at'[m] = "send" <=> pc'[m] = "wait"
      BY <1>1, <1>2, <1>3 DEF SketchInv, Places
    <2>3. CASE n = Client
      <3>1. Server \in Sketches \ {n}
        BY <2>3, TwoSketches
      <3> QED
        BY <1>1, <1>2, <1>3, <2>1, <2>2, <2>3, <3>1 DEF SketchInv, Places
    <2>4. CASE n = Server
      <3>1. Client \in Sketches \ {n} /\ n # Client
        BY <2>4, TwoSketches
      <3> QED
        BY <1>1, <1>2, <1>3, <2>1, <2>2, <2>4, <3>1 DEF SketchInv, Places
    <2> QED
      BY <2>3, <2>4 DEF Sketches
  <1>5. Asking'
    <2>1. CASE n = Client
      <3>1. cur[n].to = Server /\ cur[n].msg = sent[n]
        BY <1>0, <2>1 DEF SketchInv, Asking, LibraryInv, OrderInv
      <3> QED
        BY <1>1, <1>3, <2>1, <3>1 DEF Asking
    <2>2. CASE n = Server
      <3>1. Client \in Sketches \ {n} /\ Client \in Node \ {n}
        BY <2>2, TwoSketches
      <3> QED
        BY <1>1, <1>2, <3>1 DEF SketchInv, Asking
    <2> QED
      BY <2>1, <2>2 DEF Sketches
  <1>6. CASE Retransmit(n)
    <2>1. UNCHANGED <<pc, cur, outcome>>
      BY <1>6 DEF Retransmit
    <2>2. at' = at
      <3>1. at'[n] = at[n]
        BY <1>0, <1>3, <2>1
      <3> QED
        BY <1>0, <3>1 DEF SketchInv, Places
    <2>3. cur[n].msg = sent[n] /\ sent[n] \in Nat
      BY <1>0 DEF LibraryInv, OrderInv, TypeOK
    <2>4. Emits(n, sent[n])
      BY <1>0, <1>6, <2>3, EmittingSteps DEF LibraryInv
    <2>5. BetweenThem'
      BY <2>3, <2>4, HeardBetweenThem DEF SketchInv
    <2>6. Answers' /\ Exchanged'
      BY <1>0, <1>1, <2>2 DEF SketchInv, Answers, Exchanged
    <2>7. Awaiting'
      <3>1. CASE n = Client
        BY <1>0, <2>2, <3>1 DEF Awaiting
      <3>2. CASE n = Server
        <4>1. Len(asked) = sent[Server]
          BY <1>0, <2>3, <3>2 DEF SketchInv, Answers
        <4> QED
          BY <1>0, <1>1, <2>2, <2>4, <3>2, <4>1, AwaitAnswer
      <3> QED
        BY <3>1, <3>2 DEF Sketches
    <2> QED
      BY <1>4, <1>5, <2>5, <2>6, <2>7 DEF SketchInv
  <1>7. CASE Available(n) \/ GiveUp(n) \/ RecvWhileWaiting(n)
    <2>1. Moves
      BY <1>0, <1>7, MovingSteps DEF LibraryInv
    <2>2. at'[Server] = "reply" <=> at[Server] = "reply"
      BY <1>0, <1>2, <1>3, TwoSketches
    <2>3. at'[Client] \in {"send", "await"} => at[Client] \in {"send", "await"}
      BY <1>0, <1>2, <1>3, TwoSketches
    <2>4. \/ at'[Client] = "await" => at[Client] = "await"
          \/ \A f \in Pending(Client)' : ~Data(f)
      <3>1. CASE n = Client /\ at'[Client] = "await"
        <4>1. pc'[n] = "idle" /\ outcome'[n].ok
          BY <1>1, <1>3, <3>1
        <4>2. Pending(n)' = {NoFrame}
          BY <1>1, <4>1 DEF Pending
        <4> QED
          BY <3>1, <4>2 DEF Data
      <3>2. CASE n # Client
        BY <1>2, <3>2, TwoSketches
      <3> QED
        BY <3>1, <3>2
    <2> QED
      BY <1>0, <1>1, <1>4, <1>5, <2>1, <2>2, <2>3, <2>4, QuietStep
  <1> QED
    BY <1>0, <1>6, <1>7

(* A step within recvfromAck().                                             *)
LEMMA ReceivingStep ==
    ASSUME LibraryInv, SketchInv, NEW n \in Sketches, Receiving(n)
    PROVE  SketchInv'
  <1>0. /\ at[n] = (IF n = Client THEN "await" ELSE "loop") /\ n \in Node
        /\ UNCHANGED <<at, asked, exchanges>> /\ (Available(n) \/ RecvfromAck(n))
    BY TwoSketches DEF Receiving, Receives
  <1>1. /\ UNCHANGED <<sent, log, cur, outcome>>
        /\ pc'[n] \in {pc[n], "ackd"} /\ \A m \in Node \ {n} : pc'[m] = pc[m]
    BY <1>0 DEF Available, RecvfromAck, historyVars, callVars, managerVars, LibraryInv, TypeOK
  <1>2. pc[n] # "wait"
    BY <1>0 DEF SketchInv, Places
  <1>3. Places'
    <2>1. \A m \in Sketches : at'[m] = "send" <=> pc'[m] = "wait"
      BY <1>0, <1>1, <1>2, TwoSketches DEF SketchInv, Places
    <2>2. at[Client] = "loop" => pc'[Client] = pc[Client]
      BY <1>0, <1>1, TwoSketches
    <2>3. at[Server] = "reply" => pc'[Server] = pc[Server]
      BY <1>0, <1>1, TwoSketches
    <2> QED
      BY <1>0, <2>1, <2>2, <2>3 DEF SketchInv, Places
  <1>4. Asking'
    BY <1>0, <1>1 DEF SketchInv, Asking
  <1>5. Moves
    BY <1>0, MovingSteps DEF LibraryInv
  <1> QED
    BY <1>0, <1>1, <1>3, <1>4, <1>5, QuietStep

(* "No reply".                                                              *)
LEMMA NoReplyStep ==
    ASSUME LibraryInv, SketchInv, NoReply
    PROVE  SketchInv'
  <1>0. /\ at[Client] = "await" /\ pc[Client] = "idle"
        /\ at' = [at EXCEPT ![Client] = "loop"] /\ UNCHANGED <<asked, exchanges>>
        /\ UNCHANGED <<fifo, rxBuf, pc, held, cur, sent, log, outcome>>
    BY DEF NoReply, Receives, vars, driverVars, callVars, historyVars
  <1>1. at'[Client] = "loop" /\ \A m \in Sketches \ {Client} : at'[m] = at[m]
    BY <1>0, TwoSketches DEF SketchInv, Places
  <1>2. at'[Server] = at[Server]
    BY <1>1, TwoSketches
  <1>3. Places'
    <2>1. at' \in [Sketches -> {"loop", "send", "reply", "await"}]
      BY <1>0 DEF SketchInv, Places
    <2>2. \A m \in Sketches : at'[m] = "send" <=> pc'[m] = "wait"
      BY <1>0, <1>1 DEF SketchInv, Places
    <2> QED
      BY <1>0, <1>1, <1>2, <2>1, <2>2 DEF SketchInv, Places
  <1>4. Asking'
    BY <1>1 DEF Asking
  <1>5. Moves
    BY <1>0 DEF Moves, Pending
  <1> QED
    BY <1>0, <1>1, <1>2, <1>3, <1>4, <1>5, QuietStep

(***************************************************************************)
(* The end of recvfromAck(): the server gets a request, which it cannot    *)
(* while the client has data of it that it waits for; or the client gets   *)
(* what answers its last request.                                          *)
(***************************************************************************)
LEMMA ReceivedStep ==
    ASSUME LibraryInv, SketchInv, NEW n \in Sketches, Received(n)
    PROVE  SketchInv'
  <1> DEFINE f == held[n]
  <1>0. /\ at[n] = (IF n = Client THEN "await" ELSE "loop") /\ n \in Node
        /\ Deliver(n) /\ pc[n] = "ackd"
    BY TwoSketches DEF Received, Receives, Deliver
  <1>1. /\ UNCHANGED <<sent, cur, outcome>>
        /\ pc'[n] = "idle" /\ \A m \in Node \ {n} : pc'[m] = pc[m]
    BY <1>0 DEF Deliver, LibraryInv, TypeOK
  <1>2. Moves
    BY <1>0, MovingSteps DEF LibraryInv
  <1>3. Data(f) /\ f \in Pending(n) /\ f.msg \in Nat /\ f.from \in Sketches \ {n}
    <2>1. Data(f) /\ f \in Frame \cup {NoFrame}
      BY <1>0 DEF LibraryInv, HeldData, TypeOK
    <2>2. f \in Pending(n)
      BY <1>0 DEF Pending
    <2> QED
      BY <2>1, <2>2, DataType DEF SketchInv, BetweenThem
  <1>4. CASE log' = log
    <2>1. UNCHANGED <<at, asked, exchanges>>
      BY <1>4 DEF Received, sketchVars
    <2>2. Places'
      <3>1. \A m \in Sketches : at'[m] = "send" <=> pc'[m] = "wait"
        BY <1>0, <1>1, <2>1, TwoSketches DEF SketchInv, Places
      <3>2. at[Client] = "loop" => pc'[Client] = pc[Client]
        BY <1>0, <1>1, TwoSketches
      <3>3. at[Server] = "reply" => pc'[Server] = pc[Server]
        BY <1>0, <1>1, TwoSketches
      <3> QED
        BY <2>1, <3>1, <3>2, <3>3 DEF SketchInv, Places
    <2>3. Asking'
      BY <1>1, <2>1 DEF SketchInv, Asking
    <2> QED
      BY <1>1, <1>2, <1>4, <2>1, <2>2, <2>3, QuietStep
  <1>5. CASE log' # log
    <2>1. /\ ~AlreadySeen(n, f)
          /\ log' = [log EXCEPT ![n] = Append(@, <<f.from, f.msg>>)]
      BY <1>0, <1>5 DEF Deliver
    <2>2. /\ log'[n] = Append(log[n], <<f.from, f.msg>>)
          /\ Len(log'[n]) = Len(log[n]) + 1
          /\ log'[n][Len(log[n]) + 1] = <<f.from, f.msg>>
          /\ \A i \in 1 .. Len(log[n]) : log'[n][i] = log[n][i]
          /\ \A m \in Node \ {n} : log'[m] = log[m]
      <3>1. f.from \in Node
        BY <1>3, TwoSketches
      <3> QED
        BY <1>0, <1>3, <2>1, <3>1 DEF LibraryInv, TypeOK
    <2>3. at' = [at EXCEPT ![n] = IF n = Client THEN "loop" ELSE "reply"]
      BY <1>5 DEF Received
    <2>4. at'[n] = (IF n = Client THEN "loop" ELSE "reply")
          /\ \A m \in Sketches \ {n} : at'[m] = at[m]
      BY <2>3 DEF SketchInv, Places
    <2>5. Places'
      <3>1. at' \in [Sketches -> {"loop", "send", "reply", "await"}]
        BY <2>3 DEF SketchInv, Places
      <3>2. \A m \in Sketches : at'[m] = "send" <=> pc'[m] = "wait"
        BY <1>0, <1>1, <2>4, TwoSketches DEF SketchInv, Places
      <3>3. CASE n = Client
        <4>1. at'[Server] = at[Server] /\ pc'[Server] = pc[Server]
          BY <1>1, <2>4, <3>3, TwoSketches
        <4> QED
          BY <1>1, <2>4, <3>1, <3>2, <3>3, <4>1 DEF SketchInv, Places
      <3>4. CASE n = Server
        <4>1. at'[Client] = at[Client] /\ pc'[Client] = pc[Client] /\ n # Client
          BY <1>1, <2>4, <3>4, TwoSketches
        <4> QED
          BY <1>1, <2>4, <3>1, <3>2, <3>4, <4>1 DEF SketchInv, Places
      <3> QED
        BY <3>3, <3>4 DEF Sketches
    <2>6. BetweenThem'
      BY <1>2, HeardBetweenThem DEF SketchInv
    <2>7. CASE n = Client
      <3>1. /\ exchanges' = Append(exchanges, <<sent[Client], f.msg>>) /\ asked' = asked
            /\ at[Client] = "await" /\ at'[Client] = "loop"
            /\ at'[Server] = at[Server] /\ log'[Server] = log[Server]
            /\ sent[Client] \in Nat
        BY <1>0, <1>5, <2>2, <2>4, <2>7, TwoSketches DEF Received, LibraryInv, TypeOK
      <3>2. f.msg = Len(asked) /\ Delivered(Client, Server, sent[Client])
        BY <1>3, <2>7, <3>1 DEF SketchInv, Awaiting
      <3>3. f.msg \in 1 .. Len(asked) /\ asked[f.msg] = sent[Client]
        BY <3>2, LastAsked DEF SketchInv
      <3>4. Answers'
        BY <1>1, <3>1 DEF SketchInv, Answers
      <3>5. Asking' /\ Awaiting'
        BY <3>1 DEF Asking, Awaiting
      <3>6. Exchanged'
        <4> HIDE DEF f
        <4>1. /\ exchanges \in Seq(Nat \X Nat) /\ Len(exchanges) \in Nat
              /\ exchanges' \in Seq(Nat \X Nat) /\ Len(exchanges') = Len(exchanges) + 1
              /\ \A i \in 1 .. Len(exchanges) : exchanges'[i] = exchanges[i]
              /\ exchanges'[Len(exchanges) + 1] = <<sent[Client], f.msg>>
          BY <1>3, <3>1 DEF SketchInv, Exchanged
        <4>2. \A i \in 1 .. Len(exchanges) :
                 /\ exchanges[i][2] \in 1 .. Len(asked)
                 /\ asked[exchanges[i][2]] = exchanges[i][1]
                 /\ exchanges[i][1] < sent[Client]
                 /\ \A j \in 1 .. i - 1 : exchanges[j][1] < exchanges[i][1]
          BY <3>1 DEF SketchInv, Exchanged
        <4>3. \A i \in 1 .. Len(exchanges') :
                 /\ exchanges'[i][2] \in 1 .. Len(asked)
                 /\ asked[exchanges'[i][2]] = exchanges'[i][1]
                 /\ exchanges'[i][1] <= sent[Client]
          <5> SUFFICES ASSUME NEW i \in 1 .. Len(exchanges')
                       PROVE  /\ exchanges'[i][2] \in 1 .. Len(asked)
                              /\ asked[exchanges'[i][2]] = exchanges'[i][1]
                              /\ exchanges'[i][1] <= sent[Client]
            OBVIOUS
          <5>1. CASE i \in 1 .. Len(exchanges)
            <6>1. exchanges[i] \in Nat \X Nat
              BY <4>1, <5>1
            <6> QED
              BY <3>1, <4>1, <4>2, <5>1, <6>1
          <5>2. CASE i = Len(exchanges) + 1
            <6>1. exchanges'[i][1] = sent[Client] /\ exchanges'[i][2] = f.msg
              BY <4>1, <5>2
            <6> QED
              BY <3>1, <3>3, <6>1
          <5> QED
            BY <4>1, <5>1, <5>2
        <4>4. \A i \in 1 .. Len(exchanges') : \A j \in 1 .. i - 1 :
                 exchanges'[j][1] < exchanges'[i][1]
          <5> SUFFICES ASSUME NEW i \in 1 .. Len(exchanges'), NEW j \in 1 .. i - 1
                       PROVE  exchanges'[j][1] < exchanges'[i][1]
            OBVIOUS
          <5>1. j \in 1 .. Len(exchanges)
            BY <4>1
          <5>2. CASE i \in 1 .. Len(exchanges)
            BY <4>1, <4>2, <5>1, <5>2
          <5>3. CASE i = Len(exchanges) + 1
            <6>1. exchanges'[i][1] = sent[Client]
              BY <4>1, <5>3
            <6> QED
              BY <4>1, <4>2, <5>1, <6>1
          <5> QED
            BY <4>1, <5>2, <5>3
        <4> QED
          BY <1>1, <3>1, <4>1, <4>3, <4>4 DEF Exchanged
      <3> QED
        BY <2>5, <2>6, <3>4, <3>5, <3>6 DEF SketchInv
    <2>8. CASE n = Server
      <3>1. /\ asked' = Append(asked, f.msg) /\ exchanges' = exchanges
            /\ at[Server] = "loop" /\ at'[Server] = "reply" /\ at'[Client] = at[Client]
            /\ f.from = Client
        BY <1>0, <1>3, <1>5, <2>4, <2>8, TwoSketches DEF Received, Sketches
      <3>2. /\ asked \in Seq(Nat) /\ Len(asked) \in Nat /\ asked' \in Seq(Nat)
            /\ Len(asked') = Len(asked) + 1 /\ asked'[Len(asked) + 1] = f.msg
            /\ \A i \in 1 .. Len(asked) : asked'[i] = asked[i]
        BY <1>3, <3>1 DEF SketchInv, Answers
      <3>3. /\ Len(log[Server]) = Len(asked) /\ Len(log'[Server]) = Len(asked) + 1
            /\ log'[Server][Len(asked) + 1] = <<Client, f.msg>>
            /\ \A i \in 1 .. Len(asked) : log'[Server][i] = log[Server][i]
        <4>1. Len(log[Server]) = Len(asked)
          BY DEF SketchInv, Answers
        <4>2. <<f.from, f.msg>> = <<Client, f.msg>>
          BY <3>1
        <4>3. /\ Len(log'[Server]) = Len(log[Server]) + 1
              /\ log'[Server][Len(log[Server]) + 1] = <<f.from, f.msg>>
              /\ \A i \in 1 .. Len(log[Server]) : log'[Server][i] = log[Server][i]
          BY <2>2, <2>8
        <4> HIDE DEF f
        <4> QED
          BY <4>1, <4>2, <4>3
      <3>4. Answers'
        <4>1. \A i \in 1 .. Len(asked') : log'[Server][i] = <<Client, asked'[i]>>
          <5> SUFFICES ASSUME NEW i \in 1 .. Len(asked')
                       PROVE  log'[Server][i] = <<Client, asked'[i]>>
            OBVIOUS
          <5>1. i \in 1 .. Len(asked) \/ i = Len(asked) + 1
            BY <3>2
          <5>2. CASE i \in 1 .. Len(asked)
            BY <3>2, <3>3, <5>2 DEF SketchInv, Answers
          <5> QED
            BY <3>2, <3>3, <5>1, <5>2
        <4>2. Len(asked') = sent'[Server] + 1
          <5>1. Len(asked) = sent[Server] + 0
            BY <3>1 DEF SketchInv, Answers
          <5>2. sent[Server] \in Nat
            BY TwoSketches DEF LibraryInv, TypeOK
          <5> QED
            BY <1>1, <3>2, <5>1, <5>2
        <4> QED
          BY <3>1, <3>2, <3>3, <4>1, <4>2 DEF Answers
      <3>5. Asking'
        BY <1>1, <3>1 DEF SketchInv, Asking
      <3>6. Awaiting'
        <4> SUFFICES ASSUME at[Client] = "await", NEW g \in Pending(Client)', Data(g)
                     PROVE  FALSE
          BY <3>1 DEF Awaiting, Data
        <4>1. Delivered(Client, Server, sent[Client])
          BY <1>2, TwoSketches DEF Moves, SketchInv, Awaiting
        <4>2. PICK i \in 1 .. Len(log[Server]) : log[Server][i] = <<Client, sent[Client]>>
          BY <4>1 DEF Delivered
        <4>3. log[Server][i][1] = Client /\ log[Server][i][2] = sent[Client]
          BY <4>2
        <4>4. PendingFollowsLog(Server, f)
          BY <2>8, TwoSketches DEF LibraryInv, OrderInv
        <4>5. f.msg <= sent[Client] /\ sent[Client] <= f.msg
          BY <1>3, <3>1, <4>2, <4>3, <4>4 DEF PendingFollowsLog
        <4>6. sent[Client] = f.msg
          BY <1>3, <4>5, TwoSketches DEF LibraryInv, TypeOK
        <4>7. seenIds[Server][f.from] = f.id
          BY <1>3, <3>1, <4>2, <4>3, <4>4, <4>6 DEF PendingFollowsLog
        <4> QED
          BY <2>1, <2>8, <4>7 DEF AlreadySeen
      <3>7. Exchanged'
        <4>1. \A i \in 1 .. Len(exchanges) :
                 /\ exchanges[i][2] \in 1 .. Len(asked')
                 /\ asked'[exchanges[i][2]] = exchanges[i][1]
          <5>1. \A k \in 1 .. Len(asked) : k \in 1 .. Len(asked') /\ asked'[k] = asked[k]
            BY <3>2
          <5> QED
            BY <5>1 DEF SketchInv, Exchanged
        <4> QED
          BY <1>1, <3>1, <4>1 DEF SketchInv, Exchanged
      <3> QED
        BY <2>5, <2>6, <3>4, <3>5, <3>6, <3>7 DEF SketchInv
    <2> QED
      BY <2>7, <2>8 DEF Sketches
  <1> QED
    BY <1>4, <1>5

-----------------------------------------------------------------------------
(* What the sketches do is among what the library allows.                   *)
LEMMA SketchIsLibrary ==
    ASSUME Steady, LibraryInv, SketchInv, SketchNext
    PROVE  [Next]_vars
  <1>1. /\ Client \in Node /\ Server \in Node
        /\ Server \in Node \ {Client} /\ Client \in Node \ {Server} /\ TRUE \in Fits
    BY SketchAssumption
  <1>2. CASE Request
    BY <1>1, <1>2 DEF Request, Next
  <1>3. CASE Reply
    <2>1. SendtoWait(Server, Client, TRUE)
      BY <1>3, ReplyStep DEF Reply
    <2> QED
      BY <1>1, <2>1 DEF Next
  <1>4. CASE NoReply
    BY <1>4 DEF NoReply
  <1>5. ASSUME NEW n \in {Client, Server}, Sending(n) \/ Receiving(n) \/ Received(n)
        PROVE  Next
    BY <1>1, <1>5 DEF Sending, Receiving, Received, Next
  <1> QED
    BY <1>2, <1>3, <1>4, <1>5 DEF SketchNext

LEMMA SketchStep ==
    ASSUME Steady, LibraryInv, SketchInv, [SketchNext]_<<vars, sketchVars>>
    PROVE  LibraryInv' /\ SketchInv'
  <1>1. [Next]_vars
    BY SketchIsLibrary
  <1>2. LibraryInv'
    BY <1>1, TypeStep, HeldStep, OrderStep, AckStep DEF LibraryInv
  <1>3. ASSUME SketchNext
        PROVE  SketchInv'
    BY <1>3, RequestStep, NoReplyStep, ReplyStep, SendingStep, ReceivingStep, ReceivedStep
       DEF SketchNext, Sketches
  <1>4. CASE UNCHANGED <<vars, sketchVars>>
    <2>1. UNCHANGED <<fifo, rxBuf, pc, held, cur, sent, log, outcome, at, asked, exchanges>>
      BY <1>4 DEF vars, sketchVars, driverVars, callVars, historyVars
    <2>2. Moves
      BY <2>1 DEF Moves, Pending
    <2>3. Places' /\ Asking'
      BY <2>1 DEF SketchInv, Places, Asking
    <2>4. at' = at /\ UNCHANGED <<sent, log, asked, exchanges>>
      BY <2>1
    <2> QED
      BY <1>2, <2>2, <2>3, <2>4, QuietStep
  <1> QED
    BY <1>2, <1>3, <1>4

LEMMA SketchStart == SketchInit => LibraryInv /\ SketchInv
  <1> SUFFICES ASSUME SketchInit PROVE LibraryInv /\ SketchInv
    OBVIOUS
  <1>1. Init /\ at = [n \in {Client, Server} |-> "loop"] /\ asked = <<>> /\ exchanges = <<>>
    BY DEF SketchInit
  <1>2. LibraryInv
    BY <1>1, TypeInit, OrderInit, AckInit DEF LibraryInv
  <1>3. \A n \in Node : /\ pc[n] = "idle" /\ sent[n] = 0 /\ log[n] = <<>>
                        /\ Pending(n) = {NoFrame}
    BY <1>1 DEF Init, Pending
  <1>4. Places
    BY <1>1, <1>3, TwoSketches DEF Places, Sketches
  <1>5. BetweenThem /\ Awaiting
    BY <1>3, TwoSketches DEF BetweenThem, Awaiting, Data
  <1>6. Answers /\ Exchanged
    BY <1>1, <1>3, TwoSketches DEF Answers, Exchanged
  <1>7. Asking
    BY <1>1, TwoSketches DEF Asking, Sketches
  <1> QED
    BY <1>2, <1>4, <1>5, <1>6, <1>7 DEF SketchInv

LEMMA SketchInvariant ==
    ASSUME Steady
    PROVE  SketchSpec => [](LibraryInv /\ SketchInv)
  <1>1. SketchSpec => SketchInit /\ [][SketchNext]_<<vars, sketchVars>>
    BY PTL DEF SketchSpec
  <1> QED
    BY <1>1, SketchStart, SketchStep, PTL

(***************************************************************************)
(* The sketches call the library as it allows, so that whatever is proved  *)
(* of it holds for them: the server replies to a node, and neither calls   *)
(* it while a call of its own is running.                                  *)
(***************************************************************************)
THEOREM SketchesUseLibrary ==
    ASSUME Steady
    PROVE  SketchSpec => Spec
  <1>1. SketchSpec => SketchInit /\ [][SketchNext]_<<vars, sketchVars>>
    BY PTL DEF SketchSpec
  <1>2. SketchInit => Init
    BY DEF SketchInit
  <1>3. LibraryInv /\ SketchInv /\ [SketchNext]_<<vars, sketchVars>> => [Next]_vars
    <2>1. ASSUME UNCHANGED <<vars, sketchVars>> PROVE UNCHANGED vars
      BY <2>1
    <2> QED
      BY <2>1, SketchIsLibrary
  <1> QED
    BY <1>1, <1>2, <1>3, SketchInvariant, PTL DEF Spec

(***************************************************************************)
(* Under the service conditions, what the client prints as the reply       *)
(* answers the request it sent last, although no reply names its request,  *)
(* and no request gets two: by the time its request is acknowledged, all   *)
(* that came from the server before has been thrown away, and all that     *)
(* comes afterwards is the answer.                                         *)
(***************************************************************************)
THEOREM RepliesAnswer ==
    ASSUME Steady
    PROVE  SketchSpec => []ReplyAnswersRequest
  <1>1. LibraryInv /\ SketchInv => ReplyAnswersRequest
    <2> SUFFICES ASSUME SketchInv, NEW i \in DOMAIN exchanges
                 PROVE  /\ asked[exchanges[i][2]] = exchanges[i][1]
                        /\ \A j \in 1 .. i - 1 : exchanges[j][1] # exchanges[i][1]
      BY DEF ReplyAnswersRequest
    <2>1. exchanges \in Seq(Nat \X Nat) /\ i \in 1 .. Len(exchanges)
      BY DEF SketchInv, Exchanged
    <2>2. \A j \in 1 .. Len(exchanges) : exchanges[j][1] \in Nat
      BY <2>1
    <2>3. \A j \in 1 .. i - 1 : j \in 1 .. Len(exchanges)
      BY <2>1
    <2> QED
      BY <2>1, <2>2, <2>3 DEF SketchInv, Exchanged
  <1> QED
    BY <1>1, SketchInvariant, PTL
=============================================================================
