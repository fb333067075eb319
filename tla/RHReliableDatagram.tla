-------------------------- MODULE RHReliableDatagram --------------------------
(***************************************************************************)
(* RHReliableDatagram: addressed datagrams that are acknowledged and       *)
(* retransmitted, run by every node on top of RHDatagram and of a radio    *)
(* driver (RHReliableDatagram.cpp, RHDatagram.cpp and, of RH_RF95.cpp, the *)
(* receive buffer and its validation).                                     *)
(*                                                                         *)
(* A node is single threaded: its sketch is between calls ("idle"), inside *)
(* the waiting loop of sendtoWait() ("wait"), or inside recvfromAck()      *)
(* after the acknowledgement went out and before the duplicate check       *)
(* ("ackd").  Frames travel over a half duplex medium that may lose every  *)
(* frame for every receiver independently.  A frame that is heard sits in  *)
(* the radio's FIFO until available() is called, which moves it to the     *)
(* driver's one-message buffer.                                            *)
(*                                                                         *)
(* sent, log and outcome are history variables: they number the messages   *)
(* handed to the library, and record what the sketch received and what     *)
(* sendtoWait() last returned.                                             *)
(***************************************************************************)
EXTENDS Naturals, Sequences

CONSTANTS
    Node,          \* node addresses
    Broadcast,     \* RH_BROADCAST_ADDRESS
    NoFrame,       \* "nothing received"
    OctetSize,     \* number of values of a uint8_t: 256 in the code
    CounterSize,   \* number of values of a uint32_t: 2^32 in the code
    Retries,       \* _retries, as set by setRetries()
    Fits,          \* do messages handed to sendtoWait() fit the radio?
    PlainSendto,   \* TRUE iff sketches also call RHDatagram::sendto()
    Restartable,   \* the nodes that may lose power and start again
    MaxSends       \* bound: messages each node hands to the library

Octet == 0 .. OctetSize - 1

ASSUME ConstantsAssumption ==
    /\ Broadcast \notin Node
    /\ OctetSize \in Nat \ {0}
    /\ CounterSize \in Nat \ {0}
    /\ Retries \in Octet
    /\ Fits \subseteq BOOLEAN
    /\ PlainSendto \in BOOLEAN
    /\ Restartable \subseteq Node
    /\ MaxSends \in Nat

(***************************************************************************)
(* A frame: the headers TO, FROM, ID, the ACK bit of FLAGS, and the        *)
(* payload, which is the number its sender's history gives the message (0  *)
(* for the one octet payload of an acknowledgement).                       *)
(***************************************************************************)
Frame == [to : Node \cup {Broadcast}, from : Node, id : Octet,
          ack : BOOLEAN, msg : Nat]

ASSUME NoFrameAssumption == NoFrame \notin Frame

VARIABLES
    lastSequenceNumber,  \* _lastSequenceNumber of each node
    seenIds,             \* _seenIds[256] of each node
    retransmissions,     \* _retransmissions of each node
    txHeaderId,          \* _txHeaderId of each node's driver
    txHeaderAck,         \* RH_FLAGS_ACK bit of each driver's _txHeaderFlags
    rxOn,                \* has the receiver been started?
    fifo,                \* frame the radio holds and has raised RxDone for
    rxBuf,               \* the driver's _buf while _rxBufValid, else NoFrame
    pc,                  \* where the node's sketch is
    cur,                 \* arguments and locals of the running sendtoWait()
    retries,             \* local retry counter of sendtoWait()
    held,                \* frame recvfromAck() is working on
    sent,                \* history: messages the node has handed over
    log,                 \* history: <<from, msg>> given to the sketch since boot
    outcome              \* history: last return of sendtoWait()

driverVars  == <<txHeaderId, txHeaderAck, rxOn, fifo, rxBuf>>
managerVars == <<lastSequenceNumber, seenIds, retransmissions>>
callVars    == <<pc, cur, retries, held>>
historyVars == <<sent, log, outcome>>
vars == <<driverVars, managerVars, callVars, historyVars>>

\* The running call of sendtoWait(), and what the last one came to.
Call    == [to : Node \cup {Broadcast}, id : Octet, msg : Nat, fits : BOOLEAN]
Outcome == [to : Node \cup {Broadcast}, msg : Nat, ok : BOOLEAN]

NoCall    == [to |-> Broadcast, id |-> 0, msg |-> 0, fits |-> TRUE]
NoOutcome == [to |-> Broadcast, msg |-> 0, ok |-> FALSE]

TypeOK ==
    /\ lastSequenceNumber \in [Node -> Octet]
    /\ seenIds \in [Node -> [Node -> Octet]]
    /\ retransmissions \in [Node -> 0 .. CounterSize - 1]
    /\ txHeaderId \in [Node -> Octet]
    /\ txHeaderAck \in [Node -> BOOLEAN]
    /\ rxOn \in [Node -> BOOLEAN]
    /\ fifo \in [Node -> Frame \cup {NoFrame}]
    /\ rxBuf \in [Node -> Frame \cup {NoFrame}]
    /\ pc \in [Node -> {"idle", "wait", "ackd"}]
    /\ cur \in [Node -> Call]
    /\ retries \in [Node -> Octet]
    /\ held \in [Node -> Frame \cup {NoFrame}]
    /\ sent \in [Node -> Nat]
    /\ log \in [Node -> Seq(Node \X Nat)]
    /\ outcome \in [Node -> Outcome]

(***************************************************************************)
(* The managers are objects of static storage duration, so the members no  *)
(* constructor assigns (_seenIds) start as zero.                           *)
(***************************************************************************)
Init ==
    /\ lastSequenceNumber = [n \in Node |-> 0]
    /\ seenIds = [n \in Node |-> [m \in Node |-> 0]]
    /\ retransmissions = [n \in Node |-> 0]
    /\ txHeaderId = [n \in Node |-> 0]
    /\ txHeaderAck = [n \in Node |-> FALSE]
    /\ rxOn = [n \in Node |-> FALSE]
    /\ fifo = [n \in Node |-> NoFrame]
    /\ rxBuf = [n \in Node |-> NoFrame]
    /\ pc = [n \in Node |-> "idle"]
    /\ cur = [n \in Node |-> NoCall]
    /\ retries = [n \in Node |-> 0]
    /\ held = [n \in Node |-> NoFrame]
    /\ sent = [n \in Node |-> 0]
    /\ log = [n \in Node |-> <<>>]
    /\ outcome = [n \in Node |-> NoOutcome]

-----------------------------------------------------------------------------
(* The driver, as far as a manager sees it.                                 *)

\* The address test of validateRxBuf().
Accepts(n, f) == f.to \in {n, Broadcast}

(***************************************************************************)
(* The receive buffer after available() has served the RxDone interrupt:   *)
(* the packet in the FIFO replaces the headers and the content, and        *)
(* _rxBufValid becomes TRUE if the packet is for this node.  It is never   *)
(* made FALSE here, so a packet for another node that lands on an          *)
(* uncollected message takes its place.                                    *)
(***************************************************************************)
Polled(n) ==
    IF fifo[n] # NoFrame /\ (rxBuf[n] # NoFrame \/ Accepts(n, fifo[n]))
    THEN fifo[n]
    ELSE rxBuf[n]

\* The FIFOs once node n's interrupt has been served.
Drained(n) == [fifo EXCEPT ![n] = NoFrame]

(***************************************************************************)
(* send() followed by waitPacketSent(): node n puts frame f on the air and *)
(* any set of the other nodes whose receiver is on hears it; f overwrites  *)
(* what their FIFO holds.  A packet that waits in n's own FIFO is lost:    *)
(* f is written over it, and handleInterrupt() clears its RxDone while     *)
(* waiting for TxDone.  The wait has no limit: a node whose TxDone is lost *)
(* takes no further step, which the safety properties allow for and        *)
(* DatagramSketches, for its liveness properties, makes explicit.          *)
(***************************************************************************)
Transmit(n, f) ==
    /\ \E R \in SUBSET {m \in Node \ {n} : rxOn[m]} :
          fifo' = [m \in Node |-> IF m \in R THEN f ELSE Drained(n)[m]]
    /\ rxOn' = [rxOn EXCEPT ![n] = TRUE]

\* setHeaderId() and the ACK bit of setHeaderFlags().
SetHeader(n, id, ack) ==
    /\ txHeaderId' = [txHeaderId EXCEPT ![n] = id]
    /\ txHeaderAck' = [txHeaderAck EXCEPT ![n] = ack]

(***************************************************************************)
(* available(), waitAvailable() and waitAvailableTimeout(), called by the  *)
(* sketch or by a loop of the library.                                     *)
(***************************************************************************)
Available(n) ==
    /\ pc[n] \in {"idle", "wait"}
    /\ rxBuf' = [rxBuf EXCEPT ![n] = Polled(n)]
    /\ fifo' = Drained(n)
    /\ rxOn' = [rxOn EXCEPT ![n] = TRUE]
    /\ UNCHANGED <<txHeaderId, txHeaderAck, managerVars, callVars, historyVars>>

-----------------------------------------------------------------------------
(* Sending.                                                                 *)

\* Faults: the counter is wider than the ID; it is incremented after its use.
NextSequenceNumberUnwrapped(n) == lastSequenceNumber[n] + 1
NextSequenceNumberOld(n) == lastSequenceNumber[n]

\* The ID of the next message: ++_lastSequenceNumber in a uint8_t.
NextSequenceNumber(n) == (lastSequenceNumber[n] + 1) % OctetSize

\* A data frame carrying message msg.
DataFrame(n, to, id, msg) ==
    [to |-> to, from |-> n, id |-> id, ack |-> FALSE, msg |-> msg]

(***************************************************************************)
(* sendtoWait() up to the end of the first transmission.  A message that   *)
(* does not fit the radio is not transmitted, and the result of sendto()   *)
(* is not looked at.  A broadcast returns true at once.                    *)
(***************************************************************************)
SendtoWait(n, to, fits) ==
    LET id  == NextSequenceNumber(n)
        msg == sent[n] + 1
    IN  /\ pc[n] = "idle"
        /\ sent[n] < MaxSends
        /\ sent' = [sent EXCEPT ![n] = msg]
        /\ lastSequenceNumber' = [lastSequenceNumber EXCEPT ![n] = id]
        /\ SetHeader(n, id, FALSE)
        /\ IF fits THEN Transmit(n, DataFrame(n, to, id, msg))
                   ELSE UNCHANGED <<fifo, rxOn>>
        /\ \/ /\ to = Broadcast
              /\ outcome' = [outcome EXCEPT ![n] = [to |-> to, msg |-> msg, ok |-> TRUE]]
              /\ UNCHANGED <<pc, cur, retries>>
           \/ /\ to # Broadcast
              /\ pc' = [pc EXCEPT ![n] = "wait"]
              /\ cur' = [cur EXCEPT ![n] = [to |-> to, id |-> id, msg |-> msg, fits |-> fits]]
              /\ retries' = [retries EXCEPT ![n] = 1 % OctetSize]
              /\ UNCHANGED outcome
        /\ UNCHANGED <<seenIds, retransmissions, rxBuf, held, log>>

\* sendtoWait() returns ok.
ReturnFromSendtoWait(n, ok) ==
    /\ pc' = [pc EXCEPT ![n] = "idle"]
    /\ outcome' = [outcome EXCEPT ![n] = [to |-> cur[n].to, msg |-> cur[n].msg, ok |-> ok]]
    /\ cur' = [cur EXCEPT ![n] = NoCall]
    /\ retries' = [retries EXCEPT ![n] = 0]

\* Faults: one retry too many; no bound at all.
RetriesLeftOffByOne(n) == retries[n] <= Retries + 1
RetriesLeftAlways(n) == retries[n] \in Octet

\* The loop condition retries++ <= _retries; the counter is a uint8_t.
RetriesLeft(n) == retries[n] <= Retries

\* Fault: the ID is taken from the driver, where an ACK sent meanwhile left its own.
RetransmittedFrameStaleId(n) == DataFrame(n, cur[n].to, txHeaderId[n], cur[n].msg)

\* What a retransmission sends: ID and FLAGS are set again before each one.
RetransmittedFrame(n) == DataFrame(n, cur[n].to, cur[n].id, cur[n].msg)

(***************************************************************************)
(* The timeout of one transmission is exhausted: transmit again if the     *)
(* loop condition allows it.                                               *)
(***************************************************************************)
Retransmit(n) ==
    /\ pc[n] = "wait"
    /\ RetriesLeft(n)
    /\ retries' = [retries EXCEPT ![n] = (@ + 1) % OctetSize]
    /\ SetHeader(n, cur[n].id, FALSE)
    /\ IF cur[n].fits THEN Transmit(n, RetransmittedFrame(n))
                      ELSE UNCHANGED <<fifo, rxOn>>
    /\ retransmissions' = IF retries'[n] > 1
                          THEN [retransmissions EXCEPT ![n] = (@ + 1) % CounterSize]
                          ELSE retransmissions
    /\ UNCHANGED <<lastSequenceNumber, seenIds, rxBuf, pc, cur, held, historyVars>>

\* The timeout of the last transmission is exhausted: return false.
GiveUp(n) ==
    /\ pc[n] = "wait"
    /\ ~RetriesLeft(n)
    /\ ReturnFromSendtoWait(n, FALSE)
    /\ UNCHANGED <<driverVars, managerVars, held, sent, log>>

-----------------------------------------------------------------------------
(* Receiving.                                                               *)

\* acknowledge(id, from): an ACK carries the ID of the frame it answers.
AckFrame(n, f) == [to |-> f.from, from |-> n, id |-> f.id, ack |-> TRUE, msg |-> 0]

\* Send the ACK for f.
Acknowledge(n, f) ==
    /\ SetHeader(n, f.id, TRUE)
    /\ Transmit(n, AckFrame(n, f))

\* Fault: the table of seen IDs is indexed with this node's own address.
AlreadySeenOwnIndex(n, f) == f.id = seenIds[n][n]

\* The duplicate test, _id == _seenIds[_from].
AlreadySeen(n, f) == f.id = seenIds[n][f.from]

\* Fault: any ACK from the addressee is taken.
IsOurAckWithoutId(n, f) == f.from = cur[n].to /\ f.to = n /\ f.ack

\* The test of sendtoWait() for the ACK it waits for.
IsOurAck(n, f) ==
    /\ f.from = cur[n].to
    /\ f.to = n
    /\ f.ack
    /\ f.id = cur[n].id

\* Is a received frame to be acknowledged again by the loop of sendtoWait()?
IsRepeatedRequest(n, f) == ~f.ack /\ AlreadySeen(n, f)

(***************************************************************************)
(* recvfrom() inside the waiting loop of sendtoWait(): the ACK ends the    *)
(* call, a message received before is acknowledged again, anything else is *)
(* discarded.                                                              *)
(***************************************************************************)
RecvWhileWaiting(n) ==
    LET f == Polled(n)
    IN  /\ pc[n] = "wait"
        /\ f # NoFrame
        /\ rxBuf' = [rxBuf EXCEPT ![n] = NoFrame]
        /\ \/ /\ IsOurAck(n, f)
              /\ ReturnFromSendtoWait(n, TRUE)
              /\ fifo' = Drained(n)
              /\ UNCHANGED <<txHeaderId, txHeaderAck, rxOn>>
           \/ /\ ~IsOurAck(n, f)
              /\ IsRepeatedRequest(n, f)
              /\ Acknowledge(n, f)
              /\ UNCHANGED <<pc, cur, retries, outcome>>
           \/ /\ ~IsOurAck(n, f)
              /\ ~IsRepeatedRequest(n, f)
              /\ fifo' = Drained(n)
              /\ UNCHANGED <<txHeaderId, txHeaderAck, rxOn, pc, cur, retries, outcome>>
        /\ UNCHANGED <<managerVars, held, sent, log>>

(***************************************************************************)
(* recvfromAck() with a message available, up to the end of acknowledge(). *)
(* An ACK is consumed and ignored; a broadcast is not acknowledged.        *)
(***************************************************************************)
RecvfromAck(n) ==
    LET f == Polled(n)
    IN  /\ pc[n] = "idle"
        /\ f # NoFrame
        /\ rxBuf' = [rxBuf EXCEPT ![n] = NoFrame]
        /\ \/ /\ f.ack
              /\ fifo' = Drained(n)
              /\ UNCHANGED <<txHeaderId, txHeaderAck, rxOn, pc, held>>
           \/ /\ ~f.ack
              /\ pc' = [pc EXCEPT ![n] = "ackd"]
              /\ held' = [held EXCEPT ![n] = f]
              /\ IF f.to # Broadcast
                 THEN Acknowledge(n, f)
                 ELSE /\ fifo' = Drained(n)
                      /\ UNCHANGED <<txHeaderId, txHeaderAck, rxOn>>
        /\ UNCHANGED <<managerVars, cur, retries, historyVars>>

(***************************************************************************)
(* The rest of recvfromAck(): a message not seen before is remembered and  *)
(* given to the sketch.                                                    *)
(***************************************************************************)
Deliver(n) ==
    LET f == held[n]
    IN  /\ pc[n] = "ackd"
        /\ pc' = [pc EXCEPT ![n] = "idle"]
        /\ held' = [held EXCEPT ![n] = NoFrame]
        /\ \/ /\ AlreadySeen(n, f)
              /\ UNCHANGED <<seenIds, log>>
           \/ /\ ~AlreadySeen(n, f)
              /\ seenIds' = [seenIds EXCEPT ![n][f.from] = f.id]
              /\ log' = [log EXCEPT ![n] = Append(@, <<f.from, f.msg>>)]
        /\ UNCHANGED <<driverVars, lastSequenceNumber, retransmissions, cur,
                       retries, sent, outcome>>

-----------------------------------------------------------------------------
(* Other calls of the sketch, and power failures.                           *)

(***************************************************************************)
(* RHDatagram::sendto(), which RHReliableDatagram inherits: the ID and the *)
(* FLAGS are whatever the last sendtoWait() or acknowledge() left in the   *)
(* driver.                                                                 *)
(***************************************************************************)
Sendto(n, to) ==
    LET msg == sent[n] + 1
    IN  /\ PlainSendto
        /\ pc[n] = "idle"
        /\ sent[n] < MaxSends
        /\ sent' = [sent EXCEPT ![n] = msg]
        /\ Transmit(n, [to |-> to, from |-> n, id |-> txHeaderId[n],
                        ack |-> txHeaderAck[n], msg |-> msg])
        /\ UNCHANGED <<txHeaderId, txHeaderAck, rxBuf, managerVars, callVars,
                       log, outcome>>

\* resetRetransmissions()
ResetRetransmissions(n) ==
    /\ pc[n] = "idle"
    /\ retransmissions[n] # 0
    /\ retransmissions' = [retransmissions EXCEPT ![n] = 0]
    /\ UNCHANGED <<driverVars, lastSequenceNumber, seenIds, callVars, historyVars>>

(***************************************************************************)
(* Node n loses power and its sketch starts again: the constructors and    *)
(* init() run, nothing is kept from before.                                *)
(***************************************************************************)
Restart(n) ==
    /\ n \in Restartable
    /\ lastSequenceNumber' = [lastSequenceNumber EXCEPT ![n] = 0]
    /\ seenIds' = [seenIds EXCEPT ![n] = [m \in Node |-> 0]]
    /\ retransmissions' = [retransmissions EXCEPT ![n] = 0]
    /\ SetHeader(n, 0, FALSE)
    /\ rxOn' = [rxOn EXCEPT ![n] = FALSE]
    /\ fifo' = Drained(n)
    /\ rxBuf' = [rxBuf EXCEPT ![n] = NoFrame]
    /\ pc' = [pc EXCEPT ![n] = "idle"]
    /\ cur' = [cur EXCEPT ![n] = NoCall]
    /\ retries' = [retries EXCEPT ![n] = 0]
    /\ held' = [held EXCEPT ![n] = NoFrame]
    /\ log' = [log EXCEPT ![n] = <<>>]
    /\ outcome' = [outcome EXCEPT ![n] = NoOutcome]
    /\ UNCHANGED sent

Next ==
    \E n \in Node :
        \/ Available(n)
        \/ \E to \in (Node \ {n}) \cup {Broadcast}, fits \in Fits : SendtoWait(n, to, fits)
        \/ Retransmit(n)
        \/ GiveUp(n)
        \/ RecvWhileWaiting(n)
        \/ RecvfromAck(n)
        \/ Deliver(n)
        \/ \E to \in (Node \ {n}) \cup {Broadcast} : Sendto(n, to)
        \/ ResetRetransmissions(n)
        \/ Restart(n)

Spec == Init /\ [][Next]_vars

-----------------------------------------------------------------------------
(* Properties.                                                              *)

(***************************************************************************)
(* At most once, and in order: since it booted, a sketch gets the messages *)
(* of one sender from recvfromAck() in the order in which they were handed *)
(* to the library, none of them twice, however often they are              *)
(* retransmitted, whatever is lost or overwritten, and although IDs wrap   *)
(* around and senders start again at ID 1.                                 *)
(***************************************************************************)
InOrder ==
    \A n \in Node : \A i, j \in 1 .. Len(log[n]) :
        i < j /\ log[n][i][1] = log[n][j][1] => log[n][i][2] < log[n][j][2]

(***************************************************************************)
(* Why InOrder holds.  The frames of one sender a node holds (the one in   *)
(* recvfromAck(), the driver's buffer, the FIFO) are in the order in which *)
(* they were sent, none is older than what the sketch got, and a message   *)
(* keeps its ID for as long as it may be sent again, so that a second copy *)
(* of the last message delivered always meets its ID in _seenIds.          *)
(***************************************************************************)
Data(f) == f # NoFrame /\ ~f.ack

HeldData == \A n \in Node : pc[n] = "ackd" => Data(held[n])

Before(f, g) ==
    Data(f) /\ Data(g) /\ f.from = g.from =>
        f.msg <= g.msg /\ (f.msg = g.msg => f.id = g.id)

PendingInOrder(n) ==
    /\ Before(held[n], rxBuf[n])
    /\ Before(held[n], fifo[n])
    /\ Before(rxBuf[n], fifo[n])

PendingFollowsLog(n, f) ==
    Data(f) =>
        /\ f.msg <= sent[f.from]
        /\ pc[f.from] = "wait" /\ f.msg = sent[f.from] => f.id = cur[f.from].id
        /\ \A i \in 1 .. Len(log[n]) :
              log[n][i][1] = f.from =>
                 /\ log[n][i][2] <= f.msg
                 /\ log[n][i][2] = f.msg => seenIds[n][f.from] = f.id

LogFollowsSent(n) ==
    \A i \in 1 .. Len(log[n]) : \A m \in Node :
        log[n][i][1] = m =>
            /\ log[n][i][2] <= sent[m]
            /\ pc[m] = "wait" /\ log[n][i][2] = sent[m] => seenIds[n][m] = cur[m].id

OrderInv ==
    \A n \in Node :
        /\ pc[n] = "wait" => cur[n].msg = sent[n]
        /\ PendingInOrder(n)
        /\ PendingFollowsLog(n, held[n])
        /\ PendingFollowsLog(n, rxBuf[n])
        /\ PendingFollowsLog(n, fifo[n])
        /\ LogFollowsSent(n)

\* Message msg of node a was given to the sketch of b, ...
Delivered(a, b, msg) == \E i \in 1 .. Len(log[b]) : log[b][i] = <<a, msg>>

\* ... or recvfromAck() of b is about to do so.
InDelivery(a, b, msg) ==
    /\ pc[b] = "ackd"
    /\ held[b].from = a
    /\ held[b].msg = msg

(***************************************************************************)
(* When sendtoWait() returns true for a message to one node, recvfromAck() *)
(* of that node has taken this very message (as long as that node does not *)
(* lose power, and with it the record of what it received).                *)
(***************************************************************************)
AckedImpliesDelivered ==
    \A n \in Node : \A to \in Node \ Restartable :
        outcome[n].ok /\ outcome[n].to = to =>
            \/ Delivered(n, to, outcome[n].msg)
            \/ InDelivery(n, to, outcome[n].msg)

(***************************************************************************)
(* Why AckedImpliesDelivered holds, until an ID is used a second time: the *)
(* ID is the number of the message, an ID in _seenIds belongs to a message *)
(* delivered, and so does every ACK, wherever it is.                       *)
(***************************************************************************)
Taken(m, n, msg) == Delivered(m, n, msg) \/ InDelivery(m, n, msg)

FrameIsTrue(f) ==
    /\ f # NoFrame /\ f.ack => f.to \in Node /\ Taken(f.to, f.from, f.id)
    /\ Data(f) => f.id = f.msg /\ f.id # 0

AckInv ==
    \A n \in Node :
        /\ lastSequenceNumber[n] = sent[n]
        /\ sent[n] <= MaxSends
        /\ pc[n] = "wait" => cur[n].id = cur[n].msg /\ cur[n].id # 0
        /\ \A m \in Node : seenIds[n][m] # 0 => Delivered(m, n, seenIds[n][m])
        /\ FrameIsTrue(held[n])
        /\ FrameIsTrue(rxBuf[n])
        /\ FrameIsTrue(fifo[n])

(***************************************************************************)
(* What the layers above rely on, in one: the abstract service, where a    *)
(* message is taken at the moment recvfromAck() has acknowledged it and    *)
(* will find it to be new.                                                 *)
(***************************************************************************)
TakenBy == [n \in Node |-> IF pc[n] = "ackd" /\ ~AlreadySeen(n, held[n])
                          THEN Append(log[n], <<held[n].from, held[n].msg>>) ELSE log[n]]

Service == INSTANCE AcknowledgedService WITH taken <- TakenBy

ImplementsAcknowledgedService == Service!Spec

(***************************************************************************)
(* A message is transmitted at most Retries times more than once, so the   *)
(* counter read by retransmissions() stays below Retries per message.      *)
(***************************************************************************)
RetransmissionsBounded ==
    \A n \in Node : retransmissions[n] <= Retries * sent[n]
=============================================================================
