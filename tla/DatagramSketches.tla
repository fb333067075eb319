--------------------------- MODULE DatagramSketches ---------------------------
(***************************************************************************)
(* The sketches rf95_reliable_datagram_client and _server on top of        *)
(* RHReliableDatagram: the client sends a request with sendtoWait() and    *)
(* waits for a reply with recvfromAckTimeout(), the server answers every   *)
(* message recvfromAck() gives it.  Nothing in a reply says which request  *)
(* it is for.                                                              *)
(***************************************************************************)
EXTENDS RHReliableDatagram

CONSTANTS Client, Server

ASSUME SketchAssumption ==
    /\ Client \in Node /\ Server \in Node /\ Client # Server
    /\ TRUE \in Fits   \* what they send is shorter than the radio's limit

VARIABLES
    at,         \* where the loop() of each sketch is: "loop", "send", "reply", "await"
    asked,      \* history: for each reply, the request the server answers with it
    exchanges,  \* history: <<request, reply>> for each "got reply" of the client
    hung        \* the nodes whose waitPacketSent() never returns

sketchVars == <<at, asked, exchanges, hung>>

SketchInit ==
    /\ Init
    /\ at = [n \in {Client, Server} |-> "loop"]
    /\ asked = <<>>
    /\ exchanges = <<>>
    /\ hung = {}

(***************************************************************************)
(* waitPacketSent(), at the end of every send(), waits for the TxDone      *)
(* interrupt without a limit, and handleInterrupt() may clear TxDone       *)
(* unseen (RadioSketches shows how): each transmission of a node may be    *)
(* the last thing its sketch does.                                         *)
(***************************************************************************)
WaitPacketSent(n) == hung' \in {hung, hung \cup {n}}

\* Does node n, with a frame to receive, answer it with an acknowledgement?
Acknowledges(n) ==
    LET f == Polled(n)
    IN  IF pc[n] = "wait" THEN ~IsOurAck(n, f) /\ IsRepeatedRequest(n, f)
        ELSE ~f.ack /\ f.to # Broadcast

\* acknowledge(), if there is something to acknowledge.
Acknowledging(n) == IF Acknowledges(n) THEN WaitPacketSent(n) ELSE UNCHANGED hung

\* loop() of the client begins; delay(500) of the last turn is over.
Request ==
    /\ at[Client] = "loop" /\ Client \notin hung
    /\ SendtoWait(Client, Server, TRUE)
    /\ WaitPacketSent(Client)
    /\ at' = [at EXCEPT ![Client] = "send"]
    /\ UNCHANGED <<asked, exchanges>>

\* A step of RHReliableDatagram inside sendtoWait().
Sending(n) ==
    /\ at[n] = "send" /\ n \notin hung
    /\ \/ (Available(n) \/ GiveUp(n)) /\ UNCHANGED hung
       \/ Retransmit(n) /\ WaitPacketSent(n)
       \/ RecvWhileWaiting(n) /\ Acknowledging(n)
    /\ at' = [at EXCEPT ![n] =
                 IF pc'[n] = "wait" THEN "send"
                 ELSE IF n = Client /\ outcome'[n].ok THEN "await"
                 ELSE "loop"]
    /\ UNCHANGED <<asked, exchanges>>

\* recvfromAckTimeout(2000) of the client, or "if (manager.available())" and
\* recvfromAck() of the server.
Receives(n) == at[n] = (IF n = Client THEN "await" ELSE "loop") /\ n \notin hung

Receiving(n) ==
    /\ Receives(n)
    /\ \/ Available(n) /\ UNCHANGED hung
       \/ RecvfromAck(n) /\ Acknowledging(n)
    /\ UNCHANGED <<at, asked, exchanges>>

\* recvfromAck() returns true if the message is a new one, else false.
Received(n) ==
    /\ Receives(n)
    /\ Deliver(n)
    /\ IF log' = log THEN UNCHANGED sketchVars
       ELSE LET msg == held[n].msg
            IN  /\ UNCHANGED hung
                /\ at' = [at EXCEPT ![n] = IF n = Client THEN "loop" ELSE "reply"]
                /\ IF n = Client
                   THEN /\ exchanges' = Append(exchanges, <<sent[Client], msg>>)
                        /\ UNCHANGED asked
                   ELSE /\ asked' = Append(asked, msg)
                        /\ UNCHANGED exchanges

\* recvfromAckTimeout() returns false: "No reply".
NoReply ==
    /\ Receives(Client) /\ pc[Client] = "idle" /\ rxBuf[Client] = NoFrame
    /\ at' = [at EXCEPT ![Client] = "loop"]
    /\ UNCHANGED <<vars, asked, exchanges, hung>>

\* The server sends its reply to where the request came from.
Reply ==
    /\ at[Server] = "reply" /\ Server \notin hung
    /\ SendtoWait(Server, log[Server][Len(log[Server])][1], TRUE)
    /\ WaitPacketSent(Server)
    /\ at' = [at EXCEPT ![Server] = "send"]
    /\ UNCHANGED <<asked, exchanges>>

SketchNext ==
    \/ Request
    \/ NoReply
    \/ Reply
    \/ \E n \in {Client, Server} : Sending(n) \/ Receiving(n) \/ Received(n)

(***************************************************************************)
(* As long as a node does not hang, the loops of sendtoWait() are bounded  *)
(* by millis() whatever arrives, what recvfromAck() finds it works on to   *)
(* the end, and the server answers what it got.  Nothing is assumed of the *)
(* medium, nor that a transmission ends.                                   *)
(***************************************************************************)
SketchSpec ==
    /\ SketchInit
    /\ [][SketchNext]_<<vars, sketchVars>>
    /\ \A n \in {Client, Server} :
          /\ WF_<<vars, sketchVars>>(Sending(n) /\ (Retransmit(n) \/ GiveUp(n)))
          /\ WF_<<vars, sketchVars>>(Receiving(n) /\ RecvfromAck(n))
          /\ WF_<<vars, sketchVars>>(Received(n))
    /\ WF_<<vars, sketchVars>>(Reply)
    /\ WF_<<vars, sketchVars>>(NoReply)

-----------------------------------------------------------------------------
(***************************************************************************)
(* "Now wait for a reply from the server": although a reply does not name  *)
(* its request, and although either side may give up while the other still *)
(* retransmits, what the client prints as the reply answers the request it *)
(* sent last, and no request gets two replies.                             *)
(***************************************************************************)
ReplyAnswersRequest ==
    \A i \in DOMAIN exchanges :
        /\ asked[exchanges[i][2]] = exchanges[i][1]
        /\ \A j \in 1 .. i - 1 : exchanges[j][1] # exchanges[i][1]

(***************************************************************************)
(* A message whose sendtoWait() returned true reaches the sketch of the    *)
(* addressed node, unless the transmission of its acknowledgement is where *)
(* that node hangs: the acknowledgement goes out before the message is     *)
(* handed on.                                                              *)
(***************************************************************************)
AckedReachesSketch ==
    \A n \in {Client, Server} : \A to \in {Client, Server} \ {n}, msg \in 1 .. MaxSends :
        outcome[n].ok /\ outcome[n].to = to /\ outcome[n].msg = msg
            ~> Delivered(n, to, msg) \/ to \in hung

(***************************************************************************)
(* The two wait for each other's acknowledgement and throw away what the   *)
(* other sends meanwhile; each comes back to its loop(), even if the other *)
(* hangs, unless a transmission of its own never ends.                     *)
(***************************************************************************)
BothReturn ==
    \A n \in {Client, Server} : at[n] # "loop" ~> at[n] = "loop" \/ n \in hung
=============================================================================
