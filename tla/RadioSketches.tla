----------------------------- MODULE RadioSketches -----------------------------
(***************************************************************************)
(* The sketches that use the driver RH_RF95 without a manager: rf95_client *)
(* sends a message, waits until it is sent and then three seconds for a    *)
(* reply; rf95_server (and rf95_HardwareSerial_server, which is the same)  *)
(* answers every message.  RH_RF95 has the radio of one of them; the rest  *)
(* of the world are the packets that reach it.                             *)
(***************************************************************************)
EXTENDS RH_RF95

CONSTANT Sketches   \* the sketches looked at, of "client" and "server"

VARIABLES
    sketch,   \* the one that runs
    at        \* where its loop() is

\* setup() is over, and init() has returned true.
SketchInit ==
    /\ Init
    /\ sketch \in Sketches
    /\ at = "loop"

\* A step of the driver that leaves a message it has in its buffer.
Keeps ==
    /\ Poll \/ Serve
    /\ rxBufValid => rxBufValid'
    /\ buf # <<>> => buf' # <<>>

\* send() and its polling before; both sketches send only when nothing is sent.
Sends(from) == at = from /\ Send /\ at' = "sending"

\* waitPacketSent(), to where the sketch goes on when it returns.
WaitPacketSent(next) ==
    /\ at = "sending"
    /\ \/ mode = "Tx" /\ Keeps /\ UNCHANGED at
       \/ mode # "Tx" /\ pc = "idle" /\ at' = next /\ UNCHANGED vars

\* available(): a message is there, or not.
Available(from) ==
    /\ at = from
    /\ Keeps
    /\ at' = IF pc' = "idle" /\ rxBufValid' THEN "recv" ELSE from

\* recv(), which polls once more; it takes what is there then.
Recv(next) ==
    /\ at = "recv"
    /\ Poll \/ Serve
    /\ pc' = "idle" => ~rxBufValid'
    /\ at' = IF pc' = "idle" THEN next ELSE "recv"

\* waitAvailableTimeout() is over: "No reply".
NoReply == at = "waiting" /\ pc = "idle" /\ at' = "delay" /\ UNCHANGED vars

Delay == at = "delay" /\ at' = "loop" /\ UNCHANGED vars

Client ==
    \/ Sends("loop")
    \/ WaitPacketSent("waiting")
    \/ Available("waiting") \/ NoReply
    \/ Recv("delay")
    \/ Delay

Server ==
    \/ Available("loop")
    \/ Recv("reply")
    \/ Sends("reply")
    \/ WaitPacketSent("loop")

Loop ==
    /\ UNCHANGED sketch
    /\ \/ sketch = "client" /\ Client
       \/ sketch = "server" /\ Server

Radio == \E p \in Packet : Arrive(p)

SketchNext ==
    \/ Loop
    \/ (Radio \/ TxEnd \/ Execute \/ Notify) /\ UNCHANGED <<sketch, at>>

SketchSpec ==
    /\ SketchInit
    /\ [][SketchNext]_<<vars, sketch, at>>
    /\ WF_<<vars, sketch, at>>(Loop)
    /\ WF_<<vars, sketch, at>>((Execute \/ Notify) /\ UNCHANGED <<sketch, at>>)
    /\ WF_<<vars, sketch, at>>(TxEnd /\ UNCHANGED <<sketch, at>>)
=============================================================================
