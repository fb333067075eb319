---------------------------- MODULE RoutedSketches ----------------------------
(***************************************************************************)
(* The sketches rf95_router_address1 to 4 (and rf95_mesh_address1 to 4,    *)
(* whose loop() is the same) on top of what MessageService says of their   *)
(* manager.  Whoever sits at a node types the number of another; the       *)
(* sketch sends "Hello World!" there and waits three seconds for a reply.  *)
(* Otherwise it answers every message with "And hello back to you".        *)
(***************************************************************************)
EXTENDS MessageService

CONSTANTS
    Typists,   \* the nodes at which somebody types
    MaxTyped   \* bound: numbers typed

VARIABLES
    at,      \* where loop() of each node is: "loop", "await", "answer"
    from,    \* its local variable from
    asked,   \* history: the node that was asked last
    typed,   \* history: how many numbers were typed
    replies  \* history: [asked, from] of each message printed after "got reply from"

sketchVars == <<at, from, asked, typed, replies>>

SketchInit ==
    /\ Init
    /\ at = [n \in Node |-> "loop"]
    /\ from = [n \in Node |-> n]
    /\ asked = [n \in Node |-> n]
    /\ typed = 0
    /\ replies = {}

\* A number is typed, or addr, which is not initialised, happens to hold one: at
\* any time.  sendtoWait() fails, or returns RH_ROUTER_ERROR_NONE.
Type(n, d) ==
    /\ n \in Typists /\ at[n] = "loop" /\ typed < MaxTyped
    /\ Post(n, d)
    /\ \E where \in {"loop", "await"} : at' = [at EXCEPT ![n] = where]
    /\ asked' = [asked EXCEPT ![n] = d]
    /\ typed' = typed + 1
    /\ UNCHANGED <<from, replies>>

\* "got reply": recvfromAckTimeout() gave out a message, whosever it is.
GotReply(n, s, k) ==
    /\ at[n] = "await"
    /\ Give(n, s, k)
    /\ at' = [at EXCEPT ![n] = "loop"]
    /\ from' = [from EXCEPT ![n] = s]
    /\ replies' = replies \cup {[asked |-> asked[n], from |-> s]}
    /\ UNCHANGED <<asked, typed>>

\* "No reply": its three seconds are over.
NoReply(n) ==
    /\ at[n] = "await"
    /\ at' = [at EXCEPT ![n] = "loop"]
    /\ UNCHANGED <<sent, got, from, asked, typed, replies>>

\* "got message": recvfromAck(), outside of any wait.
GotMessage(n, s, k) ==
    /\ at[n] = "loop"
    /\ Give(n, s, k)
    /\ at' = [at EXCEPT ![n] = "answer"]
    /\ from' = [from EXCEPT ![n] = s]
    /\ UNCHANGED <<asked, typed, replies>>

Answer(n) ==
    /\ at[n] = "answer"
    /\ Post(n, from[n])
    /\ at' = [at EXCEPT ![n] = "loop"]
    /\ UNCHANGED <<from, asked, typed, replies>>

Loop(n) ==
    \/ \E d \in Node \ {n} : Type(n, d)
    \/ \E s \in Node : \E k \in DOMAIN sent[s] : GotReply(n, s, k) \/ GotMessage(n, s, k)
    \/ NoReply(n)
    \/ Answer(n)

Router1 == Loop(1)
Router2 == Loop(2)
Router3 == Loop(3)
Router4 == Loop(4)

SketchNext ==
    \/ 1 \in Node /\ Router1
    \/ 2 \in Node /\ Router2
    \/ 3 \in Node /\ Router3
    \/ 4 \in Node /\ Router4

SketchSpec == SketchInit /\ [][SketchNext]_<<sent, got, sketchVars>>

-----------------------------------------------------------------------------
(***************************************************************************)
(* "Now wait for a reply from the ultimate router" (the comment above the  *)
(* three seconds of rf95_router_address1.ino): what a sketch prints as a   *)
(* reply comes from the node it asked.  It does not: from is printed and   *)
(* never compared, so that the late answer of one node is taken for that   *)
(* of the next.                                                            *)
(***************************************************************************)
ReplyFromUltimateRouter == \A reply \in replies : reply.from = reply.asked
=============================================================================
