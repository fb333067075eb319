---------------------------- MODULE MessageService ----------------------------
(***************************************************************************)
(* What RHRouter and RHMesh promise the sketches above them: a message     *)
(* given to sendtoWait() may be given out by recvfromAck(), at any later   *)
(* time or never, once to the node it is for, or once to each node if it   *)
(* was broadcast.                                                          *)
(***************************************************************************)
EXTENDS Naturals, Sequences

CONSTANTS
    Node,        \* node addresses
    Broadcast    \* RH_BROADCAST_ADDRESS, which is no node's

VARIABLES
    sent,   \* for each node, the addressees of its messages, by number
    got     \* for each node, the messages recvfromAck() gave out

\* A message as recvfromAck() describes it; number: which of its source's.
Given == [source : Node, number : Nat \ {0}, dest : Node \cup {Broadcast}]

Init ==
    /\ sent = [n \in Node |-> <<>>]
    /\ got = [n \in Node |-> <<>>]

\* sendtoWait() at n, whatever it returns.
Post(n, d) ==
    /\ sent' = [sent EXCEPT ![n] = Append(@, d)]
    /\ UNCHANGED got

IsGiven(m, given) == \E i \in DOMAIN got[m] : got[m][i] = given

\* recvfromAck() at m gives out message k of s.
Give(m, s, k) ==
    LET given == [source |-> s, number |-> k, dest |-> sent[s][k]]
    IN  /\ k \in DOMAIN sent[s]
        /\ sent[s][k] \in {m, Broadcast}
        /\ ~IsGiven(m, given)
        /\ got' = [got EXCEPT ![m] = Append(@, given)]
        /\ UNCHANGED sent

Next ==
    \E n \in Node :
        \/ \E d \in Node \cup {Broadcast} : Post(n, d)
        \/ \E s \in Node : \E k \in DOMAIN sent[s] : Give(n, s, k)

Spec == Init /\ [][Next]_<<sent, got>>
=============================================================================
