------------------------- MODULE AcknowledgedService -------------------------
(***************************************************************************)
(* What RHReliableDatagram promises the layer above it, as long as no node *)
(* restarts and no ID is used twice: a message given to sendtoWait() is    *)
(* taken by recvfromAck() of another node once or never, those of one      *)
(* sender in their order; it is given out before the next one is taken;    *)
(* and true is returned for a message to one node only if that node has    *)
(* taken it.  How often it was sent, and what was acknowledged, is hidden. *)
(***************************************************************************)
EXTENDS Naturals, Sequences

CONSTANTS
    Node,        \* node addresses
    Broadcast    \* RH_BROADCAST_ADDRESS, which is no node's

VARIABLES
    sent,     \* number of messages given to sendtoWait() of each node
    taken,    \* for each node, the messages it took: <<sender, number>>
    log,      \* for each node, those that recvfromAck() gave out
    outcome   \* what sendtoWait() of each node last returned, and for which message

Init ==
    /\ sent = [n \in Node |-> 0]
    /\ taken = [n \in Node |-> <<>>]
    /\ log = [n \in Node |-> <<>>]
    /\ outcome = [n \in Node |-> [to |-> Broadcast, msg |-> 0, ok |-> FALSE]]

HasTaken(m, s, k) == \E i \in DOMAIN taken[m] : taken[m][i] = <<s, k>>

\* sendtoWait() is called; for a broadcast it returns at once.
Send(n) ==
    /\ sent' = [sent EXCEPT ![n] = @ + 1]
    /\ \/ UNCHANGED outcome
       \/ outcome' = [outcome EXCEPT ![n] = [to |-> Broadcast, msg |-> sent'[n], ok |-> TRUE]]
    /\ UNCHANGED <<taken, log>>

\* m takes message k of s, which is later than all it has taken from s.
Take(m, s, k) ==
    /\ taken[m] = log[m]
    /\ \A i \in DOMAIN taken[m] : taken[m][i][1] = s => taken[m][i][2] < k
    /\ taken' = [taken EXCEPT ![m] = Append(@, <<s, k>>)]
    /\ UNCHANGED <<sent, log, outcome>>

\* recvfromAck() gives out what was taken.
Give(m) ==
    /\ log' = [log EXCEPT ![m] = taken[m]]
    /\ UNCHANGED <<sent, taken, outcome>>

\* sendtoWait() for a message to one node returns.
Return(n, to, ok) ==
    /\ ok => HasTaken(to, n, sent[n])
    /\ outcome' = [outcome EXCEPT ![n] = [to |-> to, msg |-> sent[n], ok |-> ok]]
    /\ UNCHANGED <<sent, taken, log>>

Next ==
    \E n \in Node :
        \/ Send(n)
        \/ \E s \in Node : \E k \in 1 .. sent[s] : Take(n, s, k)
        \/ Give(n)
        \/ \E to \in Node, ok \in BOOLEAN : Return(n, to, ok)

Spec == Init /\ [][Next]_<<sent, taken, log, outcome>>
=============================================================================
