------------------------------- MODULE Timeouts -------------------------------
(***************************************************************************)
(* The clock arithmetic of the calls that wait.  millis() is an unsigned   *)
(* number of 32 bits that rolls over; timeouts have 16.  sendtoWait() and  *)
(* the three recvfromAckTimeout() measure the time left, as a signed       *)
(* number, around waitAvailableTimeout(), which measures the time gone, as *)
(* an unsigned one, around available().  Any time up to MaxDelay may pass  *)
(* between two of their steps.                                             *)
(***************************************************************************)
EXTENDS Integers

CONSTANTS
    ClockSize,    \* 2^32, the values of millis()
    TimeoutSize,  \* 2^16, the values of a uint16_t
    RandomSize,   \* 256, the values of random(0, 256)
    MinTimeouts,  \* _timeout: arguments of setTimeout()
    MaxTimeouts,  \* arguments of the calls that wait
    UartTimeout,  \* 1000 * DEFAULT_TIMEOUT
    MaxDelay      \* bound: milliseconds from one step to the next

ASSUME TimeoutAssumption ==
    /\ ClockSize \in Nat /\ TimeoutSize \in 1 .. ClockSize \div 2
    /\ RandomSize \in Nat \ {0}
    /\ MinTimeouts \subseteq 0 .. TimeoutSize - 1
    /\ MaxTimeouts \subseteq 0 .. TimeoutSize - 1
    /\ UartTimeout \in Nat /\ MaxDelay \in Nat

VARIABLES
    clock,     \* what millis() returns
    call,      \* the call in progress
    at,        \* where it is
    timeout,   \* the timeout of the outer loop
    start,     \* thisSendTime, or starttime of the outer loop
    limit,     \* the timeout of the inner loop
    starttime, \* starttime of the inner loop, timerStart of uartRx()
    least,     \* history: the timeout the caller set
    passed     \* history: milliseconds since the call began to count

vars == <<clock, call, at, timeout, start, limit, starttime, least, passed>>

Outer == {"sendtoWait", "recvfromAckTimeout"}
Inner == {"waitAvailableTimeout", "waitPacketSent"}

Init ==
    /\ clock \in 0 .. ClockSize - 1
    /\ call = "none" /\ at = "idle"
    /\ timeout = 0 /\ start = 0 /\ limit = 0 /\ starttime = 0
    /\ least = 0 /\ passed = 0

\* The step takes its time.
Spend ==
    \E delay \in 0 .. MaxDelay :
        /\ clock' = (clock + delay) % ClockSize
        /\ passed' = passed + delay

-----------------------------------------------------------------------------
(***************************************************************************)
(* The calls.                                                              *)
(***************************************************************************)
Call(what, where, t) ==
    /\ at = "idle"
    /\ call' = what /\ at' = where /\ least' = t
    /\ Spend

\* Fault: the random part is of the whole range.
JitteredAnywhere(t, random) == (t * random) \div RandomSize

\* timeout is a uint16_t.
Jittered(t, random) == (t + (t * random) \div RandomSize) % TimeoutSize

\* The message has been sent.
SendtoWait(t) ==
    /\ Call("sendtoWait", "outer", t)
    /\ start' = clock
    /\ \E random \in 0 .. RandomSize - 1 : timeout' = Jittered(t, random)
    /\ UNCHANGED <<limit, starttime>>

RecvfromAckTimeout(t) ==
    /\ Call("recvfromAckTimeout", "outer", t)
    /\ start' = clock
    /\ timeout' = t
    /\ UNCHANGED <<limit, starttime>>

WaitInner(what, t) ==
    /\ Call(what, "inner", t)
    /\ limit' = t
    /\ starttime' = clock
    /\ UNCHANGED <<timeout, start>>

UartRx ==
    /\ Call("uartRx", "uart", UartTimeout)
    /\ limit' = UartTimeout
    /\ starttime' = clock
    /\ UNCHANGED <<timeout, start>>

-----------------------------------------------------------------------------
(***************************************************************************)
(* The loops.                                                              *)
(***************************************************************************)
Goto(where) ==
    /\ at' = where
    /\ Spend
    /\ UNCHANGED <<call, timeout, start, least>>

\* Fault: the clock is compared with the time at which to stop.
ElapsedNotRolledOver(since) == clock - since

Elapsed(since) == (clock - since) % ClockSize

Signed(x) == IF 2 * x < ClockSize THEN x ELSE x - ClockSize

TimeLeft == Signed((timeout - Elapsed(start)) % ClockSize)

OuterLoop ==
    /\ at = "outer"
    /\ \/ /\ TimeLeft > 0
          /\ limit' = TimeLeft % TimeoutSize
          /\ Goto("entering")
       \/ /\ TimeLeft <= 0
          /\ UNCHANGED limit
          /\ Goto("timedOut")
    /\ UNCHANGED starttime

WaitAvailableTimeout ==
    /\ at = "entering"
    /\ starttime' = clock
    /\ Goto("inner")
    /\ UNCHANGED limit

InnerLoop ==
    /\ at = "inner"
    /\ \/ Elapsed(starttime) < limit /\ Goto("polling")
       \/ Elapsed(starttime) >= limit /\ call \in Outer /\ Goto("outer")
       \/ Elapsed(starttime) >= limit /\ call \in Inner /\ Goto("timedOut")
    /\ UNCHANGED <<limit, starttime>>

\* available() finds nothing, or something the caller discards, or what the call
\* was waiting for.
Polled ==
    /\ at = "polling"
    /\ \/ Goto("inner")
       \/ call \in Outer /\ Goto("outer")
       \/ Goto("returned")
    /\ UNCHANGED <<limit, starttime>>

\* One round of uartRx(): the last octet is read, or the clock.
UartLoop ==
    /\ at = "uart"
    /\ \/ Goto("returned")
       \/ Elapsed(starttime) <= limit /\ Goto("uart")
       \/ Elapsed(starttime) > limit /\ Goto("timedOut")
    /\ UNCHANGED <<limit, starttime>>

Return ==
    /\ at \in {"timedOut", "returned"}
    /\ call' = "none" /\ at' = "idle"
    /\ timeout' = 0 /\ start' = 0 /\ limit' = 0 /\ starttime' = 0
    /\ least' = 0 /\ passed' = 0
    /\ UNCHANGED clock

Next ==
    \/ \E t \in MinTimeouts : SendtoWait(t)
    \/ \E t \in MaxTimeouts : RecvfromAckTimeout(t)
    \/ \E what \in Inner, t \in MaxTimeouts : WaitInner(what, t)
    \/ UartRx
    \/ OuterLoop \/ WaitAvailableTimeout \/ InnerLoop \/ Polled
    \/ UartLoop
    \/ Return

Spec == Init /\ [][Next]_vars

-----------------------------------------------------------------------------
(***************************************************************************)
(* Properties.                                                             *)
(***************************************************************************)
\* No call gives up before the time its caller set is over, sendtoWait() no
\* retransmission before setTimeout()'s "minimum retransmit timeout", wherever
\* millis() rolls over (RHReliableDatagram.cpp:70-74, RHGenericDriver.cpp:37).
NeverEarly == at = "timedOut" => passed >= least

\* Nor does one go on for longer than its timeout, for sendtoWait() less than
\* twice _timeout, and what the steps of one round of its loops take; discarded
\* messages, each of which starts the inner loop again, do not add up.
Longest == IF call = "sendtoWait" THEN least + (least * (RandomSize - 1)) \div RandomSize
                                  ELSE least

NeverLate == at # "idle" => passed <= Longest + 5 * MaxDelay

=============================================================================
