---------------------------- MODULE Timeouts_proofs ----------------------------
(***************************************************************************)
(* Proofs about Timeouts: for every size of the clock and of the timeouts, *)
(* so for 32 and 16 bits, and for every time the steps may take.           *)
(***************************************************************************)
EXTENDS Timeouts, TLAPS

\* Timeouts of sendtoWait() up to half of a uint16_t, and steps that take a time
\* far from the one in which millis() rolls over.
ModerateTimes ==
    /\ \A t \in MinTimeouts : 2 * t <= TimeoutSize
    /\ 2 * (TimeoutSize + 5 * MaxDelay) <= ClockSize
    /\ UartTimeout + 5 * MaxDelay < ClockSize

Moment == 0 .. ClockSize - 1

TimesOK ==
    /\ clock \in Moment /\ start \in Moment /\ starttime \in Moment
    /\ timeout \in 0 .. TimeoutSize - 1
    /\ limit \in Nat /\ least \in Nat /\ passed \in Nat
    /\ call \in Outer \cup Inner \cup {"none", "uartRx"}
    /\ at \in {"idle", "outer", "entering", "inner", "polling", "uart", "timedOut", "returned"}
    /\ at = "idle" => passed = 0
    /\ at \in {"outer", "entering"} => call \in Outer
    /\ at \in {"inner", "polling"} => call \in Outer \cup Inner
    /\ at = "uart" => call = "uartRx"

\* The outer loop measures all the time passed, the inner one the latter part.
OuterInv ==
    call \in Outer /\ at \in {"outer", "entering", "inner", "polling"} =>
        /\ Elapsed(start) = passed /\ least <= timeout /\ timeout <= Longest
        /\ at = "outer" => passed <= timeout + 4 * MaxDelay
        /\ at = "entering" => passed + limit <= timeout + MaxDelay
        /\ at \in {"inner", "polling"} =>
              /\ Elapsed(starttime) <= passed
              /\ passed - Elapsed(starttime) + limit <= timeout + MaxDelay
        /\ at = "polling" => Elapsed(starttime) <= limit + MaxDelay
        /\ at = "inner" => Elapsed(starttime) <= limit + 2 * MaxDelay

InnerInv ==
    call \in Inner /\ at \in {"inner", "polling"} =>
        /\ Elapsed(starttime) = passed /\ limit = least /\ limit < TimeoutSize
        /\ at = "polling" => passed <= limit + MaxDelay
        /\ at = "inner" => passed <= limit + 2 * MaxDelay

UartInv ==
    at = "uart" =>
        /\ Elapsed(starttime) = passed /\ limit = least /\ limit = UartTimeout
        /\ passed <= limit + MaxDelay

Ended ==
    /\ at \in {"timedOut", "returned"} => passed <= Longest + 5 * MaxDelay
    /\ at = "timedOut" => passed >= least

TimeInv == TimesOK /\ OuterInv /\ InnerInv /\ UartInv /\ Ended

-----------------------------------------------------------------------------
(* Arithmetic.                                                              *)

LEMMA ModOnce ==
    ASSUME NEW C \in Nat \ {0}, NEW x \in 0 .. C - 1
    PROVE  x % C = x /\ (x + C) % C = x /\ (x - C) % C = x
  <1>1. x % C = x
    BY SMT
  <1>2. (x + C) % C = x
    BY SMT
  <1>3. (x - C) % C = x
    BY SMT
  <1> QED
    BY <1>1, <1>2, <1>3

(* The constants, for arithmetic.                                           *)
LEMMA Sizes ==
    ASSUME ModerateTimes
    PROVE  /\ ClockSize \in Nat \ {0} /\ TimeoutSize \in Nat \ {0} /\ MaxDelay \in Nat
           /\ 2 * (TimeoutSize + 5 * MaxDelay) <= ClockSize
           /\ UartTimeout \in Nat /\ UartTimeout + 5 * MaxDelay < ClockSize
  BY TimeoutAssumption DEF ModerateTimes

(* The time since a moment grows by what a step takes, also where millis()  *)
(* rolls over.                                                              *)
LEMMA ElapsedGrows ==
    ASSUME NEW C \in Nat \ {0}, NEW now \in 0 .. C - 1, NEW since \in 0 .. C - 1,
           NEW delay \in Nat, ((now - since) % C) + delay < C
    PROVE  (((now + delay) % C) - since) % C = ((now - since) % C) + delay
  <1>1. CASE since <= now /\ now + delay < C
    <2>1. /\ now - since \in 0 .. C - 1 /\ now + delay \in 0 .. C - 1
          /\ now + delay - since \in 0 .. C - 1
      BY <1>1
    <2>2. /\ (now - since) % C = now - since /\ (now + delay) % C = now + delay
          /\ (now + delay - since) % C = now + delay - since
      BY <2>1, ModOnce
    <2> QED
      BY <2>2
  <1>2. CASE since <= now /\ now + delay >= C
    <2>1. (now - since) % C = now - since
      BY <1>2, ModOnce
    <2>2. now + delay - C \in 0 .. C - 1 /\ now + delay - since \in 0 .. C - 1
      BY <1>2, <2>1
    <2>3. (now + delay - C + C) % C = now + delay - C
      BY <2>2, ModOnce
    <2>4. (now + delay - since - C) % C = now + delay - since
      BY <2>2, ModOnce
    <2>5. /\ now + delay - C + C = now + delay
          /\ now + delay - since - C = now + delay - C - since
      OBVIOUS
    <2> QED
      BY <2>1, <2>3, <2>4, <2>5
  <1>3. CASE now < since
    <2>1. now - since + C \in 0 .. C - 1
      BY <1>3
    <2>2. (now - since + C - C) % C = now - since + C
      BY <2>1, ModOnce
    <2>3. now - since + C - C = now - since
      OBVIOUS
    <2>4. (now - since) % C = now - since + C
      BY <2>2, <2>3
    <2>5. now + delay < since /\ now + delay \in 0 .. C - 1
      BY <1>3, <2>4
    <2>6. (now + delay) % C = now + delay
      BY <2>5, ModOnce
    <2>7. now + delay - since + C \in 0 .. C - 1
      BY <2>5
    <2>8. (now + delay - since + C - C) % C = now + delay - since + C
      BY <2>7, ModOnce
    <2>9. now + delay - since + C - C = now + delay - since
      OBVIOUS
    <2> QED
      BY <2>4, <2>6, <2>8, <2>9
  <1> QED
    BY <1>1, <1>2, <1>3

(* A step that takes its time.                                              *)
LEMMA SpendStep ==
    ASSUME ModerateTimes, TimesOK, Spend
    PROVE  /\ clock' \in Moment /\ passed' \in Nat
           /\ \E delay \in 0 .. MaxDelay :
                 /\ passed' = passed + delay
                 /\ (clock' - clock) % ClockSize = delay
                 /\ \A since \in Moment :
                       Elapsed(since) + delay < ClockSize =>
                          (clock' - since) % ClockSize = Elapsed(since) + delay
  <1> PICK delay \in 0 .. MaxDelay :
              clock' = (clock + delay) % ClockSize /\ passed' = passed + delay
    BY DEF Spend
  <1>1. clock \in Moment /\ passed \in Nat /\ delay \in Nat /\ delay < ClockSize
    BY Sizes DEF TimesOK
  <1>2. clock' \in Moment
    BY <1>1, Sizes DEF Moment
  <1>3. \A since \in Moment :
           Elapsed(since) + delay < ClockSize =>
              (clock' - since) % ClockSize = Elapsed(since) + delay
    BY <1>1, Sizes, ElapsedGrows DEF Moment, Elapsed
  <1>4. Elapsed(clock) = 0
    <2>1. clock - clock = 0 /\ 0 \in 0 .. ClockSize - 1
      BY <1>1, Sizes DEF Moment
    <2> QED
      BY <2>1, Sizes, ModOnce DEF Elapsed
  <1>5. (clock' - clock) % ClockSize = delay
    BY <1>1, <1>3, <1>4
  <1> QED
    BY <1>1, <1>2, <1>3, <1>5

(* The random part of a timeout is less than the timeout.                   *)
LEMMA RandomPart ==
    ASSUME NEW R \in Nat \ {0}, NEW t \in Nat, NEW random \in 0 .. R - 1
    PROVE  /\ (t * random) \div R \in Nat
           /\ (t * random) \div R <= (t * (R - 1)) \div R
           /\ (t * (R - 1)) \div R \in Nat
           /\ t > 0 => (t * random) \div R < t
  <1>1. (t * random) \div R <= (t * (R - 1)) \div R
    BY SMTT(30)
  <1>2. (t * random) \div R \in Nat
    BY SMTT(30)
  <1>3. (t * (R - 1)) \div R \in Nat
    BY SMTT(30)
  <1>4. t > 0 => (t * random) \div R < t
    BY SMTT(30)
  <1> QED
    BY <1>1, <1>2, <1>3, <1>4

LEMMA JitteredBounds ==
    ASSUME ModerateTimes, NEW t \in MinTimeouts, NEW random \in 0 .. RandomSize - 1
    PROVE  /\ Jittered(t, random) \in 0 .. TimeoutSize - 1
           /\ t <= Jittered(t, random)
           /\ Jittered(t, random) <= t + (t * (RandomSize - 1)) \div RandomSize
  <1> PICK part, most : /\ part = (t * random) \div RandomSize
                        /\ most = (t * (RandomSize - 1)) \div RandomSize
    OBVIOUS
  <1>1. RandomSize \in Nat \ {0} /\ t \in Nat /\ 2 * t <= TimeoutSize
    BY TimeoutAssumption DEF ModerateTimes
  <1>2. part \in Nat /\ part <= most /\ most \in Nat /\ (t > 0 => part < t)
    BY <1>1, RandomPart
  <1>3. (t = 0) => part = 0
    BY <1>1 DEF ModerateTimes
  <1>4. t + part \in 0 .. TimeoutSize - 1
    BY <1>1, <1>2, <1>3, Sizes
  <1>5. (t + part) % TimeoutSize = t + part
    BY <1>4, Sizes, ModOnce
  <1> QED
    BY <1>1, <1>2, <1>4, <1>5 DEF Jittered

-----------------------------------------------------------------------------
(* The steps.                                                               *)

(* A call begins.                                                           *)
LEMMA OuterCallStep ==
    ASSUME ModerateTimes, TimeInv, NEW what \in Outer, NEW t \in 0 .. TimeoutSize - 1,
           Call(what, "outer", t), start' = clock, UNCHANGED <<limit, starttime>>,
           timeout' \in 0 .. TimeoutSize - 1, t <= timeout', timeout' <= Longest'
    PROVE  TimeInv'
  <1>1. /\ TimesOK /\ passed = 0 /\ Spend /\ call' = what /\ at' = "outer" /\ least' = t
    BY DEF TimeInv, TimesOK, Call
  <1> PICK delay \in 0 .. MaxDelay :
              /\ passed' = delay /\ clock' \in Moment /\ Elapsed(start)' = delay
    BY <1>1, SpendStep DEF Elapsed, TimesOK
  <1>2. TimesOK'
    BY <1>1 DEF TimesOK, Outer, Inner
  <1>3. OuterInv'
    BY <1>1, <1>2, Sizes DEF OuterInv, TimesOK
  <1> QED
    BY <1>1, <1>2, <1>3 DEF TimeInv, InnerInv, UartInv, Ended, Outer, Inner

LEMMA InnerCallStep ==
    ASSUME ModerateTimes, TimeInv, NEW what \in Inner, NEW t \in MaxTimeouts,
           WaitInner(what, t)
    PROVE  TimeInv'
  <1>1. /\ TimesOK /\ passed = 0 /\ Spend /\ call' = what /\ at' = "inner" /\ least' = t
        /\ limit' = t /\ starttime' = clock /\ UNCHANGED <<timeout, start>>
        /\ t \in 0 .. TimeoutSize - 1
    BY TimeoutAssumption DEF TimeInv, TimesOK, WaitInner, Call
  <1> PICK delay \in 0 .. MaxDelay :
              /\ passed' = delay /\ clock' \in Moment /\ Elapsed(starttime)' = delay
    BY <1>1, SpendStep DEF Elapsed, TimesOK
  <1>2. TimesOK'
    BY <1>1, Sizes DEF TimesOK, Outer, Inner
  <1>3. InnerInv'
    BY <1>1, <1>2, Sizes DEF InnerInv, TimesOK
  <1> QED
    BY <1>1, <1>2, <1>3 DEF TimeInv, OuterInv, UartInv, Ended, Outer, Inner

LEMMA UartRxStep ==
    ASSUME ModerateTimes, TimeInv, UartRx
    PROVE  TimeInv'
  <1>1. /\ TimesOK /\ passed = 0 /\ Spend /\ call' = "uartRx" /\ at' = "uart"
        /\ least' = UartTimeout /\ limit' = UartTimeout /\ starttime' = clock
        /\ UNCHANGED <<timeout, start>>
    BY DEF TimeInv, TimesOK, UartRx, Call
  <1> PICK delay \in 0 .. MaxDelay :
              /\ passed' = delay /\ clock' \in Moment /\ Elapsed(starttime)' = delay
    BY <1>1, SpendStep DEF Elapsed, TimesOK
  <1>2. TimesOK'
    BY <1>1, Sizes DEF TimesOK, Outer, Inner
  <1>3. UartInv'
    BY <1>1, <1>2, Sizes DEF UartInv, TimesOK
  <1> QED
    BY <1>1, <1>2, <1>3 DEF TimeInv, OuterInv, InnerInv, Ended, Outer, Inner

(* What all steps within a call have in common.                             *)
LEMMA GotoStep ==
    ASSUME ModerateTimes, TimeInv, NEW where, Goto(where)
    PROVE  /\ UNCHANGED <<call, timeout, start, least>> /\ at' = where /\ Longest' = Longest
           /\ clock' \in Moment /\ passed' \in Nat
           /\ \E delay \in 0 .. MaxDelay :
                 /\ passed' = passed + delay
                 /\ (clock' - clock) % ClockSize = delay
                 /\ \A since \in Moment :
                       Elapsed(since) + delay < ClockSize =>
                          (clock' - since) % ClockSize = Elapsed(since) + delay
  <1>1. TimesOK /\ Spend
    BY DEF TimeInv, Goto
  <1>2. UNCHANGED <<call, timeout, start, least>> /\ at' = where /\ Longest' = Longest
    BY DEF Goto, Longest
  <1> QED
    BY <1>1, <1>2, SpendStep

(* The time left is measured rightly until long after it is over.           *)
LEMMA TimeLeftIs ==
    ASSUME ModerateTimes, TimeInv, at = "outer"
    PROVE  TimeLeft = timeout - passed
  <1>1. /\ call \in Outer /\ timeout \in 0 .. TimeoutSize - 1 /\ passed \in Nat
        /\ Elapsed(start) = passed /\ passed <= timeout + 4 * MaxDelay
    BY DEF TimeInv, TimesOK, OuterInv
  <1>2. CASE passed <= timeout
    <2>1. timeout - passed \in 0 .. ClockSize - 1 /\ 2 * (timeout - passed) < ClockSize
      BY <1>1, <1>2, Sizes
    <2>2. (timeout - passed) % ClockSize = timeout - passed
      BY <2>1, Sizes, ModOnce
    <2> QED
      BY <1>1, <2>1, <2>2 DEF TimeLeft, Signed
  <1>3. CASE passed > timeout
    <2> PICK x : x = timeout - passed + ClockSize
      OBVIOUS
    <2>1. x \in 0 .. ClockSize - 1 /\ ~(2 * x < ClockSize)
      BY <1>1, <1>3, Sizes
    <2>2. (x - ClockSize) % ClockSize = x
      BY <2>1, Sizes, ModOnce
    <2>3. x - ClockSize = timeout - passed
      BY <1>1, Sizes
    <2> QED
      BY <1>1, <2>1, <2>2, <2>3 DEF TimeLeft, Signed
  <1> QED
    BY <1>1, <1>2, <1>3

LEMMA OuterLoopStep ==
    ASSUME ModerateTimes, TimeInv, OuterLoop
    PROVE  TimeInv'
  <1>1. /\ at = "outer" /\ TimesOK /\ call \in Outer /\ starttime' = starttime
        /\ timeout \in 0 .. TimeoutSize - 1 /\ passed \in Nat /\ least \in Nat
        /\ Elapsed(start) = passed /\ passed <= timeout + 4 * MaxDelay
        /\ least <= timeout /\ timeout <= Longest
        /\ start \in Moment
    BY DEF OuterLoop, TimeInv, TimesOK, OuterInv
  <1>2. TimeLeft = timeout - passed
    BY <1>1, TimeLeftIs
  <1>3. CASE TimeLeft > 0 /\ limit' = TimeLeft % TimeoutSize /\ Goto("entering")
    <2>1. timeout - passed \in 0 .. TimeoutSize - 1
      BY <1>1, <1>2, <1>3, Sizes
    <2>2. limit' = timeout - passed /\ limit' \in Nat
      BY <1>2, <1>3, <2>1, Sizes, ModOnce
    <2> PICK delay \in 0 .. MaxDelay :
                /\ passed' = passed + delay
                /\ \A since \in Moment :
                      Elapsed(since) + delay < ClockSize =>
                         (clock' - since) % ClockSize = Elapsed(since) + delay
      BY <1>3, GotoStep
    <2>3. /\ UNCHANGED <<call, timeout, start, least>> /\ at' = "entering"
          /\ Longest' = Longest /\ clock' \in Moment /\ passed' \in Nat
      BY <1>3, GotoStep
    <2>4. Elapsed(start)' = passed'
      <3>1. Elapsed(start) + delay < ClockSize
        BY <1>1, Sizes
      <3> QED
        BY <1>1, <2>3, <3>1 DEF Elapsed
    <2>5. passed' + limit' <= timeout' + MaxDelay
      BY <1>1, <2>2, <2>3, Sizes
    <2>6. TimesOK'
      BY <1>1, <2>2, <2>3 DEF TimesOK
    <2>7. OuterInv'
      BY <1>1, <2>3, <2>4, <2>5 DEF OuterInv
    <2> QED
      BY <2>3, <2>6, <2>7, <1>1 DEF TimeInv, InnerInv, UartInv, Ended, Outer, Inner
  <1>4. CASE TimeLeft <= 0 /\ UNCHANGED limit /\ Goto("timedOut")
    <2>1. passed >= timeout
      BY <1>1, <1>2, <1>4
    <2> PICK delay \in 0 .. MaxDelay : passed' = passed + delay
      BY <1>4, GotoStep
    <2>2. /\ UNCHANGED <<call, timeout, start, least>> /\ at' = "timedOut"
          /\ Longest' = Longest /\ clock' \in Moment /\ passed' \in Nat
      BY <1>4, GotoStep
    <2>3. TimesOK'
      BY <1>1, <1>4, <2>2 DEF TimesOK
    <2>4. Longest \in Int
      BY <1>1, TimeoutAssumption DEF Longest
    <2>5. passed' <= Longest' + 5 * MaxDelay /\ passed' >= least'
      BY <1>1, <2>1, <2>2, <2>4, Sizes
    <2> QED
      BY <2>2, <2>3, <2>5 DEF TimeInv, OuterInv, InnerInv, UartInv, Ended
  <1> QED
    BY <1>3, <1>4 DEF OuterLoop

LEMMA WaitAvailableTimeoutStep ==
    ASSUME ModerateTimes, TimeInv, WaitAvailableTimeout
    PROVE  TimeInv'
  <1>1. /\ at = "entering" /\ TimesOK /\ call \in Outer /\ starttime' = clock /\ limit' = limit
        /\ timeout \in 0 .. TimeoutSize - 1 /\ passed \in Nat /\ limit \in Nat
        /\ Elapsed(start) = passed /\ passed + limit <= timeout + MaxDelay
        /\ least <= timeout /\ timeout <= Longest
        /\ start \in Moment /\ clock \in Moment
    BY DEF WaitAvailableTimeout, TimeInv, TimesOK, OuterInv
  <1>2. Goto("inner")
    BY DEF WaitAvailableTimeout
  <1> PICK delay \in 0 .. MaxDelay :
              /\ passed' = passed + delay
              /\ (clock' - clock) % ClockSize = delay
              /\ \A since \in Moment :
                    Elapsed(since) + delay < ClockSize =>
                       (clock' - since) % ClockSize = Elapsed(since) + delay
    BY <1>2, GotoStep
  <1>3. /\ UNCHANGED <<call, timeout, start, least>> /\ at' = "inner"
        /\ Longest' = Longest /\ clock' \in Moment /\ passed' \in Nat
    BY <1>2, GotoStep
  <1>4. Elapsed(start)' = passed' /\ Elapsed(starttime)' = delay
    <2>1. Elapsed(start) + delay < ClockSize
      BY <1>1, Sizes
    <2> QED
      BY <1>1, <1>3, <2>1 DEF Elapsed
  <1>5. TimesOK'
    BY <1>1, <1>3 DEF TimesOK
  <1>6. OuterInv'
    <2>1. /\ Elapsed(starttime)' <= passed'
          /\ passed' - Elapsed(starttime)' + limit' <= timeout' + MaxDelay
          /\ Elapsed(starttime)' <= limit' + 2 * MaxDelay
      BY <1>1, <1>3, <1>4, Sizes
    <2> QED
      BY <1>1, <1>3, <1>4, <2>1 DEF OuterInv
  <1> QED
    BY <1>1, <1>3, <1>5, <1>6 DEF TimeInv, InnerInv, UartInv, Ended, Outer, Inner

(* A step inside the inner loop of a call with an outer one.                *)
LEMMA WithinOuter ==
    ASSUME ModerateTimes, TimeInv, call \in Outer, at \in {"inner", "polling"},
           NEW where, Goto(where), UNCHANGED <<limit, starttime>>
    PROVE  \E delay \in 0 .. MaxDelay :
              /\ passed' = passed + delay /\ passed <= timeout + 3 * MaxDelay
              /\ Elapsed(start)' = passed'
              /\ Elapsed(starttime)' = Elapsed(starttime) + delay
              /\ Elapsed(starttime)' <= passed' /\ Elapsed(starttime) \in Int
              /\ passed' - Elapsed(starttime)' + limit <= timeout + MaxDelay
  <1>1. /\ TimesOK /\ start \in Moment /\ starttime \in Moment /\ clock \in Moment
        /\ timeout \in 0 .. TimeoutSize - 1 /\ passed \in Nat /\ limit \in Nat
        /\ Elapsed(start) = passed /\ Elapsed(starttime) <= passed
        /\ passed - Elapsed(starttime) + limit <= timeout + MaxDelay
    BY Sizes DEF TimeInv, TimesOK, OuterInv
  <1>2. Elapsed(starttime) \in Int
    <2>1. clock - starttime \in Int /\ ClockSize \in Nat \ {0}
      BY <1>1, Sizes DEF Moment
    <2> QED
      BY <2>1 DEF Elapsed
  <1>3. passed <= timeout + 3 * MaxDelay
    <2>1. Elapsed(starttime) <= limit + 2 * MaxDelay
      BY <1>1, <1>2, Sizes DEF TimeInv, OuterInv
    <2> QED
      BY <1>1, <1>2, <2>1, Sizes
  <1> PICK delay \in 0 .. MaxDelay :
              /\ passed' = passed + delay
              /\ \A since \in Moment :
                    Elapsed(since) + delay < ClockSize =>
                       (clock' - since) % ClockSize = Elapsed(since) + delay
    BY GotoStep
  <1>4. UNCHANGED <<start, starttime>>
    BY GotoStep
  <1>5. Elapsed(start) + delay < ClockSize /\ Elapsed(starttime) + delay < ClockSize
    BY <1>1, <1>2, <1>3, Sizes
  <1>6. Elapsed(start)' = passed' /\ Elapsed(starttime)' = Elapsed(starttime) + delay
    BY <1>1, <1>4, <1>5 DEF Elapsed
  <1> QED
    BY <1>1, <1>2, <1>3, <1>6

(* The same in a call that has no other loop.                               *)
LEMMA WithinInner ==
    ASSUME ModerateTimes, TimeInv, call \in Inner, at \in {"inner", "polling"},
           NEW where, Goto(where), UNCHANGED <<limit, starttime>>
    PROVE  \E delay \in 0 .. MaxDelay :
              /\ passed' = passed + delay
              /\ Elapsed(starttime) = passed /\ Elapsed(starttime)' = passed'
              /\ passed <= limit + 2 * MaxDelay /\ limit = least /\ limit < TimeoutSize
  <1>1. /\ TimesOK /\ starttime \in Moment /\ clock \in Moment
        /\ passed \in Nat /\ limit \in Nat /\ limit = least /\ limit < TimeoutSize
        /\ Elapsed(starttime) = passed /\ passed <= limit + 2 * MaxDelay
    BY Sizes DEF TimeInv, TimesOK, InnerInv
  <1> PICK delay \in 0 .. MaxDelay :
              /\ passed' = passed + delay
              /\ \A since \in Moment :
                    Elapsed(since) + delay < ClockSize =>
                       (clock' - since) % ClockSize = Elapsed(since) + delay
    BY GotoStep
  <1>2. Elapsed(starttime) + delay < ClockSize
    BY <1>1, Sizes
  <1>3. Elapsed(starttime)' = passed'
    BY <1>1, <1>2 DEF Elapsed
  <1> QED
    BY <1>1, <1>3

LEMMA InnerLoopStep ==
    ASSUME ModerateTimes, TimeInv, InnerLoop
    PROVE  TimeInv'
  <1>1. /\ at = "inner" /\ TimesOK /\ call \in Outer \cup Inner
        /\ UNCHANGED <<limit, starttime>>
        /\ timeout \in 0 .. TimeoutSize - 1 /\ passed \in Nat /\ limit \in Nat /\ least \in Nat
    BY DEF InnerLoop, TimeInv, TimesOK
  <1>2. PICK where \in {"polling", "outer", "timedOut"} :
           /\ Goto(where)
           /\ where = "polling" => Elapsed(starttime) < limit
           /\ where = "outer" => call \in Outer
           /\ where = "timedOut" => call \in Inner /\ Elapsed(starttime) >= limit
    BY DEF InnerLoop
  <1>3. /\ UNCHANGED <<call, timeout, start, least>> /\ at' = where
        /\ Longest' = Longest /\ clock' \in Moment /\ passed' \in Nat
    BY <1>2, GotoStep
  <1>4. TimesOK'
    BY <1>1, <1>2, <1>3 DEF TimesOK, Outer, Inner
  <1>5. CASE call \in Outer
    <2>1. where # "timedOut" /\ call \notin Inner
      BY <1>2, <1>5 DEF Outer, Inner
    <2>2. least <= timeout /\ timeout <= Longest
      BY <1>1, <1>5 DEF TimeInv, OuterInv
    <2> PICK delay \in 0 .. MaxDelay :
                /\ passed' = passed + delay /\ passed <= timeout + 3 * MaxDelay
                /\ Elapsed(start)' = passed'
                /\ Elapsed(starttime)' = Elapsed(starttime) + delay
                /\ Elapsed(starttime)' <= passed' /\ Elapsed(starttime) \in Int
                /\ passed' - Elapsed(starttime)' + limit <= timeout + MaxDelay
      BY <1>1, <1>2, <1>5, WithinOuter
    <2>3. OuterInv'
      <3>1. passed' <= timeout + 4 * MaxDelay
        BY <1>1, Sizes
      <3>2. where = "polling" => Elapsed(starttime)' <= limit + MaxDelay
        BY <1>1, <1>2, Sizes
      <3> QED
        BY <1>1, <1>2, <1>3, <2>1, <2>2, <3>1, <3>2 DEF OuterInv
    <2> QED
      BY <1>2, <1>3, <1>4, <2>1, <2>3 DEF TimeInv, InnerInv, UartInv, Ended
  <1>6. CASE call \in Inner
    <2>1. where # "outer" /\ call \notin Outer /\ Longest = least
      BY <1>2, <1>6 DEF Outer, Inner, Longest
    <2> PICK delay \in 0 .. MaxDelay :
                /\ passed' = passed + delay
                /\ Elapsed(starttime) = passed /\ Elapsed(starttime)' = passed'
                /\ passed <= limit + 2 * MaxDelay /\ limit = least /\ limit < TimeoutSize
      BY <1>1, <1>2, <1>6, WithinInner
    <2>2. InnerInv'
      <3>1. where = "polling" => passed' <= limit + MaxDelay
        BY <1>1, <1>2, Sizes
      <3> QED
        BY <1>1, <1>2, <1>3, <3>1 DEF InnerInv
    <2>3. Ended'
      <3>1. passed' <= least + 5 * MaxDelay
        BY <1>1, Sizes
      <3>2. where = "timedOut" => passed' >= least
        BY <1>1, <1>2
      <3> QED
        BY <1>3, <2>1, <3>1, <3>2 DEF Ended
    <2> QED
      BY <1>2, <1>3, <1>4, <2>1, <2>2, <2>3 DEF TimeInv, OuterInv, UartInv
  <1> QED
    BY <1>1, <1>5, <1>6

LEMMA PolledStep ==
    ASSUME ModerateTimes, TimeInv, Polled
    PROVE  TimeInv'
  <1>1. /\ at = "polling" /\ TimesOK /\ call \in Outer \cup Inner
        /\ UNCHANGED <<limit, starttime>>
        /\ timeout \in 0 .. TimeoutSize - 1 /\ passed \in Nat /\ limit \in Nat /\ least \in Nat
    BY DEF Polled, TimeInv, TimesOK
  <1>2. PICK where \in {"inner", "outer", "returned"} :
           Goto(where) /\ (where = "outer" => call \in Outer)
    BY DEF Polled
  <1>3. /\ UNCHANGED <<call, timeout, start, least>> /\ at' = where
        /\ Longest' = Longest /\ clock' \in Moment /\ passed' \in Nat
    BY <1>2, GotoStep
  <1>4. TimesOK'
    BY <1>1, <1>2, <1>3 DEF TimesOK, Outer, Inner
  <1>5. CASE call \in Outer
    <2>1. call \notin Inner
      BY <1>5 DEF Outer, Inner
    <2>2. /\ least <= timeout /\ timeout <= Longest /\ Elapsed(starttime) <= limit + MaxDelay
          /\ Longest \in Int
      BY <1>1, <1>5, TimeoutAssumption DEF TimeInv, OuterInv, Longest
    <2> PICK delay \in 0 .. MaxDelay :
                /\ passed' = passed + delay /\ passed <= timeout + 3 * MaxDelay
                /\ Elapsed(start)' = passed'
                /\ Elapsed(starttime)' = Elapsed(starttime) + delay
                /\ Elapsed(starttime)' <= passed' /\ Elapsed(starttime) \in Int
                /\ passed' - Elapsed(starttime)' + limit <= timeout + MaxDelay
      BY <1>1, <1>2, <1>5, WithinOuter
    <2>3. OuterInv'
      <3>1. passed' <= timeout + 4 * MaxDelay /\ Elapsed(starttime)' <= limit + 2 * MaxDelay
        BY <1>1, <2>2, Sizes
      <3> QED
        BY <1>1, <1>2, <1>3, <2>1, <2>2, <3>1 DEF OuterInv
    <2>4. Ended'
      <3>1. passed' <= Longest + 5 * MaxDelay
        BY <1>1, <2>2, Sizes
      <3> QED
        BY <1>2, <1>3, <3>1 DEF Ended
    <2> QED
      BY <1>2, <1>3, <1>4, <2>1, <2>3, <2>4 DEF TimeInv, InnerInv, UartInv
  <1>6. CASE call \in Inner
    <2>1. where # "outer" /\ call \notin Outer /\ Longest = least
      BY <1>2, <1>6 DEF Outer, Inner, Longest
    <2>2. passed <= limit + MaxDelay
      BY <1>1, <1>6 DEF TimeInv, InnerInv
    <2> PICK delay \in 0 .. MaxDelay :
                /\ passed' = passed + delay
                /\ Elapsed(starttime) = passed /\ Elapsed(starttime)' = passed'
                /\ passed <= limit + 2 * MaxDelay /\ limit = least /\ limit < TimeoutSize
      BY <1>1, <1>2, <1>6, WithinInner
    <2>3. InnerInv'
      <3>1. passed' <= limit + 2 * MaxDelay
        BY <1>1, <2>2, Sizes
      <3> QED
        BY <1>1, <1>2, <1>3, <3>1 DEF InnerInv
    <2>4. Ended'
      <3>1. passed' <= least + 5 * MaxDelay
        BY <1>1, Sizes
      <3> QED
        BY <1>2, <1>3, <2>1, <3>1 DEF Ended
    <2> QED
      BY <1>2, <1>3, <1>4, <2>1, <2>3, <2>4 DEF TimeInv, OuterInv, UartInv
  <1> QED
    BY <1>1, <1>5, <1>6

LEMMA UartLoopStep ==
    ASSUME ModerateTimes, TimeInv, UartLoop
    PROVE  TimeInv'
  <1>1. /\ at = "uart" /\ TimesOK /\ call = "uartRx" /\ UNCHANGED <<limit, starttime>>
        /\ timeout \in 0 .. TimeoutSize - 1 /\ passed \in Nat /\ limit \in Nat /\ least \in Nat
        /\ starttime \in Moment
        /\ Elapsed(starttime) = passed /\ limit = least /\ limit = UartTimeout
        /\ passed <= limit + MaxDelay
    BY DEF UartLoop, TimeInv, TimesOK, UartInv
  <1>2. PICK where \in {"uart", "returned", "timedOut"} :
           /\ Goto(where)
           /\ where = "uart" => passed <= limit
           /\ where = "timedOut" => passed > limit
    BY <1>1 DEF UartLoop
  <1>3. /\ UNCHANGED <<call, timeout, start, least>> /\ at' = where
        /\ Longest' = Longest /\ clock' \in Moment /\ passed' \in Nat
    BY <1>2, GotoStep
  <1> PICK delay \in 0 .. MaxDelay :
              /\ passed' = passed + delay
              /\ \A since \in Moment :
                    Elapsed(since) + delay < ClockSize =>
                       (clock' - since) % ClockSize = Elapsed(since) + delay
    BY <1>2, GotoStep
  <1>4. Elapsed(starttime)' = passed'
    <2>1. Elapsed(starttime) + delay < ClockSize
      BY <1>1, Sizes
    <2> QED
      BY <1>1, <2>1 DEF Elapsed
  <1>5. TimesOK'
    BY <1>1, <1>2, <1>3 DEF TimesOK, Outer, Inner
  <1>6. Longest = least /\ call \notin Outer \cup Inner
    BY <1>1 DEF Longest, Outer, Inner
  <1>7. UartInv'
    <2>1. where = "uart" => passed' <= limit + MaxDelay
      BY <1>1, <1>2, Sizes
    <2> QED
      BY <1>1, <1>3, <1>4, <2>1 DEF UartInv
  <1>8. Ended'
    <2>1. passed' <= least + 5 * MaxDelay
      BY <1>1, Sizes
    <2>2. where = "timedOut" => passed' >= least
      BY <1>1, <1>2
    <2> QED
      BY <1>3, <1>6, <2>1, <2>2 DEF Ended
  <1> QED
    BY <1>3, <1>5, <1>6, <1>7, <1>8 DEF TimeInv, OuterInv, InnerInv

-----------------------------------------------------------------------------
(* The theorems.                                                            *)

LEMMA TimeInit == ModerateTimes /\ Init => TimeInv
  <1> SUFFICES ASSUME ModerateTimes, Init PROVE TimeInv
    OBVIOUS
  <1>1. clock \in Moment /\ 0 \in Moment /\ 0 \in 0 .. TimeoutSize - 1
    BY Sizes DEF Init, Moment
  <1>2. TimesOK
    BY <1>1 DEF Init, TimesOK
  <1> QED
    BY <1>2 DEF Init, TimeInv, OuterInv, InnerInv, UartInv, Ended

LEMMA TimeStep ==
    ASSUME ModerateTimes, TimeInv, [Next]_vars
    PROVE  TimeInv'
  <1>1. ASSUME NEW t \in MinTimeouts, SendtoWait(t)
        PROVE  TimeInv'
    <2> PICK random \in 0 .. RandomSize - 1 : timeout' = Jittered(t, random)
      BY <1>1 DEF SendtoWait
    <2>1. /\ Call("sendtoWait", "outer", t) /\ start' = clock /\ UNCHANGED <<limit, starttime>>
          /\ call' = "sendtoWait" /\ least' = t
      BY <1>1 DEF SendtoWait, Call
    <2>2. /\ timeout' \in 0 .. TimeoutSize - 1 /\ t <= timeout'
          /\ timeout' <= t + (t * (RandomSize - 1)) \div RandomSize
      BY JitteredBounds
    <2>3. Longest' = t + (t * (RandomSize - 1)) \div RandomSize
      BY <2>1 DEF Longest
    <2>4. t \in 0 .. TimeoutSize - 1 /\ "sendtoWait" \in Outer
      BY TimeoutAssumption DEF Outer
    <2> QED
      BY <2>1, <2>2, <2>3, <2>4, OuterCallStep
  <1>2. ASSUME NEW t \in MaxTimeouts, RecvfromAckTimeout(t)
        PROVE  TimeInv'
    <2>1. /\ Call("recvfromAckTimeout", "outer", t) /\ start' = clock
          /\ UNCHANGED <<limit, starttime>> /\ timeout' = t
          /\ call' = "recvfromAckTimeout" /\ least' = t
      BY <1>2 DEF RecvfromAckTimeout, Call
    <2>2. t \in 0 .. TimeoutSize - 1 /\ "recvfromAckTimeout" \in Outer /\ Longest' = t
      BY <2>1, TimeoutAssumption DEF Outer, Longest
    <2>3. t <= timeout' /\ timeout' <= Longest'
      BY <2>1, <2>2, Sizes
    <2> QED
      BY <2>1, <2>2, <2>3, OuterCallStep
  <1>3. ASSUME Return PROVE TimeInv'
    <2>1. 0 \in Moment /\ 0 \in 0 .. TimeoutSize - 1
      BY Sizes DEF Moment
    <2>2. TimesOK'
      BY <1>3, <2>1 DEF TimeInv, TimesOK, Return
    <2> QED
      BY <1>3, <2>2 DEF Return, TimeInv, OuterInv, InnerInv, UartInv, Ended
  <1>4. CASE UNCHANGED vars
    BY <1>4 DEF vars, TimeInv, TimesOK, OuterInv, InnerInv, UartInv, Ended, Elapsed, Longest
  <1> QED
    BY <1>1, <1>2, <1>3, <1>4, InnerCallStep, UartRxStep, OuterLoopStep,
       WaitAvailableTimeoutStep, InnerLoopStep, PolledStep, UartLoopStep DEF Next

LEMMA TimeInvariant == ModerateTimes /\ Spec => []TimeInv
  <1> SUFFICES ASSUME ModerateTimes PROVE Spec => []TimeInv
    OBVIOUS
  <1>1. Init => TimeInv
    BY TimeInit
  <1>2. TimeInv /\ [Next]_vars => TimeInv'
    BY TimeStep
  <1> QED
    BY <1>1, <1>2, PTL DEF Spec

(***************************************************************************)
(* No call that waits gives up before its time, wherever millis() rolls    *)
(* over: for timeouts of sendtoWait() up to half of a uint16_t.            *)
(***************************************************************************)
THEOREM TimeoutsAreNeverEarly == ModerateTimes /\ Spec => []NeverEarly
  <1>1. TimeInv => NeverEarly
    BY DEF TimeInv, Ended, NeverEarly
  <1> QED
    BY <1>1, TimeInvariant, PTL

(***************************************************************************)
(* None takes longer than its time and what a round of its loops takes,    *)
(* however many messages it discards.                                      *)
(***************************************************************************)
THEOREM TimeoutsAreNeverLate == ModerateTimes /\ Spec => []NeverLate
  <1> SUFFICES ASSUME ModerateTimes
               PROVE  Spec => []NeverLate
    OBVIOUS
  <1>1. TimeInv => NeverLate
    <2> SUFFICES ASSUME TimeInv, at # "idle"
                 PROVE  passed <= Longest + 5 * MaxDelay
      BY DEF NeverLate
    <2>1. /\ timeout \in 0 .. TimeoutSize - 1 /\ passed \in Nat /\ limit \in Nat /\ least \in Nat
          /\ starttime \in Moment /\ clock \in Moment
      BY DEF TimeInv, TimesOK
    <2>2. Elapsed(starttime) \in Int
      <3>1. clock - starttime \in Int /\ ClockSize \in Nat \ {0}
        BY <2>1, Sizes DEF Moment
      <3> QED
        BY <3>1 DEF Elapsed
    <2>3. CASE at \in {"timedOut", "returned"}
      BY <2>3 DEF TimeInv, Ended
    <2>4. CASE at = "uart"
      <3>1. Longest = least /\ passed <= least + MaxDelay
        BY <2>4 DEF TimeInv, TimesOK, UartInv, Longest
      <3> QED
        BY <2>1, <3>1, Sizes
    <2>5. CASE at \in {"inner", "polling"} /\ call \in Inner
      <3>1. Longest = least /\ passed <= least + 2 * MaxDelay
        BY <2>1, <2>5, Sizes DEF TimeInv, InnerInv, Longest, Inner
      <3> QED
        BY <2>1, <3>1, Sizes
    <2>6. CASE at \in {"outer", "entering", "inner", "polling"} /\ call \in Outer
      <3>1. timeout <= Longest /\ Longest \in Int
        BY <2>1, <2>6, TimeoutAssumption DEF TimeInv, OuterInv, Longest
      <3>2. passed <= timeout + 4 * MaxDelay
        BY <2>1, <2>2, <2>6, Sizes DEF TimeInv, OuterInv
      <3> QED
        BY <2>1, <3>1, <3>2, Sizes
    <2> QED
      BY <2>3, <2>4, <2>5, <2>6 DEF TimeInv, TimesOK
  <1>2. Spec => []TimeInv
    BY TimeInvariant
  <1> QED
    BY <1>1, <1>2, PTL
=============================================================================
