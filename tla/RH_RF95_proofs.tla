--------------------------- MODULE RH_RF95_proofs ---------------------------
(***************************************************************************)
(* The safety of one radio: types, the reads that are answered, the pin    *)
(* that is not left high, the mode the driver and the chip agree on, and,  *)
(* of a radio that is not disturbed, the packets that are read whole and   *)
(* the transmissions that are over when the driver believes so.  For any   *)
(* lengths of packets and any number of packets and messages.              *)
(***************************************************************************)
EXTENDS RH_RF95, SequenceTheorems, WellFoundedInduction, TLAPS

Modes     == {"Sleep", "Idle", "Rx", "Tx"}
Registers == {"flags", "nbBytes", "addr", "fifo", "rssi"}
OpModes   == {"SLEEP", "STDBY", "RX", "TX"}
Pins      == {"RxDone", "TxDone"}

(***************************************************************************)
(* The commands the driver really sends when n packets have arrived, and   *)
(* the bytes the firmware really sends back.                               *)
(***************************************************************************)
Sent(n) == {c \in Command :
    /\ c.do = "read" => c.arg \in Registers
    /\ c.do = "mode" => c.arg \in OpModes
    /\ c.do = "mapping" => c.arg \in Pins
    /\ c.do = "pointer" => c.n <= n}

Answered(n) == {b \in Byte : b.at <= n}

TypeInv ==
    /\ TypeOK
    /\ toChip \in Seq(Sent(Len(air)))
    /\ toHost \in Seq(Answered(Len(air)))

-----------------------------------------------------------------------------
(* Types.                                                                  *)

\* What is sent and answered stays so when more packets arrive.
LEMMA MorePackets ==
    ASSUME NEW n \in Nat, NEW k \in Nat, n <= k
    PROVE  /\ Sent(n) \subseteq Sent(k) /\ Answered(n) \subseteq Answered(k)
           /\ Seq(Sent(n)) \subseteq Seq(Sent(k))
           /\ Seq(Answered(n)) \subseteq Seq(Answered(k))
  <1>1. Sent(n) \subseteq Sent(k)
    <2> SUFFICES ASSUME NEW c \in Sent(n) PROVE c \in Sent(k)
      OBVIOUS
    <2>1. c \in Command /\ c.n \in Nat
      BY DEF Sent, Command
    <2> QED
      BY <2>1 DEF Sent
  <1>2. Answered(n) \subseteq Answered(k)
    <2> SUFFICES ASSUME NEW b \in Answered(n) PROVE b \in Answered(k)
      OBVIOUS
    <2>1. b \in Byte /\ b.at \in Nat
      BY DEF Answered, Byte
    <2> QED
      BY <2>1 DEF Answered
  <1> QED
    BY <1>1, <1>2, SeqMonotonic

\* The commands of the driver.
LEMMA DriverCommands ==
    ASSUME NEW n \in Nat
    PROVE  /\ Clear \in Sent(n)
           /\ \A r \in Registers : Read(r) \in Sent(n)
           /\ \A k \in Nat : BurstRead("fifo", k) \in Sent(n)
           /\ \A k \in 0 .. n : SetPointer(k) \in Sent(n)
           /\ \A m \in Modes : ToIdle(m) \in Seq(Sent(n)) /\ ToRx(m) \in Seq(Sent(n))
           /\ ToTx \in Seq(Sent(n))
           /\ Write("mode", "SLEEP") \in Sent(n)
  <1>1. \A a \in OpModes : Write("mode", a) \in Sent(n)
    BY DEF OpModes, Write, Sent, Command
  <1>2. \A a \in Pins : Write("mapping", a) \in Sent(n)
    BY DEF Pins, Write, Sent, Command
  <1>3. Clear \in Sent(n)
    BY DEF Clear, Write, Sent, Command
  <1>4. \A r \in Registers : Read(r) \in Sent(n)
    BY DEF Read, Registers, Sent, Command
  <1>5. \A k \in Nat : BurstRead("fifo", k) \in Sent(n)
    BY DEF BurstRead, Registers, Sent, Command
  <1>6. \A k \in 0 .. n : SetPointer(k) \in Sent(n)
    BY DEF SetPointer, Sent, Command
  <1>7. /\ Write("mode", "STDBY") \in Sent(n) /\ Write("mode", "RX") \in Sent(n)
        /\ Write("mode", "TX") \in Sent(n) /\ Write("mode", "SLEEP") \in Sent(n)
        /\ Write("mapping", "RxDone") \in Sent(n) /\ Write("mapping", "TxDone") \in Sent(n)
    BY <1>1, <1>2 DEF OpModes, Pins
  <1>8. \A m \in Modes : ToIdle(m) \in Seq(Sent(n)) /\ ToRx(m) \in Seq(Sent(n))
    BY <1>7 DEF ToIdle, ToRx
  <1>9. ToTx \in Seq(Sent(n))
    BY <1>7 DEF ToTx
  <1> QED
    BY <1>3, <1>4, <1>5, <1>6, <1>7, <1>8, <1>9

\* What the firmware sends back.
LEMMA ReplyType ==
    ASSUME TypeInv, NEW c \in Sent(Len(air)), c.do = "read"
    PROVE  Reply(c) \in Seq(Answered(Len(air)))
  <1> DEFINE n == Len(air)
  <1>1. c.n \in Nat /\ c.arg \in Registers /\ n \in Nat
    BY DEF Sent, Command, TypeInv, TypeOK
  <1>2. air # <<>> => Last(air).len \in Nat
    <2> SUFFICES ASSUME air # <<>> PROVE Last(air).len \in Nat
      OBVIOUS
    <2>1. air \in Seq(Packet)
      BY DEF TypeInv, TypeOK
    <2>2. Last(air) \in Packet
      BY <2>1 DEF Last
    <2> QED
      BY <2>2, RadioAssumption DEF Packet
  <1> HIDE DEF n
  <1>b. \A r \in {"flags", "nbBytes", "addr", "fifo", "rssi"}, f \in SUBSET Flag,
           a \in 0 .. n, k \in Nat :
            Octet(r, f, a, k) \in Answered(n)
    BY <1>1 DEF Answered, Byte, Octet
  <1>0. 0 \in 0 .. n /\ 0 \in Nat /\ n \in 0 .. n /\ {} \in SUBSET Flag
    BY <1>1
  <1>3. irq \in SUBSET Flag /\ pointer \in 0 .. n /\ NbBytes \in Nat
    BY <1>2, <1>0 DEF TypeInv, TypeOK, n, NbBytes
  <1>4. CASE c.arg # "fifo"
    BY <1>1, <1>4, <1>b, <1>0, <1>3 DEF Reply, Registers, n
  <1>5. CASE c.arg = "fifo"
    <2>1. Reply(c) = [i \in 1 .. c.n |-> Octet("fifo", {}, pointer, i)]
      BY <1>5 DEF Reply
    <2>2. \A i \in 1 .. c.n : Octet("fifo", {}, pointer, i) \in Answered(n)
      BY <1>b, <1>3, <1>1, <1>0
    <2> QED
      BY <2>1, <2>2, <1>1 DEF n
  <1> QED
    BY <1>4, <1>5

\* What available() leaves behind when it returns.
LEMMA ReturnType ==
    ASSUME TypeInv, NEW m \in Modes, NEW b \in Seq(Byte), NEW v \in BOOLEAN,
           NEW cmds \in Seq(Sent(Len(air))), Return(m, b, v, cmds)
    PROVE  /\ mode' \in Modes /\ pc' = "idle" /\ len' = 0
           /\ buf' \in Seq(Byte) /\ rxBufValid' \in BOOLEAN
           /\ toChip' \in Seq(Sent(Len(air)))
  <1>1. Len(air) \in Nat
    BY DEF TypeInv, TypeOK
  <1>2. ToRx(m) \in Seq(Sent(Len(air)))
    BY <1>1, DriverCommands
  <1>3. toChip \o cmds \in Seq(Sent(Len(air)))
    BY DEF TypeInv
  <1>4. (toChip \o cmds) \o ToRx(m) \in Seq(Sent(Len(air)))
    BY <1>2, <1>3
  <1>5. toChip' \in Seq(Sent(Len(air)))
    BY <1>3, <1>4 DEF Return
  <1>6. buf' \in {b, <<>>} /\ rxBufValid' \in {v, FALSE}
    BY DEF Return
  <1>7. mode' \in Modes /\ pc' = "idle" /\ len' = 0
    BY DEF Return, Modes
  <1>8. buf' \in Seq(Byte) /\ rxBufValid' \in BOOLEAN
    <2>1. <<>> \in Seq(Byte)
      OBVIOUS
    <2> QED
      BY <1>6, <2>1
  <1> QED
    BY <1>5, <1>7, <1>8

\* A state of the right types, seen from its two lines: their elements are
\* commands and bytes.
LEMMA Lines ==
    ASSUME NEW n \in Nat
    PROVE  Seq(Sent(n)) \subseteq Seq(Command) /\ Seq(Answered(n)) \subseteq Seq(Byte)
  <1>1. Sent(n) \subseteq Command /\ Answered(n) \subseteq Byte
    BY DEF Sent, Answered
  <1> QED
    BY <1>1, SeqMonotonic

\* The driver's steps leave the chip alone.
LEMMA HostType ==
    ASSUME TypeInv, UNCHANGED chipVars, intFlag' \in BOOLEAN,
           mode' \in Modes, pc' \in Registers \union {"idle"}, len' \in Nat,
           buf' \in Seq(Byte), rxBufValid' \in BOOLEAN,
           toChip' \in Seq(Sent(Len(air))), toHost' \in Seq(Answered(Len(air))),
           sends' \in 0 .. MaxSends, disturbed' \in BOOLEAN
    PROVE  TypeInv'
  <1>1. Len(air) \in Nat
    BY DEF TypeInv, TypeOK
  <1>2. toChip' \in Seq(Command) /\ toHost' \in Seq(Byte)
    BY <1>1, Lines
  <1>3. /\ UNCHANGED <<opMode, irq, dio0, pointer, air>>
        /\ opMode \in OpModes /\ irq \in SUBSET Flag /\ dio0 \in Pins
        /\ air \in Seq(Packet) /\ pointer \in 0 .. Len(air)
    BY DEF TypeInv, TypeOK, chipVars, OpModes, Pins
  <1>4. TypeOK'
    BY <1>2, <1>3 DEF TypeOK, Modes, Registers, OpModes, Pins
  <1> QED
    BY <1>3, <1>4 DEF TypeInv

LEMMA ArriveType == ASSUME TypeInv, NEW p \in Packet, Arrive(p) PROVE TypeInv'
  <1>1. Len(air) \in Nat /\ Len(air') \in Nat /\ Len(air) <= Len(air')
            /\ air' \in Seq(Packet) /\ pointer \in 0 .. Len(air')
    BY DEF TypeInv, TypeOK, Arrive
  <1>2. toChip' \in Seq(Sent(Len(air'))) /\ toHost' \in Seq(Answered(Len(air')))
    BY <1>1, MorePackets DEF TypeInv, Arrive
  <1>3. irq' \in SUBSET Flag
    BY DEF TypeInv, TypeOK, Arrive, Flag
  <1>4. disturbed' \in BOOLEAN /\ intFlag' \in BOOLEAN
    BY DEF TypeInv, TypeOK, Arrive, StillDisturbed, Serving, Edge
  <1>5. TypeOK'
    BY <1>1, <1>3, <1>4 DEF TypeInv, TypeOK, Arrive, hostVars
  <1> QED
    BY <1>2, <1>5 DEF TypeInv

LEMMA TxEndType == ASSUME TypeInv, TxEnd PROVE TypeInv'
  <1>3. irq' \in SUBSET Flag
    BY DEF TypeInv, TypeOK, TxEnd, Flag
  <1>4. disturbed' \in BOOLEAN /\ intFlag' \in BOOLEAN
    BY DEF TypeInv, TypeOK, TxEnd, StillDisturbed, Serving, Edge
  <1>5. TypeOK'
    BY <1>3, <1>4 DEF TypeInv, TypeOK, TxEnd, hostVars
  <1> QED
    BY <1>5 DEF TypeInv, TxEnd

LEMMA ExecuteType == ASSUME TypeInv, Execute PROVE TypeInv'
  <1> DEFINE n == Len(air)
             c == Head(toChip)
  <1>1. n \in Nat /\ c \in Sent(n) /\ toChip' \in Seq(Sent(n))
    BY DEF TypeInv, TypeOK, Execute
  <1>2. toHost' \in Seq(Answered(n))
    <2>1. CASE c.do = "read"
      <3>1. Reply(c) \in Seq(Answered(n))
        BY <2>1, <1>1, ReplyType
      <3> QED
        BY <2>1, <3>1 DEF TypeInv, Execute
    <2>2. CASE c.do # "read"
      BY <2>2 DEF TypeInv, Execute
    <2> QED
      BY <2>1, <2>2
  <1>3. toChip' \in Seq(Command) /\ toHost' \in Seq(Byte)
    BY <1>1, <1>2, Lines
  <1>4. opMode' \in OpModes
    BY <1>1 DEF Execute, Sent, TypeInv, TypeOK, OpModes
  <1>5. dio0' \in Pins
    BY <1>1 DEF Execute, Sent, TypeInv, TypeOK, Pins
  <1>6. pointer' \in 0 .. n
    <2>1. c.n \in Nat
      BY <1>1 DEF Sent, Command
    <2> QED
      BY <1>1, <2>1 DEF Execute, Sent, TypeInv, TypeOK
  <1>7. irq' \in SUBSET Flag
    BY DEF Execute, TypeInv, TypeOK
  <1>8. intFlag' \in BOOLEAN
    BY DEF Execute, Edge, TypeInv, TypeOK
  <1>9. UNCHANGED <<mode, pc, len, buf, rxBufValid, air, sends, disturbed>>
    BY DEF Execute, hostVars
  <1> HIDE DEF n, c
  <1>10. TypeOK'
    BY <1>3, <1>4, <1>5, <1>6, <1>7, <1>8, <1>9 DEF TypeInv, TypeOK, OpModes, Pins, n
  <1> QED
    BY <1>1, <1>2, <1>9, <1>10 DEF TypeInv, n

LEMMA NotifyType == ASSUME TypeInv, Notify PROVE TypeInv'
  <1>1. Len(air) \in Nat
    BY DEF TypeInv, TypeOK
  <1>2. I \in Answered(Len(air))
    BY <1>1 DEF I, Octet, Answered, Byte
  <1>3. toHost' \in Seq(Answered(Len(air)))
    BY <1>2 DEF Notify, TypeInv
  <1>4. UNCHANGED <<mode, pc, len, buf, rxBufValid, toChip, sends, disturbed>>
        /\ UNCHANGED chipVars /\ intFlag' = FALSE
    BY DEF Notify, hostVars
  <1>5. /\ mode \in Modes /\ pc \in Registers \union {"idle"} /\ len \in Nat
        /\ buf \in Seq(Byte) /\ rxBufValid \in BOOLEAN /\ toChip \in Seq(Sent(Len(air)))
        /\ sends \in 0 .. MaxSends /\ disturbed \in BOOLEAN
    BY DEF TypeInv, TypeOK, Modes, Registers
  <1> QED
    BY <1>3, <1>4, <1>5, HostType

\* The head of a line and the rest.
LEMMA NextByte ==
    ASSUME TypeInv, toHost # <<>>
    PROVE  /\ Head(toHost) \in Answered(Len(air)) /\ Head(toHost) \in Byte
           /\ Tail(toHost) \in Seq(Answered(Len(air)))
           /\ Head(toHost).irq \in SUBSET Flag /\ Head(toHost).n \in Nat
           /\ Head(toHost).at \in 0 .. Len(air)
  <1>1. Head(toHost) \in Answered(Len(air)) /\ Tail(toHost) \in Seq(Answered(Len(air)))
    BY DEF TypeInv
  <1>2. Head(toHost) \in Byte /\ Head(toHost).at <= Len(air)
    BY <1>1 DEF Answered
  <1>3. Len(air) \in Nat
    BY DEF TypeInv, TypeOK
  <1> QED
    BY <1>1, <1>2, <1>3 DEF Byte

\* Waiting for bytes and having them, the line is not empty.
LEMMA Awaited ==
    ASSUME TypeInv, NEW reg, NEW k \in Nat, Await(reg, k)
    PROVE  /\ pc = reg /\ toHost # <<>> /\ Len(toHost) >= k /\ Len(toHost) >= 1
           /\ Len(toHost) \in Nat /\ Needed(k) \in Nat /\ Len(toHost) >= Needed(k)
           /\ Needed(k) >= 1
  <1>1. Len(toHost) \in Nat /\ toHost \in Seq(Byte)
    BY DEF TypeInv, TypeOK
  <1>2. Needed(k) \in Nat /\ Needed(k) >= 1 /\ Needed(k) >= k
    BY DEF Needed
  <1>3. Len(toHost) >= Needed(k) /\ pc = reg
    BY DEF Await
  <1>4. Len(toHost) >= 1
    BY <1>1, <1>2, <1>3
  <1>5. toHost # <<>>
    BY <1>4
  <1> QED
    BY <1>1, <1>2, <1>3, <1>4, <1>5

\* The parts of a step that TypeInv gives as they are.
LEMMA Parts ==
    ASSUME TypeInv
    PROVE  /\ Len(air) \in Nat /\ intFlag \in BOOLEAN /\ disturbed \in BOOLEAN
           /\ mode \in Modes /\ pc \in Registers \union {"idle"} /\ len \in Nat
           /\ buf \in Seq(Byte) /\ rxBufValid \in BOOLEAN
           /\ toChip \in Seq(Sent(Len(air))) /\ toHost \in Seq(Answered(Len(air)))
           /\ sends \in 0 .. MaxSends /\ StillDisturbed \in BOOLEAN
           /\ air \in Seq(Packet) /\ irq \in SUBSET Flag
  BY DEF TypeInv, TypeOK, Modes, Registers, StillDisturbed

LEMMA PollNothingType == ASSUME TypeInv, PollNothing PROVE TypeInv'
  <1>1. toHost' \in Seq(Answered(Len(air)))
    BY NextByte, Parts DEF PollNothing
  <1>2. /\ mode' \in Modes /\ pc' = "idle" /\ len' = 0
        /\ buf' \in Seq(Byte) /\ rxBufValid' \in BOOLEAN
        /\ toChip' \in Seq(Sent(Len(air)))
    <2>1. Return(mode, buf, rxBufValid, <<>>) /\ <<>> \in Seq(Sent(Len(air)))
      BY DEF PollNothing
    <2> QED
      BY <2>1, ReturnType, Parts
  <1>3. UNCHANGED <<intFlag, sends>> /\ UNCHANGED chipVars /\ disturbed' = StillDisturbed
    BY DEF PollNothing
  <1> QED
    BY <1>1, <1>2, <1>3, Parts, HostType

LEMMA PollInterruptType == ASSUME TypeInv, PollInterrupt PROVE TypeInv'
  <1>1. toHost' \in Seq(Answered(Len(air)))
    BY NextByte DEF PollInterrupt
  <1>2. toChip' \in Seq(Sent(Len(air)))
    BY Parts, DriverCommands DEF PollInterrupt, Registers
  <1>3. pc' \in Registers \union {"idle"}
        /\ UNCHANGED <<mode, len, buf, rxBufValid, intFlag, sends, disturbed>>
        /\ UNCHANGED chipVars
    BY DEF PollInterrupt, Registers
  <1> QED
    BY <1>1, <1>2, <1>3, Parts, HostType

LEMMA GotFlagsType == ASSUME TypeInv, GotFlags PROVE TypeInv'
  <1>1. toHost' \in Seq(Answered(Len(air)))
    BY NextByte, Awaited DEF GotFlags
  <1>2. UNCHANGED <<intFlag, sends, disturbed>> /\ UNCHANGED chipVars
    BY DEF GotFlags
  <1> DEFINE Rest == /\ mode' \in Modes /\ pc' \in Registers \union {"idle"} /\ len' \in Nat
                     /\ buf' \in Seq(Byte) /\ rxBufValid' \in BOOLEAN
                     /\ toChip' \in Seq(Sent(Len(air)))
  <1>3. PICK flags \in FlagsRead(Head(toHost)) :
        \/ /\ RxFinished(flags)
           /\ toChip' = Append(toChip, Read("nbBytes"))
           /\ pc' = "nbBytes"
           /\ UNCHANGED <<mode, len, buf, rxBufValid>>
        \/ /\ TxFinished(flags)
           /\ Return("Idle", buf, rxBufValid, ToIdle("Tx") \o Dismissed(flags))
        \/ /\ ~RxFinished(flags) /\ ~TxFinished(flags)
           /\ Return(mode, buf, rxBufValid, Dismissed(flags))
    BY DEF GotFlags
  <1>4. Dismissed(flags) \in Seq(Sent(Len(air)))
        /\ ToIdle("Tx") \o Dismissed(flags) \in Seq(Sent(Len(air)))
    BY Parts, DriverCommands DEF Dismissed, Modes
  <1>5. ASSUME toChip' = Append(toChip, Read("nbBytes")), pc' = "nbBytes",
               UNCHANGED <<mode, len, buf, rxBufValid>>
        PROVE  Rest
    BY <1>5, Parts, DriverCommands DEF Registers
  <1>6. ASSUME Return("Idle", buf, rxBufValid, ToIdle("Tx") \o Dismissed(flags)) PROVE Rest
    <2>1. "Idle" \in Modes
      BY DEF Modes
    <2>2. PICK cmds : cmds = ToIdle("Tx") \o Dismissed(flags)
      OBVIOUS
    <2>3. Return("Idle", buf, rxBufValid, cmds) /\ cmds \in Seq(Sent(Len(air)))
      BY <1>6, <1>4, <2>2
    <2> QED
      BY <2>1, <2>3, Parts, ReturnType
  <1>7. ASSUME Return(mode, buf, rxBufValid, Dismissed(flags)) PROVE Rest
    BY <1>7, <1>4, Parts, ReturnType
  <1>8. Rest
    BY <1>3, <1>5, <1>6, <1>7
  <1> QED
    BY <1>1, <1>2, <1>8, Parts, HostType

LEMMA GotLengthType == ASSUME TypeInv, GotLength PROVE TypeInv'
  <1>1. toHost' \in Seq(Answered(Len(air))) /\ Head(toHost).n \in Nat
    BY NextByte, Awaited DEF GotLength
  <1>2. toChip' \in Seq(Sent(Len(air)))
    BY Parts, DriverCommands DEF GotLength, Registers
  <1>3. len' \in Nat
    <2>1. Lengths \subseteq Nat /\ 0 \in Nat
      BY RadioAssumption
    <2>2. LengthsRead(Head(toHost)) \subseteq Nat
      BY <1>1, <2>1 DEF LengthsRead
    <2> QED
      BY <2>2 DEF GotLength
  <1>4. pc' \in Registers \union {"idle"}
        /\ UNCHANGED <<mode, buf, rxBufValid, intFlag, sends, disturbed>>
        /\ UNCHANGED chipVars
    BY DEF GotLength, Registers
  <1> QED
    BY <1>1, <1>2, <1>3, <1>4, Parts, HostType

LEMMA GotAddressType == ASSUME TypeInv, GotAddress PROVE TypeInv'
  <1>1. toHost' \in Seq(Answered(Len(air))) /\ Head(toHost).at \in 0 .. Len(air)
    BY NextByte, Awaited DEF GotAddress
  <1>2. SetPointer(AddressRead(Head(toHost))) \in Sent(Len(air))
    BY <1>1, Parts, DriverCommands DEF AddressRead
  <1>3. toChip' \in Seq(Sent(Len(air)))
    BY <1>2, Parts, DriverCommands DEF GotAddress
  <1>4. pc' \in Registers \union {"idle"}
        /\ UNCHANGED <<mode, len, buf, rxBufValid, intFlag, sends, disturbed>>
        /\ UNCHANGED chipVars
    BY DEF GotAddress, Registers
  <1> QED
    BY <1>1, <1>3, <1>4, Parts, HostType

LEMMA GotOctetsType == ASSUME TypeInv, GotOctets PROVE TypeInv'
  <1>1. len \in Nat /\ Await("fifo", len)
    BY Parts DEF GotOctets
  <1>2. Len(toHost) \in Nat /\ Len(toHost) >= len /\ Needed(len) \in Nat
    BY <1>1, Awaited
  <1>3. toHost \in Seq(Answered(Len(air))) /\ toHost \in Seq(Byte)
    BY DEF TypeInv, TypeOK
  <1>4. buf' \in Seq(Byte)
    BY <1>1, <1>2, <1>3, SubSeqProperties DEF GotOctets
  <1>5. toHost' \in Seq(Answered(Len(air)))
    BY <1>1, <1>2, <1>3, SubSeqProperties DEF GotOctets
  <1>6. toChip' \in Seq(Sent(Len(air)))
    BY Parts, DriverCommands DEF GotOctets, Registers
  <1>7. pc' \in Registers \union {"idle"}
        /\ UNCHANGED <<mode, len, rxBufValid, intFlag, sends, disturbed>>
        /\ UNCHANGED chipVars
    BY DEF GotOctets, Registers
  <1> QED
    BY <1>4, <1>5, <1>6, <1>7, Parts, HostType

\* What validateRxBuf() may make of the buffer is a truth value.
LEMMA ValidatedType == ASSUME TypeInv PROVE Validated \subseteq BOOLEAN
  <1>1. rxBufValid \in BOOLEAN /\ air \in Seq(Packet)
    BY Parts
  <1>2. \A k \in DOMAIN air : air[k].mine \in BOOLEAN
    <2>1. \A k \in DOMAIN air : air[k] \in Packet
      BY <1>1, ElementOfSeq, LenProperties
    <2> QED
      BY <2>1 DEF Packet
  <1> QED
    BY <1>1, <1>2 DEF Validated

LEMMA GotRssiType == ASSUME TypeInv, GotRssi PROVE TypeInv'
  <1>1. toHost' \in Seq(Answered(Len(air)))
    BY NextByte, Awaited DEF GotRssi
  <1>2. UNCHANGED <<intFlag, sends, disturbed>> /\ UNCHANGED chipVars
    BY DEF GotRssi
  <1>3. <<Clear>> \in Seq(Sent(Len(air))) /\ ToIdle("Rx") \o <<Clear>> \in Seq(Sent(Len(air)))
    BY Parts, DriverCommands DEF Modes
  <1>4. \/ Return("Idle", buf, TRUE, ToIdle("Rx") \o <<Clear>>)
        \/ Return(mode, buf, FALSE, <<Clear>>)
    BY DEF GotRssi
  <1> DEFINE Rest == /\ mode' \in Modes /\ pc' = "idle" /\ len' = 0
                     /\ buf' \in Seq(Byte) /\ rxBufValid' \in BOOLEAN
                     /\ toChip' \in Seq(Sent(Len(air)))
  <1>5. ASSUME Return("Idle", buf, TRUE, ToIdle("Rx") \o <<Clear>>) PROVE Rest
    BY <1>5, <1>3, Parts, ReturnType DEF Modes
  <1>6. ASSUME Return(mode, buf, FALSE, <<Clear>>) PROVE Rest
    BY <1>6, <1>3, Parts, ReturnType
  <1>7. Rest
    BY <1>4, <1>5, <1>6
  <1> QED
    BY <1>1, <1>2, <1>7, Parts, HostType

LEMMA SendType == ASSUME TypeInv, Send PROVE TypeInv'
  <1>1. <<SetPointer(0)>> \in Seq(Sent(Len(air))) /\ ToIdle(mode) \in Seq(Sent(Len(air)))
        /\ ToTx \in Seq(Sent(Len(air)))
    BY Parts, DriverCommands
  <1>2. toChip' \in Seq(Sent(Len(air)))
    BY <1>1, Parts DEF Send
  <1>3. sends' \in 0 .. MaxSends
    BY Parts, RadioAssumption DEF Send
  <1>4. mode' \in Modes /\ disturbed' \in BOOLEAN
        /\ UNCHANGED <<pc, len, buf, rxBufValid, toHost, intFlag>> /\ UNCHANGED chipVars
    BY Parts DEF Send, Modes
  <1> QED
    BY <1>2, <1>3, <1>4, Parts, HostType

LEMMA SleepType == ASSUME TypeInv, Sleep PROVE TypeInv'
  <1>1. toChip' \in Seq(Sent(Len(air)))
    BY Parts, DriverCommands DEF Sleep
  <1>2. mode' \in Modes /\ disturbed' \in BOOLEAN
        /\ UNCHANGED <<pc, len, buf, rxBufValid, toHost, intFlag, sends>> /\ UNCHANGED chipVars
    BY Parts DEF Sleep, Modes
  <1> QED
    BY <1>1, <1>2, Parts, HostType

LEMMA TypeStep == ASSUME TypeInv, [Next]_vars PROVE TypeInv'
  <1>1. CASE UNCHANGED vars
    BY <1>1 DEF vars, hostVars, chipVars, TypeInv, TypeOK
  <1>2. CASE Next
    BY <1>2, ArriveType, TxEndType, ExecuteType, NotifyType, PollNothingType,
       PollInterruptType, GotFlagsType, GotLengthType, GotAddressType, GotOctetsType,
       GotRssiType, SendType, SleepType DEF Next
  <1> QED
    BY <1>1, <1>2

LEMMA TypeInit == Init => TypeInv
  <1> SUFFICES ASSUME Init PROVE TypeInv
    OBVIOUS
  <1>1. sends \in 0 .. MaxSends
    BY RadioAssumption DEF Init
  <1>2. \A S : <<>> \in Seq(S)
    OBVIOUS
  <1>3. pointer \in 0 .. Len(air)
    BY DEF Init
  <1> QED
    BY <1>1, <1>2, <1>3 DEF Init, TypeInv, TypeOK

(***************************************************************************)
(* The driver, the line, the firmware and the chip keep their variables in *)
(* their types: above all, the FIFO pointer of the chip is always at a     *)
(* packet that has arrived.                                                *)
(***************************************************************************)
THEOREM RadioTypes == Spec => []TypeInv
  <1>1. Init => TypeInv
    BY TypeInit
  <1>2. TypeInv /\ [Next]_vars => TypeInv'
    BY TypeStep
  <1> QED
    BY <1>1, <1>2, PTL DEF Spec

THEOREM RadioTypeOK == Spec => []TypeOK
  <1>1. TypeInv => TypeOK
    BY DEF TypeInv
  <1> QED
    BY <1>1, RadioTypes, PTL

-----------------------------------------------------------------------------
(* What is on a line.                                                      *)

LEMMA OnConcat ==
    ASSUME NEW S, NEW s \in Seq(S), NEW t \in Seq(S), NEW e,
           Contains(s, e) \/ Contains(t, e)
    PROVE  Contains(s \o t, e)
  <1>1. /\ Len(s) \in Nat /\ Len(t) \in Nat /\ Len(s \o t) = Len(s) + Len(t)
        /\ \A i \in 1 .. Len(s) : (s \o t)[i] = s[i]
        /\ \A i \in 1 .. Len(t) : (s \o t)[Len(s) + i] = t[i]
    OBVIOUS
  <1>2. CASE Contains(s, e)
    <2>1. PICK i \in 1 .. Len(s) : s[i] = e
      BY <1>2 DEF Contains
    <2>2. i \in 1 .. Len(s \o t) /\ (s \o t)[i] = e
      BY <1>1, <2>1
    <2> QED
      BY <2>2 DEF Contains
  <1>3. CASE Contains(t, e)
    <2>1. PICK i \in 1 .. Len(t) : t[i] = e
      BY <1>3 DEF Contains
    <2>2. Len(s) + i \in 1 .. Len(s \o t) /\ (s \o t)[Len(s) + i] = e
      BY <1>1, <2>1
    <2> QED
      BY <2>2 DEF Contains
  <1> QED
    BY <1>2, <1>3

LEMMA OnAppend ==
    ASSUME NEW S, NEW s \in Seq(S), NEW x \in S, NEW e, Contains(s, e) \/ x = e
    PROVE  Contains(Append(s, x), e)
  <1>1. Len(s) \in Nat /\ Len(Append(s, x)) = Len(s) + 1
            /\ (\A i \in 1 .. Len(s) : Append(s, x)[i] = s[i])
            /\ Append(s, x)[Len(s) + 1] = x
    OBVIOUS
  <1>2. CASE Contains(s, e)
    <2>1. PICK i \in 1 .. Len(s) : s[i] = e
      BY <1>2 DEF Contains
    <2>2. i \in 1 .. Len(Append(s, x)) /\ Append(s, x)[i] = e
      BY <1>1, <2>1
    <2> QED
      BY <2>2 DEF Contains
  <1>3. CASE x = e
    <2>1. Len(s) + 1 \in 1 .. Len(Append(s, x))
      BY <1>1
    <2> QED
      BY <1>1, <1>3, <2>1 DEF Contains
  <1> QED
    BY <1>2, <1>3

LEMMA OnTail ==
    ASSUME NEW S, NEW s \in Seq(S), s # <<>>, NEW e, Contains(s, e), Head(s) # e
    PROVE  Contains(Tail(s), e)
  <1>1. PICK i \in 1 .. Len(s) : s[i] = e
    BY DEF Contains
  <1>2. Head(s) = s[1] /\ Len(s) \in Nat /\ Len(Tail(s)) = Len(s) - 1
            /\ \A j \in 1 .. Len(Tail(s)) : Tail(s)[j] = s[j + 1]
    OBVIOUS
  <1>3. i # 1
    BY <1>1, <1>2
  <1>4. i - 1 \in 1 .. Len(Tail(s)) /\ Tail(s)[i - 1] = s[(i - 1) + 1] /\ (i - 1) + 1 = i
    BY <1>1, <1>2, <1>3
  <1> QED
    BY <1>1, <1>4 DEF Contains

\* What available() has sent by the time it returns is on the line.
LEMMA ReturnSends ==
    ASSUME TypeInv, NEW m \in Modes, NEW b, NEW v,
           NEW cmds \in Seq(Sent(Len(air))), Return(m, b, v, cmds),
           NEW e, Contains(toChip, e) \/ Contains(cmds, e)
    PROVE  Contains(toChip', e)
  <1>1. toChip \in Seq(Sent(Len(air))) /\ toChip \o cmds \in Seq(Sent(Len(air)))
            /\ ToRx(m) \in Seq(Sent(Len(air)))
    BY Parts, DriverCommands
  <1>2. Contains(toChip \o cmds, e)
    BY <1>1, OnConcat
  <1>3. Contains((toChip \o cmds) \o ToRx(m), e)
    BY <1>1, <1>2, OnConcat
  <1> QED
    BY <1>2, <1>3 DEF Return

\* handleInterrupt() ends with the clearing of the flags.
LEMMA EndsCleared ==
    ASSUME TypeInv, GotFlags \/ GotRssi
    PROVE  pc' # "idle" \/ Contains(toChip', Clear)
  <1> DEFINE S == Seq(Sent(Len(air)))
  <1>1. <<Clear>> \in S /\ ToIdle("Tx") \in S /\ ToIdle("Rx") \in S
    BY Parts, DriverCommands DEF Modes
  <1>2. Contains(<<Clear>>, Clear)
    <2>1. Len(<<Clear>>) = 1 /\ <<Clear>>[1] = Clear /\ 1 \in 1 .. 1
      OBVIOUS
    <2> QED
      BY <2>1 DEF Contains
  <1>3. \A s \in S : s \o <<Clear>> \in S /\ Contains(s \o <<Clear>>, Clear)
    <2> SUFFICES ASSUME NEW s \in S
                 PROVE  s \o <<Clear>> \in S /\ Contains(s \o <<Clear>>, Clear)
      OBVIOUS
    <2>1. s \o <<Clear>> \in S
      BY <1>1
    <2>2. PICK t : t = <<Clear>>
      OBVIOUS
    <2>3. Contains(s \o t, Clear)
      BY <1>1, <1>2, <2>2, OnConcat
    <2> QED
      BY <2>1, <2>2, <2>3
  <1> HIDE DEF S
  <1>4. ASSUME NEW m \in Modes, NEW b, NEW v, NEW cmds \in S, Contains(cmds, Clear),
               Return(m, b, v, cmds)
        PROVE  Contains(toChip', Clear)
    BY <1>4, ReturnSends DEF S
  <1>5. CASE GotFlags
    <2>1. PICK flags \in FlagsRead(Head(toHost)) :
        \/ pc' = "nbBytes"
        \/ Return("Idle", buf, rxBufValid, ToIdle("Tx") \o Dismissed(flags))
        \/ Return(mode, buf, rxBufValid, Dismissed(flags))
      BY <1>5 DEF GotFlags
    <2>2. Dismissed(flags) = <<Clear>>
      BY DEF Dismissed
    <2>3. mode \in Modes /\ "Idle" \in Modes
      BY Parts DEF Modes
    <2>4. PICK cmds : cmds = ToIdle("Tx") \o Dismissed(flags)
      OBVIOUS
    <2>5. cmds \in S /\ Contains(cmds, Clear)
      BY <1>1, <1>3, <2>2, <2>4
    <2> QED
      BY <1>1, <1>2, <1>4, <2>1, <2>2, <2>3, <2>4, <2>5
  <1>6. CASE GotRssi
    <2>1. \/ Return("Idle", buf, TRUE, ToIdle("Rx") \o <<Clear>>)
          \/ Return(mode, buf, FALSE, <<Clear>>)
      BY <1>6 DEF GotRssi
    <2>3. mode \in Modes /\ "Idle" \in Modes
      BY Parts DEF Modes
    <2>4. PICK cmds : cmds = ToIdle("Rx") \o <<Clear>>
      OBVIOUS
    <2>5. cmds \in S /\ Contains(cmds, Clear)
      BY <1>1, <1>3, <2>4
    <2> QED
      BY <1>1, <1>2, <1>4, <2>1, <2>3, <2>4, <2>5
  <1> QED
    BY <1>5, <1>6

-----------------------------------------------------------------------------
(* The pin is not left high.                                               *)

\* Whatever serves an interrupt goes on until the flags have been cleared.
LEMMA ServingStep == ASSUME TypeInv, Serving, [Next]_vars PROVE Serving' \/ irq' = {}
  <1> DEFINE n == Len(air)
  <1>0. toChip \in Seq(Sent(n)) /\ toHost \in Seq(Answered(n)) /\ n \in Nat
    BY Parts
  <1> HIDE DEF n
  <1>1. ASSUME intFlag => intFlag', UNCHANGED <<toHost, pc, toChip>> PROVE Serving'
    BY <1>1 DEF Serving
  <1>2. ASSUME UNCHANGED vars PROVE Serving'
    BY <1>1, <1>2 DEF vars, hostVars
  <1>3. ASSUME NEW p \in Packet, Arrive(p) PROVE Serving'
    BY <1>1, <1>3 DEF Arrive, Edge, hostVars
  <1>4. ASSUME TxEnd PROVE Serving'
    BY <1>1, <1>4 DEF TxEnd, Edge, hostVars
  <1>5. ASSUME Execute PROVE Serving' \/ irq' = {}
    <2>1. toChip # <<>> /\ toChip' = Tail(toChip) /\ pc' = pc
      BY <1>5 DEF Execute, hostVars
    <2>2. CASE Contains(toHost, I)
      <3>1. CASE Head(toChip).do = "read"
        <4>1. Reply(Head(toChip)) \in Seq(Answered(n))
          BY <1>0, <2>1, <3>1, ReplyType DEF n
        <4>2. Contains(toHost', I)
          BY <1>0, <1>5, <2>2, <3>1, <4>1, OnConcat DEF Execute
        <4> QED
          BY <4>2 DEF Serving
      <3>2. CASE Head(toChip).do # "read"
        BY <1>5, <2>2, <3>2 DEF Execute, Serving
      <3> QED
        BY <3>1, <3>2
    <2>3. CASE Contains(toChip, Clear)
      <3>1. CASE Head(toChip) = Clear
        BY <1>5, <3>1 DEF Execute, Clear, Write
      <3>2. CASE Head(toChip) # Clear
        <4>1. Contains(toChip', Clear)
          BY <1>0, <2>1, <2>3, <3>2, OnTail
        <4> QED
          BY <4>1 DEF Serving
      <3> QED
        BY <3>1, <3>2
    <2>4. CASE intFlag
      BY <1>5, <2>4 DEF Execute, Edge, Serving
    <2>5. CASE pc # "idle"
      BY <2>1, <2>5 DEF Serving
    <2> QED
      BY <1>1, <2>2, <2>3, <2>4, <2>5 DEF Serving
  <1>6. ASSUME Notify PROVE Serving'
    <2>1. I \in Answered(n)
      BY <1>0 DEF I, Octet, Answered, Byte
    <2>2. Contains(toHost', I)
      BY <1>0, <1>6, <2>1, OnAppend DEF Notify
    <2> QED
      BY <2>2 DEF Serving
  <1>7. ASSUME PollNothing PROVE Serving'
    <2>1. pc = "idle" /\ UNCHANGED intFlag /\ Return(mode, buf, rxBufValid, <<>>)
      BY <1>7 DEF PollNothing
    <2>2. CASE Contains(toHost, I)
      <3>1. toHost # <<>>
        BY <2>2 DEF Contains
      <3>2. FALSE \in TakenForI(Head(toHost)) /\ toHost' = Tail(toHost)
        BY <1>7, <3>1 DEF PollNothing
      <3>3. Head(toHost) # I
        <4>1. I.reg = "I"
          BY DEF I, Octet
        <4>2. TakenForI(I) = {TRUE}
          BY <4>1 DEF TakenForI
        <4> QED
          BY <3>2, <4>2
      <3>4. Contains(toHost', I)
        BY <1>0, <2>2, <3>1, <3>2, <3>3, OnTail
      <3> QED
        BY <3>4 DEF Serving
    <2>3. CASE Contains(toChip, Clear)
      <3>1. <<>> \in Seq(Sent(Len(air))) /\ mode \in Modes
        BY Parts
      <3>2. Contains(toChip', Clear)
        BY <2>1, <2>3, <3>1, ReturnSends
      <3> QED
        BY <3>2 DEF Serving
    <2> QED
      BY <2>1, <2>2, <2>3 DEF Serving
  <1>8. ASSUME PollInterrupt \/ GotLength \/ GotAddress \/ GotOctets PROVE Serving'
    BY <1>8 DEF PollInterrupt, GotLength, GotAddress, GotOctets, Serving
  <1>9. ASSUME GotFlags \/ GotRssi PROVE Serving'
    BY <1>9, EndsCleared DEF Serving
  <1>10. ASSUME Send PROVE Serving'
    <2>1. UNCHANGED <<pc, toHost, intFlag>>
      BY <1>10 DEF Send
    <2>2. ASSUME Contains(toChip, Clear) PROVE Contains(toChip', Clear)
      <3>1. <<SetPointer(0)>> \in Seq(Sent(n)) /\ ToIdle(mode) \in Seq(Sent(n))
            /\ ToTx \in Seq(Sent(n))
        BY <1>0, Parts, DriverCommands
      <3>2. PICK s : s = toChip \o ToIdle(mode)
        OBVIOUS
      <3>3. s \in Seq(Sent(n)) /\ Contains(s, Clear)
        BY <1>0, <2>2, <3>1, <3>2, OnConcat
      <3>4. PICK t : t = s \o <<SetPointer(0)>>
        OBVIOUS
      <3>5. t \in Seq(Sent(n))
        BY <3>1, <3>3, <3>4
      <3>6. PICK u : u = <<SetPointer(0)>>
        OBVIOUS
      <3>7. Contains(t, Clear)
        BY <3>1, <3>3, <3>4, <3>6, OnConcat
      <3>8. Contains(t \o ToTx, Clear)
        BY <3>1, <3>5, <3>7, OnConcat
      <3> QED
        BY <1>10, <3>2, <3>4, <3>8 DEF Send
    <2> QED
      BY <2>1, <2>2 DEF Serving
  <1>11. ASSUME Sleep PROVE Serving'
    <2>1. UNCHANGED <<pc, toHost, intFlag>>
      BY <1>11 DEF Sleep
    <2>2. ASSUME Contains(toChip, Clear) PROVE Contains(toChip', Clear)
      BY <1>0, <1>11, <2>2, OnAppend, DriverCommands DEF Sleep
    <2> QED
      BY <2>1, <2>2 DEF Serving
  <1> QED
    BY <1>2, <1>3, <1>4, <1>5, <1>6, <1>7, <1>8, <1>9, <1>10, <1>11 DEF Next

LEMMA NotDeafIs == NotDeaf <=> (dio0 \in irq => Serving)
  BY DEF NotDeaf, Serving

\* The steps that can raise the pin report the edge.
LEMMA Raising ==
    ASSUME [Next]_vars, dio0 \notin irq, dio0' \in irq'
    PROVE  intFlag'
  <1>1. (\E p \in Packet : Arrive(p)) \/ TxEnd \/ Execute => intFlag'
    BY DEF Arrive, TxEnd, Execute, Edge
  <1>2. UNCHANGED vars \/ Notify => UNCHANGED <<dio0, irq>>
    BY DEF vars, Notify, chipVars
  <1>3. PollNothing \/ PollInterrupt \/ Send \/ Sleep => UNCHANGED <<dio0, irq>>
    BY DEF PollNothing, PollInterrupt, Send, Sleep, chipVars
  <1>4. GotFlags \/ GotLength \/ GotAddress \/ GotOctets \/ GotRssi
            => UNCHANGED <<dio0, irq>>
    BY DEF GotFlags, GotLength, GotAddress, GotOctets, GotRssi, chipVars
  <1> QED
    BY <1>1, <1>2, <1>3, <1>4 DEF Next

LEMMA NotDeafStep == ASSUME TypeInv, NotDeaf, [Next]_vars PROVE NotDeaf'
  <1> SUFFICES ASSUME dio0' \in irq' PROVE Serving'
    BY DEF NotDeaf, Serving
  <1>1. CASE dio0 \in irq
    BY <1>1, NotDeafIs, ServingStep
  <1>2. CASE dio0 \notin irq
    BY <1>2, Raising DEF Serving
  <1> QED
    BY <1>1, <1>2

(***************************************************************************)
(* While the pin is high, its interrupt is still to be reported or served, *)
(* or the clearing of the flags is on its way: handleInterrupt() never     *)
(* leaves the radio unable to interrupt again, whatever arrives while it   *)
(* reads.                                                                  *)
(***************************************************************************)
THEOREM NeverDeaf == Spec => []NotDeaf
  <1>1. Init => TypeInv /\ NotDeaf
    BY TypeInit DEF Init, NotDeaf
  <1>2. TypeInv /\ NotDeaf /\ [Next]_vars => (TypeInv /\ NotDeaf)'
    BY TypeStep, NotDeafStep
  <1> QED
    BY <1>1, <1>2, PTL DEF Spec

-----------------------------------------------------------------------------
(* The last write to a register.                                           *)

LEMMA LargestExists ==
    ASSUME NEW n \in Nat, NEW T \in SUBSET (1 .. n), T # {}
    PROVE  \E x \in T : \A y \in T : x >= y
  <1> DEFINE U == {n - x : x \in T}
  <1>1. U \subseteq Nat
    <2> SUFFICES ASSUME NEW x \in T PROVE n - x \in Nat
      OBVIOUS
    <2>1. x \in 1 .. n
      OBVIOUS
    <2> QED
      BY <2>1
  <1>2. U # {}
    <2>1. PICK x \in T : TRUE
      OBVIOUS
    <2>2. n - x \in U
      BY <2>1
    <2> QED
      BY <2>2
  <1>3. PICK u \in U : \A v \in U : ~ (<<v, u>> \in OpToRel(<, Nat))
    BY <1>1, <1>2, NatLessThanWellFounded, WFMin
  <1>4. \A v \in U : ~(v < u)
    BY <1>1, <1>3 DEF OpToRel
  <1>5. PICK x \in T : u = n - x
    BY <1>3
  <1>6. ASSUME NEW y \in T PROVE x >= y
    <2>1. n - y \in U
      OBVIOUS
    <2>2. ~ (n - y < n - x)
      BY <1>4, <1>5, <2>1
    <2>3. x \in 1 .. n /\ y \in 1 .. n
      BY <1>5
    <2> QED
      BY <2>2, <2>3
  <1> QED
    BY <1>5, <1>6

\* v is what the last write to what leaves, or now if there is none.
Leaves(s, what, now, v) ==
    \/ v = now /\ \A i \in DOMAIN s : s[i].do # what
    \/ \E i \in DOMAIN s : /\ s[i].do = what /\ v = s[i].arg
                           /\ \A j \in DOMAIN s : j > i => s[j].do # what

LEMMA LeavesOne ==
    ASSUME NEW s \in Seq(Command), NEW what, NEW now, NEW v, Leaves(s, what, now, v)
    PROVE  LastWrite(s, what, now) = v
  <1> DEFINE writes == {i \in DOMAIN s : s[i].do = what}
  <1>1. LastWrite(s, what, now) = IF writes = {} THEN now ELSE s[Max(writes)].arg
    BY DEF LastWrite
  <1>2. DOMAIN s = 1 .. Len(s) /\ Len(s) \in Nat
    OBVIOUS
  <1>3. CASE v = now /\ \A i \in DOMAIN s : s[i].do # what
    <2>1. writes = {}
      BY <1>3
    <2> QED
      BY <1>1, <1>3, <2>1
  <1>4. ASSUME NEW i \in DOMAIN s, s[i].do = what, v = s[i].arg,
               \A j \in DOMAIN s : j > i => s[j].do # what
        PROVE  LastWrite(s, what, now) = v
    <2>1. i \in writes /\ \A y \in writes : i >= y
      <3>1. ASSUME NEW y \in writes PROVE i >= y
        <4>1. y \in 1 .. Len(s) /\ i \in 1 .. Len(s) /\ ~(y > i)
          BY <1>2, <1>4
        <4> QED
          BY <4>1
      <3> QED
        BY <1>4, <3>1
    <2>2. Max(writes) \in writes /\ \A y \in writes : Max(writes) >= y
      BY <2>1 DEF Max
    <2>3. Max(writes) = i
      <3>1. i \in 1 .. Len(s) /\ Max(writes) \in 1 .. Len(s)
        BY <1>2, <2>1, <2>2
      <3>2. i >= Max(writes) /\ Max(writes) >= i
        BY <2>1, <2>2
      <3> QED
        BY <3>1, <3>2
    <2> QED
      BY <1>1, <1>4, <2>1, <2>3
  <1> QED
    BY <1>3, <1>4 DEF Leaves

LEMMA LeavesSome ==
    ASSUME NEW s \in Seq(Command), NEW what, NEW now
    PROVE  Leaves(s, what, now, LastWrite(s, what, now))
  <1> DEFINE writes == {i \in DOMAIN s : s[i].do = what}
  <1>1. LastWrite(s, what, now) = IF writes = {} THEN now ELSE s[Max(writes)].arg
    BY DEF LastWrite
  <1>2. DOMAIN s = 1 .. Len(s) /\ Len(s) \in Nat
    OBVIOUS
  <1>3. CASE writes = {}
    BY <1>1, <1>3 DEF Leaves
  <1>4. CASE writes # {}
    <2>1. PICK x \in writes : \A y \in writes : x >= y
      BY <1>2, <1>4, LargestExists
    <2>2. Max(writes) \in writes /\ \A y \in writes : Max(writes) >= y
      BY <2>1 DEF Max
    <2>3. ASSUME NEW j \in DOMAIN s, j > Max(writes) PROVE s[j].do # what
      <3>1. j \in 1 .. Len(s) /\ Max(writes) \in 1 .. Len(s)
        BY <1>2, <2>2
      <3>2. ~(Max(writes) >= j)
        BY <2>3, <3>1
      <3> QED
        BY <2>2, <3>2
    <2> QED
      BY <1>1, <1>4, <2>2, <2>3 DEF Leaves
  <1> QED
    BY <1>3, <1>4

LEMMA LastOfNone == \A what, now : LastWrite(<<>>, what, now) = now
  BY DEF LastWrite

LEMMA LastOfConcat ==
    ASSUME NEW s \in Seq(Command), NEW t \in Seq(Command), NEW what, NEW now
    PROVE  LastWrite(s \o t, what, now) = LastWrite(t, what, LastWrite(s, what, now))
  <1> DEFINE u == s \o t
             a == LastWrite(s, what, now)
             b == LastWrite(t, what, a)
  <1>1. /\ u \in Seq(Command) /\ Len(s) \in Nat /\ Len(t) \in Nat
        /\ Len(u) = Len(s) + Len(t) /\ DOMAIN u = 1 .. Len(u)
        /\ DOMAIN s = 1 .. Len(s) /\ DOMAIN t = 1 .. Len(t)
        /\ \A i \in 1 .. Len(s) : u[i] = s[i]
        /\ \A i \in 1 .. Len(t) : u[Len(s) + i] = t[i]
    OBVIOUS
  <1>2. Leaves(s, what, now, a) /\ Leaves(t, what, a, b)
    BY LeavesSome
  <1> HIDE DEF a, b, u
  <1>3. \A j \in DOMAIN u : \/ j \in DOMAIN s /\ u[j] = s[j]
                            \/ /\ j > Len(s) /\ j - Len(s) \in DOMAIN t
                               /\ u[j] = t[j - Len(s)]
    <2> SUFFICES ASSUME NEW j \in DOMAIN u, j \notin DOMAIN s
                 PROVE  j > Len(s) /\ j - Len(s) \in DOMAIN t /\ u[j] = t[j - Len(s)]
      BY <1>1
    <2>1. j \in 1 .. Len(s) + Len(t) /\ ~(j \in 1 .. Len(s))
      BY <1>1
    <2>2. j > Len(s) /\ j - Len(s) \in 1 .. Len(t) /\ Len(s) + (j - Len(s)) = j
      BY <1>1, <2>1
    <2> QED
      BY <1>1, <2>2
  <1>4. \A i \in DOMAIN t : Len(s) + i \in DOMAIN u /\ u[Len(s) + i] = t[i]
    <2> SUFFICES ASSUME NEW i \in DOMAIN t
                 PROVE  Len(s) + i \in DOMAIN u /\ u[Len(s) + i] = t[i]
      OBVIOUS
    <2>1. i \in 1 .. Len(t) /\ Len(s) + i \in 1 .. Len(s) + Len(t)
      BY <1>1
    <2> QED
      BY <1>1, <2>1
  <1>5. ASSUME NEW i \in DOMAIN t, t[i].do = what, b = t[i].arg,
               \A j \in DOMAIN t : j > i => t[j].do # what
        PROVE  Leaves(u, what, now, b)
    <2>1. ASSUME NEW j \in DOMAIN u, j > Len(s) + i PROVE u[j].do # what
      <3>1. j \in Nat /\ i \in Nat /\ Len(s) \in Nat
        BY <1>1
      <3>2. j > Len(s) /\ j - Len(s) > i
        BY <2>1, <3>1
      <3>3. j \notin DOMAIN s
        BY <1>1, <3>1, <3>2
      <3> QED
        BY <1>3, <1>5, <3>2, <3>3
    <2>2. Len(s) + i \in DOMAIN u /\ u[Len(s) + i].do = what /\ b = u[Len(s) + i].arg
      BY <1>4, <1>5
    <2> QED
      BY <2>1, <2>2 DEF Leaves
  <1>6. ASSUME b = a, \A i \in DOMAIN t : t[i].do # what
        PROVE  Leaves(u, what, now, b)
    <2>1. ASSUME a = now, \A i \in DOMAIN s : s[i].do # what
          PROVE  Leaves(u, what, now, b)
      BY <1>3, <1>6, <2>1 DEF Leaves
    <2>2. ASSUME NEW i \in DOMAIN s, s[i].do = what, a = s[i].arg,
                 \A j \in DOMAIN s : j > i => s[j].do # what
          PROVE  Leaves(u, what, now, b)
      <3>1. \A j \in DOMAIN u : j > i => u[j].do # what
        BY <1>3, <1>6, <2>2
      <3>2. i \in DOMAIN u /\ u[i] = s[i]
        BY <1>1
      <3> QED
        BY <1>6, <2>2, <3>1, <3>2 DEF Leaves
    <2> QED
      BY <1>2, <2>1, <2>2 DEF Leaves
  <1>7. Leaves(u, what, now, b)
    BY <1>2, <1>5, <1>6 DEF Leaves
  <1>8. LastWrite(u, what, now) = b
    BY <1>1, <1>7, LeavesOne
  <1> QED
    BY <1>8 DEF u, a, b

LEMMA TwoInOne ==
    ASSUME NEW S, NEW a \in S, NEW b \in S
    PROVE  <<a>> \o <<b>> = <<a, b>> /\ <<a, b>> \in Seq(S)
  <1> DEFINE s == <<a>>
             t == <<b>>
             u == <<a, b>>
  <1>1. /\ s \in Seq(S) /\ t \in Seq(S) /\ u \in Seq(S)
        /\ Len(s) = 1 /\ Len(t) = 1 /\ Len(u) = 2
        /\ s[1] = a /\ t[1] = b /\ u[1] = a /\ u[2] = b
    OBVIOUS
  <1> HIDE DEF s, t, u
  <1>2. /\ s \o t \in Seq(S) /\ Len(s \o t) = 2
        /\ (s \o t)[1] = a /\ (s \o t)[2] = b
    BY <1>1, ConcatProperties
  <1>3. \A i \in 1 .. 2 : (s \o t)[i] = u[i]
    BY <1>1, <1>2
  <1>4. s \o t = u
    BY <1>1, <1>2, <1>3, SeqEqual
  <1> QED
    BY <1>1, <1>4 DEF s, t, u

LEMMA LastOfOne ==
    ASSUME NEW c \in Command, NEW what, NEW now
    PROVE  LastWrite(<<c>>, what, now) = IF c.do = what THEN c.arg ELSE now
  <1>1. <<c>> \in Seq(Command) /\ DOMAIN <<c>> = {1} /\ <<c>>[1] = c
    OBVIOUS
  <1>2. Leaves(<<c>>, what, now, IF c.do = what THEN c.arg ELSE now)
    <2>1. CASE c.do = what
      BY <1>1, <2>1 DEF Leaves
    <2>2. CASE c.do # what
      BY <1>1, <2>2 DEF Leaves
    <2> QED
      BY <2>1, <2>2
  <1> QED
    BY <1>1, <1>2, LeavesOne

\* The head of the line may as well have been executed.
LEMMA LastOfTail ==
    ASSUME NEW s \in Seq(Command), s # <<>>, NEW what, NEW now
    PROVE  LastWrite(s, what, now) =
               LastWrite(Tail(s), what, IF Head(s).do = what THEN Head(s).arg ELSE now)
  <1>1. Head(s) \in Command /\ <<Head(s)>> \in Seq(Command) /\ Tail(s) \in Seq(Command)
            /\ s = <<Head(s)>> \o Tail(s)
    BY HeadTailProperties
  <1>2. PICK h : h = <<Head(s)>>
    OBVIOUS
  <1>3. PICK t : t = Tail(s)
    OBVIOUS
  <1>s. h \in Seq(Command) /\ t \in Seq(Command) /\ s = h \o t
    BY <1>1, <1>2, <1>3
  <1>4. LastWrite(h \o t, what, now) = LastWrite(t, what, LastWrite(h, what, now))
    BY <1>s, LastOfConcat
  <1>5. LastWrite(h, what, now) = IF Head(s).do = what THEN Head(s).arg ELSE now
    BY <1>1, <1>2, LastOfOne
  <1> QED
    BY <1>s, <1>3, <1>4, <1>5

\* A write on the line hides what is in the register now.
LEMMA LastIsWritten ==
    ASSUME NEW s \in Seq(Command), NEW what, NEW now
    PROVE  \/ \A other : LastWrite(s, what, other) = other
           \/ \A other : LastWrite(s, what, other) = LastWrite(s, what, now)
  <1>1. Leaves(s, what, now, LastWrite(s, what, now))
    BY LeavesSome
  <1>2. CASE \A i \in DOMAIN s : s[i].do # what
    <2>1. \A other : Leaves(s, what, other, other)
      BY <1>2 DEF Leaves
    <2> QED
      BY <2>1, LeavesOne
  <1>3. CASE ~ \A i \in DOMAIN s : s[i].do # what
    <2> SUFFICES ASSUME NEW other PROVE LastWrite(s, what, other) = LastWrite(s, what, now)
      OBVIOUS
    <2>1. Leaves(s, what, other, LastWrite(s, what, now))
      BY <1>1, <1>3 DEF Leaves
    <2> QED
      BY <2>1, LeavesOne
  <1> QED
    BY <1>2, <1>3

-----------------------------------------------------------------------------
(* The mode of the driver and the mode of the radio.                       *)

Agree(m, radio, pin) ==
    CASE m = "Sleep" -> radio = "SLEEP"
      [] m = "Idle"  -> radio = "STDBY"
      [] m = "Rx"    -> radio = "RX" /\ pin = "RxDone"
      [] m = "Tx"    -> radio \in {"TX", "STDBY"} /\ pin = "TxDone"

\* What the commands cmds make of the registers.
After(m, cmds, radio, pin) ==
    Agree(m, LastWrite(cmds, "mode", radio), LastWrite(cmds, "mapping", pin))

LEMMA ModesAgreeIs == ModesAgree <=> After(mode, toChip, opMode, dio0)
  BY DEF ModesAgree, Agree, After, Eventually

\* The commands of the driver, one by one and in their order.
LEMMA AfterConcat ==
    ASSUME NEW m, NEW s \in Seq(Command), NEW t \in Seq(Command), NEW radio, NEW pin
    PROVE  After(m, s \o t, radio, pin)
               <=> After(m, t, LastWrite(s, "mode", radio), LastWrite(s, "mapping", pin))
  BY LastOfConcat DEF After

LEMMA AfterOthers ==
    /\ \A radio, pin : LastWrite(<<Clear>>, "mode", radio) = radio
                       /\ LastWrite(<<Clear>>, "mapping", pin) = pin
    /\ \A radio, pin, k : k \in Nat =>
           LastWrite(<<SetPointer(k)>>, "mode", radio) = radio
           /\ LastWrite(<<SetPointer(k)>>, "mapping", pin) = pin
    /\ \A radio, pin, r, k : r \in Registers /\ k \in Nat =>
           LastWrite(<<BurstRead(r, k)>>, "mode", radio) = radio
           /\ LastWrite(<<BurstRead(r, k)>>, "mapping", pin) = pin
    /\ \A radio, pin, r : r \in Registers =>
           LastWrite(<<Read(r)>>, "mode", radio) = radio
           /\ LastWrite(<<Read(r)>>, "mapping", pin) = pin
  <1>1. Clear \in Command /\ Clear.do = "clear"
    BY DEF Clear, Write, Command
  <1>2. \A k \in Nat : SetPointer(k) \in Command /\ SetPointer(k).do = "pointer"
    BY DEF SetPointer, Command
  <1>3. \A r \in Registers, k \in Nat : BurstRead(r, k) \in Command /\ BurstRead(r, k).do = "read"
    BY DEF BurstRead, Command, Registers
  <1>4. \A r \in Registers : Read(r) \in Command /\ Read(r).do = "read"
    BY DEF Read, Command, Registers
  <1>5. \A c \in Command : \A what, now : c.do # what => LastWrite(<<c>>, what, now) = now
    BY LastOfOne
  <1>6. \A radio, pin : LastWrite(<<Clear>>, "mode", radio) = radio
                        /\ LastWrite(<<Clear>>, "mapping", pin) = pin
    BY <1>1, <1>5
  <1>7. \A radio, pin, k : k \in Nat =>
           LastWrite(<<SetPointer(k)>>, "mode", radio) = radio
           /\ LastWrite(<<SetPointer(k)>>, "mapping", pin) = pin
    BY <1>2, <1>5
  <1>8. \A radio, pin, r, k : r \in Registers /\ k \in Nat =>
           LastWrite(<<BurstRead(r, k)>>, "mode", radio) = radio
           /\ LastWrite(<<BurstRead(r, k)>>, "mapping", pin) = pin
    BY <1>3, <1>5
  <1>9. \A radio, pin, r : r \in Registers =>
           LastWrite(<<Read(r)>>, "mode", radio) = radio
           /\ LastWrite(<<Read(r)>>, "mapping", pin) = pin
    BY <1>4, <1>5
  <1> QED
    BY <1>6, <1>7, <1>8, <1>9

\* The setters.
LEMMA AfterSetters ==
    /\ \A m \in Modes \ {"Idle"} : \A radio :
           LastWrite(ToIdle(m), "mode", radio) = "STDBY"
    /\ \A radio : LastWrite(ToIdle("Idle"), "mode", radio) = radio
    /\ \A m \in Modes : \A pin : LastWrite(ToIdle(m), "mapping", pin) = pin
    /\ \A m \in Modes \ {"Rx"} : \A radio, pin :
           /\ LastWrite(ToRx(m), "mode", radio) = "RX"
           /\ LastWrite(ToRx(m), "mapping", pin) = "RxDone"
    /\ \A radio, pin : LastWrite(ToTx, "mode", radio) = "TX"
                       /\ LastWrite(ToTx, "mapping", pin) = "TxDone"
  <1>1. \A what \in {"mode", "mapping"},
           arg \in {"SLEEP", "STDBY", "RX", "TX", "RxDone", "TxDone"} :
            /\ Write(what, arg) \in Command
            /\ Write(what, arg).do = what /\ Write(what, arg).arg = arg
    BY DEF Write, Command
  <1>2. ASSUME NEW arg \in {"SLEEP", "STDBY", "RX", "TX", "RxDone", "TxDone"},
               NEW radio, NEW pin
        PROVE  /\ <<Write("mode", arg)>> \in Seq(Command)
               /\ LastWrite(<<Write("mode", arg)>>, "mode", radio) = arg
               /\ LastWrite(<<Write("mode", arg)>>, "mapping", pin) = pin
    BY <1>1, LastOfOne
  <1>3. ASSUME NEW a \in {"RX", "TX"}, NEW b \in {"RxDone", "TxDone"},
               NEW radio, NEW pin
        PROVE  /\ LastWrite(<<Write("mode", a), Write("mapping", b)>>, "mode", radio) = a
               /\ LastWrite(<<Write("mode", a), Write("mapping", b)>>, "mapping", pin) = b
    <2>1. PICK s : s = <<Write("mode", a)>>
      OBVIOUS
    <2>2. PICK t : t = <<Write("mapping", b)>>
      OBVIOUS
    <2>3. s \o t = <<Write("mode", a), Write("mapping", b)>>
      BY <1>1, <2>1, <2>2, TwoInOne
    <2>4. Write("mapping", b) \in Command /\ Write("mapping", b).do = "mapping"
              /\ Write("mapping", b).arg = b
      BY <1>1
    <2>5. s \in Seq(Command) /\ t \in Seq(Command)
      BY <1>2, <2>1, <2>2, <2>4
    <2>6. LastWrite(s, "mode", radio) = a
      BY <1>2, <2>1
    <2>7. LastWrite(t, "mode", a) = a /\ \A now : LastWrite(t, "mapping", now) = b
      BY <2>2, <2>4, LastOfOne
    <2>8. LastWrite(s \o t, "mode", radio) = a /\ LastWrite(s \o t, "mapping", pin) = b
      BY <2>5, <2>6, <2>7, LastOfConcat
    <2> QED
      BY <2>3, <2>8
  <1>4. \A radio, pin :
        /\ LastWrite(ToIdle("Idle"), "mode", radio) = radio
        /\ LastWrite(ToIdle("Idle"), "mapping", pin) = pin
    BY LastOfNone DEF ToIdle
  <1>5. \A m \in Modes \ {"Idle"} : \A radio, pin :
            /\ LastWrite(ToIdle(m), "mode", radio) = "STDBY"
            /\ LastWrite(ToIdle(m), "mapping", pin) = pin
    BY <1>2 DEF ToIdle
  <1>6. \A m \in Modes : \A pin : LastWrite(ToIdle(m), "mapping", pin) = pin
    BY <1>4, <1>5
  <1>7. \A m \in Modes \ {"Rx"} : \A radio, pin :
            /\ LastWrite(ToRx(m), "mode", radio) = "RX"
            /\ LastWrite(ToRx(m), "mapping", pin) = "RxDone"
    BY <1>3 DEF ToRx
  <1>8. \A radio, pin : LastWrite(ToTx, "mode", radio) = "TX" /\ LastWrite(ToTx, "mapping", pin) = "TxDone"
    BY <1>3 DEF ToTx
  <1> QED
    BY <1>4, <1>5, <1>6, <1>7, <1>8

\* available() returns: the driver is in mode m, or sets the radio to receive.
LEMMA ReturnAgrees ==
    ASSUME TypeInv, NEW m \in Modes, NEW b, NEW v, NEW cmds \in Seq(Sent(Len(air))),
           Return(m, b, v, cmds), UNCHANGED <<opMode, dio0>>,
           After(m, cmds, Eventually("mode", opMode), Eventually("mapping", dio0))
    PROVE  ModesAgree'
  <1>0. toChip \in Seq(Command) /\ cmds \in Seq(Command) /\ ToRx(m) \in Seq(Command)
            /\ toChip \o cmds \in Seq(Command)
    BY Parts, Lines, DriverCommands
  <1>1. After(m, toChip \o cmds, opMode, dio0)
    BY <1>0, AfterConcat DEF Eventually
  <1>2. CASE m = "Tx"
    <2>1. mode' = m /\ toChip' = toChip \o cmds
      BY <1>2 DEF Return
    <2> QED
      BY <1>1, <2>1, ModesAgreeIs DEF After, ModesAgree, Agree, Eventually
  <1>3. CASE m = "Rx"
    <2>1. ToRx(m) = <<>>
      BY <1>3 DEF ToRx
    <2>2. (toChip \o cmds) \o <<>> = toChip \o cmds
      BY <1>0, ConcatEmptySeq
    <2>3. mode' = m /\ toChip' = toChip \o cmds
      BY <1>3, <2>1, <2>2 DEF Return
    <2> QED
      BY <1>1, <2>3, ModesAgreeIs DEF After, ModesAgree, Agree, Eventually
  <1>4. CASE m \notin {"Rx", "Tx"}
    <2>1. mode' = "Rx" /\ toChip' = (toChip \o cmds) \o ToRx(m)
      BY <1>4 DEF Return
    <2>2. \A radio, pin : After("Rx", ToRx(m), radio, pin)
      <3>1. m \in Modes \ {"Rx"}
        BY <1>4
      <3>2. \A radio, pin : /\ LastWrite(ToRx(m), "mode", radio) = "RX"
                            /\ LastWrite(ToRx(m), "mapping", pin) = "RxDone"
        BY <3>1, AfterSetters
      <3> QED
        BY <3>2 DEF After, Agree
    <2>3. PICK s : s = toChip \o cmds
      OBVIOUS
    <2>4. After("Rx", s \o ToRx(m), opMode, dio0)
      BY <1>0, <2>2, <2>3, AfterConcat
    <2> QED
      BY <2>1, <2>3, <2>4 DEF After, ModesAgree, Agree, Eventually
  <1> QED
    BY <1>2, <1>3, <1>4

LEMMA ModesAgreeStep == ASSUME TypeInv, ModesAgree, [Next]_vars PROVE ModesAgree'
  <1> DEFINE radio == Eventually("mode", opMode)
             pin   == Eventually("mapping", dio0)
  <1>0. toChip \in Seq(Command) /\ mode \in Modes /\ Agree(mode, radio, pin)
    BY Parts, Lines, ModesAgreeIs DEF After, Eventually
  <1>a. ASSUME radio' = radio, pin' = pin, mode' = mode PROVE ModesAgree'
    BY <1>a DEF ModesAgree
  <1>b. \A cmds : After(mode, cmds, radio, pin)
            <=> Agree(mode, LastWrite(cmds, "mode", radio), LastWrite(cmds, "mapping", pin))
    BY DEF After
  <1>1. CASE UNCHANGED <<mode, toChip, opMode, dio0>>
    BY <1>a, <1>1 DEF Eventually
  <1>2. ASSUME TxEnd PROVE ModesAgree'
    <2>1. opMode = "TX" /\ opMode' = "STDBY" /\ UNCHANGED <<mode, toChip, dio0>>
      BY <1>2 DEF TxEnd, hostVars
    <2>2. pin' = pin
      BY <2>1 DEF Eventually
    <2>3. CASE \A other : LastWrite(toChip, "mode", other) = other
      <3>1. radio = "TX" /\ radio' = "STDBY"
        BY <2>1, <2>3 DEF Eventually
      <3>2. mode = "Tx" /\ pin = "TxDone"
        BY <1>0, <3>1 DEF Agree, Modes
      <3> QED
        BY <2>1, <2>2, <3>1, <3>2 DEF ModesAgree
    <2>4. CASE \A other : LastWrite(toChip, "mode", other) = LastWrite(toChip, "mode", opMode)
      <3>1. radio' = radio
        BY <2>1, <2>4 DEF Eventually
      <3> QED
        BY <1>a, <2>1, <2>2, <3>1
    <2> QED
      BY <1>0, <2>3, <2>4, LastIsWritten
  <1>3. ASSUME Execute PROVE ModesAgree'
    <2>1. /\ toChip # <<>> /\ toChip' = Tail(toChip) /\ mode' = mode
          /\ opMode' = IF Head(toChip).do = "mode" THEN Head(toChip).arg ELSE opMode
          /\ dio0' = IF Head(toChip).do = "mapping" THEN Head(toChip).arg ELSE dio0
      BY <1>3 DEF Execute, hostVars
    <2>2. radio' = radio /\ pin' = pin
      BY <1>0, <2>1, LastOfTail DEF Eventually
    <2> QED
      BY <1>a, <2>1, <2>2
  <1>4. ASSUME PollNothing PROVE ModesAgree'
    <2>1. Return(mode, buf, rxBufValid, <<>>) /\ UNCHANGED <<opMode, dio0>>
            /\ <<>> \in Seq(Sent(Len(air)))
      BY <1>4 DEF PollNothing, chipVars
    <2>2. After(mode, <<>>, radio, pin)
      BY <1>0, LastOfNone DEF After
    <2> QED
      BY <1>0, <2>1, <2>2, ReturnAgrees
  <1>5. ASSUME NEW s \in Seq(Command), mode' = mode, UNCHANGED <<opMode, dio0>>,
               toChip' = toChip \o s,
               \A now : LastWrite(s, "mode", now) = now /\ LastWrite(s, "mapping", now) = now
        PROVE  ModesAgree'
    <2>1. radio' = radio /\ pin' = pin
      BY <1>0, <1>5, LastOfConcat DEF Eventually
    <2> QED
      BY <1>a, <1>5, <2>1
  <1>6. ASSUME NEW c \in Command, NEW d \in Command, c.do \notin {"mode", "mapping"},
               d.do \notin {"mode", "mapping"}
        PROVE  /\ <<c>> \in Seq(Command) /\ <<c, d>> \in Seq(Command)
               /\ \A now : /\ LastWrite(<<c>>, "mode", now) = now
                           /\ LastWrite(<<c>>, "mapping", now) = now
                           /\ LastWrite(<<c, d>>, "mode", now) = now
                           /\ LastWrite(<<c, d>>, "mapping", now) = now
    <2>1. PICK s : s = <<c>>
      OBVIOUS
    <2>2. PICK t : t = <<d>>
      OBVIOUS
    <2>3. s \o t = <<c, d>> /\ s \in Seq(Command) /\ t \in Seq(Command)
              /\ <<c, d>> \in Seq(Command)
      BY <2>1, <2>2, TwoInOne
    <2>4. \A now : /\ LastWrite(s, "mode", now) = now /\ LastWrite(s, "mapping", now) = now
                   /\ LastWrite(t, "mode", now) = now /\ LastWrite(t, "mapping", now) = now
      BY <1>6, <2>1, <2>2, LastOfOne
    <2>5. \A now : /\ LastWrite(s \o t, "mode", now) = now
                   /\ LastWrite(s \o t, "mapping", now) = now
      <3>1. \A what, now : LastWrite(s \o t, what, now)
                              = LastWrite(t, what, LastWrite(s, what, now))
        BY <2>3, LastOfConcat
      <3> QED
        BY <2>4, <3>1
    <2> QED
      BY <2>1, <2>3, <2>4, <2>5
  <1>7. /\ \A r \in Registers : Read(r) \in Command /\ Read(r).do = "read"
        /\ \A k \in Nat : BurstRead("fifo", k) \in Command /\ BurstRead("fifo", k).do = "read"
        /\ \A k \in Nat : SetPointer(k) \in Command /\ SetPointer(k).do = "pointer"
        /\ Clear \in Command /\ Clear.do = "clear"
    BY DEF Read, BurstRead, SetPointer, Clear, Write, Command, Registers
  <1>8. ASSUME PollInterrupt PROVE ModesAgree'
    <2>1. toChip' = toChip \o <<Read("flags")>> /\ UNCHANGED <<mode, opMode, dio0>>
      BY <1>0, <1>7, <1>8 DEF PollInterrupt, chipVars, Registers
    <2> QED
      BY <1>5, <1>6, <1>7, <2>1 DEF Registers
  <1>9. ASSUME GotLength PROVE ModesAgree'
    <2>1. toChip' = toChip \o <<Read("addr")>> /\ UNCHANGED <<mode, opMode, dio0>>
      BY <1>0, <1>7, <1>9 DEF GotLength, chipVars, Registers
    <2> QED
      BY <1>5, <1>6, <1>7, <2>1 DEF Registers
  <1>10. ASSUME GotAddress PROVE ModesAgree'
    <2>1. PICK k \in Nat : k = AddressRead(Head(toHost))
      BY <1>10, NextByte, Awaited DEF AddressRead, GotAddress
    <2>2. toChip' = toChip \o <<SetPointer(k), BurstRead("fifo", len)>>
            /\ UNCHANGED <<mode, opMode, dio0>> /\ len \in Nat
      BY <1>10, <2>1, Parts DEF GotAddress, chipVars
    <2> QED
      BY <1>5, <1>6, <1>7, <2>2
  <1>11. ASSUME GotOctets PROVE ModesAgree'
    <2>1. toChip' = toChip \o <<Clear, Read("rssi")>> /\ UNCHANGED <<mode, opMode, dio0>>
      BY <1>11 DEF GotOctets, chipVars
    <2> QED
      BY <1>5, <1>6, <1>7, <2>1 DEF Registers
  <1>12. /\ <<Clear>> \in Seq(Sent(Len(air))) /\ <<Clear>> \in Seq(Command)
         /\ After(mode, <<Clear>>, radio, pin)
    <2>0. Clear \in Sent(Len(air)) /\ Clear \in Command
      BY <1>7, Parts, DriverCommands
    <2>1. <<Clear>> \in Seq(Sent(Len(air))) /\ <<Clear>> \in Seq(Command)
      BY <2>0
    <2>2. LastWrite(<<Clear>>, "mode", radio) = radio
            /\ LastWrite(<<Clear>>, "mapping", pin) = pin
      BY AfterOthers
    <2> QED
      BY <1>b, <1>0, <2>1, <2>2
  <1>13. ASSUME NEW m \in {"Rx", "Tx"}
         PROVE  /\ ToIdle(m) \o <<Clear>> \in Seq(Sent(Len(air)))
                /\ After("Idle", ToIdle(m) \o <<Clear>>, radio, pin)
    <2>1. m \in Modes \ {"Idle"}
      BY DEF Modes
    <2>2. ToIdle(m) \in Seq(Sent(Len(air))) /\ ToIdle(m) \in Seq(Command)
      BY <2>1, Parts, DriverCommands, Lines
    <2>3. PICK t : t = <<Clear>> /\ t \in Seq(Command)
      BY <1>12
    <2>4. \A now : LastWrite(t, "mode", now) = now
      BY <2>3, AfterOthers
    <2>5. LastWrite(ToIdle(m), "mode", radio) = "STDBY"
      BY <2>1, AfterSetters
    <2>6. LastWrite(ToIdle(m) \o t, "mode", radio) = "STDBY"
      <3>1. \A now : LastWrite(ToIdle(m) \o t, "mode", now)
                              = LastWrite(t, "mode", LastWrite(ToIdle(m), "mode", now))
        <4>1. t \in Seq(Command)
          BY <2>3
        <4>2. PICK r \in Seq(Command) : r = ToIdle(m)
          BY <2>2
        <4>3. \A now : LastWrite(r \o t, "mode", now)
                              = LastWrite(t, "mode", LastWrite(r, "mode", now))
          BY <4>1, <4>2, LastOfConcat
        <4> QED
          BY <4>2, <4>3
      <3> QED
        BY <2>4, <2>5, <3>1
    <2> QED
      BY <1>12, <2>2, <2>3, <2>6 DEF After, Agree
  <1>14. ASSUME GotFlags PROVE ModesAgree'
    <2>1. UNCHANGED <<opMode, dio0>>
      BY <1>14 DEF GotFlags, chipVars
    <2>2. PICK flags \in FlagsRead(Head(toHost)) :
        \/ toChip' = Append(toChip, Read("nbBytes")) /\ mode' = mode
        \/ Return("Idle", buf, rxBufValid, ToIdle("Tx") \o Dismissed(flags))
        \/ Return(mode, buf, rxBufValid, Dismissed(flags))
      BY <1>14 DEF GotFlags
    <2>3. Dismissed(flags) = <<Clear>>
      BY DEF Dismissed
    <2>4. ASSUME toChip' = Append(toChip, Read("nbBytes")), mode' = mode PROVE ModesAgree'
      <3>1. toChip' = toChip \o <<Read("nbBytes")>>
        BY <1>0, <1>7, <2>4 DEF Registers
      <3> QED
        BY <1>5, <1>6, <1>7, <2>1, <2>4, <3>1 DEF Registers
    <2>5. PICK cmds : cmds = ToIdle("Tx") \o <<Clear>>
      OBVIOUS
    <2>6. ASSUME Return("Idle", buf, rxBufValid, cmds) PROVE ModesAgree'
      <3>1. "Idle" \in Modes
        BY DEF Modes
      <3> QED
        BY <1>13, <2>1, <2>5, <2>6, <3>1, ReturnAgrees
    <2>7. ASSUME Return(mode, buf, rxBufValid, <<Clear>>) PROVE ModesAgree'
      BY <1>0, <1>12, <2>1, <2>7, ReturnAgrees
    <2> QED
      BY <2>2, <2>3, <2>4, <2>5, <2>6, <2>7
  <1>15. ASSUME GotRssi PROVE ModesAgree'
    <2>1. UNCHANGED <<opMode, dio0>>
      BY <1>15 DEF GotRssi, chipVars
    <2>2. \/ Return("Idle", buf, TRUE, ToIdle("Rx") \o <<Clear>>)
          \/ Return(mode, buf, FALSE, <<Clear>>)
      BY <1>15 DEF GotRssi
    <2>5. PICK cmds : cmds = ToIdle("Rx") \o <<Clear>>
      OBVIOUS
    <2>6. ASSUME Return("Idle", buf, TRUE, cmds) PROVE ModesAgree'
      <3>1. "Idle" \in Modes
        BY DEF Modes
      <3> QED
        BY <1>13, <2>1, <2>5, <2>6, <3>1, ReturnAgrees
    <2>7. ASSUME Return(mode, buf, FALSE, <<Clear>>) PROVE ModesAgree'
      BY <1>0, <1>12, <2>1, <2>7, ReturnAgrees
    <2> QED
      BY <2>2, <2>5, <2>6, <2>7
  <1>16. ASSUME Send PROVE ModesAgree'
    <2>1. PICK s : s = (toChip \o ToIdle(mode)) \o <<SetPointer(0)>>
      OBVIOUS
    <2>2. s \in Seq(Command) /\ ToTx \in Seq(Command)
      <3>1. ToIdle(mode) \in Seq(Command) /\ ToTx \in Seq(Command)
        BY Parts, DriverCommands, Lines
      <3> QED
        BY <1>0, <1>7, <2>1, <3>1
    <2>3. toChip' = s \o ToTx /\ mode' = "Tx" /\ UNCHANGED <<opMode, dio0>>
      BY <1>16, <2>1 DEF Send, chipVars
    <2>4. After("Tx", s \o ToTx, opMode, dio0)
      <3>1. \A what, now : LastWrite(s \o ToTx, what, now)
                              = LastWrite(ToTx, what, LastWrite(s, what, now))
        BY <2>2, LastOfConcat
      <3>2. LastWrite(s \o ToTx, "mode", opMode) = "TX"
              /\ LastWrite(s \o ToTx, "mapping", dio0) = "TxDone"
        BY <3>1, AfterSetters
      <3> QED
        BY <3>2 DEF After, Agree
    <2> QED
      BY <2>3, <2>4 DEF After, ModesAgree, Agree, Eventually
  <1>17. ASSUME Sleep PROVE ModesAgree'
    <2>1. PICK c : c = Write("mode", "SLEEP")
      OBVIOUS
    <2>2. c \in Command /\ c.do = "mode" /\ c.arg = "SLEEP"
      BY <2>1 DEF Write, Command
    <2>3. toChip' = toChip \o <<c>> /\ mode' = "Sleep" /\ UNCHANGED <<opMode, dio0>>
      BY <1>0, <1>17, <2>1, <2>2 DEF Sleep, chipVars
    <2>4. \A now : LastWrite(<<c>>, "mode", now) = "SLEEP"
      BY <2>2, LastOfOne
    <2>5. LastWrite(toChip \o <<c>>, "mode", opMode) = "SLEEP"
      BY <1>0, <2>2, <2>4, LastOfConcat
    <2> QED
      BY <2>3, <2>5 DEF ModesAgree, Eventually
  <1>18. ASSUME NEW p \in Packet, Arrive(p) PROVE UNCHANGED <<mode, toChip, opMode, dio0>>
    BY <1>18 DEF Arrive, hostVars
  <1>19. ASSUME Notify PROVE UNCHANGED <<mode, toChip, opMode, dio0>>
    BY <1>19 DEF Notify, hostVars, chipVars
  <1>20. ASSUME UNCHANGED vars PROVE UNCHANGED <<mode, toChip, opMode, dio0>>
    BY <1>20 DEF vars, hostVars, chipVars
  <1> QED
    BY <1>1, <1>2, <1>3, <1>4, <1>8, <1>9, <1>10, <1>11, <1>14, <1>15, <1>16, <1>17,
       <1>18, <1>19, <1>20 DEF Next

(***************************************************************************)
(* _mode, by which the set functions leave out commands, is the mode the   *)
(* radio reaches with the commands on the line, but for the end of a       *)
(* transmission; and the pin is mapped to what that mode waits for.        *)
(***************************************************************************)
THEOREM ModesInStep == Spec => []ModesAgree
  <1>1. Init => TypeInv /\ ModesAgree
    <2> SUFFICES ASSUME Init PROVE ModesAgree
      BY TypeInit
    <2>1. mode = "Idle" /\ opMode = "STDBY" /\ toChip = <<>>
      BY DEF Init
    <2> QED
      BY <2>1, LastOfNone DEF ModesAgree, Eventually
  <1>2. TypeInv /\ ModesAgree /\ [Next]_vars => (TypeInv /\ ModesAgree)'
    BY TypeStep, ModesAgreeStep
  <1> QED
    BY <1>1, <1>2, PTL DEF Spec

-----------------------------------------------------------------------------
(* The bytes the host can count on.  A byte taken for something else leaves *)
(* behind the one that was meant; only a packet taken to have no octets at  *)
(* all is answered by nothing, and then a byte must be left over for the    *)
(* one that is taken all the same.                                          *)

\* A command that brings the host at least one byte.
Owes(c) == c.do = "read" /\ c.n > 0

\* The host gets, or has, at least one byte more, or at least two.
One(h, c) == h # <<>> \/ \E i \in DOMAIN c : Owes(c[i])
Two(h, c) ==
    \/ Len(h) >= 2
    \/ Len(h) >= 1 /\ \E i \in DOMAIN c : Owes(c[i])
    \/ \E i, j \in DOMAIN c : i # j /\ Owes(c[i]) /\ Owes(c[j])

\* The value of the register reg is there, or asked for.
Asked(reg, h, c) == Contains(c, Read(reg)) \/ \E i \in DOMAIN h : h[i].reg = reg

NoZero(h) == \A i \in DOMAIN h : h[i].reg = "nbBytes" => h[i].n > 0

Heard(h, a) ==
    \A i \in DOMAIN h : h[i].reg = "flags" /\ "RxDone" \in h[i].irq => a # <<>>

Fed ==
    /\ "RxDone" \in irq => air # <<>>
    /\ Heard(toHost, air)
    /\ pc = "flags" => Asked("flags", toHost, toChip)
    /\ pc = "nbBytes" => /\ Asked("nbBytes", toHost, toChip)
                         /\ Two(toHost, toChip) \/ (air # <<>> /\ NoZero(toHost))
    /\ pc = "addr" => One(toHost, toChip) /\ (len > 0 \/ Two(toHost, toChip))
    /\ pc = "fifo" => IF len > 0
                      THEN Contains(toChip, BurstRead("fifo", len)) \/ Len(toHost) >= len
                      ELSE One(toHost, toChip)
    /\ pc = "rssi" => One(toHost, toChip)

\* Where the elements of a line are when it has grown, or its head is gone.
LEMMA PlacesAfterConcat ==
    ASSUME NEW S, NEW s \in Seq(S), NEW t \in Seq(S)
    PROVE  /\ s \o t \in Seq(S) /\ Len(s) \in Nat /\ Len(t) \in Nat
           /\ Len(s \o t) = Len(s) + Len(t)
           /\ \A i \in DOMAIN s : i \in Nat /\ i \in DOMAIN (s \o t) /\ (s \o t)[i] = s[i]
           /\ \A i \in DOMAIN t : /\ Len(s) + i \in DOMAIN (s \o t)
                                  /\ (s \o t)[Len(s) + i] = t[i]
                                  /\ Len(s) + i \notin DOMAIN s
           /\ \A j \in DOMAIN (s \o t) :
                  \/ j \in DOMAIN s /\ (s \o t)[j] = s[j]
                  \/ j - Len(s) \in DOMAIN t /\ (s \o t)[j] = t[j - Len(s)]
  <1>1. /\ s \o t \in Seq(S) /\ Len(s) \in Nat /\ Len(t) \in Nat
        /\ Len(s \o t) = Len(s) + Len(t) /\ DOMAIN (s \o t) = 1 .. Len(s) + Len(t)
        /\ DOMAIN s = 1 .. Len(s) /\ DOMAIN t = 1 .. Len(t)
        /\ \A i \in 1 .. Len(s) : (s \o t)[i] = s[i]
        /\ \A i \in 1 .. Len(t) : (s \o t)[Len(s) + i] = t[i]
    OBVIOUS
  <1> DEFINE u == s \o t
  <1> HIDE DEF u
  <1>u. u = s \o t
    BY DEF u
  <1>2. \A i \in DOMAIN s : i \in Nat /\ i \in DOMAIN u /\ u[i] = s[i]
    BY <1>1, <1>u
  <1>3. \A i \in DOMAIN t : /\ Len(s) + i \in DOMAIN u /\ u[Len(s) + i] = t[i]
                            /\ Len(s) + i \notin DOMAIN s
    BY <1>1, <1>u
  <1>4. \A j \in DOMAIN u : \/ j \in DOMAIN s /\ u[j] = s[j]
                            \/ j - Len(s) \in DOMAIN t /\ u[j] = t[j - Len(s)]
    <2> SUFFICES ASSUME NEW j \in DOMAIN u, j \notin DOMAIN s
                 PROVE  j - Len(s) \in DOMAIN t /\ u[j] = t[j - Len(s)]
      BY <1>1, <1>2
    <2>1. j \in 1 .. Len(s) + Len(t) /\ ~(j \in 1 .. Len(s))
      BY <1>1, <1>u
    <2>2. j - Len(s) \in 1 .. Len(t) /\ Len(s) + (j - Len(s)) = j
      BY <1>1, <2>1
    <2> QED
      BY <1>1, <1>u, <2>2
  <1> QED
    BY <1>1, <1>2, <1>3, <1>4 DEF u

LEMMA PlacesAfterTail ==
    ASSUME NEW S, NEW s \in Seq(S), s # <<>>
    PROVE  /\ Tail(s) \in Seq(S) /\ Len(s) \in Nat /\ Len(s) >= 1 /\ 1 \in DOMAIN s
           /\ Head(s) = s[1] /\ Head(s) \in S /\ Len(Tail(s)) = Len(s) - 1
           /\ \A i \in DOMAIN s : i # 1 => i - 1 \in DOMAIN Tail(s) /\ Tail(s)[i - 1] = s[i]
           /\ \A i \in DOMAIN Tail(s) : /\ i + 1 \in DOMAIN s /\ Tail(s)[i] = s[i + 1]
                                        /\ i \in Nat
  <1>1. /\ Tail(s) \in Seq(S) /\ Len(s) \in Nat /\ Len(s) >= 1 /\ Head(s) = s[1]
        /\ Len(Tail(s)) = Len(s) - 1 /\ Head(s) \in S
        /\ DOMAIN s = 1 .. Len(s) /\ DOMAIN Tail(s) = 1 .. Len(s) - 1
        /\ \A i \in 1 .. Len(s) - 1 : Tail(s)[i] = s[i + 1]
    OBVIOUS
  <1>2. \A i \in 1 .. Len(s) : i # 1 => i - 1 \in 1 .. Len(s) - 1 /\ (i - 1) + 1 = i
    BY <1>1
  <1>3. \A i \in 1 .. Len(s) - 1 : i + 1 \in 1 .. Len(s) /\ i \in Nat
    BY <1>1
  <1>4. 1 \in DOMAIN s
    BY <1>1
  <1> QED
    BY <1>1, <1>2, <1>3, <1>4

\* More bytes, more commands.
LEMMA StillOne ==
    ASSUME NEW h \in Seq(Byte), NEW x \in Seq(Byte), NEW c \in Seq(Command),
           NEW y \in Seq(Command), One(h, c)
    PROVE  One(h \o x, c \o y)
  <1>1. h # <<>> => h \o x # <<>>
    BY PlacesAfterConcat
  <1>2. (\E i \in DOMAIN c : Owes(c[i])) => \E i \in DOMAIN (c \o y) : Owes((c \o y)[i])
    BY PlacesAfterConcat
  <1> QED
    BY <1>1, <1>2 DEF One

LEMMA StillTwo ==
    ASSUME NEW h \in Seq(Byte), NEW x \in Seq(Byte), NEW c \in Seq(Command),
           NEW y \in Seq(Command), Two(h, c)
    PROVE  Two(h \o x, c \o y)
  <1>1. Len(h \o x) = Len(h) + Len(x) /\ Len(h) \in Nat /\ Len(x) \in Nat
    BY PlacesAfterConcat
  <1>2. Len(h) >= 2 => Len(h \o x) >= 2
    BY <1>1
  <1>3. Len(h) >= 1 => Len(h \o x) >= 1
    BY <1>1
  <1>4. \A i \in DOMAIN c : i \in DOMAIN (c \o y) /\ (c \o y)[i] = c[i]
    BY PlacesAfterConcat
  <1> QED
    BY <1>2, <1>3, <1>4 DEF Two

LEMMA StillAsked ==
    ASSUME NEW reg, NEW h \in Seq(Byte), NEW x \in Seq(Byte), NEW c \in Seq(Command),
           NEW y \in Seq(Command), Asked(reg, h, c)
    PROVE  Asked(reg, h \o x, c \o y)
  <1>1. Contains(c, Read(reg)) => Contains(c \o y, Read(reg))
    BY OnConcat
  <1>2. (\E i \in DOMAIN h : h[i].reg = reg) => \E i \in DOMAIN (h \o x) : (h \o x)[i].reg = reg
    BY PlacesAfterConcat
  <1> QED
    BY <1>1, <1>2 DEF Asked

\* A byte is taken while the next is asked for.
LEMMA OneLess ==
    ASSUME NEW h \in Seq(Byte), NEW c \in Seq(Command), h # <<>>, Two(h, c)
    PROVE  One(Tail(h), c)
  <1>1. Len(Tail(h)) = Len(h) - 1 /\ Len(h) \in Nat /\ Tail(h) \in Seq(Byte)
    BY PlacesAfterTail
  <1>2. Len(h) >= 2 => Tail(h) # <<>>
    <2>1. \A u \in Seq(Byte) : Len(u) >= 1 => u # <<>>
      OBVIOUS
    <2>2. Len(h) >= 2 => Len(Tail(h)) >= 1
      BY <1>1
    <2> QED
      BY <1>1, <2>1, <2>2
  <1> QED
    BY <1>2 DEF Two, One

LEMMA OneMore ==
    ASSUME NEW h \in Seq(Byte), NEW c \in Seq(Command), NEW r \in Command, Owes(r),
           One(h, c)
    PROVE  Two(h, c \o <<r>>)
  <1>1. <<r>> \in Seq(Command) /\ 1 \in DOMAIN <<r>> /\ <<r>>[1] = r
    OBVIOUS
  <1>2. PICK t \in Seq(Command) : t = <<r>>
    BY <1>1
  <1>3. Len(c) + 1 \in DOMAIN (c \o t) /\ (c \o t)[Len(c) + 1] = r /\ Len(c) + 1 \notin DOMAIN c
    BY <1>1, <1>2, PlacesAfterConcat
  <1>4. \A i \in DOMAIN c : i \in DOMAIN (c \o t) /\ (c \o t)[i] = c[i]
    BY PlacesAfterConcat
  <1>5. h # <<>> => Len(h) >= 1
    BY LenProperties, EmptySeq
  <1>6. Two(h, c \o t)
    BY <1>3, <1>4, <1>5 DEF One, Two
  <1> QED
    BY <1>2, <1>6

\* The head of the commands is executed, and x is what it brings.
LEMMA OneExecuted ==
    ASSUME NEW h \in Seq(Byte), NEW c \in Seq(Command), c # <<>>, NEW x \in Seq(Byte),
           Owes(Head(c)) => Len(x) >= 1, One(h, c)
    PROVE  One(h \o x, Tail(c))
  <1>1. Len(h \o x) = Len(h) + Len(x) /\ Len(h) \in Nat /\ Len(x) \in Nat
            /\ h \o x \in Seq(Byte)
    BY PlacesAfterConcat
  <1>2. Len(h) >= 1 \/ Len(x) >= 1 => h \o x # <<>>
    BY <1>1
  <1>3. h # <<>> => Len(h) >= 1
    BY LenProperties, EmptySeq
  <1>4. ASSUME NEW i \in DOMAIN c, Owes(c[i])
        PROVE  Len(x) >= 1 \/ \E k \in DOMAIN Tail(c) : Owes(Tail(c)[k])
    BY <1>4, PlacesAfterTail
  <1> QED
    BY <1>2, <1>3, <1>4 DEF One

LEMMA TwoExecuted ==
    ASSUME NEW h \in Seq(Byte), NEW c \in Seq(Command), c # <<>>, NEW x \in Seq(Byte),
           Owes(Head(c)) => Len(x) >= 1, Two(h, c)
    PROVE  Two(h \o x, Tail(c))
  <1>1. Len(h \o x) = Len(h) + Len(x) /\ Len(h) \in Nat /\ Len(x) \in Nat
    BY PlacesAfterConcat
  <1>2. Len(h) >= 2 => Len(h \o x) >= 2
    BY <1>1
  <1>3. Len(h) >= 1 => Len(h \o x) >= 1
    BY <1>1
  <1>4. Len(x) >= 1 => Len(h \o x) >= 1 /\ (Len(h) >= 1 => Len(h \o x) >= 2)
    BY <1>1
  <1>5. \A i \in DOMAIN c : Owes(c[i])
            => \/ i = 1 /\ Len(x) >= 1
               \/ i - 1 \in DOMAIN Tail(c) /\ Owes(Tail(c)[i - 1])
    BY PlacesAfterTail
  <1>6. ASSUME NEW i \in DOMAIN c, NEW j \in DOMAIN c, i # j, Owes(c[i]), Owes(c[j])
        PROVE  Two(h \o x, Tail(c))
    <2>1. CASE i = 1
      <3>1. Len(h \o x) >= 1 \/ (i - 1 \in DOMAIN Tail(c) /\ Owes(Tail(c)[i - 1]))
        BY <1>4, <1>5, <1>6
      <3>2. j # 1 /\ j - 1 \in DOMAIN Tail(c) /\ Owes(Tail(c)[j - 1])
        BY <1>5, <1>6, <2>1
      <3>3. i - 1 \notin DOMAIN Tail(c)
        <4>1. 1 - 1 \notin DOMAIN Tail(c)
          BY PlacesAfterTail
        <4> QED
          BY <2>1, <4>1
      <3> QED
        BY <3>1, <3>2, <3>3 DEF Two
    <2>2. CASE j = 1
      <3>1. Len(h \o x) >= 1 \/ (j - 1 \in DOMAIN Tail(c) /\ Owes(Tail(c)[j - 1]))
        BY <1>4, <1>5, <1>6
      <3>2. i # 1 /\ i - 1 \in DOMAIN Tail(c) /\ Owes(Tail(c)[i - 1])
        BY <1>5, <1>6, <2>2
      <3>3. j - 1 \notin DOMAIN Tail(c)
        <4>1. 1 - 1 \notin DOMAIN Tail(c)
          BY PlacesAfterTail
        <4> QED
          BY <2>2, <4>1
      <3> QED
        BY <3>1, <3>2, <3>3 DEF Two
    <2>3. CASE i # 1 /\ j # 1
      <3>1. /\ i - 1 \in DOMAIN Tail(c) /\ Owes(Tail(c)[i - 1])
            /\ j - 1 \in DOMAIN Tail(c) /\ Owes(Tail(c)[j - 1])
        BY <1>5, <1>6, <2>3
      <3>2. i \in 1 .. Len(c) /\ j \in 1 .. Len(c)
        BY <1>6
      <3>3. i - 1 # j - 1
        BY <1>6, <3>2
      <3> QED
        BY <3>1, <3>3 DEF Two
    <2> QED
      BY <2>1, <2>2, <2>3
  <1>7. ASSUME Len(h) >= 1, NEW i \in DOMAIN c, Owes(c[i]) PROVE Two(h \o x, Tail(c))
    BY <1>3, <1>4, <1>5, <1>7 DEF Two
  <1> QED
    BY <1>2, <1>6, <1>7 DEF Two

\* The bytes that answer a read.
LEMMA ReplyIs ==
    ASSUME TypeInv, NEW c \in Sent(Len(air)), c.do = "read"
    PROVE  /\ Reply(c) \in Seq(Byte)
           /\ c.arg # "fifo" => Len(Reply(c)) = 1
           /\ c.arg = "fifo" => Len(Reply(c)) = c.n
           /\ \A i \in DOMAIN Reply(c) : Reply(c)[i].reg = c.arg
           /\ c.arg = "flags" => \A i \in DOMAIN Reply(c) : Reply(c)[i].irq = irq
           /\ c.arg = "nbBytes" => \A i \in DOMAIN Reply(c) : Reply(c)[i].n = NbBytes
  <1>1. Reply(c) \in Seq(Byte)
    BY ReplyType, Parts, Lines
  <1>2. c.arg \in Registers /\ c.n \in Nat
    BY DEF Sent, Command
  <1>3. CASE c.arg = "fifo"
    BY <1>1, <1>2, <1>3 DEF Reply, Octet
  <1>4. CASE c.arg # "fifo"
    <2>1. PICK o : /\ Reply(c) = <<o>> /\ o.reg = c.arg
                   /\ c.arg = "flags" => o.irq = irq
                   /\ c.arg = "nbBytes" => o.n = NbBytes
      BY <1>2, <1>4 DEF Registers, Reply, Octet
    <2> QED
      BY <1>1, <1>4, <2>1
  <1> QED
    BY <1>3, <1>4

LEMMA NbBytesPositive == ASSUME TypeInv, air # <<>> PROVE NbBytes > 0 /\ NbBytes \in Nat
  <1>1. air \in Seq(Packet)
    BY Parts
  <1>2. Last(air) \in Packet
    BY <1>1 DEF Last
  <1> QED
    <2>1. Last(air).len \in Lengths
      BY <1>2 DEF Packet
    <2>2. Last(air).len \in Nat /\ Last(air).len # 0
      BY <2>1, RadioAssumption
    <2>3. NbBytes = Last(air).len
      BY DEF NbBytes
    <2> QED
      BY <2>2, <2>3

LEMMA FedExecute == ASSUME TypeInv, Fed, Execute PROVE Fed'
  <1> DEFINE c == Head(toChip)
             x == IF c.do = "read" THEN Reply(c) ELSE <<>>
  <1>1. /\ toChip # <<>> /\ toChip \in Seq(Command) /\ toHost \in Seq(Byte)
        /\ c \in Sent(Len(air)) /\ c \in Command /\ Tail(toChip) \in Seq(Command)
    <2>1. toChip # <<>> /\ toChip \in Seq(Sent(Len(air)))
      BY Parts DEF Execute
    <2> QED
      BY <2>1, Parts, Lines, PlacesAfterTail
  <1>2. toChip' = Tail(toChip) /\ UNCHANGED <<pc, len, air>>
    BY DEF Execute, hostVars
  <1>3. x \in Seq(Byte)
    BY <1>1, ReplyIs
  <1>4. toHost' = toHost \o x
    <2>1. toHost \o <<>> = toHost
      BY <1>1, ConcatEmptySeq
    <2> QED
      BY <2>1 DEF Execute
  <1>5. Owes(c) => Len(x) >= 1
    <2> SUFFICES ASSUME Owes(c) PROVE Len(x) >= 1
      OBVIOUS
    <2>1. c.do = "read" /\ c.n > 0 /\ c.n \in Nat
      BY <1>1 DEF Owes, Command
    <2>2. Len(Reply(c)) = 1 \/ Len(Reply(c)) = c.n
      BY <1>1, <2>1, ReplyIs
    <2>3. PICK k : k = Len(Reply(c))
      OBVIOUS
    <2>4. k = 1 \/ k = c.n
      BY <2>2, <2>3
    <2>5. k >= 1
      BY <2>1, <2>4
    <2>6. Len(x) = k
      BY <2>1, <2>3
    <2> QED
      BY <2>5, <2>6
  <1>6. \A i \in DOMAIN x : /\ c.do = "read" /\ x[i].reg = c.arg
                            /\ c.arg = "flags" => x[i].irq = irq
                            /\ c.arg = "nbBytes" => x[i].n = NbBytes
    <2>1. c.do = "read" => x = Reply(c)
      OBVIOUS
    <2>2. c.do # "read" => DOMAIN x = {}
      OBVIOUS
    <2> HIDE DEF x, c
    <2> SUFFICES ASSUME NEW i \in DOMAIN x
                 PROVE  /\ c.do = "read" /\ x[i].reg = c.arg
                        /\ c.arg = "flags" => x[i].irq = irq
                        /\ c.arg = "nbBytes" => x[i].n = NbBytes
      OBVIOUS
    <2>3. c.do = "read" /\ i \in DOMAIN Reply(c) /\ x[i] = Reply(c)[i]
      BY <2>1, <2>2
    <2> QED
      BY <1>1, <2>3, ReplyIs
  <1>7. \A reg \in Registers \ {"fifo"} : c = Read(reg) => \E i \in DOMAIN x : x[i].reg = reg
    <2> SUFFICES ASSUME NEW reg \in Registers \ {"fifo"}, c = Read(reg)
                 PROVE  \E i \in DOMAIN x : x[i].reg = reg
      OBVIOUS
    <2>1. c.do = "read" /\ c.arg = reg /\ c.arg # "fifo"
      BY DEF Read
    <2>2. Len(x) = 1 /\ 1 \in DOMAIN x
      BY <1>1, <1>3, <2>1, ReplyIs
    <2> QED
      BY <1>6, <2>1, <2>2
  <1>8. \A n \in Nat : c = BurstRead("fifo", n) => Len(x) = n
    <2> SUFFICES ASSUME NEW n \in Nat, c = BurstRead("fifo", n) PROVE Len(x) = n
      OBVIOUS
    <2>1. c.do = "read" /\ c.arg = "fifo" /\ c.n = n
      BY DEF BurstRead
    <2> QED
      BY <1>1, <2>1, ReplyIs
  <1> HIDE DEF x, c
  <1>9. \A i \in DOMAIN toHost' : \/ i \in DOMAIN toHost /\ toHost'[i] = toHost[i]
                                 \/ \E k \in DOMAIN x : toHost'[i] = x[k]
    BY <1>1, <1>3, <1>4, PlacesAfterConcat
  <1>10. ("RxDone" \in irq' => air' # <<>>) /\ ("RxDone" \in irq => air # <<>>)
    BY <1>2 DEF Fed, Execute
  <1>11. Heard(toHost', air')
    BY <1>2, <1>6, <1>9, <1>10 DEF Fed, Heard
  <1>12. ASSUME NEW reg \in Registers \ {"fifo"}, Asked(reg, toHost, toChip)
         PROVE  Asked(reg, toHost', toChip')
    <2>1. CASE \E i \in DOMAIN toHost : toHost[i].reg = reg
      <3>1. \E i \in DOMAIN toHost' : toHost'[i].reg = reg
        BY <1>1, <1>3, <1>4, <2>1, PlacesAfterConcat
      <3> QED
        BY <3>1 DEF Asked
    <2>2. CASE Contains(toChip, Read(reg)) /\ c # Read(reg)
      <3>1. Contains(Tail(toChip), Read(reg))
        BY <1>1, <2>2, OnTail DEF c
      <3> QED
        BY <1>2, <3>1 DEF Asked
    <2>3. CASE c = Read(reg)
      <3>1. PICK k \in DOMAIN x : x[k].reg = reg
        BY <1>7, <2>3
      <3>2. \E i \in DOMAIN toHost' : toHost'[i].reg = reg
        <4>1. Len(toHost) + k \in DOMAIN (toHost \o x) /\ (toHost \o x)[Len(toHost) + k] = x[k]
          BY <1>1, <1>3, <3>1, PlacesAfterConcat
        <4> QED
          BY <1>4, <3>1, <4>1
      <3> QED
        BY <3>2 DEF Asked
    <2> QED
      BY <1>12, <2>1, <2>2, <2>3 DEF Asked
  <1>13. One(toHost, toChip) => One(toHost', toChip')
    BY <1>1, <1>2, <1>3, <1>4, <1>5, OneExecuted DEF c
  <1>14. Two(toHost, toChip) => Two(toHost', toChip')
    BY <1>1, <1>2, <1>3, <1>4, <1>5, TwoExecuted DEF c
  <1>15. ASSUME air # <<>>, NoZero(toHost) PROVE air' # <<>> /\ NoZero(toHost')
    <2>1. NbBytes > 0
      BY <1>15, NbBytesPositive
    <2> QED
      BY <1>2, <1>6, <1>9, <1>15, <2>1 DEF NoZero
  <1>16. ASSUME len > 0, Contains(toChip, BurstRead("fifo", len)) \/ Len(toHost) >= len
         PROVE  Contains(toChip', BurstRead("fifo", len')) \/ Len(toHost') >= len'
    <2>1. Len(toHost') = Len(toHost) + Len(x) /\ Len(toHost) \in Nat /\ Len(x) \in Nat
            /\ len \in Nat
      BY <1>1, <1>3, <1>4, PlacesAfterConcat, Parts
    <2>2. CASE Len(toHost) >= len
      BY <1>2, <2>1, <2>2
    <2>3. CASE c = BurstRead("fifo", len)
      <3>1. Len(x) = len
        BY <1>8, <2>1, <2>3
      <3> QED
        BY <1>2, <2>1, <3>1
    <2>4. CASE Contains(toChip, BurstRead("fifo", len)) /\ c # BurstRead("fifo", len)
      <3>1. Contains(Tail(toChip), BurstRead("fifo", len))
        BY <1>1, <2>4, OnTail DEF c
      <3> QED
        BY <1>2, <3>1
    <2> QED
      BY <1>16, <2>2, <2>3, <2>4
  <1>17. pc' = "flags" => Asked("flags", toHost', toChip')
    BY <1>2, <1>12 DEF Fed, Registers
  <1>18. pc' = "nbBytes" => Asked("nbBytes", toHost', toChip')
    BY <1>2, <1>12 DEF Fed, Registers
  <1> QED
    BY <1>2, <1>10, <1>11, <1>13, <1>14, <1>15, <1>16, <1>17, <1>18 DEF Fed

\* handleInterrupt() waits for the flags and takes what comes.
LEMMA FedGotFlags == ASSUME TypeInv, Fed, GotFlags PROVE Fed'
  <1> DEFINE b == Head(toHost)
  <1>1. /\ pc = "flags" /\ toHost # <<>> /\ toHost \in Seq(Byte) /\ toChip \in Seq(Command)
        /\ toHost' = Tail(toHost) /\ UNCHANGED <<irq, air>>
    BY Awaited, Parts, Lines DEF GotFlags, chipVars
  <1>2. Heard(toHost', air') /\ ("RxDone" \in irq' => air' # <<>>)
    BY <1>1, PlacesAfterTail DEF Fed, Heard
  <1>3. PICK flags \in FlagsRead(b) :
        \/ RxFinished(flags) /\ toChip' = Append(toChip, Read("nbBytes")) /\ pc' = "nbBytes"
        \/ pc' = "idle"
    BY DEF GotFlags, Return
  <1>4. CASE pc' = "idle"
    BY <1>2, <1>4 DEF Fed
  <1>5. CASE RxFinished(flags) /\ toChip' = Append(toChip, Read("nbBytes"))
             /\ pc' = "nbBytes"
    <2>1. Read("nbBytes") \in Command /\ Owes(Read("nbBytes"))
      BY DEF Read, Command, Owes
    <2>2. PICK r \in Command : r = Read("nbBytes")
      BY <2>1
    <2>3. toChip' = toChip \o <<r>> /\ Owes(r) /\ Contains(toChip', r)
      BY <1>1, <1>5, <2>1, <2>2, AppendIsConcat, OnAppend
    <2>4. Asked("nbBytes", toHost', toChip')
      BY <2>2, <2>3 DEF Asked
    <2>5. Tail(toHost) \in Seq(Byte)
      BY <1>1, PlacesAfterTail
    <2>6. ASSUME One(toHost', toChip) PROVE Two(toHost', toChip')
      BY <1>1, <2>3, <2>5, <2>6, OneMore
    <2>7. CASE toHost' # <<>>
      BY <1>2, <1>5, <2>4, <2>6, <2>7 DEF Fed, One
    <2>8. CASE toHost' = <<>> /\ \E i \in DOMAIN toHost : toHost[i].reg = "flags"
      <3>1. \A i \in DOMAIN toHost : i = 1
        <4>0. \A u : u = <<>> => Len(u) = 0
          OBVIOUS
        <4>1. Len(Tail(toHost)) = 0
          BY <1>1, <2>8, <4>0
        <4>2. Len(toHost) = 1 /\ DOMAIN toHost = 1 .. Len(toHost)
          BY <1>1, <4>1, PlacesAfterTail
        <4> QED
          BY <4>2
      <3>2. b.reg = "flags" /\ b = toHost[1] /\ 1 \in DOMAIN toHost
        BY <1>1, <2>8, <3>1, PlacesAfterTail
      <3>3. "RxDone" \in b.irq
        BY <1>3, <1>5, <3>2 DEF RxFinished, FlagsRead
      <3>4. air # <<>>
        BY <3>2, <3>3 DEF Fed, Heard
      <3>5. NoZero(toHost')
        BY <2>8 DEF NoZero
      <3> QED
        BY <1>1, <1>2, <1>5, <2>4, <3>4, <3>5 DEF Fed
    <2>9. CASE Contains(toChip, Read("flags"))
      <3>1. Owes(Read("flags"))
        BY DEF Read, Owes
      <3>2. \E i \in DOMAIN toChip : Owes(toChip[i])
        BY <1>1, <2>9, <3>1 DEF Contains
      <3> QED
        BY <1>2, <1>5, <2>4, <2>6, <3>2 DEF Fed, One
    <2> QED
      BY <1>1, <2>7, <2>8, <2>9 DEF Fed, Asked
  <1> QED
    BY <1>3, <1>4, <1>5

LEMMA FedGotLength == ASSUME TypeInv, Fed, GotLength PROVE Fed'
  <1>1. /\ pc = "nbBytes" /\ toHost # <<>> /\ toHost \in Seq(Byte) /\ toChip \in Seq(Command)
        /\ toHost' = Tail(toHost) /\ UNCHANGED <<irq, air>> /\ pc' = "addr"
        /\ toChip' = Append(toChip, Read("addr")) /\ len' \in LengthsRead(Head(toHost))
    BY Awaited, Parts, Lines DEF GotLength, chipVars
  <1>2. Heard(toHost', air') /\ ("RxDone" \in irq' => air' # <<>>)
    BY <1>1, PlacesAfterTail DEF Fed, Heard
  <1>3. Read("addr") \in Command /\ Owes(Read("addr"))
    BY DEF Read, Command, Owes
  <1>4. PICK r \in Command : r = Read("addr")
    BY <1>3
  <1>5. toChip' = toChip \o <<r>> /\ Owes(r) /\ Contains(toChip', r)
    BY <1>1, <1>3, <1>4, AppendIsConcat, OnAppend
  <1>6. Tail(toHost) \in Seq(Byte) /\ toChip' \in Seq(Command)
    BY <1>1, <1>3, PlacesAfterTail
  <1>7. One(toHost', toChip')
    BY <1>5, <1>6 DEF One, Contains
  <1>8. CASE Two(toHost, toChip)
    <2>1. One(toHost', toChip)
      BY <1>1, <1>8, OneLess
    <2>2. Two(toHost', toChip')
      BY <1>1, <1>5, <1>6, <2>1, OneMore
    <2> QED
      BY <1>1, <1>2, <1>7, <2>2 DEF Fed
  <1>9. CASE ~Two(toHost, toChip)
    <2>1. air # <<>> /\ NoZero(toHost) /\ Asked("nbBytes", toHost, toChip)
      BY <1>1, <1>9 DEF Fed
    <2>2. Len(toHost) \in Nat /\ Len(toHost) >= 1 /\ DOMAIN toHost = 1 .. Len(toHost)
      BY <1>1, PlacesAfterTail
    <2>3. ~(Len(toHost) >= 2) /\ ~ \E i \in DOMAIN toChip : Owes(toChip[i])
      BY <1>9, <2>2 DEF Two
    <2>4. Owes(Read("nbBytes"))
      BY DEF Read, Owes
    <2>5. PICK i \in DOMAIN toHost : toHost[i].reg = "nbBytes"
      BY <1>1, <2>1, <2>3, <2>4 DEF Asked, Contains
    <2>6. i = 1
      BY <2>2, <2>3
    <2>7. Head(toHost).reg = "nbBytes" /\ Head(toHost).n > 0
      BY <1>1, <2>1, <2>5, <2>6, PlacesAfterTail DEF NoZero
    <2>8. len' > 0
      BY <1>1, <2>7 DEF LengthsRead
    <2> QED
      BY <1>1, <1>2, <1>7, <2>8 DEF Fed
  <1> QED
    BY <1>8, <1>9

LEMMA FedGotAddress == ASSUME TypeInv, Fed, GotAddress PROVE Fed'
  <1>1. /\ pc = "addr" /\ toHost # <<>> /\ toHost \in Seq(Byte) /\ toChip \in Seq(Command)
        /\ toHost' = Tail(toHost) /\ UNCHANGED <<irq, air, len>> /\ pc' = "fifo"
        /\ len \in Nat
        /\ toChip' = toChip \o <<SetPointer(AddressRead(Head(toHost))), BurstRead("fifo", len)>>
    BY Awaited, Parts, Lines DEF GotAddress, chipVars
  <1>2. Heard(toHost', air') /\ ("RxDone" \in irq' => air' # <<>>)
    BY <1>1, PlacesAfterTail DEF Fed, Heard
  <1>3. Tail(toHost) \in Seq(Byte)
    BY <1>1, PlacesAfterTail
  <1>4. PICK p \in Command : p = SetPointer(AddressRead(Head(toHost)))
    <2>1. AddressRead(Head(toHost)) \in Nat
      BY <1>1, NextByte DEF AddressRead
    <2> QED
      BY <2>1 DEF SetPointer, Command
  <1>5. PICK r \in Command : r = BurstRead("fifo", len)
    BY <1>1 DEF BurstRead, Command
  <1>6. PICK t : t = <<p, r>>
    OBVIOUS
  <1>7. t \in Seq(Command) /\ Contains(t, r)
    <2>1. t \in Seq(Command) /\ Len(t) = 2 /\ t[2] = r /\ 2 \in 1 .. 2
      BY <1>6
    <2> QED
      BY <2>1 DEF Contains
  <1>8. toChip' = toChip \o t
    BY <1>1, <1>4, <1>5, <1>6
  <1>9. Contains(toChip', r)
    <2>1. toChip \in Seq(Command)
      BY <1>1
    <2>2. Contains(toChip \o t, r)
      BY <1>7, <2>1, OnConcat
    <2> QED
      BY <1>8, <2>2
  <1>10. ASSUME ~(len > 0) PROVE One(toHost', toChip')
    <2>1. Two(toHost, toChip)
      BY <1>1, <1>10 DEF Fed
    <2>2. One(toHost', toChip)
      BY <1>1, <2>1, OneLess
    <2>3. PICK h \in Seq(Byte) : h = toHost'
      BY <1>1, <1>3
    <2>a. One(h, toChip) /\ toChip \in Seq(Command) /\ <<>> \in Seq(Byte)
      BY <1>1, <2>2, <2>3
    <2>4. One(h \o <<>>, toChip \o t)
      BY <1>7, <2>a, StillOne
    <2>5. h \o <<>> = h
      BY <2>3, ConcatEmptySeq
    <2> QED
      BY <1>8, <2>3, <2>4, <2>5
  <1> QED
    BY <1>1, <1>2, <1>5, <1>9, <1>10 DEF Fed

LEMMA FedGotOctets == ASSUME TypeInv, Fed, GotOctets PROVE Fed'
  <1> DEFINE k == Needed(len)
  <1>1. /\ toHost \in Seq(Byte) /\ toChip \in Seq(Command) /\ len \in Nat
        /\ Await("fifo", len) /\ pc' = "rssi" /\ UNCHANGED <<irq, air>>
        /\ toHost' = SubSeq(toHost, k + 1, Len(toHost))
        /\ toChip' = toChip \o <<Clear, Read("rssi")>>
    BY Parts, Lines DEF GotOctets, chipVars
  <1>2. k \in Nat /\ Len(toHost) \in Nat /\ k <= Len(toHost)
    BY <1>1, Awaited
  <1> HIDE DEF k
  <1>3. \A i \in DOMAIN toHost' : i + k \in DOMAIN toHost /\ toHost'[i] = toHost[i + k]
    <2>1. /\ Len(toHost') = Len(toHost) - k /\ toHost' \in Seq(Byte)
          /\ \A i \in 1 .. Len(toHost) - k : toHost'[i] = toHost[(k + 1) + i - 1]
      <3>1. CASE k + 1 <= Len(toHost) + 1
        BY <1>1, <1>2, <3>1, SubSeqProperties
      <3> QED
        BY <1>2, <3>1
    <2>2. DOMAIN toHost' = 1 .. Len(toHost) - k /\ DOMAIN toHost = 1 .. Len(toHost)
      BY <1>1, <2>1
    <2>3. \A i \in 1 .. Len(toHost) - k : /\ (k + 1) + i - 1 = i + k
                                          /\ i + k \in 1 .. Len(toHost)
      BY <1>2
    <2> QED
      BY <2>1, <2>2, <2>3
  <1>4. Heard(toHost', air') /\ ("RxDone" \in irq' => air' # <<>>)
    BY <1>1, <1>3 DEF Fed, Heard
  <1>5. PICK r \in Command : r = Read("rssi") /\ Owes(r)
    <2>1. Read("rssi") \in Command /\ Owes(Read("rssi"))
      BY DEF Read, Command, Owes
    <2> QED
      BY <2>1
  <1>6. PICK t : t = <<Clear, r>>
    OBVIOUS
  <1>7. t \in Seq(Command) /\ Contains(t, r)
    <2>0. Clear \in Command
      BY DEF Clear, Write, Command
    <2>1. t \in Seq(Command) /\ Len(t) = 2 /\ t[2] = r /\ 2 \in 1 .. 2
      BY <1>6, <2>0
    <2> QED
      BY <2>1 DEF Contains
  <1>8. Contains(toChip', r) /\ toChip' \in Seq(Command)
    <2>1. toChip \in Seq(Command) /\ toChip' = toChip \o t
      BY <1>1, <1>5, <1>6
    <2>2. Contains(toChip \o t, r) /\ toChip \o t \in Seq(Command)
      BY <1>7, <2>1, OnConcat
    <2> QED
      BY <2>1, <2>2
  <1>9. One(toHost', toChip')
    BY <1>5, <1>8 DEF One, Contains
  <1> QED
    BY <1>1, <1>4, <1>9 DEF Fed

LEMMA FedStep == ASSUME TypeInv, Fed, [Next]_vars PROVE Fed'
  <1>0. toChip \in Seq(Command) /\ toHost \in Seq(Byte)
    BY Parts, Lines
  <1>1. CASE UNCHANGED vars
    BY <1>1 DEF vars, hostVars, chipVars, Fed
  <1>2. ASSUME NEW p \in Packet, Arrive(p) PROVE Fed'
    <2>1. UNCHANGED <<pc, len, toChip, toHost>> /\ air' = Append(air, p)
      BY <1>2 DEF Arrive, hostVars
    <2>2. air' # <<>>
      <3>1. air \in Seq(Packet)
        BY Parts
      <3>2. Append(air, p) # <<>>
        BY <3>1, AppendProperties
      <3> QED
        BY <2>1, <3>2
    <2> QED
      BY <2>1, <2>2 DEF Fed, Heard
  <1>3. ASSUME TxEnd PROVE Fed'
    BY <1>3 DEF TxEnd, hostVars, Fed
  <1>4. ASSUME Notify PROVE Fed'
    <2>1. PICK x \in Byte : x = I
      BY DEF I, Octet, Byte
    <2>2. /\ toHost' = toHost \o <<x>> /\ <<x>> \in Seq(Byte) /\ <<>> \in Seq(Command)
          /\ toChip \o <<>> = toChip
      BY <1>0, <1>4, <2>1, AppendIsConcat, ConcatEmptySeq DEF Notify
    <2>3. UNCHANGED <<pc, len, toChip, irq, air>>
      BY <1>4 DEF Notify, hostVars, chipVars
    <2>4. One(toHost, toChip) => One(toHost', toChip')
      BY <1>0, <2>2, <2>3, StillOne
    <2>5. Two(toHost, toChip) => Two(toHost', toChip')
      BY <1>0, <2>2, <2>3, StillTwo
    <2>6. \A reg : Asked(reg, toHost, toChip) => Asked(reg, toHost', toChip')
      BY <1>0, <2>2, <2>3, StillAsked
    <2>7. \A i \in DOMAIN toHost' : \/ i \in DOMAIN toHost /\ toHost'[i] = toHost[i]
                                    \/ toHost'[i] = x
      BY <1>0, <2>2, PlacesAfterConcat
    <2>8. x.reg = "I"
      BY <2>1 DEF I, Octet
    <2>9. Heard(toHost', air') /\ (NoZero(toHost) => NoZero(toHost'))
      BY <2>3, <2>7, <2>8 DEF Fed, Heard, NoZero
    <2>10. len > 0 /\ Len(toHost) >= len => Len(toHost') >= len
      <3>1. Len(toHost') = Len(toHost) + 1 /\ Len(toHost) \in Nat /\ len \in Nat
        BY <1>0, <1>4, <2>1, Parts DEF Notify
      <3> QED
        BY <3>1
    <2> QED
      BY <2>3, <2>4, <2>5, <2>6, <2>9, <2>10 DEF Fed
  <1>5. ASSUME PollNothing PROVE Fed'
    <2>1. pc' = "idle" /\ UNCHANGED <<irq, air>>
            /\ (toHost' = toHost \/ (toHost # <<>> /\ toHost' = Tail(toHost)))
      BY <1>5 DEF PollNothing, Return, chipVars
    <2>2. Heard(toHost', air')
      <3>1. CASE toHost' = toHost
        BY <2>1, <3>1 DEF Fed, Heard
      <3>2. CASE toHost # <<>> /\ toHost' = Tail(toHost)
        BY <1>0, <2>1, <3>2, PlacesAfterTail DEF Fed, Heard
      <3> QED
        BY <2>1, <3>1, <3>2
    <2> QED
      BY <2>1, <2>2 DEF Fed
  <1>6. ASSUME PollInterrupt PROVE Fed'
    <2>1. pc' = "flags" /\ UNCHANGED <<irq, air>> /\ toHost # <<>> /\ toHost' = Tail(toHost)
            /\ toChip' = Append(toChip, Read("flags"))
      BY <1>6 DEF PollInterrupt, chipVars
    <2>2. Heard(toHost', air')
      BY <1>0, <2>1, PlacesAfterTail DEF Fed, Heard
    <2>3. Read("flags") \in Command
      BY DEF Read, Command
    <2>4. Contains(toChip', Read("flags"))
      BY <1>0, <2>1, <2>3, OnAppend
    <2> QED
      BY <2>1, <2>2, <2>4 DEF Fed, Asked
  <1>7. ASSUME GotRssi PROVE Fed'
    <2>1. pc' = "idle" /\ UNCHANGED <<irq, air>> /\ toHost # <<>> /\ toHost' = Tail(toHost)
      BY <1>7, Awaited DEF GotRssi, Return, chipVars
    <2>2. Heard(toHost', air')
      BY <1>0, <2>1, PlacesAfterTail DEF Fed, Heard
    <2> QED
      BY <2>1, <2>2 DEF Fed
  <1>8. ASSUME Send \/ Sleep PROVE Fed'
    <2>1. pc' = "idle" /\ UNCHANGED <<toHost, irq, air>>
      BY <1>8 DEF Send, Sleep, chipVars
    <2> QED
      BY <2>1 DEF Fed
  <1> QED
    BY <1>1, <1>2, <1>3, <1>4, <1>5, <1>6, <1>7, <1>8, FedExecute, FedGotFlags,
       FedGotLength, FedGotAddress, FedGotOctets DEF Next

(***************************************************************************)
(* With all commands executed and all interrupts reported, the host has    *)
(* the bytes it waits for: uartRx() is never left by its time limit,       *)
(* whatever bytes are taken for whatever.                                  *)
(***************************************************************************)
THEOREM ReadsAreAnswered == Spec => []NeverStarved
  <1>1. Init => TypeInv /\ Fed
    <2> SUFFICES ASSUME Init PROVE Fed
      BY TypeInit
    <2> QED
      BY DEF Init, Fed, Heard
  <1>2. TypeInv /\ Fed /\ [Next]_vars => (TypeInv /\ Fed)'
    BY TypeStep, FedStep
  <1>3. TypeInv /\ Fed => NeverStarved
    <2> SUFFICES ASSUME TypeInv, Fed, toChip = <<>>, pc # "idle"
                 PROVE  Len(toHost) >= Needed(IF pc = "fifo" THEN len ELSE 1)
      BY DEF NeverStarved
    <2>1. toHost \in Seq(Byte) /\ Len(toHost) \in Nat /\ len \in Nat
            /\ (toHost # <<>> => Len(toHost) >= 1)
      BY Parts, Lines, LenProperties, EmptySeq
    <2>2. (\A reg : ~Contains(toChip, reg)) /\ (\A i \in DOMAIN toChip : FALSE)
      BY DEF Contains
    <2>3. One(toHost, toChip) => toHost # <<>>
      BY <2>2 DEF One
    <2>4. \A reg : Asked(reg, toHost, toChip) => toHost # <<>>
      BY <2>2 DEF Asked
    <2>5. CASE pc # "fifo"
      <3>1. pc \in Registers
        BY Parts
      <3>2. Len(toHost) >= 1
        BY <2>1, <2>3, <2>4, <2>5, <3>1 DEF Fed, Registers
      <3> QED
        BY <2>5, <3>2 DEF Needed
    <2>6. CASE pc = "fifo"
      <3>1. CASE len > 0
        <4>1. Len(toHost) >= len
          BY <2>2, <2>6, <3>1 DEF Fed
        <4> QED
          BY <2>1, <2>6, <3>1, <4>1 DEF Needed
      <3>2. CASE ~(len > 0)
        <4>1. len = 0
          BY <2>1, <3>2
        <4>2. Len(toHost) >= 1
          BY <2>1, <2>3, <2>6, <3>2 DEF Fed
        <4> QED
          BY <2>6, <4>1, <4>2 DEF Needed
      <3> QED
        BY <3>1, <3>2
    <2> QED
      BY <2>5, <2>6
  <1> QED
    BY <1>1, <1>2, <1>3, PTL DEF Spec

-----------------------------------------------------------------------------
(* The commands the driver sends come in groups: a transmission is started *)
(* and then the pin mapped to its end, reception before the pin to it.     *)

Sets(c, what, arg) == c.do = what /\ c.arg = arg

TxPairs(c) == \A i \in DOMAIN c : Sets(c[i], "mode", "TX")
                  => i + 1 \in DOMAIN c /\ Sets(c[i + 1], "mapping", "TxDone")

RxPairs(c, now) == \A i \in DOMAIN c : Sets(c[i], "mapping", "RxDone")
                       => IF i = 1 THEN now = "RX" ELSE Sets(c[i - 1], "mode", "RX")

Grouped(c) == TxPairs(c) /\ RxPairs(c, "none")

LEMMA GroupsConcat ==
    ASSUME NEW s \in Seq(Command), NEW t \in Seq(Command), NEW now,
           TxPairs(s), RxPairs(s, now), Grouped(t)
    PROVE  TxPairs(s \o t) /\ RxPairs(s \o t, now)
  <1> PICK u : u = s \o t
    OBVIOUS
  <1>1. /\ Len(s) \in Nat /\ \A i \in DOMAIN s : i \in Nat /\ i \in DOMAIN u /\ u[i] = s[i]
        /\ \A i \in DOMAIN t : Len(s) + i \in DOMAIN u /\ u[Len(s) + i] = t[i]
        /\ \A j \in DOMAIN u : \/ j \in DOMAIN s /\ u[j] = s[j]
                               \/ j - Len(s) \in DOMAIN t /\ u[j] = t[j - Len(s)]
    BY PlacesAfterConcat
  <1>2. /\ DOMAIN s = 1 .. Len(s) /\ DOMAIN t = 1 .. Len(t) /\ DOMAIN u = 1 .. Len(u)
        /\ Len(u) \in Nat /\ Len(t) \in Nat
    BY PlacesAfterConcat
  <1>3. ASSUME NEW j \in DOMAIN u, Sets(u[j], "mode", "TX")
        PROVE  j + 1 \in DOMAIN u /\ Sets(u[j + 1], "mapping", "TxDone")
    <2>1. CASE j \in DOMAIN s /\ u[j] = s[j]
      <3>1. j + 1 \in DOMAIN s /\ Sets(s[j + 1], "mapping", "TxDone")
        BY <1>3, <2>1 DEF TxPairs
      <3> QED
        BY <1>1, <3>1
    <2>2. CASE j - Len(s) \in DOMAIN t /\ u[j] = t[j - Len(s)]
      <3>1. (j - Len(s)) + 1 \in DOMAIN t /\ Sets(t[(j - Len(s)) + 1], "mapping", "TxDone")
        BY <1>3, <2>2 DEF Grouped, TxPairs
      <3>2. Len(s) + ((j - Len(s)) + 1) = j + 1
        BY <1>2
      <3> QED
        BY <1>1, <3>1, <3>2
    <2> QED
      BY <1>1, <2>1, <2>2
  <1>4. ASSUME NEW j \in DOMAIN u, Sets(u[j], "mapping", "RxDone")
        PROVE  IF j = 1 THEN now = "RX" ELSE Sets(u[j - 1], "mode", "RX")
    <2>1. CASE j \in DOMAIN s /\ u[j] = s[j]
      <3>1. IF j = 1 THEN now = "RX" ELSE Sets(s[j - 1], "mode", "RX")
        BY <1>4, <2>1 DEF RxPairs
      <3>2. j # 1 => j - 1 \in DOMAIN s
        BY <1>2, <2>1
      <3> QED
        BY <1>1, <3>1, <3>2
    <2>2. CASE j - Len(s) \in DOMAIN t /\ u[j] = t[j - Len(s)]
      <3>1. j - Len(s) # 1 /\ Sets(t[(j - Len(s)) - 1], "mode", "RX")
        BY <1>4, <2>2 DEF Grouped, RxPairs
      <3>2. /\ Len(s) + ((j - Len(s)) - 1) = j - 1 /\ j # 1
            /\ (j - Len(s)) - 1 \in 1 .. Len(t)
        BY <1>2, <2>2, <3>1
      <3> QED
        BY <1>1, <1>2, <3>1, <3>2
    <2> QED
      BY <1>1, <2>1, <2>2
  <1>5. TxPairs(u) /\ RxPairs(u, now)
    BY <1>3, <1>4 DEF TxPairs, RxPairs
  <1> QED
    BY <1>5

LEMMA GroupedConcat ==
    ASSUME NEW s \in Seq(Command), NEW t \in Seq(Command), Grouped(s), Grouped(t)
    PROVE  Grouped(s \o t) /\ s \o t \in Seq(Command)
  BY GroupsConcat DEF Grouped

\* A command of its own.
LEMMA GroupedOne ==
    ASSUME NEW c \in Command, ~Sets(c, "mode", "TX"), ~Sets(c, "mapping", "RxDone")
    PROVE  Grouped(<<c>>) /\ <<c>> \in Seq(Command)
  <1>1. <<c>> \in Seq(Command) /\ DOMAIN <<c>> = {1} /\ <<c>>[1] = c
    OBVIOUS
  <1> QED
    BY <1>1 DEF Grouped, TxPairs, RxPairs

LEMMA GroupedSetters ==
    /\ \A m \in Modes : Grouped(ToIdle(m)) /\ ToIdle(m) \in Seq(Command)
    /\ \A m \in Modes : Grouped(ToRx(m)) /\ ToRx(m) \in Seq(Command)
    /\ Grouped(ToTx) /\ ToTx \in Seq(Command)
    /\ Grouped(<<Clear>>) /\ <<Clear>> \in Seq(Command)
    /\ Grouped(<<>>) /\ <<>> \in Seq(Command)
  <1>1. Grouped(<<>>) /\ <<>> \in Seq(Command)
    BY DEF Grouped, TxPairs, RxPairs
  <1>2. /\ Write("mode", "STDBY") \in Command
        /\ Sets(Write("mode", "STDBY"), "mode", "STDBY")
        /\ Clear \in Command /\ Sets(Clear, "clear", "none")
        /\ Write("mode", "RX") \in Command /\ Sets(Write("mode", "RX"), "mode", "RX")
        /\ Write("mode", "TX") \in Command /\ Sets(Write("mode", "TX"), "mode", "TX")
        /\ Write("mapping", "RxDone") \in Command
        /\ Sets(Write("mapping", "RxDone"), "mapping", "RxDone")
        /\ Write("mapping", "TxDone") \in Command
        /\ Sets(Write("mapping", "TxDone"), "mapping", "TxDone")
    BY DEF Write, Clear, Command, Sets
  <1>3. Grouped(<<Write("mode", "STDBY")>>) /\ <<Write("mode", "STDBY")>> \in Seq(Command)
    BY <1>2, GroupedOne DEF Sets
  <1>4. Grouped(<<Clear>>) /\ <<Clear>> \in Seq(Command)
    BY <1>2, GroupedOne DEF Sets
  <1>5. ASSUME NEW a \in Command, NEW b \in Command,
               \/ Sets(a, "mode", "RX") /\ Sets(b, "mapping", "RxDone")
               \/ Sets(a, "mode", "TX") /\ Sets(b, "mapping", "TxDone")
        PROVE  Grouped(<<a, b>>) /\ <<a, b>> \in Seq(Command)
    <2>1. PICK u : u = <<a, b>>
      OBVIOUS
    <2>2. u \in Seq(Command) /\ DOMAIN u = 1 .. 2 /\ u[1] = a /\ u[2] = b
      BY <2>1
    <2>3. \A i \in DOMAIN u : i = 1 \/ i = 2
      BY <2>2
    <2>4. 1 + 1 = 2 /\ 2 - 1 = 1 /\ 1 \in DOMAIN u /\ 2 \in DOMAIN u
      BY <2>2
    <2>5. Grouped(u)
      BY <1>5, <2>2, <2>3, <2>4 DEF Grouped, TxPairs, RxPairs, Sets
    <2> QED
      BY <2>1, <2>2, <2>5
  <1>6. \A m \in Modes : Grouped(ToIdle(m)) /\ ToIdle(m) \in Seq(Command)
    BY <1>1, <1>3 DEF ToIdle
  <1>7. \A m \in Modes : Grouped(ToRx(m)) /\ ToRx(m) \in Seq(Command)
    BY <1>1, <1>2, <1>5 DEF ToRx
  <1>8. Grouped(ToTx) /\ ToTx \in Seq(Command)
    BY <1>2, <1>5 DEF ToTx
  <1> QED
    BY <1>1, <1>4, <1>6, <1>7, <1>8

\* What a return of available() adds to the line.
LEMMA ReturnAdds ==
    ASSUME TypeInv, NEW m \in Modes, NEW b, NEW v, NEW cmds \in Seq(Command),
           Return(m, b, v, cmds)
    PROVE  /\ m = "Tx" => mode' = "Tx" /\ toChip' = toChip \o cmds
           /\ m # "Tx" => mode' = "Rx" /\ toChip' = toChip \o (cmds \o ToRx(m))
  <1>1. toChip \in Seq(Command) /\ ToRx(m) \in Seq(Command)
    BY Parts, Lines, GroupedSetters
  <1>2. (toChip \o cmds) \o ToRx(m) = toChip \o (cmds \o ToRx(m))
    BY <1>1, ConcatAssociative
  <1> QED
    BY <1>2 DEF Return

\* Three groups are one.
OneByOne(s, a, b, c) == ((s \o a) \o b) \o c
Together(s, a, b, c) == s \o (a \o (b \o c))

LEMMA ThreeAdded ==
    \A s, a, b, c \in Seq(Command) : OneByOne(s, a, b, c) = Together(s, a, b, c)
  <1> DEFINE Cat(x, y) == x \o y
  <1>1. \A x, y \in Seq(Command) : Cat(x, y) \in Seq(Command)
    OBVIOUS
  <1>2. \A x, y, z \in Seq(Command) : Cat(Cat(x, y), z) = Cat(x, Cat(y, z))
    <2> TAKE x, y, z \in Seq(Command)
    <2> QED
      BY ConcatAssociative
  <1> HIDE DEF Cat
  <1>3. \A s, a, b, c \in Seq(Command) :
            Cat(Cat(Cat(s, a), b), c) = Cat(s, Cat(a, Cat(b, c)))
    BY <1>1, <1>2
  <1> QED
    BY <1>3 DEF OneByOne, Together, Cat

\* What a step of the driver adds to the line.
LEMMA HostAdds ==
    ASSUME TypeInv,
           \/ PollNothing \/ PollInterrupt \/ GotFlags \/ GotLength \/ GotAddress
           \/ GotOctets \/ GotRssi \/ Send \/ Sleep
    PROVE  /\ \E t \in Seq(Command) : toChip' = toChip \o t /\ Grouped(t)
           /\ UNCHANGED <<opMode, irq, dio0, pointer, air, intFlag>>
  <1> DEFINE Adds == \E t \in Seq(Command) : toChip' = toChip \o t /\ Grouped(t)
  <1>0. toChip \in Seq(Command) /\ mode \in Modes /\ "Idle" \in Modes /\ len \in Nat
    BY Parts, Lines DEF Modes
  <1>1. UNCHANGED <<opMode, irq, dio0, pointer, air, intFlag>>
    <2>1. PollNothing \/ PollInterrupt \/ Send \/ Sleep
              => UNCHANGED <<opMode, irq, dio0, pointer, air, intFlag>>
      BY DEF PollNothing, PollInterrupt, Send, Sleep, chipVars
    <2>2. GotFlags \/ GotLength \/ GotAddress \/ GotOctets \/ GotRssi
              => UNCHANGED <<opMode, irq, dio0, pointer, air, intFlag>>
      BY DEF GotFlags, GotLength, GotAddress, GotOctets, GotRssi, chipVars
    <2> QED
      BY <2>1, <2>2
  <1>2. ASSUME NEW m \in Modes, NEW b, NEW v, NEW cmds \in Seq(Command), Grouped(cmds),
               Return(m, b, v, cmds)
        PROVE  Adds
    <2>1. Grouped(cmds \o ToRx(m)) /\ cmds \o ToRx(m) \in Seq(Command)
      BY <1>2, GroupedSetters, GroupedConcat
    <2> QED
      BY <1>2, <2>1, ReturnAdds
  <1>3. ASSUME NEW c \in Command, c.do \in {"read", "pointer", "clear"} \/ Sets(c, "mode", "SLEEP")
        PROVE  /\ Grouped(<<c>>) /\ <<c>> \in Seq(Command)
               /\ toChip' = Append(toChip, c) => Adds
    <2>1. Grouped(<<c>>) /\ <<c>> \in Seq(Command)
      BY <1>3, GroupedOne DEF Sets
    <2>2. Append(toChip, c) = toChip \o <<c>>
      BY <1>0, AppendIsConcat
    <2> QED
      BY <2>1, <2>2
  <1>4. ASSUME NEW c \in Command, NEW d \in Command, c.do \in {"read", "pointer", "clear"},
               d.do \in {"read", "pointer", "clear"}, toChip' = toChip \o <<c, d>>
        PROVE  Adds
    <2>1. <<c>> \o <<d>> = <<c, d>>
      BY TwoInOne
    <2>2. Grouped(<<c>>) /\ <<c>> \in Seq(Command) /\ Grouped(<<d>>) /\ <<d>> \in Seq(Command)
      BY <1>3, <1>4
    <2>3. PICK s \in Seq(Command), t \in Seq(Command) :
              s = <<c>> /\ t = <<d>> /\ Grouped(s) /\ Grouped(t)
      BY <2>2
    <2>4. Grouped(s \o t) /\ s \o t \in Seq(Command)
      BY <2>3, GroupedConcat
    <2> QED
      BY <1>4, <2>1, <2>3, <2>4
  <1>5. /\ \A r \in Registers : Read(r) \in Command /\ Read(r).do = "read"
        /\ \A k \in Nat : BurstRead("fifo", k) \in Command /\ BurstRead("fifo", k).do = "read"
        /\ \A k \in Nat : SetPointer(k) \in Command /\ SetPointer(k).do = "pointer"
        /\ Clear \in Command /\ Clear.do = "clear"
    BY DEF Read, BurstRead, SetPointer, Clear, Write, Command, Registers
  <1>6. ASSUME NEW m \in Modes
        PROVE  Grouped(ToIdle(m) \o <<Clear>>) /\ ToIdle(m) \o <<Clear>> \in Seq(Command)
    <2>1. PICK t \in Seq(Command) : t = <<Clear>> /\ Grouped(t)
      BY GroupedSetters
    <2> QED
      BY <2>1, GroupedSetters, GroupedConcat
  <1>7. ASSUME PollNothing PROVE Adds
    <2>1. Return(mode, buf, rxBufValid, <<>>)
      BY <1>7 DEF PollNothing
    <2> QED
      BY <1>0, <1>2, <2>1, GroupedSetters
  <1>8. ASSUME PollInterrupt \/ GotLength PROVE Adds
    BY <1>3, <1>5, <1>8 DEF PollInterrupt, GotLength, Registers
  <1>9. ASSUME GotAddress PROVE Adds
    <2>1. PICK k \in Nat : k = AddressRead(Head(toHost))
      BY <1>9, NextByte, Awaited DEF AddressRead, GotAddress
    <2>2. toChip' = toChip \o <<SetPointer(k), BurstRead("fifo", len)>>
      BY <1>9, <2>1 DEF GotAddress
    <2> QED
      BY <1>0, <1>4, <1>5, <2>2
  <1>10. ASSUME GotOctets PROVE Adds
    <2>1. toChip' = toChip \o <<Clear, Read("rssi")>>
      BY <1>10 DEF GotOctets
    <2> QED
      BY <1>4, <1>5, <2>1 DEF Registers
  <1>11. ASSUME GotFlags PROVE Adds
    <2>1. PICK flags \in FlagsRead(Head(toHost)) :
        \/ toChip' = Append(toChip, Read("nbBytes"))
        \/ Return("Idle", buf, rxBufValid, ToIdle("Tx") \o Dismissed(flags))
        \/ Return(mode, buf, rxBufValid, Dismissed(flags))
      BY <1>11 DEF GotFlags
    <2>2. Dismissed(flags) = <<Clear>>
      BY DEF Dismissed
    <2>3. PICK cmds \in Seq(Command) : cmds = ToIdle("Tx") \o <<Clear>> /\ Grouped(cmds)
      BY <1>6 DEF Modes
    <2>4. CASE toChip' = Append(toChip, Read("nbBytes"))
      BY <1>3, <1>5, <2>4 DEF Registers
    <2>5. CASE Return("Idle", buf, rxBufValid, cmds)
      BY <1>0, <1>2, <2>3, <2>5
    <2>6. CASE Return(mode, buf, rxBufValid, <<Clear>>)
      BY <1>0, <1>2, <2>6, GroupedSetters
    <2> QED
      BY <2>1, <2>2, <2>3, <2>4, <2>5, <2>6
  <1>12. ASSUME GotRssi PROVE Adds
    <2>1. \/ Return("Idle", buf, TRUE, ToIdle("Rx") \o <<Clear>>)
          \/ Return(mode, buf, FALSE, <<Clear>>)
      BY <1>12 DEF GotRssi
    <2>3. PICK cmds \in Seq(Command) : cmds = ToIdle("Rx") \o <<Clear>> /\ Grouped(cmds)
      BY <1>6 DEF Modes
    <2>5. CASE Return("Idle", buf, TRUE, cmds)
      BY <1>0, <1>2, <2>3, <2>5
    <2>6. CASE Return(mode, buf, FALSE, <<Clear>>)
      BY <1>0, <1>2, <2>6, GroupedSetters
    <2> QED
      BY <2>1, <2>3, <2>5, <2>6
  <1>13. ASSUME Send PROVE Adds
    <2>1. PICK a \in Seq(Command) : a = ToIdle(mode) /\ Grouped(a)
      BY <1>0, GroupedSetters
    <2>2. PICK b \in Seq(Command) : b = <<SetPointer(0)>> /\ Grouped(b)
      BY <1>3, <1>5
    <2>3. PICK c \in Seq(Command) : c = ToTx /\ Grouped(c)
      BY GroupedSetters
    <2>4. Grouped(b \o c) /\ b \o c \in Seq(Command)
      BY <2>2, <2>3, GroupedConcat
    <2>5. PICK d \in Seq(Command) : d = b \o c /\ Grouped(d)
      BY <2>4
    <2>6. Grouped(a \o d) /\ a \o d \in Seq(Command)
      BY <2>1, <2>5, GroupedConcat
    <2>7. toChip' = ((toChip \o a) \o b) \o c
      BY <1>13, <2>1, <2>2, <2>3 DEF Send
    <2>8. toChip' = toChip \o (a \o (b \o c))
      <3>1. toChip \in Seq(Command)
        BY <1>0
      <3>2. a \in Seq(Command) /\ b \in Seq(Command) /\ c \in Seq(Command)
        BY <2>1, <2>2, <2>3
      <3>3. OneByOne(toChip, a, b, c) = Together(toChip, a, b, c)
        BY <3>1, <3>2, ThreeAdded
      <3> QED
        BY <2>7, <3>3 DEF OneByOne, Together
    <2> QED
      BY <2>5, <2>6, <2>8
  <1>14. ASSUME Sleep PROVE Adds
    <2>1. Write("mode", "SLEEP") \in Command /\ Sets(Write("mode", "SLEEP"), "mode", "SLEEP")
      BY DEF Write, Command, Sets
    <2> QED
      BY <1>3, <1>14, <2>1 DEF Sleep
  <1> QED
    BY <1>1, <1>7, <1>8, <1>9, <1>10, <1>11, <1>12, <1>13, <1>14

-----------------------------------------------------------------------------
(* What holds also of a radio that is disturbed, so that all is well again *)
(* once the line is quiet: flags without CrcError are those of a good      *)
(* packet, and TxDone is not forgotten.                                    *)

\* The last packet is a good one.
Whole == air # <<>> /\ Last(air).good

GoodVerdict == "RxDone" \in irq /\ "CrcError" \notin irq => Whole

Paired == TxPairs(toChip) /\ RxPairs(toChip, opMode)

TxMapped == opMode = "TX" =>
    dio0 = "TxDone" \/ (toChip # <<>> /\ Sets(toChip[1], "mapping", "TxDone"))

TxKnown == "TxDone" \in irq =>
    Serving \/ \E i \in DOMAIN toChip : Sets(toChip[i], "mapping", "TxDone")

Lasting == GoodVerdict /\ Paired /\ TxMapped /\ TxKnown

HostStep ==
    \/ PollNothing \/ PollInterrupt \/ GotFlags \/ GotLength \/ GotAddress
    \/ GotOctets \/ GotRssi \/ Send \/ Sleep

\* The steps that leave the commands alone.
LEMMA LineKept ==
    ASSUME (\E p \in Packet : Arrive(p)) \/ TxEnd \/ Notify \/ UNCHANGED vars
    PROVE  UNCHANGED <<toChip, dio0>>
  BY DEF Arrive, TxEnd, Notify, hostVars, chipVars, vars

LEMMA StepIs ==
    ASSUME [Next]_vars
    PROVE  \/ HostStep \/ Execute
           \/ (\E p \in Packet : Arrive(p)) \/ TxEnd \/ Notify \/ UNCHANGED vars
  BY DEF Next, HostStep

\* The executed command, and the line without it.
LEMMA Executed ==
    ASSUME TypeInv, Execute
    PROVE  /\ toChip \in Seq(Command) /\ toChip # <<>> /\ toChip' = Tail(toChip)
           /\ Head(toChip) \in Sent(Len(air)) /\ Head(toChip) = toChip[1]
           /\ toChip[1] \in Sent(Len(air)) /\ 1 \in DOMAIN toChip
           /\ UNCHANGED <<mode, pc, len, buf, rxBufValid, air, sends, disturbed>>
  <1>1. toChip \in Seq(Sent(Len(air))) /\ toChip # <<>>
    BY Parts DEF Execute
  <1>2. toChip \in Seq(Command)
    BY Parts, Lines
  <1>3. Head(toChip) \in Sent(Len(air)) /\ Head(toChip) = toChip[1] /\ 1 \in DOMAIN toChip
    BY <1>1, PlacesAfterTail
  <1> QED
    BY <1>1, <1>2, <1>3 DEF Execute, hostVars

LEMMA PairedStep == ASSUME TypeInv, Paired, [Next]_vars PROVE Paired'
  <1>0. toChip \in Seq(Command)
    BY Parts, Lines
  <1>1. ASSUME HostStep PROVE Paired'
    <2>1. PICK t \in Seq(Command) : toChip' = toChip \o t /\ Grouped(t) /\ opMode' = opMode
      BY <1>1, HostAdds DEF HostStep
    <2>2. TxPairs(toChip \o t) /\ RxPairs(toChip \o t, opMode)
      BY <1>0, <2>1, GroupsConcat DEF Paired
    <2> QED
      BY <2>1, <2>2 DEF Paired
  <1>2. ASSUME Execute PROVE Paired'
    <2> PICK s : s = Tail(toChip)
      OBVIOUS
    <2>1. toChip # <<>> /\ toChip' = s
      BY <1>2, Executed
    <2>2. /\ \A i \in DOMAIN toChip : i # 1 => i - 1 \in DOMAIN s /\ s[i - 1] = toChip[i]
          /\ \A i \in DOMAIN s : i + 1 \in DOMAIN toChip /\ s[i] = toChip[i + 1] /\ i \in Nat
      BY <1>0, <2>1, PlacesAfterTail
    <2>3. DOMAIN s = 1 .. Len(s) /\ DOMAIN toChip = 1 .. Len(toChip)
      BY <1>0, <2>1, PlacesAfterTail
    <2>4. ASSUME NEW j \in DOMAIN s, Sets(s[j], "mode", "TX")
          PROVE  j + 1 \in DOMAIN s /\ Sets(s[j + 1], "mapping", "TxDone")
      <3>1. j + 1 \in DOMAIN toChip /\ Sets(toChip[j + 1], "mode", "TX") /\ j \in 1 .. Len(s)
        BY <2>2, <2>3, <2>4
      <3>2. /\ (j + 1) + 1 \in DOMAIN toChip
            /\ Sets(toChip[(j + 1) + 1], "mapping", "TxDone")
        BY <3>1 DEF Paired, TxPairs
      <3>3. (j + 1) + 1 # 1 /\ ((j + 1) + 1) - 1 = j + 1
        BY <3>1
      <3> QED
        BY <2>2, <3>2, <3>3
    <2>5. ASSUME NEW j \in DOMAIN s, Sets(s[j], "mapping", "RxDone")
          PROVE  IF j = 1 THEN opMode' = "RX" ELSE Sets(s[j - 1], "mode", "RX")
      <3>1. /\ j + 1 \in DOMAIN toChip /\ Sets(toChip[j + 1], "mapping", "RxDone")
            /\ j \in 1 .. Len(s) /\ j + 1 \in 1 .. Len(toChip)
        BY <2>2, <2>3, <2>5
      <3>2. j + 1 # 1 /\ (j + 1) - 1 = j
        BY <3>1
      <3>3. Sets(toChip[j], "mode", "RX")
        <4>1. Sets(toChip[(j + 1) - 1], "mode", "RX")
          BY <3>1, <3>2 DEF Paired, RxPairs
        <4> QED
          BY <3>2, <4>1
      <3>4. CASE j = 1
        <4>1. Head(toChip) = toChip[1]
          BY <1>2, Executed
        <4>2. Sets(Head(toChip), "mode", "RX")
          BY <3>3, <3>4, <4>1
        <4> QED
          BY <1>2, <3>4, <4>2 DEF Execute, Sets
      <3>5. CASE j # 1
        <4>1. j \in DOMAIN toChip
          BY <2>3, <3>1
        <4> QED
          BY <2>2, <3>3, <3>5, <4>1
      <3> QED
        BY <3>4, <3>5
    <2>6. TxPairs(s) /\ RxPairs(s, opMode')
      BY <2>4, <2>5 DEF TxPairs, RxPairs
    <2> QED
      BY <2>1, <2>6 DEF Paired
  <1>3. ASSUME TxEnd PROVE Paired'
    <2>1. toChip' = toChip /\ opMode = "TX"
      BY <1>3 DEF TxEnd
    <2> QED
      BY <2>1 DEF Paired, RxPairs
  <1>4. ASSUME (\E p \in Packet : Arrive(p)) \/ Notify \/ UNCHANGED vars PROVE Paired'
    BY <1>4 DEF Arrive, Notify, chipVars, vars, Paired
  <1> QED
    BY <1>1, <1>2, <1>3, <1>4, StepIs

LEMMA TxMappedStep == ASSUME TypeInv, Paired, TxMapped, [Next]_vars PROVE TxMapped'
  <1>0. toChip \in Seq(Command)
    BY Parts, Lines
  <1>1. ASSUME HostStep PROVE TxMapped'
    <2>1. PICK t \in Seq(Command) : toChip' = toChip \o t /\ UNCHANGED <<opMode, dio0>>
      BY <1>1, HostAdds DEF HostStep
    <2>2. toChip # <<>> => toChip' # <<>> /\ toChip'[1] = toChip[1]
      <3>1. toChip # <<>> => 1 \in DOMAIN toChip
        BY <1>0, PlacesAfterTail
      <3>2. 1 \in DOMAIN toChip => 1 \in DOMAIN toChip' /\ toChip'[1] = toChip[1]
        BY <1>0, <2>1, PlacesAfterConcat
      <3>3. toChip' = <<>> => 1 \notin DOMAIN toChip'
        OBVIOUS
      <3> QED
        BY <3>1, <3>2, <3>3
    <2> QED
      BY <2>1, <2>2 DEF TxMapped
  <1>2. ASSUME Execute, opMode' = "TX"
        PROVE  dio0' = "TxDone" \/ (toChip' # <<>> /\ Sets(toChip'[1], "mapping", "TxDone"))
    <2> DEFINE h == toChip[1]
    <2>1. /\ toChip # <<>> /\ toChip' = Tail(toChip) /\ h \in Sent(Len(air))
          /\ Head(toChip) = h /\ 1 \in DOMAIN toChip
      BY <1>2, Executed
    <2>2. CASE h.do = "mode"
      <3>1. Sets(h, "mode", "TX")
        BY <1>2, <2>1, <2>2 DEF Execute, Sets
      <3>2. 1 + 1 \in DOMAIN toChip /\ Sets(toChip[1 + 1], "mapping", "TxDone")
        BY <2>1, <3>1 DEF Paired, TxPairs
      <3>3. 1 + 1 # 1 /\ (1 + 1) - 1 = 1
        OBVIOUS
      <3>4. 1 \in DOMAIN Tail(toChip) /\ Tail(toChip)[1] = toChip[1 + 1]
        BY <1>0, <2>1, <3>2, <3>3, PlacesAfterTail
      <3>5. Tail(toChip) # <<>>
        BY <3>4
      <3> QED
        BY <2>1, <3>2, <3>4, <3>5
    <2>3. CASE h.do = "mapping"
      <3>1. opMode = "TX"
        BY <1>2, <2>1, <2>3 DEF Execute
      <3>2. ~Sets(h, "mapping", "RxDone")
        BY <2>1, <3>1 DEF Paired, RxPairs
      <3>3. h.arg \in Pins
        BY <2>1, <2>3 DEF Sent
      <3>4. h.arg = "TxDone"
        BY <2>3, <3>2, <3>3 DEF Sets, Pins
      <3> QED
        BY <1>2, <2>1, <2>3, <3>4 DEF Execute
    <2>4. CASE h.do # "mode" /\ h.do # "mapping"
      <3>1. UNCHANGED <<opMode, dio0>>
        BY <1>2, <2>1, <2>4 DEF Execute
      <3> QED
        BY <1>2, <2>4, <3>1 DEF TxMapped, Sets
    <2> QED
      BY <2>2, <2>3, <2>4
  <1>3. ASSUME TxEnd PROVE opMode' # "TX"
    BY <1>3 DEF TxEnd
  <1>4. ASSUME (\E p \in Packet : Arrive(p)) \/ Notify \/ UNCHANGED vars
        PROVE  UNCHANGED <<toChip, opMode, dio0>>
    BY <1>4 DEF Arrive, Notify, chipVars, vars
  <1> QED
    BY <1>1, <1>2, <1>3, <1>4, StepIs DEF TxMapped

LEMMA TxKnownStep ==
    ASSUME TypeInv, TxMapped, TxKnown, NotDeaf', [Next]_vars
    PROVE  TxKnown'
  <1> DEFINE ToCome == \E i \in DOMAIN toChip : Sets(toChip[i], "mapping", "TxDone")
  <1>0. toChip \in Seq(Command)
    BY Parts, Lines
  <1>d. dio0' \in irq' => Serving'
    BY DEF NotDeaf, Serving
  <1> SUFFICES ASSUME "TxDone" \in irq' PROVE Serving' \/ ToCome'
    BY DEF TxKnown
  <1>1. CASE "TxDone" \notin irq
    <2>1. TxEnd
      <3>1. HostStep \/ Notify \/ UNCHANGED vars => irq' = irq
        BY HostAdds DEF HostStep, Notify, chipVars, vars
      <3>2. \A p \in Packet : Arrive(p) => irq' \subseteq irq \union {"RxDone", "CrcError"}
        BY DEF Arrive
      <3>3. Execute => irq' \subseteq irq
        BY DEF Execute
      <3> QED
        BY <1>1, <3>1, <3>2, <3>3, StepIs
    <2>2. opMode = "TX" /\ UNCHANGED <<dio0, toChip>>
      BY <2>1 DEF TxEnd
    <2>3. CASE dio0 = "TxDone"
      BY <1>d, <2>2, <2>3
    <2>4. CASE toChip # <<>> /\ Sets(toChip[1], "mapping", "TxDone")
      BY <1>0, <2>2, <2>4, PlacesAfterTail
    <2> QED
      BY <2>2, <2>3, <2>4 DEF TxMapped
  <1>2. CASE "TxDone" \in irq /\ Serving
    <2>1. irq' # {}
      OBVIOUS
    <2> QED
      BY <1>2, <2>1, ServingStep
  <1>3. ASSUME NEW i \in DOMAIN toChip, Sets(toChip[i], "mapping", "TxDone")
        PROVE  Serving' \/ ToCome'
    <2>1. CASE HostStep
      <3>1. PICK t \in Seq(Command) : toChip' = toChip \o t
        BY <2>1, HostAdds DEF HostStep
      <3>2. i \in DOMAIN toChip' /\ toChip'[i] = toChip[i]
        BY <1>0, <3>1, PlacesAfterConcat
      <3> QED
        BY <1>3, <3>2
    <2>2. CASE Execute
      <3>1. toChip # <<>> /\ toChip' = Tail(toChip) /\ Head(toChip) = toChip[1]
        BY <2>2, Executed
      <3>2. CASE i = 1
        <4>1. dio0' = "TxDone"
          BY <1>3, <2>2, <3>1, <3>2 DEF Execute, Sets
        <4> QED
          BY <1>d, <4>1
      <3>3. CASE i # 1
        <4>1. i - 1 \in DOMAIN toChip' /\ toChip'[i - 1] = toChip[i]
          BY <1>0, <3>1, <3>3, PlacesAfterTail
        <4> QED
          BY <1>3, <4>1
      <3> QED
        BY <3>2, <3>3
    <2> QED
      BY <1>3, <2>1, <2>2, LineKept, StepIs
  <1> QED
    BY <1>1, <1>2, <1>3 DEF TxKnown

LEMMA GoodVerdictStep == ASSUME TypeInv, GoodVerdict, [Next]_vars PROVE GoodVerdict'
  <1>1. ASSUME NEW p \in Packet, Arrive(p) PROVE GoodVerdict'
    <2>1. air \in Seq(Packet) /\ air' = Append(air, p)
      BY <1>1, Parts DEF Arrive
    <2>2. air' # <<>> /\ Last(air') = p
      <3>1. air' # <<>> /\ Len(air') = Len(air) + 1 /\ air'[Len(air) + 1] = p
        BY <2>1, AppendProperties
      <3> QED
        BY <3>1 DEF Last
    <2>3. "CrcError" \notin irq' => p.good
      BY <1>1 DEF Arrive
    <2> QED
      BY <2>2, <2>3 DEF GoodVerdict, Whole
  <1>2. TxEnd => air' = air /\ irq' = irq \union {"TxDone"}
    BY DEF TxEnd
  <1>3. Execute => air' = air /\ irq' \in {irq, {}}
    BY DEF Execute
  <1>4. HostStep \/ Notify \/ UNCHANGED vars => UNCHANGED <<air, irq>>
    BY HostAdds DEF HostStep, Notify, chipVars, vars
  <1> QED
    BY <1>1, <1>2, <1>3, <1>4, StepIs DEF GoodVerdict, Whole

LEMMA LastingStep ==
    ASSUME TypeInv, NotDeaf, Lasting, [Next]_vars
    PROVE  Lasting'
  BY NotDeafStep, PairedStep, TxMappedStep, TxKnownStep, GoodVerdictStep DEF Lasting

-----------------------------------------------------------------------------
(* What the radio does before it is disturbed: it deals with one interrupt *)
(* after the other, and a transmission is the last thing asked of it.      *)

\* The k-th command stands between some of before and some of after.
Around(c, k, before, after) ==
    /\ k \in DOMAIN c
    /\ \A i \in DOMAIN c : (i < k => c[i] \in before) /\ (i > k => c[i] \in after)

Between(c, before, e, after) ==
    \E k \in DOMAIN c : Around(c, k, before, after) /\ c[k] = e

Setup  == {c \in Command : c.do \in {"mode", "mapping", "pointer"}}
Modal  == {c \in Command : c.do = "mode"}
Other  == {c \in Command : ~Sets(c, "mode", "TX") /\ ~Sets(c, "mapping", "TxDone")}
Steady == {c \in Command : c.do = "read" \/ Sets(c, "mapping", "TxDone")}

\* A message is not being sent, is to be sent, is on the air, has been sent.
NotSending ==
    /\ mode # "Tx" /\ opMode # "TX" /\ toChip \in Seq(Other)
    /\ "TxDone" \in irq => Contains(toChip, Clear)

SendAsked ==
    /\ mode = "Tx" /\ opMode # "TX"
    /\ Between(toChip, Other, Write("mode", "TX"), Steady)
    /\ "TxDone" \in irq => Contains(toChip, Clear)

OnAir ==
    /\ mode = "Tx" /\ opMode = "TX" /\ "TxDone" \notin irq
    /\ toChip \in Seq(Steady \union {Clear})

SentOut ==
    /\ mode = "Tx" /\ opMode = "STDBY" /\ "TxDone" \in irq
    /\ toChip \in Seq(Steady)

Transmission == NotSending \/ SendAsked \/ OnAir \/ SentOut

\* No edge can follow before the flags have been cleared.
Held == dio0 \in irq \/ (dio0 = "TxDone" /\ (OnAir \/ SentOut))

\* The replies handleInterrupt() waits for.
FlagsOctet  == Octet("flags", irq, 0, 0)
LengthOctet == Octet("nbBytes", {}, 0, NbBytes)
AddrOctet   == Octet("addr", {}, Len(air), 0)
RssiOctet   == Octet("rssi", {}, 0, 0)
Octets      == [i \in 1 .. len |-> Octet("fifo", {}, Len(air), i)]

(***************************************************************************)
(* The way of an interrupt: there is none; the pin has risen; the 'I' is   *)
(* sent; each of the registers is read; the flags are to be cleared.       *)
(***************************************************************************)
Calm == pc = "idle" /\ ~intFlag /\ toHost = <<>> /\ toChip \in Seq(Setup)

Raised == pc = "idle" /\ intFlag /\ toHost = <<>> /\ toChip \in Seq(Setup) /\ Held

Announced == pc = "idle" /\ ~intFlag /\ toHost = <<I>> /\ toChip \in Seq(Setup) /\ Held

AskedFlags ==
    /\ pc = "flags" /\ ~intFlag
    /\ \/ /\ toHost = <<>> /\ Held
          /\ Between(toChip, Setup, Read("flags"), {})
       \/ toHost = <<FlagsOctet>> /\ toChip = <<>>

Reading == mode = "Rx" /\ ~intFlag /\ Whole

AskedLength ==
    /\ pc = "nbBytes" /\ Reading
    /\ \/ toHost = <<>> /\ toChip = <<Read("nbBytes")>>
       \/ toHost = <<LengthOctet>> /\ toChip = <<>>

AskedAddr ==
    /\ pc = "addr" /\ Reading /\ len = NbBytes
    /\ \/ toHost = <<>> /\ toChip = <<Read("addr")>>
       \/ toHost = <<AddrOctet>> /\ toChip = <<>>

AskedOctets ==
    /\ pc = "fifo" /\ Reading /\ len = NbBytes
    /\ \/ toHost = <<>> /\ toChip = <<SetPointer(Len(air)), BurstRead("fifo", len)>>
       \/ toHost = <<>> /\ toChip = <<BurstRead("fifo", len)>> /\ pointer = Len(air)
       \/ toHost = Octets /\ toChip = <<>>

AskedRssi ==
    /\ pc = "rssi" /\ mode = "Rx" /\ ~intFlag
    /\ \/ toHost = <<>> /\ toChip = <<Clear, Read("rssi")>>
       \/ toHost = <<>> /\ toChip = <<Read("rssi")>>
       \/ toHost = <<RssiOctet>> /\ toChip = <<>>

Clearing ==
    /\ pc = "idle" /\ ~intFlag /\ toHost = <<>>
    /\ Between(toChip, Modal, Clear, Setup)

Phase ==
    \/ Calm \/ Raised \/ Announced \/ AskedFlags
    \/ AskedLength \/ AskedAddr \/ AskedOctets \/ AskedRssi \/ Clearing

Undisturbed == Phase /\ Transmission

(***************************************************************************)
(* Lines with a command between others.                                    *)
(***************************************************************************)
\* A line of which each command is in T.
LEMMA EachIn ==
    ASSUME NEW S, NEW T, NEW c \in Seq(S), \A i \in 1 .. Len(c) : c[i] \in T
    PROVE  c \in Seq(T)
  <1>1. \A D : \A f \in [D -> S] : (\A d \in D : f[d] \in T) => f \in [D -> T]
    OBVIOUS
  <1>2. c \in [1 .. Len(c) -> S] /\ Len(c) \in Nat
    BY LenProperties
  <1>3. PICK D : D = 1 .. Len(c)
    OBVIOUS
  <1>4. c \in [D -> T]
    BY <1>1, <1>2, <1>3, Zenon
  <1>5. \E n \in Nat : c \in [1 .. n -> T]
    BY <1>2, <1>3, <1>4
  <1> QED
    BY <1>5, SeqDef

LEMMA AroundTail ==
    ASSUME NEW c \in Seq(Command), NEW k, NEW before, NEW after,
           after \subseteq Command, Around(c, k, before, after)
    PROVE  /\ c # <<>> /\ Head(c) = c[1]
           /\ k = 1 => Head(c) = c[k] /\ Tail(c) \in Seq(after)
           /\ k # 1 => /\ Head(c) \in before /\ Around(Tail(c), k - 1, before, after)
                       /\ Tail(c)[k - 1] = c[k]
  <1> PICK t : t = Tail(c)
    OBVIOUS
  <1>1. /\ Len(c) \in Nat /\ DOMAIN c = 1 .. Len(c) /\ k \in 1 .. Len(c)
    BY DEF Around
  <1>2. c # <<>>
    BY <1>1
  <1>3. /\ t \in Seq(Command) /\ Head(c) = c[1] /\ 1 \in DOMAIN c
        /\ \A i \in DOMAIN c : i # 1 => i - 1 \in DOMAIN t /\ t[i - 1] = c[i]
        /\ \A i \in DOMAIN t : i + 1 \in DOMAIN c /\ t[i] = c[i + 1] /\ i \in Nat
    BY <1>2, PlacesAfterTail
  <1>4. DOMAIN t = 1 .. Len(t) /\ Len(t) \in Nat
    BY <1>3
  <1>5. ASSUME k = 1 PROVE t \in Seq(after)
    <2>1. ASSUME NEW i \in 1 .. Len(t) PROVE t[i] \in after
      <3>1. i + 1 \in DOMAIN c /\ t[i] = c[i + 1] /\ i + 1 > k
        BY <1>3, <1>4, <1>5
      <3> QED
        BY <3>1 DEF Around
    <2> QED
      BY <1>3, <2>1, EachIn
  <1>6. ASSUME k # 1
        PROVE  /\ Head(c) \in before /\ Around(t, k - 1, before, after) /\ t[k - 1] = c[k]
    <2>1. k > 1 /\ k - 1 \in DOMAIN t /\ t[k - 1] = c[k]
      BY <1>1, <1>3, <1>6
    <2>2. Head(c) \in before
      BY <1>3, <2>1 DEF Around
    <2>3. ASSUME NEW i \in DOMAIN t
          PROVE  (i < k - 1 => t[i] \in before) /\ (i > k - 1 => t[i] \in after)
      <3>1. i + 1 \in DOMAIN c /\ t[i] = c[i + 1] /\ i \in Nat
        BY <1>3
      <3>2. (i < k - 1 => i + 1 < k) /\ (i > k - 1 => i + 1 > k)
        BY <1>1, <3>1
      <3> QED
        BY <3>1, <3>2 DEF Around
    <2> QED
      BY <2>1, <2>2, <2>3 DEF Around
  <1> QED
    BY <1>2, <1>3, <1>5, <1>6

LEMMA AroundMore ==
    ASSUME NEW c \in Seq(Command), NEW k, NEW before, NEW after,
           after \subseteq Command, Around(c, k, before, after), NEW t \in Seq(after),
           NEW u, u = c \o t
    PROVE  Around(u, k, before, after) /\ u[k] = c[k] /\ k \in DOMAIN u
  <1>0. t \in Seq(Command)
    BY SeqMonotonic
  <1>1. /\ \A i \in DOMAIN c : i \in DOMAIN u /\ u[i] = c[i]
        /\ \A j \in DOMAIN u : \/ j \in DOMAIN c /\ u[j] = c[j]
                               \/ j - Len(c) \in DOMAIN t /\ u[j] = t[j - Len(c)]
    BY <1>0, PlacesAfterConcat
  <1>2. /\ k \in 1 .. Len(c) /\ Len(c) \in Nat /\ DOMAIN u = 1 .. Len(u) /\ Len(u) \in Nat
        /\ DOMAIN t = 1 .. Len(t) /\ Len(t) \in Nat
    BY <1>0, PlacesAfterConcat DEF Around
  <1>3. ASSUME NEW j \in DOMAIN u
        PROVE  (j < k => u[j] \in before) /\ (j > k => u[j] \in after)
    <2>1. CASE j \in DOMAIN c /\ u[j] = c[j]
      BY <2>1 DEF Around
    <2>2. CASE j - Len(c) \in DOMAIN t /\ u[j] = t[j - Len(c)]
      <3>1. u[j] \in after
        BY <1>2, <2>2, ElementOfSeq
      <3>2. ~(j < k)
        BY <1>2, <2>2
      <3> QED
        BY <3>1, <3>2
    <2> QED
      BY <1>1, <2>1, <2>2
  <1> QED
    BY <1>1, <1>2, <1>3 DEF Around

LEMMA AroundAfter ==
    ASSUME NEW before, NEW after, before \subseteq Command, NEW u \in Seq(before),
           NEW c \in Seq(Command), NEW k, Around(c, k, before, after),
           NEW v, v = u \o c
    PROVE  Between(v, before, c[k], after)
  <1>0. u \in Seq(Command)
    BY SeqMonotonic
  <1>1. /\ \A i \in DOMAIN c : Len(u) + i \in DOMAIN v /\ v[Len(u) + i] = c[i]
        /\ \A j \in DOMAIN v : \/ j \in DOMAIN u /\ v[j] = u[j]
                               \/ j - Len(u) \in DOMAIN c /\ v[j] = c[j - Len(u)]
    BY <1>0, PlacesAfterConcat
  <1>2. /\ k \in 1 .. Len(c) /\ Len(c) \in Nat /\ DOMAIN v = 1 .. Len(v) /\ Len(v) \in Nat
        /\ DOMAIN u = 1 .. Len(u) /\ Len(u) \in Nat /\ k \in DOMAIN c
    BY <1>0, PlacesAfterConcat DEF Around
  <1>3. ASSUME NEW j \in DOMAIN v
        PROVE  (j < Len(u) + k => v[j] \in before) /\ (j > Len(u) + k => v[j] \in after)
    <2>1. CASE j \in DOMAIN u /\ v[j] = u[j]
      <3>1. v[j] \in before
        BY <1>2, <2>1, ElementOfSeq
      <3>2. ~(j > Len(u) + k)
        BY <1>2, <2>1
      <3> QED
        BY <3>1, <3>2
    <2>2. CASE j - Len(u) \in DOMAIN c /\ v[j] = c[j - Len(u)]
      <3>1. /\ j < Len(u) + k => j - Len(u) < k
            /\ j > Len(u) + k => j - Len(u) > k
        BY <1>2
      <3> QED
        BY <2>2, <3>1 DEF Around
    <2> QED
      BY <1>1, <2>1, <2>2
  <1>4. Around(v, Len(u) + k, before, after) /\ Len(u) + k \in DOMAIN v /\ v[Len(u) + k] = c[k]
    BY <1>1, <1>2, <1>3 DEF Around
  <1> QED
    BY <1>4 DEF Between

\* A command alone, and with another one behind.
LEMMA AroundOne ==
    ASSUME NEW c \in Command, NEW before, NEW after, NEW t \in Seq(after),
           after \subseteq Command, NEW u, u = <<c>> \o t
    PROVE  u \in Seq(Command) /\ Around(u, 1, before, after) /\ u[1] = c
  <1> PICK s : s = <<c>>
    OBVIOUS
  <1>1. s \in Seq(Command) /\ DOMAIN s = {1} /\ s[1] = c
    OBVIOUS
  <1>2. Around(s, 1, before, after)
    BY <1>1 DEF Around
  <1>3. t \in Seq(Command)
    BY SeqMonotonic
  <1>4. u \in Seq(Command)
    BY <1>1, <1>3
  <1>5. s \in Seq(Command) /\ u = s \o t
    BY <1>1
  <1>6. \A v : v = s \o t => Around(v, 1, before, after)
    BY <1>2, <1>5, AroundMore
  <1>7. \A v : v = s \o t => v[1] = s[1]
    BY <1>1, <1>3, PlacesAfterConcat
  <1> QED
    BY <1>1, <1>4, <1>5, <1>6, <1>7

-----------------------------------------------------------------------------
(* The transmission, step by step.                                         *)

\* Which of the driver's commands are of which sort.
LEMMA Sorts ==
    /\ Clear \in Other /\ Clear \notin Steady /\ Clear \notin Setup /\ Clear \in Command
    /\ Write("mode", "SLEEP") \in Other /\ Write("mode", "SLEEP") \in Setup
    /\ \A r \in Registers : Read(r) \in Other /\ Read(r) \in Steady /\ Read(r) \in Command
    /\ \A k \in Nat : BurstRead("fifo", k) \in Other /\ BurstRead("fifo", k) \in Command
    /\ \A k \in Nat : SetPointer(k) \in Other /\ SetPointer(k) \in Setup
    /\ \A m \in Modes : ToIdle(m) \in Seq(Other) /\ ToIdle(m) \in Seq(Modal)
    /\ \A m \in Modes : ToRx(m) \in Seq(Other) /\ ToRx(m) \in Seq(Setup)
    /\ Write("mode", "TX") \in Setup /\ Sets(Write("mode", "TX"), "mode", "TX")
    /\ Write("mapping", "TxDone") \in Setup /\ Write("mapping", "TxDone") \in Steady
    /\ Setup \subseteq Command /\ Modal \subseteq Setup /\ Other \subseteq Command
    /\ Steady \subseteq Command
  <1>1. Clear \in Other /\ Clear \notin Steady /\ Clear \notin Setup /\ Clear \in Command
    BY DEF Clear, Write, Other, Steady, Setup, Command, Sets
  <1>2. Write("mode", "SLEEP") \in Other /\ Write("mode", "SLEEP") \in Setup
    BY DEF Write, Other, Setup, Command, Sets
  <1>3. \A r \in Registers : Read(r) \in Other /\ Read(r) \in Steady /\ Read(r) \in Command
    BY DEF Read, Registers, Other, Steady, Command, Sets
  <1>4. \A k \in Nat : BurstRead("fifo", k) \in Other /\ BurstRead("fifo", k) \in Command
    BY DEF BurstRead, Other, Command, Sets
  <1>5. \A k \in Nat : SetPointer(k) \in Other /\ SetPointer(k) \in Setup
    BY DEF SetPointer, Other, Setup, Command, Sets
  <1>6. Write("mode", "STDBY") \in Other /\ Write("mode", "STDBY") \in Modal
    BY DEF Write, Other, Modal, Command, Sets
  <1>7. /\ Write("mode", "RX") \in Other /\ Write("mode", "RX") \in Setup
        /\ Write("mapping", "RxDone") \in Other /\ Write("mapping", "RxDone") \in Setup
    BY DEF Write, Other, Setup, Command, Sets
  <1>8. \A m \in Modes : ToIdle(m) \in Seq(Other) /\ ToIdle(m) \in Seq(Modal)
    BY <1>6 DEF ToIdle
  <1>9. \A m \in Modes : ToRx(m) \in Seq(Other) /\ ToRx(m) \in Seq(Setup)
    BY <1>7 DEF ToRx
  <1>10. /\ Write("mode", "TX") \in Setup /\ Sets(Write("mode", "TX"), "mode", "TX")
         /\ Write("mapping", "TxDone") \in Setup /\ Write("mapping", "TxDone") \in Steady
    BY DEF Write, Setup, Steady, Command, Sets
  <1>11. /\ Setup \subseteq Command /\ Modal \subseteq Setup /\ Other \subseteq Command
         /\ Steady \subseteq Command
    BY DEF Setup, Modal, Other, Steady
  <1> QED
    BY <1>1, <1>2, <1>3, <1>4, <1>5, <1>8, <1>9, <1>10, <1>11

LEMMA NotOn == ASSUME NEW S, NEW c \in Seq(S), NEW e, e \notin S PROVE ~Contains(c, e)
  <1>1. \A i \in 1 .. Len(c) : c[i] \in S
    BY ElementOfSeq
  <1> QED
    BY <1>1 DEF Contains

\* Where some command is, the line is not empty.
LEMMA HeadOf ==
    ASSUME NEW S, NEW c \in Seq(S), c # <<>>
    PROVE  Head(c) \in S /\ Tail(c) \in Seq(S)
  OBVIOUS

LEMMA OnAirExecute == ASSUME TypeInv, Execute, OnAir PROVE OnAir'
  <1>1. toChip # <<>> /\ toChip' = Tail(toChip) /\ mode' = mode
    BY Executed
  <1>2. Head(toChip) \in Steady \union {Clear} /\ toChip' \in Seq(Steady \union {Clear})
    BY <1>1, HeadOf DEF OnAir
  <1>3. Head(toChip).do # "mode"
    BY <1>2 DEF Steady, Clear, Write, Sets
  <1>4. opMode' = opMode /\ irq' \in {irq, {}}
    BY <1>3 DEF Execute
  <1> QED
    BY <1>1, <1>2, <1>4 DEF OnAir

LEMMA SentOutExecute == ASSUME TypeInv, Execute, SentOut PROVE SentOut'
  <1>1. toChip # <<>> /\ toChip' = Tail(toChip) /\ mode' = mode
    BY Executed
  <1>2. Head(toChip) \in Steady /\ toChip' \in Seq(Steady)
    BY <1>1, HeadOf DEF SentOut
  <1>3. Head(toChip).do # "mode" /\ Head(toChip).do # "clear"
    BY <1>2 DEF Steady, Sets
  <1>4. opMode' = opMode /\ irq' = irq
    BY <1>3 DEF Execute
  <1> QED
    BY <1>1, <1>2, <1>4 DEF SentOut

LEMMA TransmissionExecute == ASSUME TypeInv, Execute, Transmission PROVE Transmission'
  <1> DEFINE h == Head(toChip)
  <1>1. /\ toChip # <<>> /\ toChip' = Tail(toChip) /\ mode' = mode
        /\ toChip \in Seq(Command)
    BY Executed
  <1>2. /\ opMode' = IF h.do = "mode" THEN h.arg ELSE opMode
        /\ irq' = IF h.do = "clear" THEN {} ELSE irq
    BY DEF Execute
  <1>3. h # Clear /\ Contains(toChip, Clear) => Contains(toChip', Clear)
    BY <1>1, OnTail
  <1>4. Clear.do = "clear"
    BY DEF Clear, Write
  <1>5. ASSUME "TxDone" \in irq => Contains(toChip, Clear)
        PROVE  "TxDone" \in irq' => Contains(toChip', Clear)
    BY <1>2, <1>3, <1>4, <1>5
  <1>6. h \in Other /\ opMode # "TX" => opMode' # "TX"
    BY <1>2 DEF Other, Sets
  <1>7. CASE NotSending
    <2>1. h \in Other /\ toChip' \in Seq(Other)
      BY <1>1, <1>7, HeadOf DEF NotSending
    <2> QED
      BY <1>1, <1>5, <1>6, <1>7, <2>1 DEF NotSending, Transmission
  <1>8. CASE SendAsked
    <2>1. PICK k \in DOMAIN toChip :
              Around(toChip, k, Other, Steady) /\ toChip[k] = Write("mode", "TX")
      BY <1>8 DEF SendAsked, Between
    <2>2. /\ k = 1 => h = toChip[k] /\ Tail(toChip) \in Seq(Steady)
          /\ k # 1 => /\ h \in Other /\ Around(Tail(toChip), k - 1, Other, Steady)
                      /\ Tail(toChip)[k - 1] = toChip[k]
      BY <1>1, <2>1, Sorts, AroundTail
    <2>3. "TxDone" \in irq' => Contains(toChip', Clear)
      BY <1>5, <1>8 DEF SendAsked
    <2>4. CASE k = 1
      <3>1. opMode' = "TX"
        BY <1>2, <2>1, <2>2, <2>4 DEF Write
      <3>2. toChip' \in Seq(Steady)
        BY <1>1, <2>2, <2>4
      <3>3. "TxDone" \notin irq'
        BY <2>3, <3>2, NotOn, Sorts
      <3>4. toChip' \in Seq(Steady \union {Clear})
        BY <3>2, SeqMonotonic
      <3> QED
        BY <1>1, <1>8, <3>1, <3>3, <3>4 DEF SendAsked, OnAir, Transmission
    <2>5. CASE k # 1
      <3>1. opMode' # "TX"
        BY <1>6, <1>8, <2>2, <2>5 DEF SendAsked
      <3>2. /\ Around(toChip', k - 1, Other, Steady) /\ k - 1 \in DOMAIN toChip'
            /\ toChip'[k - 1] = Write("mode", "TX")
        BY <1>1, <2>1, <2>2, <2>5 DEF Around
      <3> QED
        BY <1>1, <1>8, <2>3, <3>1, <3>2 DEF SendAsked, Transmission, Between
    <2> QED
      BY <2>4, <2>5
  <1>9. CASE OnAir
    BY <1>9, OnAirExecute DEF Transmission
  <1>10. CASE SentOut
    BY <1>10, SentOutExecute DEF Transmission
  <1> QED
    BY <1>7, <1>8, <1>9, <1>10 DEF Transmission

LEMMA TransmissionEnds ==
    ASSUME TypeInv, Transmission, ~Serving, TxEnd
    PROVE  SentOut'
  <1>1. opMode = "TX" /\ opMode' = "STDBY" /\ irq' = irq \union {"TxDone"}
        /\ UNCHANGED <<mode, toChip>>
    BY DEF TxEnd, hostVars
  <1>2. OnAir
    BY <1>1 DEF Transmission, NotSending, SendAsked, SentOut
  <1>3. toChip \in Seq(Steady)
    <2>1. toChip \in Seq(Steady \union {Clear})
      BY <1>2 DEF OnAir
    <2>2. \A i \in 1 .. Len(toChip) : toChip[i] # Clear /\ toChip[i] \in Steady \union {Clear}
      BY <2>1, ElementOfSeq DEF Serving, Contains
    <2>3. \A i \in 1 .. Len(toChip) : toChip[i] \in Steady
      BY <2>2
    <2> QED
      BY <2>1, <2>3, EachIn
  <1> QED
    BY <1>1, <1>2, <1>3 DEF OnAir, SentOut

LEMMA TransmissionArrive ==
    ASSUME Transmission, NEW p \in Packet, Arrive(p)
    PROVE  Transmission'
  <1>1. UNCHANGED <<mode, toChip, opMode>> /\ opMode = "RX"
    BY DEF Arrive, hostVars
  <1>2. "TxDone" \in irq' => "TxDone" \in irq
    BY DEF Arrive
  <1>3. NotSending \/ SendAsked
    BY <1>1 DEF Transmission, OnAir, SentOut
  <1> QED
    BY <1>1, <1>2, <1>3 DEF Transmission, NotSending, SendAsked

LEMMA TransmissionKept ==
    ASSUME Transmission, UNCHANGED <<mode, toChip, opMode, irq>>
    PROVE  Transmission'
  BY DEF Transmission, NotSending, SendAsked, OnAir, SentOut

\* What the driver adds to the line when it is not to send.
LEMMA NotSendingMore ==
    ASSUME TypeInv, NotSending, mode' # "Tx", UNCHANGED <<opMode, irq>>,
           NEW t \in Seq(Other), toChip' = toChip \o t
    PROVE  Transmission'
  <1>1. toChip' \in Seq(Other)
    BY DEF NotSending
  <1>2. Contains(toChip, Clear) => Contains(toChip', Clear)
    BY OnConcat DEF NotSending
  <1> QED
    BY <1>1, <1>2 DEF NotSending, Transmission

\* What it adds when it is.
LEMMA SendingMore ==
    ASSUME TypeInv, mode = "Tx", UNCHANGED <<mode, opMode, irq>>,
           NEW t \in Seq(Steady), toChip' = toChip \o t
    PROVE  /\ SendAsked => SendAsked'
           /\ OnAir => OnAir'
           /\ SentOut => SentOut'
  <1>0. toChip \in Seq(Command) /\ t \in Seq(Command)
    <2>1. t \in Seq(Command)
      BY Sorts, SeqMonotonic
    <2> QED
      BY <2>1, Parts, Lines
  <1>1. ASSUME SendAsked PROVE SendAsked'
    <2>1. PICK k \in DOMAIN toChip :
              Around(toChip, k, Other, Steady) /\ toChip[k] = Write("mode", "TX")
      BY <1>1 DEF SendAsked, Between
    <2>2. Around(toChip', k, Other, Steady) /\ toChip'[k] = toChip[k] /\ k \in DOMAIN toChip'
      <3>1. Steady \subseteq Command /\ toChip \in Seq(Command)
        BY <1>0, Sorts
      <3>2. Around(toChip, k, Other, Steady)
        BY <2>1
      <3>3. \A v : v = toChip \o t =>
                Around(v, k, Other, Steady) /\ v[k] = toChip[k] /\ k \in DOMAIN v
        BY <3>1, <3>2, AroundMore
      <3> QED
        BY <3>3
    <2>3. Contains(toChip, Clear) => Contains(toChip', Clear)
      BY <1>0, OnConcat
    <2> QED
      BY <1>1, <2>1, <2>2, <2>3 DEF SendAsked, Between
  <1>2. ASSUME OnAir PROVE OnAir'
    <2>1. t \in Seq(Steady \union {Clear})
      BY SeqMonotonic
    <2>2. toChip' \in Seq(Steady \union {Clear})
      BY <1>2, <2>1 DEF OnAir
    <2> QED
      BY <1>2, <2>2 DEF OnAir
  <1>3. ASSUME SentOut PROVE SentOut'
    <2>1. toChip' \in Seq(Steady)
      BY <1>3 DEF SentOut
    <2> QED
      BY <1>3, <2>1 DEF SentOut
  <1> QED
    BY <1>1, <1>2, <1>3

LEMMA SendBegins == ASSUME TypeInv, Send, Transmission PROVE SendAsked'
  <1>0. /\ toChip \in Seq(Other) /\ mode # "Tx" /\ mode \in Modes /\ opMode # "TX"
        /\ "TxDone" \in irq => Contains(toChip, Clear)
    BY Parts DEF Send, Transmission, NotSending, SendAsked, OnAir, SentOut
  <1>1. PICK u : u = (toChip \o ToIdle(mode)) \o <<SetPointer(0)>>
    OBVIOUS
  <1>2. u \in Seq(Other) /\ (Contains(toChip, Clear) => Contains(u, Clear))
    <2>1. PICK a \in Seq(Other) : a = ToIdle(mode)
      BY <1>0, Sorts
    <2>2. PICK b : b = <<SetPointer(0)>>
      OBVIOUS
    <2>3. b \in Seq(Other)
      <3>1. PICK d \in Other : d = SetPointer(0)
        BY Sorts
      <3>2. <<d>> \in Seq(Other)
        OBVIOUS
      <3> QED
        BY <2>2, <3>1, <3>2
    <2>4. PICK s : s = toChip \o a
      OBVIOUS
    <2>5. s \in Seq(Other) /\ (Contains(toChip, Clear) => Contains(s, Clear))
      <3>1. a \in Seq(Other) /\ toChip \in Seq(Other)
        BY <1>0, <2>1
      <3>2. toChip \o a \in Seq(Other) /\ (Contains(toChip, Clear) => Contains(toChip \o a, Clear))
        BY <3>1, OnConcat
      <3> QED
        BY <2>4, <3>2
    <2>6. s \o b \in Seq(Other) /\ (Contains(s, Clear) => Contains(s \o b, Clear))
      <3>1. s \in Seq(Other)
        BY <2>5
      <3>2. Contains(s, Clear) => Contains(s \o b, Clear)
        BY <2>3, <3>1, OnConcat
      <3>3. s \o b \in Seq(Other)
        BY <2>3, <3>1
      <3> QED
        BY <3>2, <3>3
    <2> QED
      BY <1>1, <2>1, <2>2, <2>4, <2>5, <2>6
  <1>3. PICK c : c = ToTx
    OBVIOUS
  <1>4. toChip' = u \o c /\ mode' = "Tx" /\ UNCHANGED <<opMode, irq>>
    BY <1>1, <1>3 DEF Send, chipVars
  <1>5. c \in Seq(Command) /\ Around(c, 1, Other, Steady) /\ c[1] = Write("mode", "TX")
    <2>1. PICK t : t = <<Write("mapping", "TxDone")>>
      OBVIOUS
    <2>2. t \in Seq(Steady) /\ Steady \subseteq Command /\ Write("mode", "TX") \in Command
      BY <2>1, Sorts
    <2>3. c = <<Write("mode", "TX")>> \o t
      BY <1>3, <2>1, TwoInOne DEF ToTx
    <2>4. \A v : v = <<Write("mode", "TX")>> \o t =>
              v \in Seq(Command) /\ Around(v, 1, Other, Steady) /\ v[1] = Write("mode", "TX")
      BY <2>2, AroundOne
    <2> QED
      BY <2>3, <2>4
  <1>6. Between(toChip', Other, Write("mode", "TX"), Steady)
    <2>1. Other \subseteq Command
      BY Sorts
    <2>2. c \in Seq(Command) /\ Around(c, 1, Other, Steady) /\ c[1] = Write("mode", "TX")
      BY <1>5
    <2>3. u \in Seq(Other)
      BY <1>2
    <2>4. \A v : v = u \o c => Between(v, Other, c[1], Steady)
      BY <2>1, <2>2, <2>3, AroundAfter
    <2> QED
      BY <1>4, <2>2, <2>4
  <1>7. Contains(u, Clear) => Contains(toChip', Clear)
    <2>1. u \in Seq(Command) /\ c \in Seq(Command)
      BY <1>2, <1>5, Sorts, SeqMonotonic
    <2> QED
      BY <1>4, <2>1, OnConcat
  <1> QED
    BY <1>0, <1>2, <1>4, <1>6, <1>7 DEF SendAsked

-----------------------------------------------------------------------------
(* The interrupt, step by step: what the firmware executes.                *)

LEMMA HeldExecute ==
    ASSUME TypeInv, Execute, Transmission, Held, ~Contains(toChip, Clear),
           Head(toChip).do # "clear"
    PROVE  Held' /\ (~intFlag => ~intFlag') /\ (intFlag => intFlag')
  <1> DEFINE h == Head(toChip)
  <1>1. /\ irq' = irq /\ toChip # <<>> /\ toChip \in Seq(Command)
        /\ dio0' = IF h.do = "mapping" THEN h.arg ELSE dio0
        /\ intFlag' = (intFlag \/ (dio0 \notin irq /\ dio0' \in irq'))
    BY Executed DEF Execute, Edge
  <1>2. dio0 \in Pins /\ (h.do = "mapping" => h.arg \in Pins)
    BY Executed DEF Sent, TypeInv, TypeOK, Pins
  <1>3. (OnAir => OnAir') /\ (SentOut => SentOut')
    BY OnAirExecute, SentOutExecute
  <1>4. CASE dio0' = dio0
    BY <1>1, <1>3, <1>4 DEF Held
  <1>5. CASE h.do = "mapping" /\ h.arg = "TxDone" /\ dio0 = "RxDone"
    <2>1. ~NotSending
      <3>1. h \notin Other
        BY <1>5 DEF Other, Sets
      <3> QED
        BY <1>1, <3>1, HeadOf DEF NotSending
    <2>2. ~SendAsked
      <3> SUFFICES ASSUME NEW k \in DOMAIN toChip, Around(toChip, k, Other, Steady),
                          toChip[k] = Write("mode", "TX")
                   PROVE  FALSE
        BY DEF SendAsked, Between
      <3>1. h = toChip[k] \/ h \in Other
        BY <1>1, Sorts, AroundTail
      <3> QED
        BY <1>5, <3>1 DEF Other, Sets, Write
    <2>3. OnAir' \/ SentOut'
      BY <1>3, <2>1, <2>2 DEF Transmission
    <2>4. dio0 \in irq
      BY <1>5 DEF Held
    <2> QED
      BY <1>1, <1>5, <2>3, <2>4 DEF Held
  <1>6. CASE h.do = "mapping" /\ h.arg = "RxDone" /\ dio0 = "TxDone"
    <2>1. h \notin Steady \union {Clear}
      BY <1>6 DEF Steady, Sets, Clear, Write
    <2>2. ~OnAir /\ ~SentOut
      <3>1. toChip \notin Seq(Steady \union {Clear}) /\ toChip \notin Seq(Steady)
        BY <1>1, <2>1, HeadOf
      <3> QED
        BY <3>1 DEF OnAir, SentOut
    <2>3. "TxDone" \notin irq
      BY <2>2 DEF Transmission, NotSending, SendAsked
    <2> QED
      BY <1>6, <2>2, <2>3 DEF Held
  <1> QED
    BY <1>1, <1>2, <1>4, <1>5, <1>6 DEF Pins

LEMMA CalmOrRaised ==
    ASSUME ~intFlag, Edge, pc' = "idle", toHost' = <<>>, toChip' \in Seq(Setup)
    PROVE  Calm' \/ Raised'
  <1>1. intFlag' = (dio0 \notin irq /\ dio0' \in irq')
    BY DEF Edge
  <1> QED
    BY <1>1 DEF Calm, Raised, Held

\* A read with nothing else on the line, and what does not concern the pin.
LEMMA ReadExecuted ==
    ASSUME TypeInv, Execute, ~intFlag, toHost = <<>>, Head(toChip).do = "read"
    PROVE  /\ toHost' = Reply(Head(toChip))
           /\ UNCHANGED <<mode, pc, len, opMode, irq, dio0, pointer, air>> /\ ~intFlag'
  <1>1. Reply(Head(toChip)) \in Seq(Answered(Len(air)))
    BY Executed, ReplyType
  <1>2. toHost' = <<>> \o Reply(Head(toChip))
    BY DEF Execute
  <1>3. toHost' = Reply(Head(toChip))
    BY <1>1, <1>2, ConcatEmptySeq
  <1>4. UNCHANGED <<opMode, irq, dio0, pointer>>
    BY DEF Execute
  <1>5. ~intFlag' /\ UNCHANGED <<mode, pc, len, air>>
    BY <1>4, Executed DEF Execute, Edge
  <1> QED
    BY <1>3, <1>4, <1>5

LEMMA OtherExecuted ==
    ASSUME TypeInv, Execute, ~intFlag, Head(toChip).do \in {"mode", "pointer", "clear"}
    PROVE  /\ UNCHANGED <<toHost, dio0, mode, pc, len, air>> /\ ~intFlag'
           /\ irq' = IF Head(toChip).do = "clear" THEN {} ELSE irq
  <1>1. /\ UNCHANGED <<toHost, dio0>>
        /\ irq' = IF Head(toChip).do = "clear" THEN {} ELSE irq
    BY DEF Execute
  <1>2. ~intFlag' /\ UNCHANGED <<mode, pc, len, air>>
    BY <1>1, Executed DEF Execute, Edge
  <1> QED
    BY <1>1, <1>2

LEMMA CalmExecute == ASSUME TypeInv, Execute, Calm PROVE Calm' \/ Raised'
  <1>1. toChip # <<>> /\ toChip' = Tail(toChip) /\ pc' = pc
    BY Executed
  <1>2. Head(toChip) \in Setup /\ toChip' \in Seq(Setup)
    BY <1>1, HeadOf DEF Calm
  <1>3. toHost' = toHost
    BY <1>2 DEF Setup, Execute
  <1> QED
    BY <1>1, <1>2, <1>3, CalmOrRaised DEF Calm, Execute

LEMMA AnnouncedExecute ==
    ASSUME TypeInv, Execute, Transmission, Announced PROVE Announced'
  <1>1. toChip # <<>> /\ toChip' = Tail(toChip) /\ pc' = pc
    BY Executed
  <1>2. Head(toChip) \in Setup /\ toChip' \in Seq(Setup)
    BY <1>1, HeadOf DEF Announced
  <1>3. ~Contains(toChip, Clear)
    BY NotOn, Sorts DEF Announced
  <1>4. toHost' = toHost /\ Head(toChip).do # "clear"
    BY <1>2 DEF Setup, Execute
  <1> QED
    BY <1>1, <1>2, <1>3, <1>4, HeldExecute DEF Announced

\* A command may reach the chip before the 'I' of an interrupt is sent.
LEMMA RaisedExecute ==
    ASSUME TypeInv, Execute, Transmission, Raised PROVE Raised'
  <1>1. toChip # <<>> /\ toChip' = Tail(toChip) /\ pc' = pc
    BY Executed
  <1>2. Head(toChip) \in Setup /\ toChip' \in Seq(Setup)
    BY <1>1, HeadOf DEF Raised
  <1>3. ~Contains(toChip, Clear)
    BY NotOn, Sorts DEF Raised
  <1>4. toHost' = toHost /\ Head(toChip).do # "clear"
    BY <1>2 DEF Setup, Execute
  <1> QED
    BY <1>1, <1>2, <1>3, <1>4, HeldExecute DEF Raised

LEMMA NothingLeft == \A c \in Seq({}) : c = <<>>
  OBVIOUS

LEMMA AskedFlagsExecute ==
    ASSUME TypeInv, Execute, Transmission, AskedFlags PROVE AskedFlags'
  <1>0. /\ toChip # <<>> /\ toChip' = Tail(toChip) /\ pc' = pc /\ toChip \in Seq(Command)
    BY Executed
  <1>1. PICK k \in DOMAIN toChip : Around(toChip, k, Setup, {}) /\ toChip[k] = Read("flags")
    BY <1>0 DEF AskedFlags, Between
  <1>2. pc = "flags" /\ ~intFlag /\ toHost = <<>> /\ Held
    BY <1>0 DEF AskedFlags
  <1>3. /\ k = 1 => Head(toChip) = toChip[k] /\ Tail(toChip) \in Seq({})
        /\ k # 1 => /\ Head(toChip) \in Setup /\ Around(Tail(toChip), k - 1, Setup, {})
                    /\ Tail(toChip)[k - 1] = toChip[k]
    BY <1>0, <1>1, AroundTail
  <1>4. CASE k = 1
    <2>1. Head(toChip) = Read("flags") /\ toChip' = <<>>
      BY <1>0, <1>1, <1>3, <1>4, NothingLeft
    <2>2. Head(toChip).do = "read" /\ Reply(Head(toChip)) = <<FlagsOctet>>
      BY <2>1 DEF Read, Reply, FlagsOctet
    <2>3. toHost' = <<FlagsOctet>> /\ irq' = irq /\ ~intFlag'
      BY <1>2, <2>2, ReadExecuted
    <2> QED
      BY <1>0, <1>2, <2>1, <2>3 DEF AskedFlags, FlagsOctet
  <1>5. CASE k # 1
    <2>1. ~Contains(toChip, Clear)
      <3>1. \A i \in DOMAIN toChip : i < k \/ i = k \/ i > k
        BY <1>0, <1>1
      <3>2. \A i \in DOMAIN toChip : toChip[i] \in Setup \union {Read("flags")}
        BY <1>1, <3>1 DEF Around
      <3>3. Clear \notin Setup /\ Clear # Read("flags")
        BY Sorts DEF Clear, Write, Read
      <3>4. DOMAIN toChip = 1 .. Len(toChip)
        BY <1>0, LenProperties
      <3> QED
        BY <3>2, <3>3, <3>4 DEF Contains
    <2>2. Head(toChip).do # "clear" /\ toHost' = toHost
      BY <1>3, <1>5 DEF Setup, Execute
    <2>3. Held' /\ ~intFlag'
      BY <1>2, <2>1, <2>2, HeldExecute
    <2>4. /\ k - 1 \in DOMAIN toChip' /\ Around(toChip', k - 1, Setup, {})
          /\ toChip'[k - 1] = Read("flags")
      BY <1>0, <1>1, <1>3, <1>5 DEF Around
    <2> QED
      BY <1>0, <1>2, <2>2, <2>3, <2>4 DEF AskedFlags, Between
  <1> QED
    BY <1>4, <1>5

-----------------------------------------------------------------------------
(* Lines again.                                                            *)

LEMMA BetweenMore ==
    ASSUME NEW c \in Seq(Command), NEW before, NEW e, NEW after, after \subseteq Command,
           Between(c, before, e, after), NEW t \in Seq(after), NEW u, u = c \o t
    PROVE  Between(u, before, e, after)
  <1>1. PICK k : Around(c, k, before, after) /\ c[k] = e
    BY DEF Between
  <1>2. Around(u, k, before, after) /\ u[k] = c[k] /\ k \in DOMAIN u
    <2>1. Around(c, k, before, after)
      BY <1>1
    <2>2. \A v : v = c \o t => Around(v, k, before, after) /\ v[k] = c[k] /\ k \in DOMAIN v
      BY <2>1, AroundMore
    <2> QED
      BY <2>2
  <1> QED
    BY <1>1, <1>2 DEF Between

\* The clearing behind some modes and before the rest.
LEMMA ClearBetween ==
    ASSUME NEW x \in Seq(Modal), NEW t \in Seq(Setup), NEW u, u = (x \o <<Clear>>) \o t
    PROVE  Between(u, Modal, Clear, Setup)
  <1> PICK c : c = <<Clear>>
    OBVIOUS
  <1>1. /\ Modal \subseteq Command /\ Setup \subseteq Command /\ Clear \in Command
        /\ <<>> \in Seq(Setup)
    BY Sorts
  <1>2. c \in Seq(Command) /\ Around(c, 1, Modal, Setup) /\ c[1] = Clear
    <2>1. c \in Seq(Command) /\ DOMAIN c = {1} /\ c[1] = Clear
      BY <1>1
    <2> QED
      BY <2>1 DEF Around
  <1> PICK v : v = x \o c
    OBVIOUS
  <1>3. Between(v, Modal, Clear, Setup)
    <2>1. \A w : w = x \o c => Between(w, Modal, c[1], Setup)
      BY <1>1, <1>2, AroundAfter
    <2> QED
      BY <1>2, <2>1
  <1>4. v \in Seq(Command)
    <2>1. x \in Seq(Command)
      BY <1>1, SeqMonotonic
    <2> QED
      BY <1>2, <2>1
  <1>5. \A w : w = v \o t => Between(w, Modal, Clear, Setup)
    BY <1>1, <1>3, <1>4, BetweenMore
  <1> QED
    BY <1>5

LEMMA OneOrTwo ==
    /\ \A c : Head(<<c>>) = c /\ Tail(<<c>>) = <<>>
    /\ \A c, d : Head(<<c, d>>) = c /\ Tail(<<c, d>>) = <<d>>
  OBVIOUS

-----------------------------------------------------------------------------
(* The interrupt, step by step: the rest of what the firmware executes.    *)

LEMMA ReadingKept ==
    ASSUME Reading, UNCHANGED <<mode, air>>, ~intFlag'
    PROVE  Reading'
  BY DEF Reading, Whole

LEMMA AskedLengthExecute == ASSUME TypeInv, Execute, AskedLength PROVE AskedLength'
  <1>1. /\ pc = "nbBytes" /\ Reading /\ toHost = <<>> /\ toChip = <<Read("nbBytes")>>
        /\ toChip' = Tail(toChip)
    BY Executed DEF AskedLength
  <1>2. Head(toChip) = Read("nbBytes") /\ toChip' = <<>>
    BY <1>1, OneOrTwo
  <1>3. Head(toChip).do = "read" /\ Reply(Head(toChip)) = <<LengthOctet>>
    BY <1>2 DEF Read, Reply, LengthOctet
  <1>4. /\ toHost' = <<LengthOctet>> /\ UNCHANGED <<mode, pc, air>> /\ ~intFlag'
    BY <1>1, <1>3, ReadExecuted DEF Reading
  <1>5. LengthOctet' = LengthOctet
    BY <1>4 DEF LengthOctet, NbBytes
  <1> QED
    BY <1>1, <1>2, <1>4, <1>5, ReadingKept DEF AskedLength

LEMMA AskedAddrExecute == ASSUME TypeInv, Execute, AskedAddr PROVE AskedAddr'
  <1>1. /\ pc = "addr" /\ Reading /\ toHost = <<>> /\ toChip = <<Read("addr")>>
        /\ toChip' = Tail(toChip) /\ len = NbBytes
    BY Executed DEF AskedAddr
  <1>2. Head(toChip) = Read("addr") /\ toChip' = <<>>
    BY <1>1, OneOrTwo
  <1>3. Head(toChip).do = "read" /\ Reply(Head(toChip)) = <<AddrOctet>>
    BY <1>2 DEF Read, Reply, AddrOctet
  <1>4. /\ toHost' = <<AddrOctet>> /\ UNCHANGED <<mode, pc, len, air>> /\ ~intFlag'
    BY <1>1, <1>3, ReadExecuted DEF Reading
  <1>5. AddrOctet' = AddrOctet /\ NbBytes' = NbBytes
    BY <1>4 DEF AddrOctet, NbBytes
  <1> QED
    BY <1>1, <1>2, <1>4, <1>5, ReadingKept DEF AskedAddr

LEMMA AskedOctetsExecute == ASSUME TypeInv, Execute, AskedOctets PROVE AskedOctets'
  <1>0. /\ pc = "fifo" /\ Reading /\ toHost = <<>> /\ toChip' = Tail(toChip)
        /\ len = NbBytes
        /\ \/ toChip = <<SetPointer(Len(air)), BurstRead("fifo", len)>>
           \/ toChip = <<BurstRead("fifo", len)>> /\ pointer = Len(air)
    BY Executed DEF AskedOctets
  <1>1. CASE toChip = <<SetPointer(Len(air)), BurstRead("fifo", len)>>
    <2>1. Head(toChip) = SetPointer(Len(air)) /\ toChip' = <<BurstRead("fifo", len)>>
      BY <1>0, <1>1, OneOrTwo
    <2>2. Head(toChip).do = "pointer" /\ Head(toChip).n = Len(air)
      BY <2>1 DEF SetPointer
    <2>3. pointer' = Len(air)
      BY <2>2 DEF Execute
    <2>4. UNCHANGED <<toHost, mode, pc, len, air>> /\ ~intFlag'
      BY <1>0, <2>2, OtherExecuted DEF Reading
    <2>5. NbBytes' = NbBytes
      BY <2>4 DEF NbBytes
    <2>6. toChip' = <<BurstRead("fifo", len')>> /\ pointer' = Len(air')
      BY <2>1, <2>3, <2>4
    <2> QED
      BY <1>0, <2>4, <2>5, <2>6, ReadingKept DEF AskedOctets
  <1>2. CASE toChip = <<BurstRead("fifo", len)>> /\ pointer = Len(air)
    <2>1. Head(toChip) = BurstRead("fifo", len) /\ toChip' = <<>>
      BY <1>0, <1>2, OneOrTwo
    <2>2. Head(toChip).do = "read" /\ Reply(Head(toChip)) = Octets
      <3>1. PICK c : c = Head(toChip)
        OBVIOUS
      <3>2. c.do = "read" /\ c.arg = "fifo" /\ c.n = len
        BY <2>1, <3>1 DEF BurstRead
      <3>3. Reply(c) = [i \in 1 .. c.n |-> Octet("fifo", {}, pointer, i)]
        BY <3>2 DEF Reply
      <3> QED
        BY <1>2, <3>1, <3>2, <3>3 DEF Octets
    <2>3. toHost' = Octets /\ UNCHANGED <<mode, pc, len, air>> /\ ~intFlag'
      BY <1>0, <2>2, ReadExecuted DEF Reading
    <2>4. Octets' = Octets /\ NbBytes' = NbBytes
      BY <2>3 DEF Octets, NbBytes
    <2> QED
      BY <1>0, <2>1, <2>3, <2>4, ReadingKept DEF AskedOctets
  <1> QED
    BY <1>0, <1>1, <1>2

LEMMA AskedRssiExecute == ASSUME TypeInv, Execute, AskedRssi PROVE AskedRssi'
  <1>0. /\ pc = "rssi" /\ mode = "Rx" /\ ~intFlag /\ toHost = <<>> /\ toChip' = Tail(toChip)
        /\ toChip = <<Clear, Read("rssi")>> \/ toChip = <<Read("rssi")>>
    BY Executed DEF AskedRssi
  <1>1. CASE toChip = <<Clear, Read("rssi")>>
    <2>1. Head(toChip) = Clear /\ toChip' = <<Read("rssi")>>
      BY <1>0, <1>1, OneOrTwo
    <2>2. Head(toChip).do = "clear"
      BY <2>1 DEF Clear, Write
    <2>3. UNCHANGED <<toHost, mode, pc>> /\ ~intFlag'
      BY <1>0, <2>2, OtherExecuted
    <2> QED
      BY <1>0, <2>1, <2>3 DEF AskedRssi
  <1>2. CASE toChip = <<Read("rssi")>>
    <2>1. Head(toChip) = Read("rssi") /\ toChip' = <<>>
      BY <1>0, <1>2, OneOrTwo
    <2>2. Head(toChip).do = "read" /\ Reply(Head(toChip)) = <<RssiOctet>>
      BY <2>1 DEF Read, Reply, RssiOctet
    <2>3. toHost' = <<RssiOctet>> /\ UNCHANGED <<mode, pc>> /\ ~intFlag'
      BY <1>0, <2>2, ReadExecuted
    <2> QED
      BY <1>0, <2>1, <2>3 DEF AskedRssi, RssiOctet
  <1> QED
    BY <1>0, <1>1, <1>2

LEMMA ClearingExecute == ASSUME TypeInv, Execute, Clearing PROVE Calm' \/ Clearing'
  <1>0. toChip # <<>> /\ toChip' = Tail(toChip) /\ toChip \in Seq(Command) /\ pc' = pc
    BY Executed
  <1>1. /\ pc = "idle" /\ ~intFlag /\ toHost = <<>> /\ Between(toChip, Modal, Clear, Setup)
    BY DEF Clearing
  <1>2. PICK k \in DOMAIN toChip : Around(toChip, k, Modal, Setup) /\ toChip[k] = Clear
    BY <1>1 DEF Between
  <1>3. /\ k = 1 => Head(toChip) = toChip[k] /\ Tail(toChip) \in Seq(Setup)
        /\ k # 1 => /\ Head(toChip) \in Modal /\ Around(Tail(toChip), k - 1, Modal, Setup)
                    /\ Tail(toChip)[k - 1] = toChip[k]
    BY <1>0, <1>2, Sorts, AroundTail
  <1>4. CASE k = 1
    <2>1. Head(toChip).do = "clear" /\ toChip' \in Seq(Setup)
      BY <1>0, <1>2, <1>3, <1>4 DEF Clear, Write
    <2>2. toHost' = toHost /\ ~intFlag'
      BY <1>1, <2>1, OtherExecuted
    <2> QED
      BY <1>0, <1>1, <2>1, <2>2 DEF Calm
  <1>5. CASE k # 1
    <2>1. Head(toChip).do = "mode" /\ Around(toChip', k - 1, Modal, Setup)
          /\ toChip'[k - 1] = Clear
      BY <1>0, <1>2, <1>3, <1>5 DEF Modal
    <2>2. toHost' = toHost /\ ~intFlag'
      BY <1>1, <2>1, OtherExecuted
    <2>3. Between(toChip', Modal, Clear, Setup)
      BY <2>1 DEF Between, Around
    <2> QED
      BY <1>0, <1>1, <2>2, <2>3 DEF Clearing
  <1> QED
    BY <1>4, <1>5

LEMMA PhaseExecute == ASSUME TypeInv, Execute, Transmission, Phase PROVE Phase'
  BY RaisedExecute, CalmExecute, AnnouncedExecute, AskedFlagsExecute, AskedLengthExecute,
     AskedAddrExecute, AskedOctetsExecute, AskedRssiExecute, ClearingExecute DEF Phase

LEMMA HeldKept ==
    ASSUME Held, UNCHANGED <<mode, toChip, opMode, irq, dio0>>
    PROVE  Held'
  BY DEF Held, OnAir, SentOut

LEMMA PhaseNotify == ASSUME Phase, Notify PROVE Announced'
  <1>1. Raised
    BY DEF Notify, Phase, Calm, Announced, AskedFlags, AskedLength, AskedAddr, AskedOctets,
           AskedRssi, Reading, Clearing
  <1>2. /\ UNCHANGED <<mode, pc, toChip, opMode, irq, dio0>> /\ ~intFlag'
        /\ toHost' = Append(toHost, I)
    BY DEF Notify, hostVars, chipVars
  <1>3. toHost' = <<I>>
    BY <1>1, <1>2 DEF Raised
  <1>4. Held'
    BY <1>1, <1>2, HeldKept DEF Raised
  <1> QED
    BY <1>1, <1>2, <1>3, <1>4 DEF Raised, Announced

-----------------------------------------------------------------------------
(* The interrupt, step by step: what the driver does while it serves none. *)

LEMMA IdlePhase ==
    ASSUME Phase, pc = "idle"
    PROVE  /\ Calm \/ Raised \/ Announced \/ Clearing
           /\ toHost = <<>> \/ (toHost = <<I>> /\ Announced)
  <1>1. Calm \/ Raised \/ Announced \/ Clearing
    BY DEF Phase, AskedFlags, AskedLength, AskedAddr, AskedOctets, AskedRssi
  <1> QED
    BY <1>1 DEF Calm, Raised, Announced, Clearing

LEMMA IdleMore ==
    ASSUME TypeInv, Phase, pc = "idle", pc' = "idle", UNCHANGED <<toHost, intFlag>>,
           NEW t \in Seq(Setup), toChip' = toChip \o t, Held => Held'
    PROVE  Phase'
  <1>1. toChip \in Seq(Setup) => toChip' \in Seq(Setup)
    OBVIOUS
  <1>2. Between(toChip, Modal, Clear, Setup) => Between(toChip', Modal, Clear, Setup)
    <2>1. toChip \in Seq(Command) /\ Setup \subseteq Command
      BY Parts, Lines, Sorts
    <2>2. \A v : Between(toChip, Modal, Clear, Setup) /\ v = toChip \o t
                     => Between(v, Modal, Clear, Setup)
      BY <2>1, BetweenMore
    <2> QED
      BY <2>2
  <1>3. Calm => Calm'
    BY <1>1 DEF Calm
  <1>4. Raised => Raised'
    BY <1>1 DEF Raised
  <1>5. Announced => Announced'
    BY <1>1 DEF Announced
  <1>6. Clearing => Clearing'
    BY <1>2 DEF Clearing
  <1> QED
    BY <1>3, <1>4, <1>5, <1>6, IdlePhase DEF Phase

\* When nothing is being sent, no more than the pin counts.
LEMMA HeldAgain ==
    ASSUME mode # "Tx", Held, UNCHANGED <<irq, dio0>>
    PROVE  Held'
  BY DEF Held, OnAir, SentOut

LEMMA NotSendingNow == ASSUME Transmission, mode # "Tx" PROVE NotSending
  BY DEF Transmission, SendAsked, OnAir, SentOut

LEMMA PollNothingUndisturbed ==
    ASSUME TypeInv, Undisturbed, PollNothing
    PROVE  Undisturbed'
  <1>0. Phase /\ Transmission /\ toChip \in Seq(Command) /\ mode \in Modes
    BY Parts, Lines DEF Undisturbed
  <1>1. /\ pc = "idle" /\ Return(mode, buf, rxBufValid, <<>>)
        /\ UNCHANGED <<intFlag, opMode, irq, dio0>>
    BY DEF PollNothing, chipVars
  <1>2. pc' = "idle"
    BY <1>1 DEF Return
  <1>3. toHost' = toHost
    <2>1. I.reg = "I" /\ Head(<<I>>) = I
      BY OneOrTwo DEF I, Octet
    <2>2. toHost = <<I>> => FALSE \notin TakenForI(Head(toHost))
      BY <2>1 DEF TakenForI
    <2> QED
      BY <1>0, <1>1, <2>2, IdlePhase DEF PollNothing
  <1>4. /\ mode = "Tx" => mode' = "Tx" /\ toChip' = toChip \o <<>>
        /\ mode # "Tx" => mode' = "Rx" /\ toChip' = toChip \o (<<>> \o ToRx(mode))
    <2>1. <<>> \in Seq(Command)
      OBVIOUS
    <2> QED
      BY <1>0, <1>1, <2>1, ReturnAdds
  <1>5. CASE mode = "Tx"
    <2>1. UNCHANGED <<mode, toChip>>
      BY <1>0, <1>4, <1>5, ConcatEmptySeq
    <2>2. Transmission' /\ (Held => Held')
      BY <1>0, <1>1, <2>1, TransmissionKept, HeldKept
    <2>3. <<>> \in Seq(Setup) /\ toChip' = toChip \o <<>>
      BY <1>4, <1>5
    <2>4. Phase'
      BY <1>0, <1>1, <1>2, <1>3, <2>2, <2>3, IdleMore
    <2> QED
      BY <2>2, <2>4 DEF Undisturbed
  <1>6. CASE mode # "Tx"
    <2>1. PICK t : t = ToRx(mode)
      OBVIOUS
    <2>2. t \in Seq(Other) /\ t \in Seq(Setup)
      BY <1>0, <2>1, Sorts
    <2>3. mode' # "Tx" /\ toChip' = toChip \o t
      BY <1>4, <1>6, <2>1, <2>2, ConcatEmptySeq
    <2>4. NotSending
      BY <1>0, <1>6, NotSendingNow
    <2>5. Transmission'
      BY <1>1, <2>2, <2>3, <2>4, NotSendingMore
    <2>6. Phase'
      BY <1>0, <1>1, <1>2, <1>3, <1>6, <2>2, <2>3, HeldAgain, IdleMore
    <2> QED
      BY <2>5, <2>6 DEF Undisturbed
  <1> QED
    BY <1>5, <1>6

LEMMA SleepUndisturbed ==
    ASSUME TypeInv, Undisturbed, Sleep, mode # "Tx"
    PROVE  Undisturbed'
  <1>0. Phase /\ Transmission /\ toChip \in Seq(Command)
    BY Parts, Lines DEF Undisturbed
  <1>1. /\ pc = "idle" /\ pc' = "idle" /\ mode' = "Sleep"
        /\ UNCHANGED <<toHost, intFlag, opMode, irq, dio0>>
        /\ toChip' = Append(toChip, Write("mode", "SLEEP"))
    BY DEF Sleep, chipVars
  <1>2. PICK c : c = Write("mode", "SLEEP")
    OBVIOUS
  <1>3. c \in Other /\ c \in Setup /\ c \in Command
    BY <1>2, Sorts
  <1>4. PICK t : t = <<c>>
    OBVIOUS
  <1>5. t \in Seq(Other) /\ t \in Seq(Setup)
    BY <1>3, <1>4
  <1>6. toChip' = toChip \o t
    BY <1>0, <1>1, <1>2, <1>3, <1>4, AppendIsConcat
  <1>7. Transmission'
    BY <1>0, <1>1, <1>5, <1>6, NotSendingNow, NotSendingMore
  <1>8. Phase'
    BY <1>0, <1>1, <1>5, <1>6, HeldAgain, IdleMore
  <1> QED
    BY <1>7, <1>8 DEF Undisturbed

LEMMA SendUndisturbed ==
    ASSUME TypeInv, Undisturbed, Send
    PROVE  Undisturbed'
  <1>0. Phase /\ Transmission /\ toChip \in Seq(Command) /\ mode \in Modes
    BY Parts, Lines DEF Undisturbed
  <1>1. /\ pc = "idle" /\ pc' = "idle" /\ mode # "Tx"
        /\ UNCHANGED <<toHost, intFlag, opMode, irq, dio0>>
    BY DEF Send, chipVars
  <1>2. SendAsked'
    BY <1>0, SendBegins
  <1>3. PICK a \in Seq(Setup) : a = ToIdle(mode)
    <2>1. ToIdle(mode) \in Seq(Modal) /\ Modal \subseteq Setup
      BY <1>0, Sorts
    <2> QED
      BY <2>1, SeqMonotonic
  <1>4. PICK b \in Seq(Setup) : b = <<SetPointer(0)>>
    <2>1. PICK d \in Setup : d = SetPointer(0)
      BY Sorts
    <2>2. <<d>> \in Seq(Setup)
      OBVIOUS
    <2> QED
      BY <2>1, <2>2
  <1>5. PICK c \in Seq(Setup) : c = ToTx
    <2>1. PICK d \in Setup, e \in Setup : d = Write("mode", "TX") /\ e = Write("mapping", "TxDone")
      BY Sorts
    <2>2. <<d, e>> \in Seq(Setup)
      BY TwoInOne
    <2> QED
      BY <2>1, <2>2 DEF ToTx
  <1>6. PICK t \in Seq(Setup) : t = a \o (b \o c)
    <2>1. b \o c \in Seq(Setup)
      BY <1>4, <1>5
    <2>2. a \o (b \o c) \in Seq(Setup)
      BY <1>3, <2>1
    <2> QED
      BY <2>2
  <1>7. toChip' = toChip \o t
    <2>1. toChip' = OneByOne(toChip, a, b, c)
      BY <1>3, <1>4, <1>5 DEF Send, OneByOne
    <2>2. a \in Seq(Command) /\ b \in Seq(Command) /\ c \in Seq(Command)
      <3>1. Setup \subseteq Command
        BY Sorts
      <3> QED
        BY <1>3, <1>4, <1>5, <3>1, SeqMonotonic
    <2>3. OneByOne(toChip, a, b, c) = Together(toChip, a, b, c)
      BY <1>0, <2>2, ThreeAdded
    <2> QED
      BY <1>6, <2>1, <2>3 DEF Together
  <1>8. Phase'
    BY <1>0, <1>1, <1>6, <1>7, HeldAgain, IdleMore
  <1> QED
    BY <1>2, <1>8 DEF Undisturbed, Transmission

LEMMA PollInterruptUndisturbed ==
    ASSUME TypeInv, Undisturbed, PollInterrupt
    PROVE  Undisturbed'
  <1>0. Phase /\ Transmission /\ toChip \in Seq(Command)
    BY Parts, Lines DEF Undisturbed
  <1>1. /\ pc = "idle" /\ pc' = "flags" /\ toHost # <<>> /\ toHost' = Tail(toHost)
        /\ UNCHANGED <<mode, intFlag, opMode, irq, dio0>>
        /\ toChip' = Append(toChip, Read("flags"))
    BY DEF PollInterrupt, chipVars
  <1>2. Announced /\ toHost = <<I>>
    BY <1>0, <1>1, IdlePhase
  <1>3. toHost' = <<>>
    BY <1>1, <1>2, OneOrTwo
  <1>4. PICK c : c = Read("flags")
    OBVIOUS
  <1>5. c \in Other /\ c \in Steady /\ c \in Command
    BY <1>4, Sorts DEF Registers
  <1>6. PICK t : t = <<c>>
    OBVIOUS
  <1>7. t \in Seq(Other) /\ t \in Seq(Steady) /\ t \in Seq(Command)
    BY <1>5, <1>6
  <1>8. toChip' = toChip \o t
    BY <1>0, <1>1, <1>4, <1>5, <1>6, AppendIsConcat
  <1>9. Between(toChip', Setup, c, {})
    <2>1. Around(t, 1, Setup, {}) /\ t[1] = c
      <3>1. DOMAIN t = {1} /\ t[1] = c
        BY <1>6
      <3> QED
        BY <3>1 DEF Around
    <2>2. Setup \subseteq Command /\ toChip \in Seq(Setup)
      BY <1>2, Sorts DEF Announced
    <2>3. \A v : v = toChip \o t => Between(v, Setup, t[1], {})
      BY <1>7, <2>1, <2>2, AroundAfter
    <2> QED
      BY <1>8, <2>1, <2>3
  <1>10. Transmission' /\ Held'
    <2>1. CASE mode = "Tx"
      <3>1. (SendAsked => SendAsked') /\ (OnAir => OnAir') /\ (SentOut => SentOut')
        BY <1>1, <1>7, <1>8, <2>1, SendingMore
      <3>2. ~NotSending
        BY <2>1 DEF NotSending
      <3> QED
        BY <1>0, <1>1, <1>2, <3>1, <3>2 DEF Transmission, Held, Announced
    <2>2. CASE mode # "Tx"
      <3>1. Transmission'
        BY <1>0, <1>1, <1>7, <1>8, <2>2, NotSendingNow, NotSendingMore
      <3> QED
        BY <1>1, <1>2, <2>2, <3>1, HeldAgain DEF Announced
    <2> QED
      BY <2>1, <2>2
  <1>11. AskedFlags'
    BY <1>1, <1>2, <1>3, <1>4, <1>9, <1>10 DEF AskedFlags, Announced
  <1> QED
    BY <1>10, <1>11 DEF Undisturbed, Phase

-----------------------------------------------------------------------------
(* The interrupt, step by step: what handleInterrupt() does.               *)

\* It returns with the clearing of the flags, alone on the line but for modes.
LEMMA Dismissing ==
    ASSUME toChip = <<>>, pc' = "idle", ~intFlag', toHost' = <<>>,
           NEW x \in Seq(Modal), NEW t \in Seq(Setup),
           toChip' = toChip \o ((x \o <<Clear>>) \o t)
    PROVE  Clearing'
  <1>1. x \in Seq(Command) /\ t \in Seq(Command) /\ <<Clear>> \in Seq(Command)
    <2>1. Modal \subseteq Command /\ Setup \subseteq Command
      BY Sorts
    <2>2. <<Clear>> \in Seq(Command)
      BY GroupedSetters
    <2> QED
      BY <2>1, <2>2, SeqMonotonic
  <1>2. PICK u : u = (x \o <<Clear>>) \o t
    OBVIOUS
  <1>3. u \in Seq(Command)
    BY <1>1, <1>2
  <1>4. toChip' = u
    BY <1>2, <1>3, ConcatEmptySeq
  <1>5. Between(u, Modal, Clear, Setup)
    BY <1>2, ClearBetween
  <1> QED
    BY <1>4, <1>5 DEF Clearing

\* The same when the mode has been left as it is.
LEMMA DismissingOnly ==
    ASSUME toChip = <<>>, pc' = "idle", ~intFlag', toHost' = <<>>,
           NEW t \in Seq(Setup), toChip' = toChip \o (<<Clear>> \o t)
    PROVE  Clearing'
  <1>1. <<>> \in Seq(Modal) /\ <<Clear>> \in Seq(Command)
    BY GroupedSetters
  <1>2. <<>> \o <<Clear>> = <<Clear>>
    BY <1>1, ConcatEmptySeq
  <1>3. toChip' = toChip \o ((<<>> \o <<Clear>>) \o t)
    BY <1>2
  <1> QED
    BY <1>1, <1>3, Dismissing

\* What is asked while a packet is read has nothing to do with sending.
LEMMA OtherOne == \A c \in Other : <<c>> \in Seq(Other) /\ <<c>> \in Seq(Command)
  <1>1. Other \subseteq Command
    BY Sorts
  <1> QED
    BY <1>1

LEMMA GotFlagsRead ==
    ASSUME TypeInv, Undisturbed, GotFlags
    PROVE  /\ toChip = <<>> /\ toHost' = <<>> /\ ~intFlag'
           /\ FlagsRead(Head(toHost)) = {irq}
           /\ UNCHANGED <<intFlag, opMode, irq, dio0, air>>
  <1>1. /\ pc = "flags" /\ toHost # <<>> /\ toHost' = Tail(toHost)
        /\ UNCHANGED <<intFlag, opMode, irq, dio0, air>>
    <2>1. Await("flags", 1)
      BY DEF GotFlags
    <2> QED
      BY <2>1, Awaited DEF GotFlags, chipVars
  <1>2. AskedFlags
    BY <1>1 DEF Undisturbed, Phase, Calm, Raised, Announced, AskedLength, AskedAddr,
                AskedOctets, AskedRssi, Clearing
  <1>3. toHost = <<FlagsOctet>> /\ toChip = <<>> /\ ~intFlag
    BY <1>1, <1>2 DEF AskedFlags
  <1>4. Head(toHost) = FlagsOctet /\ toHost' = <<>>
    BY <1>1, <1>3, OneOrTwo
  <1>5. FlagsOctet.reg = "flags" /\ FlagsOctet.irq = irq
    BY DEF FlagsOctet, Octet
  <1>6. FlagsRead(Head(toHost)) = {irq}
    BY <1>4, <1>5 DEF FlagsRead
  <1> QED
    BY <1>1, <1>3, <1>4, <1>6

LEMMA FinishedWhenSent ==
    ASSUME Transmission, toChip = <<>>, TxFinished(irq)
    PROVE  SentOut
  <1>1. mode = "Tx" /\ "TxDone" \in irq
    BY DEF TxFinished
  <1>2. ~NotSending /\ ~OnAir
    BY <1>1 DEF NotSending, OnAir
  <1>3. ~SendAsked
    <2>1. \A k \in DOMAIN <<>> : FALSE
      OBVIOUS
    <2> QED
      BY <2>1 DEF SendAsked, Between
  <1> QED
    BY <1>2, <1>3 DEF Transmission

LEMMA GotFlagsUndisturbed ==
    ASSUME TypeInv, Undisturbed, GoodVerdict, GotFlags
    PROVE  Undisturbed'
  <1>0. /\ Transmission /\ toChip \in Seq(Command) /\ mode \in Modes /\ "Idle" \in Modes
        /\ "Tx" \in Modes /\ <<Clear>> \in Seq(Command)
    BY Parts, Lines, GroupedSetters DEF Undisturbed, Modes
  <1>1. /\ toChip = <<>> /\ toHost' = <<>> /\ ~intFlag'
        /\ FlagsRead(Head(toHost)) = {irq}
        /\ UNCHANGED <<intFlag, opMode, irq, dio0, air>>
    BY GotFlagsRead
  <1>2. \/ /\ RxFinished(irq) /\ mode' = mode
           /\ toChip' = Append(toChip, Read("nbBytes")) /\ pc' = "nbBytes"
        \/ /\ TxFinished(irq)
           /\ Return("Idle", buf, rxBufValid, ToIdle("Tx") \o <<Clear>>)
        \/ /\ ~RxFinished(irq) /\ ~TxFinished(irq)
           /\ Return(mode, buf, rxBufValid, <<Clear>>)
    BY <1>1 DEF GotFlags, Dismissed
  <1>3. CASE RxFinished(irq) /\ mode' = mode /\ toChip' = Append(toChip, Read("nbBytes"))
             /\ pc' = "nbBytes"
    <2>1. mode = "Rx" /\ Whole
      BY <1>3 DEF RxFinished, RxFailed, GoodVerdict
    <2>2. PICK c : c = Read("nbBytes")
      OBVIOUS
    <2>3. c \in Other /\ c \in Command
      BY <2>2, Sorts DEF Registers
    <2>4. PICK t : t = <<c>>
      OBVIOUS
    <2>5. t \in Seq(Other) /\ t \in Seq(Command)
      BY <2>3, <2>4, OtherOne
    <2>6. toChip' = toChip \o t
      BY <1>0, <1>3, <2>2, <2>3, <2>4, AppendIsConcat
    <2>7. toChip' = t
      BY <1>1, <2>5, <2>6, ConcatEmptySeq
    <2>8. Transmission'
      BY <1>0, <1>1, <1>3, <2>1, <2>5, <2>6, NotSendingNow, NotSendingMore
    <2>9. AskedLength'
      BY <1>1, <1>3, <2>1, <2>2, <2>4, <2>7 DEF AskedLength, Reading, Whole
    <2> QED
      BY <2>8, <2>9 DEF Undisturbed, Phase
  <1>4. CASE TxFinished(irq) /\ Return("Idle", buf, rxBufValid, ToIdle("Tx") \o <<Clear>>)
    <2>1. mode = "Tx" /\ opMode = "STDBY"
      BY <1>0, <1>1, <1>4, FinishedWhenSent DEF SentOut
    <2>2. PICK x : x = ToIdle("Tx")
      OBVIOUS
    <2>3. x \in Seq(Modal) /\ x \in Seq(Other) /\ x \in Seq(Command)
      BY <1>0, <2>2, Sorts, GroupedSetters
    <2>4. PICK y : y = x \o <<Clear>>
      OBVIOUS
    <2>5. y \in Seq(Command) /\ y \in Seq(Other)
      <3>1. <<Clear>> \in Seq(Other)
        BY Sorts, OtherOne
      <3> QED
        BY <1>0, <2>3, <2>4, <3>1
    <2>6. PICK t : t = ToRx("Idle")
      OBVIOUS
    <2>7. t \in Seq(Setup) /\ t \in Seq(Other)
      BY <1>0, <2>6, Sorts
    <2>8. mode' = "Rx" /\ toChip' = toChip \o (y \o t) /\ pc' = "idle"
      <3>1. Return("Idle", buf, rxBufValid, y)
        BY <1>4, <2>2, <2>4
      <3>2. pc' = "idle"
        BY <3>1 DEF Return
      <3> QED
        BY <1>0, <2>5, <2>6, <3>1, <3>2, ReturnAdds
    <2>9. Clearing'
      BY <1>1, <2>3, <2>4, <2>7, <2>8, Dismissing
    <2>10. toChip' \in Seq(Other)
      <3>1. <<>> \in Seq(Other) /\ y \o t \in Seq(Other)
        BY <2>5, <2>7
      <3> QED
        BY <1>1, <2>8, <3>1
    <2>11. NotSending'
      BY <1>1, <2>1, <2>8, <2>10, EndsCleared DEF NotSending
    <2> QED
      BY <2>9, <2>11 DEF Undisturbed, Phase, Transmission
  <1>5. CASE /\ ~RxFinished(irq) /\ ~TxFinished(irq)
             /\ Return(mode, buf, rxBufValid, <<Clear>>)
    <2>0. pc' = "idle"
      BY <1>5 DEF Return
    <2>1. /\ mode = "Tx" => mode' = "Tx" /\ toChip' = toChip \o <<Clear>>
          /\ mode # "Tx" => mode' = "Rx" /\ toChip' = toChip \o (<<Clear>> \o ToRx(mode))
      BY <1>0, <1>5, ReturnAdds
    <2>2. CASE mode = "Tx"
      <3>1. "TxDone" \notin irq
        BY <1>5, <2>2 DEF TxFinished
      <3>2. ~SendAsked
        <4>1. \A k \in DOMAIN <<>> : FALSE
          OBVIOUS
        <4> QED
          BY <1>1, <4>1 DEF SendAsked, Between
      <3>3. opMode = "TX"
        BY <1>0, <2>2, <3>1, <3>2 DEF Transmission, NotSending, OnAir, SentOut
      <3>4. toChip' = <<Clear>>
        BY <1>0, <1>1, <2>1, <2>2, ConcatEmptySeq
      <3>5. <<Clear>> \in Seq(Steady \union {Clear})
        OBVIOUS
      <3>6. OnAir'
        BY <1>1, <2>1, <2>2, <3>1, <3>3, <3>4, <3>5 DEF OnAir
      <3>7. <<>> \in Seq(Setup) /\ <<Clear>> \o <<>> = <<Clear>>
        BY <1>0, ConcatEmptySeq
      <3>8. toChip' = toChip \o (<<Clear>> \o <<>>)
        BY <2>1, <2>2, <3>7
      <3>9. Clearing'
        BY <1>1, <2>0, <3>7, <3>8, DismissingOnly
      <3> QED
        BY <3>6, <3>9 DEF Undisturbed, Phase, Transmission
    <2>3. CASE mode # "Tx"
      <3>1. PICK t : t = ToRx(mode)
        OBVIOUS
      <3>2. t \in Seq(Setup) /\ t \in Seq(Other)
        BY <1>0, <3>1, Sorts
      <3>3. Clearing'
        BY <1>1, <2>0, <2>1, <2>3, <3>1, <3>2, DismissingOnly
      <3>4. <<Clear>> \o t \in Seq(Other)
        BY <3>2, Sorts, OtherOne
      <3>5. Transmission'
        BY <1>0, <1>1, <2>1, <2>3, <3>1, <3>4, NotSendingNow, NotSendingMore
      <3> QED
        BY <3>3, <3>5 DEF Undisturbed, Phase
    <2> QED
      BY <2>2, <2>3
  <1> QED
    BY <1>2, <1>3, <1>4, <1>5

\* Where handleInterrupt() is, is what it waits for.
LEMMA PhaseAt ==
    ASSUME Phase
    PROVE  /\ pc = "nbBytes" => AskedLength
           /\ pc = "addr" => AskedAddr
           /\ pc = "fifo" => AskedOctets
           /\ pc = "rssi" => AskedRssi
  BY DEF Phase, Calm, Raised, Announced, AskedFlags, AskedLength, AskedAddr, AskedOctets,
         AskedRssi, Clearing

LEMMA GotLengthUndisturbed ==
    ASSUME TypeInv, Undisturbed, GotLength
    PROVE  Undisturbed'
  <1>0. Transmission /\ Phase /\ toChip \in Seq(Command)
    BY Parts, Lines DEF Undisturbed
  <1>1. /\ pc = "nbBytes" /\ toHost # <<>> /\ toHost' = Tail(toHost) /\ pc' = "addr"
        /\ UNCHANGED <<mode, intFlag, opMode, irq, dio0, air>>
        /\ len' \in LengthsRead(Head(toHost)) /\ toChip' = Append(toChip, Read("addr"))
    <2>1. Await("nbBytes", 1)
      BY DEF GotLength
    <2> QED
      BY <2>1, Awaited DEF GotLength, chipVars
  <1>2. toHost = <<LengthOctet>> /\ toChip = <<>> /\ Reading
    BY <1>0, <1>1, PhaseAt DEF AskedLength
  <1>3. Head(toHost) = LengthOctet /\ toHost' = <<>>
    BY <1>1, <1>2, OneOrTwo
  <1>4. len' = NbBytes /\ NbBytes' = NbBytes
    <2>1. LengthOctet.reg = "nbBytes" /\ LengthOctet.n = NbBytes
      BY DEF LengthOctet, Octet
    <2>2. LengthsRead(Head(toHost)) = {NbBytes}
      BY <1>3, <2>1 DEF LengthsRead
    <2> QED
      BY <1>1, <2>2 DEF NbBytes
  <1>5. PICK c : c = Read("addr")
    OBVIOUS
  <1>6. c \in Other /\ c \in Command
    BY <1>5, Sorts DEF Registers
  <1>7. PICK t : t = <<c>>
    OBVIOUS
  <1>8. t \in Seq(Other) /\ t \in Seq(Command)
    BY <1>6, <1>7, OtherOne
  <1>9. toChip' = toChip \o t
    BY <1>0, <1>1, <1>5, <1>6, <1>7, AppendIsConcat
  <1>10. toChip' = t
    BY <1>2, <1>8, <1>9, ConcatEmptySeq
  <1>11. Transmission'
    BY <1>0, <1>1, <1>2, <1>8, <1>9, NotSendingNow, NotSendingMore DEF Reading
  <1>12. Reading'
    BY <1>1, <1>2 DEF Reading, Whole
  <1>13. AskedAddr'
    BY <1>1, <1>3, <1>4, <1>5, <1>7, <1>10, <1>12 DEF AskedAddr
  <1> QED
    BY <1>11, <1>13 DEF Undisturbed, Phase

LEMMA GotAddressUndisturbed ==
    ASSUME TypeInv, Undisturbed, GotAddress
    PROVE  Undisturbed'
  <1>0. Transmission /\ Phase /\ Len(air) \in Nat /\ len \in Nat
    BY Parts DEF Undisturbed
  <1>1. /\ pc = "addr" /\ toHost # <<>> /\ toHost' = Tail(toHost) /\ pc' = "fifo"
        /\ UNCHANGED <<mode, len, intFlag, opMode, irq, dio0, air>>
        /\ toChip' = toChip \o <<SetPointer(AddressRead(Head(toHost))), BurstRead("fifo", len)>>
    <2>1. Await("addr", 1)
      BY DEF GotAddress
    <2> QED
      BY <2>1, Awaited DEF GotAddress, chipVars
  <1>2. toHost = <<AddrOctet>> /\ toChip = <<>> /\ Reading /\ len = NbBytes
    BY <1>0, <1>1, PhaseAt DEF AskedAddr
  <1>3. Head(toHost) = AddrOctet /\ toHost' = <<>>
    BY <1>1, <1>2, OneOrTwo
  <1>4. AddressRead(Head(toHost)) = Len(air)
    <2>1. AddrOctet.reg = "addr" /\ AddrOctet.at = Len(air)
      BY DEF AddrOctet, Octet
    <2> QED
      BY <1>3, <2>1 DEF AddressRead
  <1>5. PICK c : c = SetPointer(Len(air))
    OBVIOUS
  <1>6. PICK d : d = BurstRead("fifo", len)
    OBVIOUS
  <1>7. c \in Other /\ d \in Other /\ Other \subseteq Command
    BY <1>0, <1>5, <1>6, Sorts
  <1>8. PICK t : t = <<c, d>>
    OBVIOUS
  <1>9. t \in Seq(Other) /\ t \in Seq(Command)
    BY <1>7, <1>8, TwoInOne
  <1>10. toChip' = toChip \o t
    BY <1>1, <1>4, <1>5, <1>6, <1>8
  <1>11. toChip' = t
    BY <1>2, <1>9, <1>10, ConcatEmptySeq
  <1>12. Transmission'
    BY <1>0, <1>1, <1>2, <1>9, <1>10, NotSendingNow, NotSendingMore DEF Reading
  <1>13. Reading' /\ NbBytes' = NbBytes
    BY <1>1, <1>2 DEF Reading, Whole, NbBytes
  <1>14. toChip' = <<SetPointer(Len(air')), BurstRead("fifo", len')>>
    BY <1>1, <1>5, <1>6, <1>8, <1>11
  <1>15. AskedOctets'
    BY <1>1, <1>2, <1>3, <1>13, <1>14 DEF AskedOctets
  <1> QED
    BY <1>12, <1>15 DEF Undisturbed, Phase

\* The octets read are those of the last packet, all of them.
LEMMA OctetsRead ==
    ASSUME TypeInv, Undisturbed, GotOctets
    PROVE  /\ pc = "fifo" /\ toHost = Octets /\ toChip = <<>> /\ Reading /\ len = NbBytes
           /\ len \in Nat /\ len > 0 /\ Needed(len) = len /\ Len(Octets) = len
           /\ Octets \in Seq(Byte) /\ buf' = Octets /\ toHost' = <<>>
  <1>0. Transmission /\ Phase /\ toHost \in Seq(Byte) /\ len \in Nat /\ Len(toHost) \in Nat
    BY Parts, Lines, LenProperties DEF Undisturbed
  <1>1. /\ pc = "fifo" /\ toHost # <<>> /\ buf' = SubSeq(toHost, 1, len)
        /\ toHost' = SubSeq(toHost, Needed(len) + 1, Len(toHost))
    <2>1. Await("fifo", len)
      BY DEF GotOctets
    <2> QED
      BY <1>0, <2>1, Awaited DEF GotOctets
  <1>2. toHost = Octets /\ toChip = <<>> /\ Reading /\ len = NbBytes
    BY <1>0, <1>1, PhaseAt DEF AskedOctets
  <1>3. len > 0 /\ Needed(len) = len
    BY <1>0, <1>2, NbBytesPositive DEF Reading, Whole, Needed
  <1>4. Len(toHost) = len
    <2>1. DOMAIN toHost = 1 .. len
      BY <1>2 DEF Octets
    <2> QED
      BY <1>0, <2>1, LenProperties
  <1>5. SubSeq(toHost, 1, len) = toHost
    BY <1>0, <1>4
  <1>6. SubSeq(toHost, len + 1, len) = <<>>
    BY <1>0
  <1> QED
    BY <1>0, <1>1, <1>2, <1>3, <1>4, <1>5, <1>6

LEMMA GotOctetsUndisturbed ==
    ASSUME TypeInv, Undisturbed, GotOctets
    PROVE  Undisturbed'
  <1>0. Transmission /\ Phase
    BY DEF Undisturbed
  <1>1. /\ pc' = "rssi" /\ UNCHANGED <<mode, intFlag, opMode, irq, dio0, air>>
        /\ toChip' = toChip \o <<Clear, Read("rssi")>>
    BY DEF GotOctets, chipVars
  <1>2. toHost' = <<>> /\ toChip = <<>> /\ Reading
    BY OctetsRead
  <1>3. PICK d : d = Read("rssi")
    OBVIOUS
  <1>4. Clear \in Other /\ d \in Other /\ Other \subseteq Command
    BY <1>3, Sorts DEF Registers
  <1>5. PICK t : t = <<Clear, d>>
    OBVIOUS
  <1>6. t \in Seq(Other) /\ t \in Seq(Command)
    BY <1>4, <1>5, TwoInOne
  <1>7. toChip' = toChip \o t
    BY <1>1, <1>3, <1>5
  <1>8. toChip' = t
    BY <1>2, <1>6, <1>7, ConcatEmptySeq
  <1>9. Transmission'
    BY <1>0, <1>1, <1>2, <1>6, <1>7, NotSendingNow, NotSendingMore DEF Reading
  <1>10. AskedRssi'
    BY <1>1, <1>2, <1>3, <1>5, <1>8 DEF AskedRssi, Reading
  <1> QED
    BY <1>9, <1>10 DEF Undisturbed, Phase

LEMMA GotRssiUndisturbed ==
    ASSUME TypeInv, Undisturbed, GotRssi
    PROVE  Undisturbed'
  <1>0. /\ Transmission /\ Phase /\ "Idle" \in Modes /\ "Rx" \in Modes
        /\ <<Clear>> \in Seq(Command)
    BY GroupedSetters DEF Undisturbed, Modes
  <1>1. /\ pc = "rssi" /\ toHost # <<>> /\ toHost' = Tail(toHost)
        /\ UNCHANGED <<intFlag, opMode, irq, dio0>>
        /\ \/ Return("Idle", buf, TRUE, ToIdle("Rx") \o <<Clear>>)
           \/ Return(mode, buf, FALSE, <<Clear>>)
    <2>1. Await("rssi", 1)
      BY DEF GotRssi
    <2> QED
      BY <2>1, Awaited DEF GotRssi, chipVars
  <1>2. toHost = <<RssiOctet>> /\ toChip = <<>> /\ mode = "Rx" /\ ~intFlag
    BY <1>0, <1>1, PhaseAt DEF AskedRssi
  <1>3. toHost' = <<>> /\ ~intFlag' /\ pc' = "idle"
    BY <1>1, <1>2, OneOrTwo DEF Return
  <1>4. NotSending
    BY <1>0, <1>2, NotSendingNow
  <1>5. CASE Return("Idle", buf, TRUE, ToIdle("Rx") \o <<Clear>>)
    <2>1. PICK x : x = ToIdle("Rx")
      OBVIOUS
    <2>2. x \in Seq(Modal) /\ x \in Seq(Other) /\ x \in Seq(Command)
      BY <1>0, <2>1, Sorts, GroupedSetters
    <2>3. PICK y : y = x \o <<Clear>>
      OBVIOUS
    <2>4. y \in Seq(Command) /\ y \in Seq(Other)
      <3>1. <<Clear>> \in Seq(Other)
        BY Sorts, OtherOne
      <3> QED
        BY <1>0, <2>2, <2>3, <3>1
    <2>5. PICK t : t = ToRx("Idle")
      OBVIOUS
    <2>6. t \in Seq(Setup) /\ t \in Seq(Other)
      BY <1>0, <2>5, Sorts
    <2>7. mode' = "Rx" /\ toChip' = toChip \o (y \o t)
      <3>1. Return("Idle", buf, TRUE, y)
        BY <1>5, <2>1, <2>3
      <3> QED
        BY <1>0, <2>4, <2>5, <3>1, ReturnAdds
    <2>8. Clearing'
      BY <1>2, <1>3, <2>2, <2>3, <2>6, <2>7, Dismissing
    <2>9. y \o t \in Seq(Other)
      BY <2>4, <2>6
    <2>10. Transmission'
      BY <1>1, <1>4, <2>7, <2>9, NotSendingMore
    <2> QED
      BY <2>8, <2>10 DEF Undisturbed, Phase
  <1>6. CASE Return(mode, buf, FALSE, <<Clear>>)
    <2>1. PICK t : t = ToRx("Rx")
      OBVIOUS
    <2>2. t \in Seq(Setup) /\ t \in Seq(Other)
      BY <1>0, <2>1, Sorts
    <2>3. mode' = "Rx" /\ toChip' = toChip \o (<<Clear>> \o t)
      BY <1>0, <1>2, <1>6, <2>1, ReturnAdds
    <2>4. Clearing'
      BY <1>2, <1>3, <2>2, <2>3, DismissingOnly
    <2>5. <<Clear>> \o t \in Seq(Other)
      BY <2>2, Sorts, OtherOne
    <2>6. Transmission'
      BY <1>1, <1>4, <2>3, <2>5, NotSendingMore
    <2> QED
      BY <2>4, <2>6 DEF Undisturbed, Phase
  <1> QED
    BY <1>1, <1>5, <1>6

-----------------------------------------------------------------------------
(* The radio acts, and nothing is disturbed when no interrupt is served.   *)

LEMMA NotServing == ASSUME TypeInv, Phase, ~Serving PROVE Calm
  <1>1. ~Raised /\ ~AskedFlags /\ ~AskedLength /\ ~AskedAddr /\ ~AskedOctets /\ ~AskedRssi
    BY DEF Serving, Raised, AskedFlags, AskedLength, AskedAddr, AskedOctets, AskedRssi
  <1>2. ~Announced
    <2>1. Len(<<I>>) = 1 /\ <<I>>[1] = I /\ 1 \in 1 .. 1
      OBVIOUS
    <2>2. Contains(<<I>>, I)
      BY <2>1 DEF Contains
    <2> QED
      BY <2>2 DEF Serving, Announced
  <1>3. ~Clearing
    <2> SUFFICES ASSUME Between(toChip, Modal, Clear, Setup) PROVE Contains(toChip, Clear)
      BY DEF Serving, Clearing
    <2>1. DOMAIN toChip = 1 .. Len(toChip)
      BY Parts, Lines, LenProperties
    <2> QED
      BY <2>1 DEF Between, Contains
  <1> QED
    BY <1>1, <1>2, <1>3 DEF Phase

LEMMA ArriveUndisturbed ==
    ASSUME Undisturbed, TypeInv, ~Serving, NEW p \in Packet, Arrive(p)
    PROVE  Undisturbed'
  <1>1. Calm /\ Transmission
    BY NotServing DEF Undisturbed
  <1>2. Edge /\ UNCHANGED <<pc, toHost, toChip>>
    BY DEF Arrive, hostVars
  <1>3. Calm' \/ Raised'
    BY <1>1, <1>2, CalmOrRaised DEF Calm
  <1>4. Transmission'
    BY <1>1, TransmissionArrive
  <1> QED
    BY <1>3, <1>4 DEF Undisturbed, Phase

LEMMA TxEndUndisturbed ==
    ASSUME Undisturbed, TypeInv, ~Serving, TxEnd
    PROVE  Undisturbed'
  <1>1. Calm /\ Transmission
    BY NotServing DEF Undisturbed
  <1>2. Edge /\ UNCHANGED <<pc, toHost, toChip>>
    BY DEF TxEnd, hostVars
  <1>3. Calm' \/ Raised'
    BY <1>1, <1>2, CalmOrRaised DEF Calm
  <1>4. SentOut'
    BY <1>1, TransmissionEnds
  <1> QED
    BY <1>3, <1>4 DEF Undisturbed, Phase, Transmission

LEMMA FirmwareUndisturbed ==
    ASSUME Undisturbed, TypeInv, Execute \/ Notify
    PROVE  Undisturbed'
  <1>1. Execute => Phase' /\ Transmission'
    BY PhaseExecute, TransmissionExecute DEF Undisturbed
  <1>2. Notify => Announced' /\ Transmission'
    <2>1. Notify => UNCHANGED <<mode, toChip, opMode, irq>>
      BY DEF Notify, hostVars, chipVars
    <2> QED
      BY <2>1, PhaseNotify, TransmissionKept DEF Undisturbed
  <1> QED
    BY <1>1, <1>2 DEF Undisturbed, Phase

\* A quiet radio is one that nothing has disturbed.
LEMMA QuietUndisturbed ==
    ASSUME TypeInv, ModesAgree, TxKnown, Quiet
    PROVE  Undisturbed
  <1>1. pc = "idle" /\ mode # "Tx" /\ toChip = <<>> /\ toHost = <<>> /\ ~intFlag
    BY DEF Quiet
  <1>2. Calm
    <2>1. <<>> \in Seq(Setup)
      OBVIOUS
    <2> QED
      BY <1>1, <2>1 DEF Calm
  <1>3. opMode # "TX"
    <2>1. Eventually("mode", opMode) = opMode
      BY <1>1, LastOfNone DEF Eventually
    <2>2. mode \in {"Sleep", "Idle", "Rx"}
      BY <1>1, Parts DEF Modes
    <2> QED
      BY <2>1, <2>2 DEF ModesAgree
  <1>4. "TxDone" \notin irq
    <2>1. \A e : ~Contains(<<>>, e)
      BY DEF Contains
    <2>2. ~Serving
      BY <1>1, <2>1 DEF Serving
    <2>3. \A i \in DOMAIN <<>> : FALSE
      OBVIOUS
    <2> QED
      BY <1>1, <2>2, <2>3 DEF TxKnown
  <1>5. NotSending
    <2>1. <<>> \in Seq(Other)
      OBVIOUS
    <2> QED
      BY <1>1, <1>3, <1>4, <2>1 DEF NotSending
  <1> QED
    BY <1>2, <1>5 DEF Undisturbed, Phase, Transmission

-----------------------------------------------------------------------------
(* The radio that nothing disturbs since the line was last quiet.          *)

Sound == ~disturbed => Undisturbed

RadioInv == TypeInv /\ NotDeaf /\ ModesAgree /\ Lasting /\ Sound

\* A step that leaves the radio undisturbed is taken by one that was.
LEMMA DisturbedStep ==
    ASSUME TypeInv, [Next]_vars, ~disturbed'
    PROVE  /\ ~disturbed \/ Quiet
           /\ (\E p \in Packet : Arrive(p)) \/ TxEnd => ~Serving
           /\ Sleep => mode # "Tx"
  <1>0. disturbed \in BOOLEAN
    BY Parts
  <1>1. (\E p \in Packet : Arrive(p)) \/ TxEnd => ~StillDisturbed /\ ~Serving
    BY DEF Arrive, TxEnd
  <1>2. Sleep => ~StillDisturbed /\ mode # "Tx"
    BY DEF Sleep
  <1>3. PollNothing \/ Send => ~StillDisturbed
    BY DEF PollNothing, Send
  <1>4. ASSUME \/ Execute \/ Notify \/ PollInterrupt \/ GotFlags \/ GotLength
               \/ GotAddress \/ GotOctets \/ GotRssi
        PROVE  ~disturbed
    BY <1>4 DEF Execute, Notify, PollInterrupt, GotFlags, GotLength, GotAddress,
                GotOctets, GotRssi
  <1>5. ~StillDisturbed => ~disturbed \/ Quiet
    BY DEF StillDisturbed
  <1>6. \/ Execute \/ Notify \/ PollInterrupt \/ GotFlags \/ GotLength \/ GotAddress
        \/ GotOctets \/ GotRssi \/ UNCHANGED vars
        \/ (\E p \in Packet : Arrive(p)) \/ TxEnd \/ Sleep \/ PollNothing \/ Send
    BY StepIs DEF HostStep
  <1>7. ~StillDisturbed \/ ~disturbed
    <2>1. CASE (\E p \in Packet : Arrive(p)) \/ TxEnd
      BY <1>1, <2>1
    <2>2. CASE Sleep
      BY <1>2, <2>2
    <2>3. CASE PollNothing \/ Send
      BY <1>3, <2>3
    <2>4. CASE \/ Execute \/ Notify \/ PollInterrupt \/ GotFlags \/ GotLength \/ GotAddress
               \/ GotOctets \/ GotRssi
      BY <1>4, <2>4
    <2>5. CASE UNCHANGED vars
      BY <2>5 DEF vars
    <2> QED
      BY <1>6, <2>1, <2>2, <2>3, <2>4, <2>5
  <1> QED
    BY <1>1, <1>2, <1>5, <1>7

LEMMA UndisturbedStep ==
    ASSUME TypeInv, ModesAgree, Lasting, Sound, [Next]_vars, ~disturbed'
    PROVE  Undisturbed'
  <1>1. Undisturbed
    BY DisturbedStep, QuietUndisturbed DEF Sound, Lasting
  <1>2. ASSUME HostStep PROVE Undisturbed'
    BY <1>1, <1>2, DisturbedStep, PollNothingUndisturbed, PollInterruptUndisturbed,
       GotFlagsUndisturbed, GotLengthUndisturbed, GotAddressUndisturbed,
       GotOctetsUndisturbed, GotRssiUndisturbed, SendUndisturbed, SleepUndisturbed
       DEF HostStep, Lasting
  <1>3. ASSUME Execute \/ Notify PROVE Undisturbed'
    BY <1>1, <1>3, FirmwareUndisturbed
  <1>4. ASSUME (\E p \in Packet : Arrive(p)) \/ TxEnd PROVE Undisturbed'
    BY <1>1, <1>4, DisturbedStep, ArriveUndisturbed, TxEndUndisturbed
  <1>5. ASSUME UNCHANGED vars PROVE Undisturbed'
    <2>1. UNCHANGED <<mode, pc, len, intFlag, toHost, toChip, opMode, irq, dio0, pointer, air>>
      BY <1>5 DEF vars, hostVars, chipVars
    <2> QED
      BY <1>1, <2>1 DEF Undisturbed, Phase, Transmission, Calm, Raised, Announced,
         AskedFlags, AskedLength, AskedAddr, AskedOctets, AskedRssi, Clearing, Reading,
         Whole, Held, NotSending, SendAsked, OnAir, SentOut, FlagsOctet, LengthOctet,
         AddrOctet, RssiOctet, Octets, NbBytes
  <1> QED
    BY <1>2, <1>3, <1>4, <1>5, StepIs

LEMMA RadioInit == Init => RadioInv
  <1> SUFFICES ASSUME Init PROVE RadioInv
    OBVIOUS
  <1>1. TypeInv
    BY TypeInit
  <1>2. NotDeaf
    BY DEF Init, NotDeaf
  <1>3. ModesAgree
    <2>1. Eventually("mode", opMode) = "STDBY" /\ mode = "Idle"
      BY LastOfNone DEF Init, Eventually
    <2> QED
      BY <2>1 DEF ModesAgree
  <1>4. Lasting
    BY DEF Init, Lasting, GoodVerdict, Paired, TxPairs, RxPairs, TxMapped, TxKnown
  <1>5. Quiet
    BY DEF Init, Quiet
  <1>6. Undisturbed
    BY <1>1, <1>3, <1>4, <1>5, QuietUndisturbed DEF Lasting
  <1> QED
    BY <1>1, <1>2, <1>3, <1>4, <1>6 DEF RadioInv, Sound

LEMMA RadioStep == RadioInv /\ [Next]_vars => RadioInv'
  <1> SUFFICES ASSUME RadioInv, [Next]_vars PROVE RadioInv'
    OBVIOUS
  <1>1. TypeInv' /\ NotDeaf' /\ ModesAgree'
    BY TypeStep, NotDeafStep, ModesAgreeStep DEF RadioInv
  <1>2. Lasting'
    BY LastingStep DEF RadioInv
  <1>3. ~disturbed' => Undisturbed'
    BY UndisturbedStep DEF RadioInv
  <1> QED
    BY <1>1, <1>2, <1>3 DEF RadioInv, Sound

(***************************************************************************)
(* Unless it has been disturbed, every packet handleInterrupt() reads out  *)
(* of the FIFO into _buf is one packet, all of it, with a good checksum:   *)
(* by the time its octets are taken, the radio has been asked for nothing  *)
(* else since its flags were read, and nothing has arrived.                *)
(***************************************************************************)
THEOREM PacketsComplete == Spec => CompletePacketsUndisturbed
  <1> DEFINE Complete == pc = "fifo" /\ pc' # "fifo" /\ ~disturbed => OnePacket(buf')
  <1>1. RadioInv /\ [Next]_vars => [Complete]_vars
    <2> SUFFICES ASSUME RadioInv, [Next]_vars, pc = "fifo", pc' # "fifo", ~disturbed
                 PROVE  OnePacket(buf')
      OBVIOUS
    <2>0. TypeInv /\ Undisturbed
      BY DEF RadioInv, Sound
    <2>1. GotOctets
      <3>1. Execute => pc' = pc
        BY <2>0, Executed
      <3>2. ~PollNothing /\ ~PollInterrupt /\ ~Send /\ ~Sleep
        BY DEF PollNothing, PollInterrupt, Send, Sleep
      <3>3. ~GotFlags /\ ~GotLength /\ ~GotAddress /\ ~GotRssi
        BY DEF GotFlags, GotLength, GotAddress, GotRssi, Await
      <3>4. (\E p \in Packet : Arrive(p)) \/ TxEnd \/ Notify \/ UNCHANGED vars => pc' = pc
        BY DEF Arrive, TxEnd, Notify, vars, hostVars
      <3> QED
        BY <3>1, <3>2, <3>3, <3>4, StepIs DEF HostStep
    <2>2. /\ Reading /\ len = NbBytes /\ len \in Nat /\ buf' = Octets /\ Len(Octets) = len
          /\ air \in Seq(Packet)
      BY <2>0, <2>1, OctetsRead, Parts
    <2>3. /\ air # <<>> /\ Last(air).good /\ Last(air) = air[Len(air)]
          /\ Len(air) \in DOMAIN air /\ len = air[Len(air)].len
      <3>1. air # <<>> /\ Last(air).good
        BY <2>2 DEF Reading, Whole
      <3>2. Last(air) = air[Len(air)] /\ NbBytes = Last(air).len
        BY <3>1 DEF Last, NbBytes
      <3>3. Len(air) \in DOMAIN air
        BY <2>2, <3>1
      <3> QED
        BY <2>2, <3>1, <3>2, <3>3
    <2>4. \A i \in DOMAIN Octets :
              Octets[i].reg = "fifo" /\ Octets[i].at = Len(air) /\ Octets[i].n = i
      BY DEF Octets, Octet
    <2> QED
      BY <2>2, <2>3, <2>4 DEF OnePacket
  <1> QED
    BY <1>1, RadioInit, RadioStep, PTL DEF Spec, CompletePacketsUndisturbed

(***************************************************************************)
(* With the same exception, the driver leaves transmit mode for the        *)
(* reception of the next packet only when the chip has sent the message,   *)
(* so that waitPacketSent() does not cut one off.                          *)
(***************************************************************************)
THEOREM TransmissionsComplete == Spec => TransmissionCompleted
  <1> DEFINE Over == mode = "Tx" /\ mode' = "Rx" /\ ~disturbed
                         => Eventually("mode", opMode) = "STDBY"
  <1>1. RadioInv /\ [Next]_vars => [Over]_vars
    <2> SUFFICES ASSUME RadioInv, [Next]_vars, mode = "Tx", mode' = "Rx", ~disturbed
                 PROVE  Eventually("mode", opMode) = "STDBY"
      OBVIOUS
    <2>0. TypeInv /\ Undisturbed /\ Phase /\ Transmission
      BY DEF RadioInv, Sound, Undisturbed
    <2>1. GotFlags
      <3>1. Execute => mode' = mode
        BY <2>0, Executed
      <3>2. ~PollNothing /\ ~PollInterrupt /\ ~Send /\ ~Sleep
        BY DEF PollNothing, Return, PollInterrupt, Send, Sleep
      <3>3. ~GotLength /\ ~GotAddress /\ ~GotOctets
        BY DEF GotLength, GotAddress, GotOctets
      <3>4. ~GotRssi
        <4>1. pc = "rssi" => mode = "Rx"
          BY <2>0, PhaseAt DEF AskedRssi
        <4> QED
          BY <4>1 DEF GotRssi, Await
      <3>5. (\E p \in Packet : Arrive(p)) \/ TxEnd \/ Notify \/ UNCHANGED vars => mode' = mode
        BY DEF Arrive, TxEnd, Notify, vars, hostVars
      <3> QED
        BY <3>1, <3>2, <3>3, <3>4, <3>5, StepIs DEF HostStep
    <2>2. toChip = <<>> /\ FlagsRead(Head(toHost)) = {irq}
      BY <2>0, <2>1, GotFlagsRead
    <2>3. TxFinished(irq)
      BY <2>1, <2>2 DEF GotFlags, Return
    <2>4. opMode = "STDBY"
      BY <2>0, <2>2, <2>3, FinishedWhenSent DEF SentOut
    <2> QED
      BY <2>2, <2>4, LastOfNone DEF Eventually
  <1> QED
    BY <1>1, RadioInit, RadioStep, PTL DEF Spec, TransmissionCompleted

=============================================================================
