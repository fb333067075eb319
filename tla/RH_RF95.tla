------------------------------- MODULE RH_RF95 -------------------------------
(***************************************************************************)
(* One radio: the driver RH_RF95 on the host, the serial line of           *)
(* RHUartDriver, the firmware that bridges it to SPI, and the chip.        *)
(*                                                                         *)
(* The host polls.  available() takes one byte from the line, and if it is *)
(* the firmware's 'I' it runs handleInterrupt(), which reads registers by  *)
(* sending a command and taking the next bytes from the same line,         *)
(* whatever they are.  Between any two steps of the host the chip may      *)
(* receive a packet or finish sending one.                                 *)
(*                                                                         *)
(* A command is one element of toChip, a byte one element of toHost.  A    *)
(* byte knows what it is, so that taking it for something else shows: its  *)
(* value is then arbitrary, except that 'I' (0x49) read as the interrupt   *)
(* flags means RX_DONE and TX_DONE.  The time limit of uartRx() does not   *)
(* appear: NeverStarved says that it is never reached.  The firmware's     *)
(* other two pins stay quiet in the modes the driver uses.                 *)
(***************************************************************************)
EXTENDS Naturals, Sequences, SequencesExt

CONSTANTS
    Lengths,      \* numbers of octets of the packets on the air
    HeaderLen,    \* RH_RF95_HEADER_LEN, the least octets of a message
    MaxArrivals,  \* bound: packets that reach the radio
    MaxSends,     \* bound: messages the host sends
    MaxPending    \* bound: commands on the line when the host puts to sleep

ASSUME RadioAssumption ==
    /\ Lengths \subseteq Nat \ {0}
    /\ HeaderLen \in Nat \ {0}
    /\ MaxArrivals \in Nat
    /\ MaxSends \in Nat
    /\ MaxPending \in Nat

\* The bits of RH_RF95_REG_12_IRQ_FLAGS the driver looks at; RX_TIMEOUT, which
\* RXCONTINUOUS mode does not raise, counts as CrcError.
Flag == {"RxDone", "CrcError", "TxDone"}

\* mine: its TO header names this node or everybody.  Packets are numbered,
\* and the number stands for the packet's place in the chip's FIFO.
Packet == [len : Lengths, good : BOOLEAN, mine : BOOLEAN]

(***************************************************************************)
(* A byte for the host: 'I' or (part of) a register.  irq is the value of  *)
(* the flags; at is a packet, for the FIFO address and the octets of the   *)
(* FIFO; n is a length, for RX_NB_BYTES, or the position of an octet.      *)
(***************************************************************************)
Byte == [reg : {"I", "flags", "nbBytes", "addr", "fifo", "rssi"},
         irq : SUBSET Flag, at : Nat, n : Nat]

Octet(reg, flags, at, n) == [reg |-> reg, irq |-> flags, at |-> at, n |-> n]
I == Octet("I", {}, 0, 0)

(***************************************************************************)
(* A command: reading a register ("fifo" n times) or writing one; "clear"  *)
(* is 0xff to the flags.                                                   *)
(***************************************************************************)
Command == [do  : {"read", "clear", "mode", "mapping", "pointer"},
            arg : {"none", "flags", "nbBytes", "addr", "fifo", "rssi",
                   "SLEEP", "STDBY", "RX", "TX", "RxDone", "TxDone"},
            n   : Nat]

Write(what, arg)  == [do |-> what, arg |-> arg, n |-> 0]
Read(reg)         == [do |-> "read", arg |-> reg, n |-> 1]
BurstRead(reg, n) == [do |-> "read", arg |-> reg, n |-> n]
SetPointer(at)    == [do |-> "pointer", arg |-> "none", n |-> at]
Clear             == Write("clear", "none")

VARIABLES
    mode,        \* _mode
    pc,          \* "idle", or the register handleInterrupt() waits for
    len,         \* len in handleInterrupt()
    buf,         \* _buf, as far as _bufLen
    rxBufValid,  \* _rxBufValid
    toChip,      \* commands on the line
    toHost,      \* bytes on the line
    intFlag,     \* intFlag of the firmware
    opMode,      \* RH_RF95_REG_01_OP_MODE
    irq,         \* RH_RF95_REG_12_IRQ_FLAGS
    dio0,        \* the flag that raises pin DIO0
    pointer,     \* the packet RH_RF95_REG_0D_FIFO_ADDR_PTR points to
    air,         \* history: the packets received so far
    sends,       \* history: number of messages sent
    disturbed    \* history: see below

hostVars == <<mode, pc, len, buf, rxBufValid>>
chipVars == <<opMode, irq, dio0, pointer, air>>
vars == <<hostVars, toChip, toHost, intFlag, chipVars, sends, disturbed>>

TypeOK ==
    /\ mode \in {"Sleep", "Idle", "Rx", "Tx"}
    /\ pc \in {"idle", "flags", "nbBytes", "addr", "fifo", "rssi"}
    /\ len \in Nat
    /\ buf \in Seq(Byte)
    /\ rxBufValid \in BOOLEAN
    /\ toChip \in Seq(Command)
    /\ toHost \in Seq(Byte)
    /\ intFlag \in BOOLEAN
    /\ opMode \in {"SLEEP", "STDBY", "RX", "TX"}
    /\ irq \in SUBSET Flag
    /\ dio0 \in {"RxDone", "TxDone"}
    /\ air \in Seq(Packet)
    /\ pointer \in 0 .. Len(air)
    /\ sends \in 0 .. MaxSends
    /\ disturbed \in BOOLEAN

\* After init() returned true.
Init ==
    /\ mode = "Idle" /\ pc = "idle" /\ len = 0 /\ buf = <<>> /\ rxBufValid = FALSE
    /\ toChip = <<>> /\ toHost = <<>> /\ intFlag = FALSE
    /\ opMode = "STDBY" /\ irq = {} /\ dio0 = "RxDone" /\ pointer = 0 /\ air = <<>>
    /\ sends = 0 /\ disturbed = FALSE

-----------------------------------------------------------------------------
(***************************************************************************)
(* disturbed is TRUE from the moment the radio acts before its previous    *)
(* interrupt is dealt with (until the flags have been cleared), or the     *)
(* host puts it to sleep while it sends, to the moment the line is seen    *)
(* quiet and no transmission in progress.                                  *)
(***************************************************************************)
Serving ==
    intFlag \/ Contains(toHost, I) \/ pc # "idle" \/ Contains(toChip, Clear)

Quiet == pc = "idle" /\ mode # "Tx" /\ toChip = <<>> /\ toHost = <<>> /\ ~intFlag

StillDisturbed == disturbed /\ ~Quiet

-----------------------------------------------------------------------------
(***************************************************************************)
(* The chip.  A flag that the pin is mapped to raises it, and the rising   *)
(* edge interrupts the firmware.                                           *)
(***************************************************************************)
Edge == intFlag' = (intFlag \/ (dio0 \notin irq /\ dio0' \in irq'))

\* A packet is received in RXCONTINUOUS mode.
Arrive(p) ==
    /\ opMode = "RX"
    /\ Len(air) < MaxArrivals
    /\ air' = Append(air, p)
    /\ irq' = irq \union {"RxDone"} \union (IF p.good THEN {} ELSE {"CrcError"})
    /\ disturbed' = (StillDisturbed \/ Serving)
    /\ UNCHANGED <<hostVars, toChip, toHost, opMode, dio0, pointer, sends>>
    /\ Edge

\* The packet in the FIFO has been sent.
TxEnd ==
    /\ opMode = "TX"
    /\ opMode' = "STDBY"
    /\ irq' = irq \union {"TxDone"}
    /\ disturbed' = (StillDisturbed \/ Serving)
    /\ UNCHANGED <<hostVars, toChip, toHost, dio0, pointer, air, sends>>
    /\ Edge

-----------------------------------------------------------------------------
(***************************************************************************)
(* The firmware's loop().  A turn of it carries out a command that is      *)
(* complete, whatever intFlag says, and then sends the 'I' of an interrupt *)
(* seen by then: an interrupt may come between the two, or just before the *)
(* command, whose octets are then sent ahead of the 'I'.                   *)
(***************************************************************************)
NbBytes == IF air = <<>> THEN 0 ELSE Last(air).len

\* Fault: the last octet of a block is not written back to the host.
ReplyShort(c) ==
    IF c.arg = "fifo" THEN [i \in 1 .. c.n - 1 |-> Octet("fifo", {}, pointer, i)]
    ELSE <<Octet(c.arg, irq, Len(air), NbBytes)>>

Reply(c) ==
    CASE c.arg = "flags"   -> <<Octet("flags", irq, 0, 0)>>
      [] c.arg = "nbBytes" -> <<Octet("nbBytes", {}, 0, NbBytes)>>
      [] c.arg = "addr"    -> <<Octet("addr", {}, Len(air), 0)>>
      [] c.arg = "rssi"    -> <<Octet("rssi", {}, 0, 0)>>
      [] c.arg = "fifo"    -> [i \in 1 .. c.n |-> Octet("fifo", {}, pointer, i)]

Execute ==
    /\ toChip # <<>>
    /\ LET c == Head(toChip) IN
        /\ toHost' = IF c.do = "read" THEN toHost \o Reply(c) ELSE toHost
        /\ opMode' = IF c.do = "mode" THEN c.arg ELSE opMode
        /\ irq' = IF c.do = "clear" THEN {} ELSE irq
        /\ dio0' = IF c.do = "mapping" THEN c.arg ELSE dio0
        /\ pointer' = IF c.do = "pointer" THEN c.n ELSE pointer
    /\ Edge
    /\ toChip' = Tail(toChip)
    /\ UNCHANGED <<hostVars, air, sends, disturbed>>

Notify ==
    /\ intFlag
    /\ intFlag' = FALSE
    /\ toHost' = Append(toHost, I)
    /\ UNCHANGED <<hostVars, toChip, chipVars, sends, disturbed>>

-----------------------------------------------------------------------------
(***************************************************************************)
(* The driver.  The commands setModeIdle(), setModeRx() and setModeTx()    *)
(* send when _mode is m.                                                   *)
(***************************************************************************)
\* Fault: setModeRx() leaves the pin mapped to TxDone.
ToRxUnmapped(m) == IF m = "Rx" THEN <<>> ELSE <<Write("mode", "RX")>>

\* Fault: setModeTx() leaves the pin mapped to RxDone.
ToTxUnmapped == <<Write("mode", "TX")>>

ToIdle(m) == IF m = "Idle" THEN <<>> ELSE <<Write("mode", "STDBY")>>
ToRx(m) == IF m = "Rx" THEN <<>>
           ELSE <<Write("mode", "RX"), Write("mapping", "RxDone")>>
ToTx == <<Write("mode", "TX"), Write("mapping", "TxDone")>>

(***************************************************************************)
(* The rest of available() once the interrupt is dealt with: _mode is m by *)
(* now, _rxBufValid is v, and cmds have been sent.  When it returns true   *)
(* to recv(), the message is taken from the buffer.                        *)
(***************************************************************************)
Return(m, b, v, cmds) ==
    /\ pc' = "idle" /\ len' = 0
    /\ \/ /\ m = "Tx"
          /\ mode' = "Tx" /\ buf' = b /\ rxBufValid' = v
          /\ toChip' = toChip \o cmds
       \/ /\ m # "Tx"
          /\ mode' = "Rx"
          /\ toChip' = toChip \o cmds \o ToRx(m)
          /\ \/ buf' = b /\ rxBufValid' = v
             \/ v /\ buf' = <<>> /\ rxBufValid' = FALSE

\* Octets of a packet may happen to be an 'I', and so may other registers,
\* but not the flags: CAD_DETECTED is never set.
TakenForI(b) == IF b.reg = "I" THEN {TRUE}
                ELSE IF b.reg = "flags" THEN {FALSE} ELSE BOOLEAN

\* available() or recv() is called and finds no interrupt to serve.
PollNothing ==
    /\ pc = "idle"
    /\ \/ toHost = <<>> /\ UNCHANGED toHost
       \/ toHost # <<>> /\ FALSE \in TakenForI(Head(toHost)) /\ toHost' = Tail(toHost)
    /\ Return(mode, buf, rxBufValid, <<>>)
    /\ disturbed' = StillDisturbed
    /\ UNCHANGED <<intFlag, chipVars, sends>>

\* It finds an 'I', and handleInterrupt() asks for the flags.
PollInterrupt ==
    /\ pc = "idle"
    /\ toHost # <<>> /\ TRUE \in TakenForI(Head(toHost))
    /\ toHost' = Tail(toHost)
    /\ toChip' = Append(toChip, Read("flags"))
    /\ pc' = "flags"
    /\ UNCHANGED <<mode, len, buf, rxBufValid, intFlag, chipVars, sends, disturbed>>

-----------------------------------------------------------------------------
(***************************************************************************)
(* handleInterrupt(): what the byte b is taken for.                        *)
(***************************************************************************)
FlagsRead(b) ==
    CASE b.reg = "flags" -> {b.irq}
      [] b.reg = "I"     -> {{"RxDone", "TxDone"}}
      [] OTHER           -> SUBSET Flag

LengthsRead(b) ==
    IF b.reg = "nbBytes" THEN {b.n}
    ELSE IF b.reg = "I" \/ (b.reg = "flags" /\ b.irq # {}) THEN Lengths
    ELSE Lengths \union {0}

\* Fault: the pointer ends up behind the packet.
AddressReadOffByOne(b) == IF b.reg = "addr" THEN b.at + 1 ELSE 0

\* 0: a place without a packet.
AddressRead(b) == IF b.reg = "addr" THEN b.at ELSE 0

\* uartRx() for n bytes; it takes one even for n = 0.
Needed(n) == IF n = 0 THEN 1 ELSE n
Await(reg, n) == pc = reg /\ Len(toHost) >= Needed(n)

\* Fault: the checksum flag is not looked at.
RxFailedNever(flags) == FALSE

\* Fault: any interrupt in transmit mode counts as the end of transmission.
TxFinishedAlways(flags) == mode = "Tx"

RxFailed(flags)   == mode = "Rx" /\ "CrcError" \in flags
RxFinished(flags) == mode = "Rx" /\ "RxDone" \in flags /\ ~RxFailed(flags)
TxFinished(flags) == mode = "Tx" /\ "TxDone" \in flags

\* Fault: handleInterrupt() returns after a bad packet.
DismissedWithoutClear(flags) == IF RxFailed(flags) THEN <<>> ELSE <<Clear>>

\* The commands that end handleInterrupt() when no packet was read.
Dismissed(flags) == <<Clear>>

GotFlags ==
    /\ Await("flags", 1)
    /\ toHost' = Tail(toHost)
    /\ \E flags \in FlagsRead(Head(toHost)) :
        \/ /\ RxFinished(flags)
           /\ toChip' = Append(toChip, Read("nbBytes"))
           /\ pc' = "nbBytes"
           /\ UNCHANGED <<mode, len, buf, rxBufValid>>
        \/ /\ TxFinished(flags)
           /\ Return("Idle", buf, rxBufValid, ToIdle("Tx") \o Dismissed(flags))
        \/ /\ ~RxFinished(flags) /\ ~TxFinished(flags)
           /\ Return(mode, buf, rxBufValid, Dismissed(flags))
    /\ UNCHANGED <<intFlag, chipVars, sends, disturbed>>

GotLength ==
    /\ Await("nbBytes", 1)
    /\ len' \in LengthsRead(Head(toHost))
    /\ toHost' = Tail(toHost)
    /\ toChip' = Append(toChip, Read("addr"))
    /\ pc' = "addr"
    /\ UNCHANGED <<mode, buf, rxBufValid, intFlag, chipVars, sends, disturbed>>

GotAddress ==
    /\ Await("addr", 1)
    /\ toHost' = Tail(toHost)
    /\ toChip' = toChip \o <<SetPointer(AddressRead(Head(toHost))), BurstRead("fifo", len)>>
    /\ pc' = "fifo"
    /\ UNCHANGED <<mode, len, buf, rxBufValid, intFlag, chipVars, sends, disturbed>>

GotOctets ==
    /\ Await("fifo", len)
    /\ buf' = SubSeq(toHost, 1, len)
    /\ toHost' = SubSeq(toHost, Needed(len) + 1, Len(toHost))
    /\ toChip' = toChip \o <<Clear, Read("rssi")>>
    /\ pc' = "rssi"
    /\ UNCHANGED <<mode, len, rxBufValid, intFlag, chipVars, sends, disturbed>>

\* The values validateRxBuf() may leave in _rxBufValid; it never resets it.
Validated ==
    IF Len(buf) < HeaderLen THEN {rxBufValid}
    ELSE IF buf[1].reg = "fifo" /\ buf[1].at \in DOMAIN air
         THEN {rxBufValid \/ air[buf[1].at].mine}
         ELSE {rxBufValid, TRUE}

\* The value of the RSSI is not used.
GotRssi ==
    /\ Await("rssi", 1)
    /\ toHost' = Tail(toHost)
    /\ \E valid \in Validated :
        IF valid
        THEN Return("Idle", buf, TRUE, ToIdle("Rx") \o <<Clear>>)
        ELSE Return(mode, buf, FALSE, <<Clear>>)
    /\ UNCHANGED <<intFlag, chipVars, sends, disturbed>>

-----------------------------------------------------------------------------
(***************************************************************************)
(* Calls by the layers above.  send() first polls until no transmission is *)
(* in progress (the Poll actions); what it puts into the FIFO is no        *)
(* concern here.                                                           *)
(***************************************************************************)
Send ==
    /\ pc = "idle" /\ mode # "Tx" /\ sends < MaxSends
    /\ toChip' = toChip \o ToIdle(mode) \o <<SetPointer(0)>> \o ToTx
    /\ mode' = "Tx"
    /\ sends' = sends + 1
    /\ disturbed' = StillDisturbed
    /\ UNCHANGED <<pc, len, buf, rxBufValid, toHost, intFlag, chipVars>>

\* sleep(), also while a packet is being sent.
Sleep ==
    /\ pc = "idle" /\ mode # "Sleep" /\ Len(toChip) < MaxPending
    /\ toChip' = Append(toChip, Write("mode", "SLEEP"))
    /\ mode' = "Sleep"
    /\ disturbed' = (StillDisturbed \/ mode = "Tx")
    /\ UNCHANGED <<pc, len, buf, rxBufValid, toHost, intFlag, chipVars, sends>>

Poll     == PollNothing \/ PollInterrupt
Serve    == GotFlags \/ GotLength \/ GotAddress \/ GotOctets \/ GotRssi
Firmware == Execute \/ Notify

Next ==
    \/ \E p \in Packet : Arrive(p)
    \/ TxEnd
    \/ Execute \/ Notify
    \/ PollNothing \/ PollInterrupt
    \/ GotFlags \/ GotLength \/ GotAddress \/ GotOctets \/ GotRssi
    \/ Send \/ Sleep

Spec == Init /\ [][Next]_vars

(***************************************************************************)
(* The firmware runs, a transmission comes to its end, and the host goes   *)
(* on polling, as every caller of send() does in waitPacketSent().         *)
(***************************************************************************)
FairSpec ==
    Spec /\ WF_vars(Firmware) /\ WF_vars(TxEnd) /\ WF_vars(Poll) /\ WF_vars(Serve)

-----------------------------------------------------------------------------
(***************************************************************************)
(* A read never waits in vain: when all commands are executed and all      *)
(* interrupts reported, the bytes the host waits for are there, whatever   *)
(* came in between.  uartRx() is never left by its time limit.             *)
(***************************************************************************)
NeverStarved ==
    toChip = <<>> /\ ~intFlag /\ pc # "idle"
        => Len(toHost) >= Needed(IF pc = "fifo" THEN len ELSE 1)

(***************************************************************************)
(* The pin is only noticed when it rises.  While it is high, an interrupt  *)
(* is still to be reported or served, or the clearing of the flags is on   *)
(* its way: handleInterrupt() leaves nothing behind that keeps the radio   *)
(* from interrupting again.                                                *)
(***************************************************************************)
NotDeaf ==
    dio0 \in irq => \/ intFlag
                    \/ Contains(toHost, I)
                    \/ pc # "idle"
                    \/ Contains(toChip, Clear)

(***************************************************************************)
(* _mode, which the set functions trust to leave out commands, is what the *)
(* radio is in once it has executed the commands on the line; only the end *)
(* of a transmission the driver does not know of.  And the pin is mapped   *)
(* to the interrupt that mode is waiting for.                              *)
(***************************************************************************)
LastWrite(cmds, what, now) ==
    LET writes == {i \in DOMAIN cmds : cmds[i].do = what}
    IN  IF writes = {} THEN now ELSE cmds[Max(writes)].arg

Eventually(what, now) == LastWrite(toChip, what, now)

ModesAgree ==
    LET radio == Eventually("mode", opMode)
        pin   == Eventually("mapping", dio0)
    IN  CASE mode = "Sleep" -> radio = "SLEEP"
          [] mode = "Idle"  -> radio = "STDBY"
          [] mode = "Rx"    -> radio = "RX" /\ pin = "RxDone"
          [] mode = "Tx"    -> radio \in {"TX", "STDBY"} /\ pin = "TxDone"

\* The buffer holds one packet, all of it, with a good checksum.
OnePacket(b) ==
    \E p \in DOMAIN air :
        /\ air[p].good
        /\ Len(b) = air[p].len
        /\ \A i \in DOMAIN b : b[i].reg = "fifo" /\ b[i].at = p /\ b[i].n = i

(***************************************************************************)
(* What available() announces is a "new, complete, error-free uncollected  *)
(* message" (RHGenericDriver.h:66): every packet handleInterrupt() reads   *)
(* is one, unless the radio acted before an earlier interrupt was dealt    *)
(* with and the line has not been quiet since.  So bytes left over by such *)
(* a race do no harm for longer than that.  In a race a packet may get the *)
(* length or the checksum verdict of another.                              *)
(***************************************************************************)
CompletePacketsUndisturbed ==
    [][pc = "fifo" /\ pc' # "fifo" /\ ~disturbed => OnePacket(buf')]_vars

(***************************************************************************)
(* The driver believes that a transmission is over only when it is,        *)
(* with the same exception.                                                *)
(***************************************************************************)
TransmissionCompleted ==
    [][mode = "Tx" /\ mode' = "Rx" /\ ~disturbed
         => Eventually("mode", opMode) = "STDBY"]_vars

(***************************************************************************)
(* waitPacketSent(), which "Blocks until the transmitter is no longer      *)
(* transmitting" (RHGenericDriver.h:102), comes to its end.                *)
(***************************************************************************)
WaitPacketSentReturns == mode = "Tx" ~> mode # "Tx"

\* With the same exception.
WaitPacketSentReturnsUndisturbed == mode = "Tx" ~> (mode # "Tx" \/ disturbed)

=============================================================================
