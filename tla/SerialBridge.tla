----------------------------- MODULE SerialBridge -----------------------------
(***************************************************************************)
(* The serial line between the host, on which the library runs, and the    *)
(* firmware that owns the radio, octet by octet: RHUartDriver writes the   *)
(* commands 'W' reg len data and 'R' reg len, the firmware's loop() puts   *)
(* them together again and executes them, and nothing in them marks where  *)
(* one begins.  The host configures the radio with RH_RF95::init() and the *)
(* setters, and may be reset after any octet; the firmware is not.         *)
(*                                                                         *)
(* Octets arrive in order, and what the firmware does with one does not    *)
(* depend on when it comes, so that it takes each one as it is written.    *)
(* RH_RF95 models what happens between whole commands.                     *)
(***************************************************************************)
EXTENDS Integers, Sequences, FiniteSetsExt

CONSTANTS
    Powers,        \* <<power, useRFO>> of calls of setTxPower()
    Frequencies,   \* centre / RH_RF95_FSTEP of calls of setFrequency()
    Preambles,     \* arguments of setPreambleLength()
    Strays,        \* what registers of the chip not modelled may read as
    MaxResets,     \* bound: resets of a host that has not failed in init()
    MaxCalls       \* bound: setters the sketch calls

\* The largest values of 24 and of 16 bits.
LAST_24 == 16777215
LAST_16 == 65535

ASSUME BridgeAssumption ==
    /\ Powers \subseteq (-128 .. 127) \X BOOLEAN
    /\ Frequencies \subseteq 0 .. LAST_24
    /\ Preambles \subseteq 0 .. LAST_16
    /\ Strays \subseteq 0 .. 255 /\ Strays # {}
    /\ MaxResets \in Nat /\ MaxCalls \in Nat

W == 87
R == 82
I == 73

OP_MODE       == 1
FRF_MSB       == 6
FRF_MID       == 7
FRF_LSB       == 8
PA_CONFIG     == 9
TX_BASE       == 14
RX_BASE       == 15
MODEM_CONFIG1 == 29
MODEM_CONFIG2 == 30
PREAMBLE_MSB  == 32
PREAMBLE_LSB  == 33
MODEM_CONFIG3 == 38
PA_DAC        == 77

Registers == {OP_MODE, FRF_MSB, FRF_MID, FRF_LSB, PA_CONFIG, TX_BASE, RX_BASE,
              MODEM_CONFIG1, MODEM_CONFIG2, PREAMBLE_MSB, PREAMBLE_LSB,
              MODEM_CONFIG3, PA_DAC}

SLEEP_LORA     == 128   \* RH_RF95_MODE_SLEEP | RH_RF95_LONG_RANGE_MODE
STDBY          == 1
PA_SELECT      == 128
MAX_POWER      == 112
PA_DAC_DISABLE == 4
PA_DAC_ENABLE  == 7

VARIABLES
    fw,       \* the octets of the command the firmware is putting together
    chip,     \* the registers of the radio
    back,     \* octets on their way to the host
    octets,   \* what the call in progress still has to write
    host,     \* where the sketch is
    asked,    \* history: arguments of the last call of each setter
    cut,      \* history: did the last reset fall into a read command?
    resets, calls

vars == <<fw, chip, back, octets, host, asked, cut, resets, calls>>

-----------------------------------------------------------------------------
(***************************************************************************)
(* What the library writes.  WRITE_MASK marks the address of a write.      *)
(***************************************************************************)
WRITE_MASK == 128

Write(reg, val) == <<W, reg + WRITE_MASK, 1, val>>
Read(reg)       == <<R, reg, 1>>

SetFrequency(frf) ==
    Write(FRF_MSB, frf \div 65536)
        \o Write(FRF_MID, (frf \div 256) % 256) \o Write(FRF_LSB, frf % 256)

Between(low, x, high) == Max({low, Min({x, high})})

\* Fault: the 3 dBm that the PA_DAC adds are not taken off.
SetTxPowerUncorrected(power, useRFO) ==
    IF useRFO
    THEN Write(PA_CONFIG, MAX_POWER + Between(-1, power, 14) + 1)
    ELSE Write(PA_DAC, IF power > 20 THEN PA_DAC_ENABLE ELSE PA_DAC_DISABLE)
             \o Write(PA_CONFIG, PA_SELECT + Between(5, power, 20) - 5)

SetTxPower(power, useRFO) ==
    IF useRFO
    THEN Write(PA_CONFIG, MAX_POWER + Between(-1, power, 14) + 1)
    ELSE LET p == Between(5, power, 23)
         IN  IF p > 20
             THEN Write(PA_DAC, PA_DAC_ENABLE)
                      \o Write(PA_CONFIG, PA_SELECT + (p - 3) - 5)
             ELSE Write(PA_DAC, PA_DAC_DISABLE)
                      \o Write(PA_CONFIG, PA_SELECT + p - 5)

\* MODEM_CONFIG_TABLE, for the values of ModemConfigChoice.
ModemConfig ==
    [index \in 0 .. 3 |-> << <<114, 116, 0>>, <<146, 116, 0>>,
                             <<72, 148, 0>>, <<120, 196, 0>> >>[index + 1]]

SetModemConfig(index) ==
    LET config == ModemConfig[index]
    IN  Write(MODEM_CONFIG1, config[1]) \o Write(MODEM_CONFIG2, config[2])
            \o Write(MODEM_CONFIG3, config[3])

SetPreambleLength(length) ==
    Write(PREAMBLE_MSB, length \div 256) \o Write(PREAMBLE_LSB, length % 256)

\* init(), as far as its check and after it.
Probe == Write(OP_MODE, SLEEP_LORA) \o Read(OP_MODE)

FRF_868 == 14221312   \* 868 MHz / RH_RF95_FSTEP

Default == [power |-> <<13, FALSE>>, frf |-> FRF_868, preamble |-> 8, modem |-> 0]

Configure ==
    Write(TX_BASE, 0) \o Write(RX_BASE, 0) \o Write(OP_MODE, STDBY)
        \o SetModemConfig(Default.modem) \o SetPreambleLength(Default.preamble)
        \o SetFrequency(Default.frf) \o SetTxPower(Default.power[1], Default.power[2])

Init ==
    /\ fw = <<>> /\ back = <<>>
    /\ chip = [r \in Registers |-> 0]
    /\ host = "probing" /\ octets = Probe
    /\ asked = Default /\ cut = FALSE
    /\ resets = 0 /\ calls = 0

-----------------------------------------------------------------------------
(***************************************************************************)
(* The firmware.  count is Len(fw), command, reg and len the first three   *)
(* octets, buffer the others.                                              *)
(***************************************************************************)
\* Fault: what begins no command is kept.
SkippedNever(s) == FALSE

Skipped(s) == Len(s) = 1 /\ s[1] \notin {W, R}

Complete(s) == Len(s) >= 3 /\ (s[1] = R \/ Len(s) >= s[3] + 3)

\* One transfer over SPI goes through consecutive registers.  Address 0, the
\* FIFO, is not left; what lies behind the last register is not modelled.
Touched(reg, n) == IF reg = 0 THEN {} ELSE Registers \intersect (reg .. reg + n - 1)

WriteRegisters(reg, data) ==
    chip' = [r \in Registers |-> IF r \in Touched(reg, Len(data))
                                 THEN data[r - reg + 1] ELSE chip[r]]

Reply(reg, n, stray) ==
    [i \in 1 .. n |-> IF reg + i - 1 \in Touched(reg, n)
                      THEN chip[reg + i - 1] ELSE stray]

\* WRITE_MASK in the address makes the transfer a write, whatever the command.
Execute(command, reg, n, data) ==
    /\ IF reg >= WRITE_MASK
       THEN WriteRegisters(reg - WRITE_MASK,
                           IF command = W THEN data ELSE [i \in 1 .. n |-> 0])
       ELSE UNCHANGED chip
    /\ \/ command = W /\ UNCHANGED back
       \/ command = R /\ \E stray \in Strays : back' = back \o Reply(reg, n, stray)

Take(octet) ==
    LET s == Append(fw, octet)
    IN  \/ /\ Skipped(s)
           /\ UNCHANGED <<fw, chip, back>>
        \/ /\ s[1] \in {W, R} /\ ~Complete(s)
           /\ fw' = s
           /\ UNCHANGED <<chip, back>>
        \/ /\ s[1] \in {W, R} /\ Complete(s)
           /\ fw' = <<>>
           /\ Execute(s[1], s[2], s[3], SubSeq(s, 4, Len(s)))

\* A mode other than SLEEP and STDBY, which a mutilated command may have set,
\* can raise an interrupt; the firmware announces it.
Interrupt ==
    /\ chip[OP_MODE] % 8 \notin {0, STDBY}
    /\ \A i \in DOMAIN back : back[i] # I
    /\ back' = Append(back, I)
    /\ UNCHANGED <<fw, chip, octets, host, asked, cut, resets, calls>>

-----------------------------------------------------------------------------
(***************************************************************************)
(* The host.  uartRx() waits for one octet; the firmware has answered by   *)
(* then if it will, so that the time limit passes only when nothing is on  *)
(* the line, and read() returns 0.                                         *)
(***************************************************************************)
Put ==
    /\ octets # <<>>
    /\ Take(Head(octets))
    /\ octets' = Tail(octets)
    /\ UNCHANGED <<host, asked, cut, resets, calls>>

Received == IF back = <<>> THEN 0 ELSE Head(back)

\* Fault: any answer passes for the radio.
DevicePresentAlways == TRUE

DevicePresent == Received = SLEEP_LORA

TakeReply ==
    /\ octets = <<>>
    /\ back' = IF back = <<>> THEN <<>> ELSE Tail(back)
    /\ UNCHANGED <<fw, chip, asked, cut, resets, calls>>

\* The check of init() succeeds, or init() reads the register again, prints it
\* and fails.
Probed ==
    /\ host = "probing"
    /\ TakeReply
    /\ \/ DevicePresent /\ host' = "configuring" /\ octets' = Configure
       \/ ~DevicePresent /\ host' = "printing" /\ octets' = Read(OP_MODE)

Printed ==
    /\ host = "printing"
    /\ TakeReply
    /\ host' = "failed" /\ UNCHANGED octets

Configured ==
    /\ host = "configuring" /\ octets = <<>>
    /\ host' = "up"
    /\ UNCHANGED <<fw, chip, back, octets, asked, cut, resets, calls>>

\* The sketch calls a setter.
Call(what, arg, writes) ==
    /\ host = "up"
    /\ calls < MaxCalls
    /\ host' = "configuring" /\ octets' = writes
    /\ asked' = [asked EXCEPT ![what] = arg]
    /\ calls' = calls + 1
    /\ UNCHANGED <<fw, chip, back, cut, resets>>

CallSetter ==
    \/ \E p \in Powers : Call("power", p, SetTxPower(p[1], p[2]))
    \/ \E f \in Frequencies : Call("frf", f, SetFrequency(f))
    \/ \E n \in Preambles : Call("preamble", n, SetPreambleLength(n))
    \/ \E index \in DOMAIN ModemConfig : Call("modem", index, SetModemConfig(index))

\* The host starts again, its receive buffer empty, and calls init().
Restart ==
    /\ host' = "probing" /\ octets' = Probe
    /\ back' = <<>>
    /\ asked' = Default
    /\ cut' = (fw # <<>> /\ fw[1] = R)
    /\ UNCHANGED <<fw, chip, calls>>

Reset ==
    /\ resets < MaxResets
    /\ resets' = resets + 1
    /\ Restart

\* Somebody presses the button of a host on which init() failed.
ResetFailed ==
    /\ host = "failed"
    /\ UNCHANGED resets
    /\ Restart

Next ==
    \/ Put \/ Probed \/ Printed \/ Configured \/ CallSetter
    \/ Reset \/ ResetFailed \/ Interrupt

Spec == Init /\ [][Next]_vars

FairSpec == Spec /\ WF_vars(Put \/ Probed \/ Printed \/ Configured \/ ResetFailed)

-----------------------------------------------------------------------------
(***************************************************************************)
(* Properties.                                                             *)
(***************************************************************************)
\* Once init() has returned true the firmware is between two commands whenever
\* the library is: it takes the host's next octet for the first of a command,
\* wherever in a command the host was reset before (Grove_LoRa_firmware.ino:40).
CommandsInStep == host = "up" => fw = <<>>

\* What the radio's registers mean is what init() and the setters called since
\* asked for, however often the firmware has misread commands before.
ConfigurationHeld ==
    host = "up" =>
        LET power == asked.power[1]
            output == chip[PA_CONFIG] % 16
        IN  /\ IF asked.power[2]
               THEN chip[PA_CONFIG] < PA_SELECT /\ output - 1 = Between(-1, power, 14)
               ELSE /\ chip[PA_CONFIG] >= PA_SELECT
                    /\ output + 5 + (IF chip[PA_DAC] = PA_DAC_ENABLE THEN 3 ELSE 0)
                           = Between(5, power, 23)
            /\ chip[FRF_MSB] * 65536 + chip[FRF_MID] * 256 + chip[FRF_LSB] = asked.frf
            /\ chip[PREAMBLE_MSB] * 256 + chip[PREAMBLE_LSB] = asked.preamble
            /\ <<chip[MODEM_CONFIG1], chip[MODEM_CONFIG2], chip[MODEM_CONFIG3]>>
                   = ModemConfig[asked.modem]
            /\ chip[OP_MODE] = STDBY

\* When the host is no longer reset, except after init() has failed, init()
\* succeeds in the end: the firmware finds the beginning of a command again.
Recovers == <>[](host = "up")

\* Nor is anything left on the line from the radio then, so that the next octet
\* is the first of what the host asks for next: unless the host was reset within
\* a read command.  The firmware then takes 'W' for the number of octets to read,
\* and the first of them may pass the check of init() (RH_RF95.cpp:31).
RepliesInStep == host = "up" /\ ~cut => back = <<>>

=============================================================================
