------------------------- MODULE SerialBridge_proofs -------------------------
(***************************************************************************)
(* Why the host and the firmware agree on where a command begins once      *)
(* init() has returned true, what that does for the registers, and for the *)
(* replies: for any arguments of the setters and any number of resets.     *)
(***************************************************************************)
EXTENDS SerialBridge, SequenceTheorems, TLAPS

Octet == 0 .. 255

\* A command that is not complete yet, or none.
Partial(s) == s = <<>> \/ (s[1] \in {W, R} /\ ~Complete(s))

(***************************************************************************)
(* The octets of the probe, and how many of them are written.              *)
(***************************************************************************)
ProbeOctets == <<W, OP_MODE + WRITE_MASK, 1, SLEEP_LORA, R, OP_MODE, 1>>

Written == 7 - Len(octets)

\* What the firmware has of the read command at the end of the probe.
Reading == IF Written = 5 THEN <<R>> ELSE IF Written = 6 THEN <<R, OP_MODE>> ELSE <<>>

(***************************************************************************)
(* While the host probes: a read command the firmware has begun is the one *)
(* of the probe, or was begun before the reset.  Once it has answered one, *)
(* it is in step.  Without one from before, it answers at the end, once.   *)
(***************************************************************************)
Heard == back # <<>> /\ back[1] # I

ReadBegun ==
    fw # <<>> /\ fw[1] = R =>
        \/ cut /\ Written <= 1 /\ Len(fw) > Written
        \/ Written \in {5, 6} /\ fw = Reading

AnsweredOnce ==
    Heard /\ ~cut =>
        /\ Written = 7 /\ back[1] = chip[OP_MODE]
        /\ back[1] = SLEEP_LORA => back = <<SLEEP_LORA>>

Probing ==
    /\ Len(octets) <= 7
    /\ \A i \in DOMAIN octets : octets[i] = ProbeOctets[Written + i]
    /\ ReadBegun
    /\ Heard => Written > 0 /\ fw = Reading
    /\ AnsweredOnce

(***************************************************************************)
(* Write commands, one after the other; the value a register g has after   *)
(* them when it has the value now; and what all registers have.            *)
(***************************************************************************)
Writes(s, i, g) == i % 4 = 2 /\ s[i] = g + WRITE_MASK

Program(s) ==
    /\ s \in Seq(Octet) /\ Len(s) % 4 = 0
    /\ \A i \in DOMAIN s : /\ i % 4 = 1 => s[i] = W
                           /\ i % 4 = 2 => s[i] - WRITE_MASK \in Registers
                           /\ i % 4 = 3 => s[i] = 1
                           /\ Writes(s, i, OP_MODE) => s[i + 2] = STDBY

Leaves(s, g, now, then) ==
    \/ then = now /\ \A i \in DOMAIN s : ~Writes(s, i, g)
    \/ \E i \in DOMAIN s : /\ Writes(s, i, g) /\ then = s[i + 2]
                           /\ \A j \in DOMAIN s : j > i => ~Writes(s, j, g)

Effect(s, c, d) == Program(s) /\ \A g \in Registers : Leaves(s, g, c[g], d[g])

\* The registers c with r having the value v; those outside regs as they were.
With(c, r, v) == [g \in Registers |-> IF g = r THEN v ELSE c[g]]
Same(c, d, regs) == \A g \in Registers \ regs : d[g] = c[g]

\* The registers c mean what the arguments a say.
PowerIs(c, p) ==
    LET power == p[1]
        output == c[PA_CONFIG] % 16
    IN  IF p[2]
        THEN c[PA_CONFIG] < PA_SELECT /\ output - 1 = Between(-1, power, 14)
        ELSE /\ c[PA_CONFIG] >= PA_SELECT
             /\ output + 5 + (IF c[PA_DAC] = PA_DAC_ENABLE THEN 3 ELSE 0)
                    = Between(5, power, 23)

FrequencyIs(c, f) == c[FRF_MSB] * 65536 + c[FRF_MID] * 256 + c[FRF_LSB] = f

PreambleIs(c, n) == c[PREAMBLE_MSB] * 256 + c[PREAMBLE_LSB] = n

ModemIs(c, m) ==
    <<c[MODEM_CONFIG1], c[MODEM_CONFIG2], c[MODEM_CONFIG3]>> = ModemConfig[m]

Means(c, a) ==
    /\ PowerIs(c, a.power) /\ FrequencyIs(c, a.frf)
    /\ PreambleIs(c, a.preamble) /\ ModemIs(c, a.modem)
    /\ c[OP_MODE] = STDBY

\* Some registers the program s leaves that mean what a says.
Configures(s, c, a) == \E d : Effect(s, c, d) /\ Means(d, a)

(***************************************************************************)
(* While it configures the radio, what the firmware has and what the host  *)
(* has still to write make up whole commands, and when they are executed   *)
(* the registers mean what was asked for.                                  *)
(***************************************************************************)
Configuring ==
    /\ Len(fw) <= 3
    /\ Configures(fw \o octets, chip, asked)
    /\ ~cut => back = <<>> /\ chip[OP_MODE] \in {SLEEP_LORA, STDBY}

Power == (-128 .. 127) \X BOOLEAN

Arguments == [power : Power, frf : 0 .. LAST_24,
              preamble : 0 .. LAST_16, modem : 0 .. 3]

TypeInv ==
    /\ host \in {"probing", "printing", "failed", "configuring", "up"}
    /\ fw \in Seq(Octet) /\ Partial(fw) /\ octets \in Seq(Octet) /\ back \in Seq(Octet)
    /\ chip \in [Registers -> Octet] /\ cut \in BOOLEAN /\ asked \in Arguments

BridgeInv ==
    /\ TypeInv
    /\ host = "probing" => Probing
    /\ host \in {"probing", "printing", "failed"} => asked = Default
    /\ host = "configuring" => Configuring
    /\ host = "up" => Configuring /\ octets = <<>>

-----------------------------------------------------------------------------
(***************************************************************************)
(* Write commands and what they leave.                                     *)
(***************************************************************************)
\* An octet is a number of eight bits.
LEMMA OctetRange == \A v \in Octet : v \in Int /\ 0 <= v /\ v <= 255
  BY DEF Octet

\* The octets of one write command.
LEMMA OneWrite ==
    ASSUME NEW r \in Registers, NEW v \in Octet
    PROVE  /\ Write(r, v) \in Seq(Octet) /\ Len(Write(r, v)) = 4
           /\ Write(r, v)[1] = W /\ Write(r, v)[2] = r + WRITE_MASK
           /\ Write(r, v)[3] = 1 /\ Write(r, v)[4] = v
  <1>1. r \in Int /\ r + WRITE_MASK \in Octet /\ W \in Octet /\ 1 \in Octet
    BY DEF Registers, WRITE_MASK, Octet, W, OP_MODE, FRF_MSB, FRF_MID, FRF_LSB,
           PA_CONFIG, TX_BASE, RX_BASE, MODEM_CONFIG1, MODEM_CONFIG2,
           PREAMBLE_MSB, PREAMBLE_LSB, MODEM_CONFIG3, PA_DAC
  <1> QED
    BY <1>1 DEF Write

\* A register is a number below WRITE_MASK and not 0.
LEMMA RegisterRange == Registers \subseteq 1 .. 127
  BY DEF Registers, OP_MODE, FRF_MSB, FRF_MID, FRF_LSB,
         PA_CONFIG, TX_BASE, RX_BASE, MODEM_CONFIG1, MODEM_CONFIG2,
         PREAMBLE_MSB, PREAMBLE_LSB, MODEM_CONFIG3, PA_DAC

\* One write command sets its register and leaves the others.
LEMMA EffectOne ==
    ASSUME NEW r \in Registers, NEW v \in Octet, r = OP_MODE => v = STDBY, NEW c
    PROVE  Effect(Write(r, v), c, With(c, r, v))
  <1> DEFINE s == Write(r, v)
             d == With(c, r, v)
  <1>1. /\ s \in Seq(Octet) /\ Len(s) = 4 /\ DOMAIN s = 1 .. 4
        /\ s[1] = W /\ s[2] = r + WRITE_MASK /\ s[3] = 1 /\ s[4] = v
    BY OneWrite
  <1>2. \A g \in Registers : d[g] = IF g = r THEN v ELSE c[g]
    BY DEF With
  <1>3. r \in Int
    BY RegisterRange
  <1> HIDE DEF s, d
  <1>4. \A i \in DOMAIN s, g \in Registers : Writes(s, i, g) <=> i = 2 /\ g = r
    BY <1>1, <1>3, RegisterRange DEF Writes, WRITE_MASK
  <1>5. Program(s)
    <2>1. OP_MODE \in Registers
      BY DEF Registers
    <2> QED
      BY <1>1, <1>3, <1>4, <2>1 DEF Program, WRITE_MASK
  <1>6. \A g \in Registers : Leaves(s, g, c[g], d[g])
    BY <1>1, <1>2, <1>4 DEF Leaves
  <1> QED
    BY <1>5, <1>6 DEF Effect, s, d

\* One program after the other.
LEMMA EffectConcat ==
    ASSUME NEW s, NEW t, NEW c, NEW d, NEW e, Effect(s, c, d), Effect(t, d, e)
    PROVE  Effect(s \o t, c, e)
  <1> DEFINE u == s \o t
             n == Len(s)
             m == Len(t)
  <1>1. /\ s \in Seq(Octet) /\ n \in Nat /\ n % 4 = 0 /\ DOMAIN s = 1 .. n
        /\ t \in Seq(Octet) /\ m \in Nat /\ m % 4 = 0 /\ DOMAIN t = 1 .. m
    BY LenProperties DEF Effect, Program
  <1>2. /\ u \in Seq(Octet) /\ Len(u) = n + m /\ DOMAIN u = 1 .. n + m
        /\ \A i \in 1 .. n : u[i] = s[i]
        /\ \A i \in 1 .. m : u[n + i] = t[i]
    BY <1>1, ConcatProperties, LenProperties
  <1> HIDE DEF u, n, m
  <1>3. \A i \in 1 .. n + m : i \in 1 .. n \/ (i - n \in 1 .. m /\ i = n + (i - n))
    BY <1>1
  <1>4. \A i \in 1 .. m : (n + i) % 4 = i % 4
    BY <1>1
  <1>5. (n + m) % 4 = 0
    BY <1>1
  <1>6. \A g : /\ \A i \in 1 .. n : Writes(u, i, g) <=> Writes(s, i, g)
               /\ \A i \in 1 .. m : Writes(u, n + i, g) <=> Writes(t, i, g)
    BY <1>2, <1>4 DEF Writes
  <1>7. Program(u)
    <2>1. /\ \A i \in 1 .. n : Writes(s, i, OP_MODE) => i + 2 \in 1 .. n
          /\ \A i \in 1 .. m : Writes(t, i, OP_MODE) => i + 2 \in 1 .. m
      BY <1>1 DEF Writes
    <2>2. ASSUME NEW i \in 1 .. n
          PROVE  /\ i % 4 = 1 => u[i] = W
                 /\ i % 4 = 2 => u[i] - WRITE_MASK \in Registers
                 /\ i % 4 = 3 => u[i] = 1
                 /\ Writes(u, i, OP_MODE) => u[i + 2] = STDBY
      BY <1>1, <1>2, <1>6, <2>1 DEF Effect, Program
    <2>3. ASSUME NEW i \in 1 .. m
          PROVE  /\ (n + i) % 4 = 1 => u[n + i] = W
                 /\ (n + i) % 4 = 2 => u[n + i] - WRITE_MASK \in Registers
                 /\ (n + i) % 4 = 3 => u[n + i] = 1
                 /\ Writes(u, n + i, OP_MODE) => u[(n + i) + 2] = STDBY
      <3>1. (n + i) + 2 = n + (i + 2) /\ (n + i) % 4 = i % 4 /\ u[n + i] = t[i]
        BY <1>1, <1>2, <1>4
      <3>2. /\ i % 4 = 1 => t[i] = W
            /\ i % 4 = 2 => t[i] - WRITE_MASK \in Registers
            /\ i % 4 = 3 => t[i] = 1
            /\ Writes(t, i, OP_MODE) => t[i + 2] = STDBY
        BY <1>1 DEF Effect, Program
      <3>3. Writes(u, n + i, OP_MODE) => u[(n + i) + 2] = STDBY
        <4>1. SUFFICES ASSUME Writes(t, i, OP_MODE)
                       PROVE  u[n + (i + 2)] = STDBY
          BY <1>6, <3>1
        <4>2. i + 2 \in 1 .. m
          BY <2>1, <4>1
        <4> QED
          BY <1>2, <3>2, <4>1, <4>2
      <3> QED
        BY <3>1, <3>2, <3>3
    <2> QED
      BY <1>2, <1>3, <1>5, <2>2, <2>3 DEF Program
  <1>8. ASSUME NEW g \in Registers
        PROVE  Leaves(u, g, c[g], e[g])
    <2>1. Leaves(s, g, c[g], d[g]) /\ Leaves(t, g, d[g], e[g])
      BY DEF Effect
    <2>2. CASE \E i \in 1 .. m : /\ Writes(t, i, g) /\ e[g] = t[i + 2]
                                 /\ \A j \in 1 .. m : j > i => ~Writes(t, j, g)
      <3>1. PICK i \in 1 .. m : /\ Writes(t, i, g) /\ e[g] = t[i + 2]
                                /\ \A j \in 1 .. m : j > i => ~Writes(t, j, g)
        BY <2>2
      <3>2. i + 2 \in 1 .. m /\ n + (i + 2) = (n + i) + 2 /\ n + i \in 1 .. n + m
        BY <1>1, <3>1 DEF Writes
      <3>3. Writes(u, n + i, g) /\ e[g] = u[(n + i) + 2]
        BY <1>2, <1>6, <3>1, <3>2
      <3>4. ASSUME NEW j \in 1 .. n + m, j > n + i
            PROVE  ~Writes(u, j, g)
        <4>1. j - n \in 1 .. m /\ j - n > i /\ j = n + (j - n)
          BY <1>1, <3>4
        <4> QED
          BY <1>6, <3>1, <4>1
      <3> QED
        BY <1>2, <3>2, <3>3, <3>4 DEF Leaves
    <2>3. CASE e[g] = d[g] /\ \A i \in 1 .. m : ~Writes(t, i, g)
      <3>1. \A j \in 1 .. n + m : Writes(u, j, g) => j \in 1 .. n /\ Writes(s, j, g)
        BY <1>3, <1>6, <2>3
      <3>2. CASE d[g] = c[g] /\ \A i \in 1 .. n : ~Writes(s, i, g)
        BY <1>2, <2>3, <3>1, <3>2 DEF Leaves
      <3>3. CASE \E i \in 1 .. n : /\ Writes(s, i, g) /\ d[g] = s[i + 2]
                                   /\ \A j \in 1 .. n : j > i => ~Writes(s, j, g)
        <4>1. PICK i \in 1 .. n : /\ Writes(s, i, g) /\ d[g] = s[i + 2]
                                  /\ \A j \in 1 .. n : j > i => ~Writes(s, j, g)
          BY <3>3
        <4>2. i + 2 \in 1 .. n /\ i \in 1 .. n + m
          BY <1>1, <4>1 DEF Writes
        <4>3. Writes(u, i, g) /\ e[g] = u[i + 2]
          BY <1>2, <1>6, <2>3, <4>1, <4>2
        <4>4. \A j \in 1 .. n + m : j > i => ~Writes(u, j, g)
          BY <3>1, <4>1
        <4> QED
          BY <1>2, <4>2, <4>3, <4>4 DEF Leaves
      <3> QED
        BY <1>1, <2>1, <3>2, <3>3 DEF Leaves
    <2> QED
      BY <1>1, <2>1, <2>2, <2>3 DEF Leaves
  <1> QED
    BY <1>7, <1>8 DEF Effect, u

\* What is left of a program when its first command has been executed.
LEMMA EffectDrop ==
    ASSUME NEW p, NEW c, NEW d, Effect(p, c, d), p # <<>>,
           NEW t \in Seq(Octet), Len(p) = Len(t) + 4,
           \A i \in 1 .. Len(t) : t[i] = p[i + 4]
    PROVE  Effect(t, With(c, p[2] - WRITE_MASK, p[4]), d)
  <1> DEFINE m == Len(t)
             b == With(c, p[2] - WRITE_MASK, p[4])
  <1>1. /\ p \in Seq(Octet) /\ Len(p) = m + 4 /\ DOMAIN p = 1 .. m + 4 /\ (m + 4) % 4 = 0
        /\ m \in Nat /\ DOMAIN t = 1 .. m
        /\ \A i \in 1 .. m : t[i] = p[i + 4]
    BY LenProperties DEF Effect, Program
  <1>2. \A g \in Registers : b[g] = IF Writes(p, 2, g) THEN p[4] ELSE c[g]
    <2>1. p[2] \in Int
      <3>1. 2 \in 1 .. m + 4
        BY <1>1
      <3>2. p[2] \in Octet
        BY <1>1, <3>1, ElementOfSeq
      <3> QED
        BY <3>2, OctetRange
    <2>2. \A g \in Registers : Writes(p, 2, g) <=> g = p[2] - WRITE_MASK
      BY <2>1, RegisterRange DEF Writes, WRITE_MASK
    <2> QED
      BY <2>2 DEF With
  <1> HIDE DEF m, b
  <1>3. \A i \in 1 .. m : (i + 4) % 4 = i % 4 /\ i + 4 \in 1 .. m + 4
    BY <1>1
  <1>4. \A g : \A i \in 1 .. m : Writes(t, i, g) <=> Writes(p, i + 4, g)
    BY <1>1, <1>3 DEF Writes
  <1>5. \A i \in 1 .. m : i % 4 = 2 => i + 2 \in 1 .. m
    BY <1>1
  <1>6. Program(t)
    <2>1. m % 4 = 0
      BY <1>1
    <2>2. ASSUME NEW i \in 1 .. m
          PROVE  /\ i % 4 = 1 => t[i] = W
                 /\ i % 4 = 2 => t[i] - WRITE_MASK \in Registers
                 /\ i % 4 = 3 => t[i] = 1
                 /\ Writes(t, i, OP_MODE) => t[i + 2] = STDBY
      <3>1. t[i] = p[i + 4] /\ (i + 4) % 4 = i % 4 /\ i + 4 \in DOMAIN p
        BY <1>1, <1>3
      <3>2. /\ (i + 4) % 4 = 1 => p[i + 4] = W
            /\ (i + 4) % 4 = 2 => p[i + 4] - WRITE_MASK \in Registers
            /\ (i + 4) % 4 = 3 => p[i + 4] = 1
            /\ Writes(p, i + 4, OP_MODE) => p[(i + 4) + 2] = STDBY
        BY <3>1 DEF Effect, Program
      <3>3. Writes(t, i, OP_MODE) => t[i + 2] = STDBY
        <4>1. SUFFICES ASSUME Writes(t, i, OP_MODE)
                       PROVE  t[i + 2] = STDBY
          OBVIOUS
        <4>2. i + 2 \in 1 .. m /\ (i + 4) + 2 = (i + 2) + 4
          BY <1>1, <1>5, <4>1 DEF Writes
        <4> QED
          BY <1>1, <1>4, <3>2, <4>1, <4>2
      <3> QED
        BY <3>1, <3>2, <3>3
    <2> QED
      BY <1>1, <2>1, <2>2 DEF Program, m
  <1>7. ASSUME NEW g \in Registers
        PROVE  Leaves(t, g, b[g], d[g])
    <2>1. Leaves(p, g, c[g], d[g])
      BY DEF Effect
    <2>2. CASE d[g] = c[g] /\ \A i \in 1 .. m + 4 : ~Writes(p, i, g)
      <3>1. \A i \in 1 .. m : ~Writes(t, i, g)
        BY <1>3, <1>4, <2>2
      <3>2. ~Writes(p, 2, g)
        BY <1>1, <2>2
      <3> QED
        BY <1>1, <1>2, <2>2, <3>1, <3>2 DEF Leaves
    <2>3. CASE \E i \in 1 .. m + 4 : /\ Writes(p, i, g) /\ d[g] = p[i + 2]
                                     /\ \A j \in 1 .. m + 4 : j > i => ~Writes(p, j, g)
      <3>1. PICK i \in 1 .. m + 4 : /\ Writes(p, i, g) /\ d[g] = p[i + 2]
                                    /\ \A j \in 1 .. m + 4 : j > i => ~Writes(p, j, g)
        BY <2>3
      <3>2. CASE i = 2
        <4>1. \A j \in 1 .. m : ~Writes(t, j, g)
          <5>1. \A j \in 1 .. m : j + 4 > i
            BY <1>1, <3>2
          <5> QED
            BY <1>3, <1>4, <3>1, <5>1
        <4>2. b[g] = p[4] /\ d[g] = p[4]
          BY <1>2, <3>1, <3>2
        <4> QED
          BY <1>1, <4>1, <4>2 DEF Leaves
      <3>3. CASE i # 2
        <4>1. i - 4 \in 1 .. m /\ i = (i - 4) + 4 /\ (i - 4) + 2 \in 1 .. m
              /\ i + 2 = ((i - 4) + 2) + 4
          <5>1. i \in Int /\ i % 4 = 2 /\ 1 <= i /\ i <= m + 4
            BY <1>1, <3>1 DEF Writes
          <5>2. i >= 6
            BY <3>3, <5>1
          <5>3. i + 2 <= m + 4
            BY <1>1, <5>1
          <5> QED
            BY <1>1, <5>1, <5>2, <5>3
        <4>2. Writes(t, i - 4, g) /\ d[g] = t[(i - 4) + 2]
          BY <1>1, <1>4, <3>1, <4>1
        <4>3. ASSUME NEW j \in 1 .. m, j > i - 4
              PROVE  ~Writes(t, j, g)
          <5>1. j + 4 > i
            BY <1>1, <4>3, <4>1
          <5> QED
            BY <1>3, <1>4, <3>1, <5>1
        <4> QED
          BY <1>1, <4>1, <4>2, <4>3 DEF Leaves
      <3> QED
        BY <3>2, <3>3
    <2> QED
      BY <1>1, <2>1, <2>2, <2>3 DEF Leaves
  <1> QED
    BY <1>6, <1>7 DEF Effect, b

\* An empty program leaves the registers as they are.
LEMMA EffectNothing ==
    ASSUME NEW c, NEW d, Effect(<<>>, c, d)
    PROVE  \A g \in Registers : d[g] = c[g]
  BY DEF Effect, Leaves

\* A program and one more write command.
LEMMA EffectThen ==
    ASSUME NEW s, NEW c, NEW d, Effect(s, c, d),
           NEW r \in Registers, NEW v \in Octet, r = OP_MODE => v = STDBY
    PROVE  Effect(s \o Write(r, v), c, With(d, r, v))
  BY EffectOne, EffectConcat

(***************************************************************************)
(* The setters, for every argument.                                        *)
(***************************************************************************)
\* The registers of the radio are different ones.
LEMMA SomeRegisters ==
    /\ {OP_MODE, FRF_MSB, FRF_MID, FRF_LSB, PA_CONFIG, TX_BASE, RX_BASE,
        MODEM_CONFIG1, MODEM_CONFIG2, PREAMBLE_MSB, PREAMBLE_LSB,
        MODEM_CONFIG3, PA_DAC} = Registers
    /\ STDBY \in Octet
    /\ OP_MODE \notin Registers \ {OP_MODE}
  BY DEF Registers, STDBY, Octet

\* Between() keeps the value within its limits.
LEMMA BetweenIs ==
    ASSUME NEW low \in Int, NEW high \in Int, low <= high, NEW x \in Int
    PROVE  Between(low, x, high) = IF x < low THEN low ELSE IF x > high THEN high ELSE x
  <1>1. ASSUME NEW a \in Int, NEW b \in Int
        PROVE  /\ Min({a, b}) = IF a < b THEN a ELSE b
               /\ Max({a, b}) = IF a > b THEN a ELSE b
    <2>1. PICK z \in {a, b} : \A y \in {a, b} : z <= y
      OBVIOUS
    <2>2. PICK z2 \in {a, b} : \A y \in {a, b} : z2 >= y
      OBVIOUS
    <2> QED
      BY <2>1, <2>2 DEF Min, Max
  <1> DEFINE n == IF x < high THEN x ELSE high
  <1>2. Min({x, high}) = n /\ n \in Int
    BY <1>1
  <1>3. Max({low, n}) = IF low > n THEN low ELSE n
    BY <1>1, <1>2
  <1> QED
    BY <1>2, <1>3 DEF Between

\* What the names of the largest values stand for.
LEMMA LastValues ==
    /\ LAST_24 \in Int /\ (\A f \in Int : f <= LAST_24 => f <= 16777215)
    /\ LAST_16 \in Int /\ (\A f \in Int : f <= LAST_16 => f <= 65535)
  BY SMT DEF LAST_24, LAST_16

\* A number of 24 bits and its three octets.
LEMMA ThreeOctets ==
    ASSUME NEW f \in Int, 0 <= f, f <= 16777215
    PROVE  /\ f \div 65536 \in 0 .. 255 /\ (f \div 256) % 256 \in 0 .. 255
           /\ f % 256 \in 0 .. 255
           /\ (f \div 65536) * 65536 + ((f \div 256) % 256) * 256 + (f % 256) = f
  <1> DEFINE q == f \div 256
  <1>1. f \div 65536 = q \div 256 /\ f \div 65536 \in 0 .. 255
    BY SMT
  <1>2. q \in Int /\ q * 256 + (f % 256) = f /\ f % 256 \in 0 .. 255
    BY SMT
  <1>3. (q \div 256) * 256 + (q % 256) = q /\ q % 256 \in 0 .. 255 /\ q \div 256 \in Int
    BY <1>2, SMT
  <1> QED
    BY <1>1, <1>2, <1>3, SMT

\* A number of 16 bits and its two octets.
LEMMA TwoOctets ==
    ASSUME NEW f \in Int, 0 <= f, f <= 65535
    PROVE  /\ f \div 256 \in 0 .. 255 /\ f % 256 \in 0 .. 255
           /\ (f \div 256) * 256 + (f % 256) = f
  BY SMT

\* setFrequency() writes the three octets of the frequency.
LEMMA FrequencySet ==
    ASSUME NEW f \in 0 .. LAST_24, NEW c
    PROVE  \E d : /\ Effect(SetFrequency(f), c, d) /\ FrequencyIs(d, f)
                  /\ Same(c, d, {FRF_MSB, FRF_MID, FRF_LSB})
  <1> DEFINE x == f \div 65536
             y == (f \div 256) % 256
             z == f % 256
             d1 == With(c, FRF_MSB, x)
             d2 == With(d1, FRF_MID, y)
             d3 == With(d2, FRF_LSB, z)
  <1>1. x \in Octet /\ y \in Octet /\ z \in Octet /\ x * 65536 + y * 256 + z = f
    <2>1. f \in Int /\ 0 <= f /\ f <= LAST_24
      BY LastValues
    <2>2. f <= 16777215
      BY <2>1, LastValues
    <2> QED
      BY <2>1, <2>2, ThreeOctets DEF Octet
  <1>2. /\ FRF_MSB \in Registers /\ FRF_MID \in Registers /\ FRF_LSB \in Registers
        /\ FRF_MSB # OP_MODE /\ FRF_MID # OP_MODE /\ FRF_LSB # OP_MODE
        /\ FRF_MSB # FRF_MID /\ FRF_MSB # FRF_LSB /\ FRF_MID # FRF_LSB
    BY DEF Registers, OP_MODE, FRF_MSB, FRF_MID, FRF_LSB
  <1>3. d3[FRF_MSB] = x /\ d3[FRF_MID] = y /\ d3[FRF_LSB] = z
    BY <1>2 DEF With
  <1>4. Same(c, d3, {FRF_MSB, FRF_MID, FRF_LSB})
    BY DEF With, Same
  <1> HIDE DEF x, y, z
  <1>5. Effect(Write(FRF_MSB, x), c, d1)
    BY <1>1, <1>2, EffectOne
  <1> HIDE DEF d1
  <1>6. Effect(Write(FRF_MSB, x) \o Write(FRF_MID, y), c, d2)
    BY <1>1, <1>2, <1>5, EffectThen
  <1> HIDE DEF d2
  <1>7. Effect((Write(FRF_MSB, x) \o Write(FRF_MID, y)) \o Write(FRF_LSB, z), c, d3)
    BY <1>1, <1>2, <1>6, EffectThen
  <1> HIDE DEF d3
  <1>8. Effect(SetFrequency(f), c, d3)
    BY <1>7 DEF SetFrequency, x, y, z
  <1>9. FrequencyIs(d3, f)
    BY <1>1, <1>3 DEF FrequencyIs
  <1> QED
    BY <1>4, <1>8, <1>9

\* setPreambleLength() writes the two octets of the length.
LEMMA PreambleSet ==
    ASSUME NEW n \in 0 .. LAST_16, NEW c
    PROVE  \E d : /\ Effect(SetPreambleLength(n), c, d) /\ PreambleIs(d, n)
                  /\ Same(c, d, {PREAMBLE_MSB, PREAMBLE_LSB})
  <1> DEFINE x == n \div 256
             y == n % 256
             d1 == With(c, PREAMBLE_MSB, x)
             d2 == With(d1, PREAMBLE_LSB, y)
  <1>1. x \in Octet /\ y \in Octet /\ x * 256 + y = n
    <2>1. n \in Int /\ 0 <= n /\ n <= LAST_16
      BY LastValues
    <2>2. n <= 65535
      BY <2>1, LastValues
    <2> QED
      BY <2>1, <2>2, TwoOctets DEF Octet
  <1>2. /\ PREAMBLE_MSB \in Registers /\ PREAMBLE_LSB \in Registers
        /\ PREAMBLE_MSB # OP_MODE /\ PREAMBLE_LSB # OP_MODE
        /\ PREAMBLE_MSB # PREAMBLE_LSB
    BY DEF Registers, OP_MODE, PREAMBLE_MSB, PREAMBLE_LSB
  <1>3. d2[PREAMBLE_MSB] = x /\ d2[PREAMBLE_LSB] = y
    BY <1>2 DEF With
  <1>4. Same(c, d2, {PREAMBLE_MSB, PREAMBLE_LSB})
    BY DEF With, Same
  <1> HIDE DEF x, y
  <1>5. Effect(Write(PREAMBLE_MSB, x), c, d1)
    BY <1>1, <1>2, EffectOne
  <1> HIDE DEF d1
  <1>6. Effect(Write(PREAMBLE_MSB, x) \o Write(PREAMBLE_LSB, y), c, d2)
    BY <1>1, <1>2, <1>5, EffectThen
  <1> HIDE DEF d2
  <1>7. Effect(SetPreambleLength(n), c, d2)
    BY <1>6 DEF SetPreambleLength, x, y
  <1>8. PreambleIs(d2, n)
    BY <1>1, <1>3 DEF PreambleIs
  <1> QED
    BY <1>4, <1>7, <1>8

\* The rows of the table of modem configurations are three octets each.
LEMMA ModemRows ==
    ASSUME NEW m \in 0 .. 3
    PROVE  /\ ModemConfig[m] = <<ModemConfig[m][1], ModemConfig[m][2], ModemConfig[m][3]>>
           /\ ModemConfig[m][1] \in Octet /\ ModemConfig[m][2] \in Octet
           /\ ModemConfig[m][3] \in Octet
  <1>1. /\ ModemConfig[0] = <<114, 116, 0>> /\ ModemConfig[1] = <<146, 116, 0>>
        /\ ModemConfig[2] = <<72, 148, 0>> /\ ModemConfig[3] = <<120, 196, 0>>
    BY DEF ModemConfig
  <1>2. m = 0 \/ m = 1 \/ m = 2 \/ m = 3
    OBVIOUS
  <1> QED
    BY <1>1, <1>2 DEF Octet

\* setModemConfig() writes the three octets of a row of the table.
LEMMA ModemSet ==
    ASSUME NEW m \in 0 .. 3, NEW c
    PROVE  \E d : /\ Effect(SetModemConfig(m), c, d) /\ ModemIs(d, m)
                  /\ Same(c, d, {MODEM_CONFIG1, MODEM_CONFIG2, MODEM_CONFIG3})
  <1> DEFINE x == ModemConfig[m][1]
             y == ModemConfig[m][2]
             z == ModemConfig[m][3]
             d1 == With(c, MODEM_CONFIG1, x)
             d2 == With(d1, MODEM_CONFIG2, y)
             d3 == With(d2, MODEM_CONFIG3, z)
  <1>1. x \in Octet /\ y \in Octet /\ z \in Octet /\ ModemConfig[m] = <<x, y, z>>
    BY ModemRows
  <1>2. /\ MODEM_CONFIG1 \in Registers /\ MODEM_CONFIG2 \in Registers
        /\ MODEM_CONFIG3 \in Registers
        /\ MODEM_CONFIG1 # OP_MODE /\ MODEM_CONFIG2 # OP_MODE /\ MODEM_CONFIG3 # OP_MODE
        /\ MODEM_CONFIG1 # MODEM_CONFIG2 /\ MODEM_CONFIG1 # MODEM_CONFIG3
        /\ MODEM_CONFIG2 # MODEM_CONFIG3
    BY DEF Registers, OP_MODE, MODEM_CONFIG1, MODEM_CONFIG2, MODEM_CONFIG3
  <1>3. SetModemConfig(m) = (Write(MODEM_CONFIG1, x) \o Write(MODEM_CONFIG2, y))
                                \o Write(MODEM_CONFIG3, z)
    BY DEF SetModemConfig
  <1> HIDE DEF x, y, z
  <1>4. d3[MODEM_CONFIG1] = x /\ d3[MODEM_CONFIG2] = y /\ d3[MODEM_CONFIG3] = z
    BY <1>2 DEF With
  <1>5. Same(c, d3, {MODEM_CONFIG1, MODEM_CONFIG2, MODEM_CONFIG3})
    BY DEF With, Same
  <1>6. Effect(Write(MODEM_CONFIG1, x), c, d1)
    BY <1>1, <1>2, EffectOne
  <1> HIDE DEF d1
  <1>7. Effect(Write(MODEM_CONFIG1, x) \o Write(MODEM_CONFIG2, y), c, d2)
    BY <1>1, <1>2, <1>6, EffectThen
  <1> HIDE DEF d2
  <1>8. Effect(SetModemConfig(m), c, d3)
    BY <1>1, <1>2, <1>3, <1>7, EffectThen
  <1> HIDE DEF d3
  <1>9. ModemIs(d3, m)
    BY <1>1, <1>4 DEF ModemIs
  <1> QED
    BY <1>5, <1>8, <1>9

\* setTxPower() sets the power, within the limits of the output it is asked for.
LEMMA PowerSet ==
    ASSUME NEW power \in -128 .. 127, NEW useRFO \in BOOLEAN, NEW c
    PROVE  \E d : /\ Effect(SetTxPower(power, useRFO), c, d)
                  /\ PowerIs(d, <<power, useRFO>>)
                  /\ Same(c, d, {PA_CONFIG, PA_DAC})
  <1> DEFINE p == Between(5, power, 23)
             q == Between(-1, power, 14)
  <1>1. p \in 5 .. 23 /\ q \in -1 .. 14
    BY BetweenIs
  <1>2. PA_CONFIG \in Registers /\ PA_DAC \in Registers /\ PA_CONFIG # PA_DAC
        /\ PA_CONFIG # OP_MODE /\ PA_DAC # OP_MODE
    BY DEF Registers, PA_CONFIG, PA_DAC, OP_MODE
  <1>3. CASE useRFO
    <2> DEFINE v == MAX_POWER + q + 1
               d == With(c, PA_CONFIG, v)
    <2>1. v \in Octet /\ v < PA_SELECT /\ (v % 16) - 1 = q
      BY <1>1 DEF MAX_POWER, PA_SELECT, Octet
    <2>2. d[PA_CONFIG] = v /\ Same(c, d, {PA_CONFIG, PA_DAC})
      BY <1>2 DEF With, Same
    <2>3. SetTxPower(power, useRFO) = Write(PA_CONFIG, v)
      BY <1>3 DEF SetTxPower
    <2> HIDE DEF v
    <2>4. Effect(SetTxPower(power, useRFO), c, d)
      BY <1>2, <2>1, <2>3, EffectOne
    <2> HIDE DEF d
    <2>5. PowerIs(d, <<power, useRFO>>)
      BY <1>3, <2>1, <2>2 DEF PowerIs
    <2> QED
      BY <2>2, <2>4, <2>5
  <1>4. CASE ~useRFO
    <2> DEFINE w == IF p > 20 THEN PA_DAC_ENABLE ELSE PA_DAC_DISABLE
               v == IF p > 20 THEN PA_SELECT + (p - 3) - 5 ELSE PA_SELECT + p - 5
               d1 == With(c, PA_DAC, w)
               d == With(d1, PA_CONFIG, v)
    <2>1. /\ v \in Octet /\ w \in Octet /\ v >= PA_SELECT
          /\ (v % 16) + 5 + (IF w = PA_DAC_ENABLE THEN 3 ELSE 0) = p
      BY <1>1 DEF PA_SELECT, PA_DAC_ENABLE, PA_DAC_DISABLE, Octet
    <2>2. d[PA_CONFIG] = v /\ d[PA_DAC] = w /\ Same(c, d, {PA_CONFIG, PA_DAC})
      BY <1>2 DEF With, Same
    <2>3. SetTxPower(power, useRFO) = Write(PA_DAC, w) \o Write(PA_CONFIG, v)
      BY <1>4 DEF SetTxPower
    <2> HIDE DEF v, w
    <2>4. Effect(Write(PA_DAC, w), c, d1)
      BY <1>2, <2>1, EffectOne
    <2> HIDE DEF d1
    <2>5. Effect(SetTxPower(power, useRFO), c, d)
      BY <1>2, <2>1, <2>3, <2>4, EffectThen
    <2> HIDE DEF d
    <2>6. PowerIs(d, <<power, useRFO>>)
      BY <1>4, <2>1, <2>2 DEF PowerIs
    <2> QED
      BY <2>2, <2>5, <2>6
  <1> QED
    BY <1>3, <1>4

(***************************************************************************)
(* What a call of a setter, and init(), leave.                             *)
(***************************************************************************)
\* A setter leaves what the other setters have set.
LEMMA OthersKept ==
    ASSUME NEW c, NEW d, NEW a
    PROVE  /\ Same(c, d, {PA_CONFIG, PA_DAC}) =>
                /\ FrequencyIs(c, a.frf) => FrequencyIs(d, a.frf)
                /\ PreambleIs(c, a.preamble) => PreambleIs(d, a.preamble)
                /\ ModemIs(c, a.modem) => ModemIs(d, a.modem)
                /\ d[OP_MODE] = c[OP_MODE]
           /\ Same(c, d, {FRF_MSB, FRF_MID, FRF_LSB}) =>
                /\ PowerIs(c, a.power) => PowerIs(d, a.power)
                /\ PreambleIs(c, a.preamble) => PreambleIs(d, a.preamble)
                /\ ModemIs(c, a.modem) => ModemIs(d, a.modem)
                /\ d[OP_MODE] = c[OP_MODE]
           /\ Same(c, d, {PREAMBLE_MSB, PREAMBLE_LSB}) =>
                /\ PowerIs(c, a.power) => PowerIs(d, a.power)
                /\ FrequencyIs(c, a.frf) => FrequencyIs(d, a.frf)
                /\ ModemIs(c, a.modem) => ModemIs(d, a.modem)
                /\ d[OP_MODE] = c[OP_MODE]
           /\ Same(c, d, {MODEM_CONFIG1, MODEM_CONFIG2, MODEM_CONFIG3}) =>
                /\ PowerIs(c, a.power) => PowerIs(d, a.power)
                /\ FrequencyIs(c, a.frf) => FrequencyIs(d, a.frf)
                /\ PreambleIs(c, a.preamble) => PreambleIs(d, a.preamble)
                /\ d[OP_MODE] = c[OP_MODE]
  <1> USE DEF OP_MODE, FRF_MSB, FRF_MID, FRF_LSB, PA_CONFIG, MODEM_CONFIG1, MODEM_CONFIG2,
              PREAMBLE_MSB, PREAMBLE_LSB, MODEM_CONFIG3, PA_DAC
  <1>1. ASSUME NEW S, Same(c, d, S), S \subseteq Registers
        PROVE  /\ PA_CONFIG \notin S /\ PA_DAC \notin S =>
                    d[PA_CONFIG] = c[PA_CONFIG] /\ d[PA_DAC] = c[PA_DAC]
               /\ FRF_MSB \notin S /\ FRF_MID \notin S /\ FRF_LSB \notin S =>
                    d[FRF_MSB] = c[FRF_MSB] /\ d[FRF_MID] = c[FRF_MID]
                        /\ d[FRF_LSB] = c[FRF_LSB]
               /\ PREAMBLE_MSB \notin S /\ PREAMBLE_LSB \notin S =>
                    d[PREAMBLE_MSB] = c[PREAMBLE_MSB] /\ d[PREAMBLE_LSB] = c[PREAMBLE_LSB]
               /\ MODEM_CONFIG1 \notin S /\ MODEM_CONFIG2 \notin S /\ MODEM_CONFIG3 \notin S =>
                    d[MODEM_CONFIG1] = c[MODEM_CONFIG1] /\ d[MODEM_CONFIG2] = c[MODEM_CONFIG2]
                        /\ d[MODEM_CONFIG3] = c[MODEM_CONFIG3]
               /\ OP_MODE \notin S => d[OP_MODE] = c[OP_MODE]
    BY <1>1 DEF Same, Registers
  <1>2. ASSUME Same(c, d, {PA_CONFIG, PA_DAC})
        PROVE  /\ FrequencyIs(c, a.frf) => FrequencyIs(d, a.frf)
               /\ PreambleIs(c, a.preamble) => PreambleIs(d, a.preamble)
               /\ ModemIs(c, a.modem) => ModemIs(d, a.modem)
               /\ d[OP_MODE] = c[OP_MODE]
    <2>1. {PA_CONFIG, PA_DAC} \subseteq Registers
      BY DEF Registers
    <2> QED
      BY <1>1, <1>2, <2>1 DEF FrequencyIs, PreambleIs, ModemIs
  <1>3. ASSUME Same(c, d, {FRF_MSB, FRF_MID, FRF_LSB})
        PROVE  /\ PowerIs(c, a.power) => PowerIs(d, a.power)
               /\ PreambleIs(c, a.preamble) => PreambleIs(d, a.preamble)
               /\ ModemIs(c, a.modem) => ModemIs(d, a.modem)
               /\ d[OP_MODE] = c[OP_MODE]
    <2>1. {FRF_MSB, FRF_MID, FRF_LSB} \subseteq Registers
      BY DEF Registers
    <2> QED
      BY <1>1, <1>3, <2>1 DEF PowerIs, PreambleIs, ModemIs
  <1>4. ASSUME Same(c, d, {PREAMBLE_MSB, PREAMBLE_LSB})
        PROVE  /\ PowerIs(c, a.power) => PowerIs(d, a.power)
               /\ FrequencyIs(c, a.frf) => FrequencyIs(d, a.frf)
               /\ ModemIs(c, a.modem) => ModemIs(d, a.modem)
               /\ d[OP_MODE] = c[OP_MODE]
    <2>1. {PREAMBLE_MSB, PREAMBLE_LSB} \subseteq Registers
      BY DEF Registers
    <2> QED
      BY <1>1, <1>4, <2>1 DEF PowerIs, FrequencyIs, ModemIs
  <1>5. ASSUME Same(c, d, {MODEM_CONFIG1, MODEM_CONFIG2, MODEM_CONFIG3})
        PROVE  /\ PowerIs(c, a.power) => PowerIs(d, a.power)
               /\ FrequencyIs(c, a.frf) => FrequencyIs(d, a.frf)
               /\ PreambleIs(c, a.preamble) => PreambleIs(d, a.preamble)
               /\ d[OP_MODE] = c[OP_MODE]
    <2>1. {MODEM_CONFIG1, MODEM_CONFIG2, MODEM_CONFIG3} \subseteq Registers
      BY DEF Registers
    <2> QED
      BY <1>1, <1>5, <2>1 DEF PowerIs, FrequencyIs, PreambleIs
  <1> QED
    BY <1>2, <1>3, <1>4, <1>5

\* The arguments a with those of one setter replaced.
LEMMA OneReplaced ==
    ASSUME NEW a \in Arguments
    PROVE  /\ \A p \in Power :
                 LET b == [a EXCEPT !["power"] = p]
                 IN  /\ b \in Arguments /\ b.power = p /\ b.frf = a.frf
                     /\ b.preamble = a.preamble /\ b.modem = a.modem
           /\ \A f \in 0 .. LAST_24 :
                 LET b == [a EXCEPT !["frf"] = f]
                 IN  /\ b \in Arguments /\ b.frf = f /\ b.power = a.power
                     /\ b.preamble = a.preamble /\ b.modem = a.modem
           /\ \A n \in 0 .. LAST_16 :
                 LET b == [a EXCEPT !["preamble"] = n]
                 IN  /\ b \in Arguments /\ b.preamble = n /\ b.power = a.power
                     /\ b.frf = a.frf /\ b.modem = a.modem
           /\ \A m \in 0 .. 3 :
                 LET b == [a EXCEPT !["modem"] = m]
                 IN  /\ b \in Arguments /\ b.modem = m /\ b.power = a.power
                     /\ b.frf = a.frf /\ b.preamble = a.preamble
  BY DEF Arguments

\* A call of a setter on a radio that is configured as asked.
LEMMA SetterConfigures ==
    ASSUME NEW a \in Arguments, NEW c, Means(c, a)
    PROVE  /\ \A p \in Power :
                 Configures(SetTxPower(p[1], p[2]), c, [a EXCEPT !["power"] = p])
           /\ \A f \in 0 .. LAST_24 :
                 Configures(SetFrequency(f), c, [a EXCEPT !["frf"] = f])
           /\ \A n \in 0 .. LAST_16 :
                 Configures(SetPreambleLength(n), c, [a EXCEPT !["preamble"] = n])
           /\ \A m \in 0 .. 3 :
                 Configures(SetModemConfig(m), c, [a EXCEPT !["modem"] = m])
  <1>1. ASSUME NEW p \in Power
        PROVE  Configures(SetTxPower(p[1], p[2]), c, [a EXCEPT !["power"] = p])
    <2> DEFINE b == [a EXCEPT !["power"] = p]
    <2>1. p[1] \in -128 .. 127 /\ p[2] \in BOOLEAN /\ p = <<p[1], p[2]>>
      BY DEF Power
    <2>2. PICK d : /\ Effect(SetTxPower(p[1], p[2]), c, d) /\ PowerIs(d, p)
                   /\ Same(c, d, {PA_CONFIG, PA_DAC})
      BY <2>1, PowerSet
    <2>3. b.power = p /\ b.frf = a.frf /\ b.preamble = a.preamble /\ b.modem = a.modem
      BY OneReplaced
    <2> HIDE DEF b
    <2>4. Means(d, b)
      BY <2>2, <2>3, OthersKept DEF Means
    <2>5. Configures(SetTxPower(p[1], p[2]), c, b)
      BY <2>2, <2>4 DEF Configures
    <2> QED
      BY <2>5 DEF b
  <1>2. ASSUME NEW f \in 0 .. LAST_24
        PROVE  Configures(SetFrequency(f), c, [a EXCEPT !["frf"] = f])
    <2> DEFINE b == [a EXCEPT !["frf"] = f]
    <2>1. PICK d : /\ Effect(SetFrequency(f), c, d) /\ FrequencyIs(d, f)
                   /\ Same(c, d, {FRF_MSB, FRF_MID, FRF_LSB})
      BY FrequencySet
    <2>2. b.frf = f /\ b.power = a.power /\ b.preamble = a.preamble /\ b.modem = a.modem
      BY OneReplaced
    <2> HIDE DEF b
    <2>3. Means(d, b)
      BY <2>1, <2>2, OthersKept DEF Means
    <2>4. Configures(SetFrequency(f), c, b)
      BY <2>1, <2>3 DEF Configures
    <2> QED
      BY <2>4 DEF b
  <1>3. ASSUME NEW n \in 0 .. LAST_16
        PROVE  Configures(SetPreambleLength(n), c, [a EXCEPT !["preamble"] = n])
    <2> DEFINE b == [a EXCEPT !["preamble"] = n]
    <2>1. PICK d : /\ Effect(SetPreambleLength(n), c, d) /\ PreambleIs(d, n)
                   /\ Same(c, d, {PREAMBLE_MSB, PREAMBLE_LSB})
      BY PreambleSet
    <2>2. b.preamble = n /\ b.power = a.power /\ b.frf = a.frf /\ b.modem = a.modem
      BY OneReplaced
    <2> HIDE DEF b
    <2>3. Means(d, b)
      BY <2>1, <2>2, OthersKept DEF Means
    <2>4. Configures(SetPreambleLength(n), c, b)
      BY <2>1, <2>3 DEF Configures
    <2> QED
      BY <2>4 DEF b
  <1>4. ASSUME NEW m \in 0 .. 3
        PROVE  Configures(SetModemConfig(m), c, [a EXCEPT !["modem"] = m])
    <2> DEFINE b == [a EXCEPT !["modem"] = m]
    <2>1. PICK d : /\ Effect(SetModemConfig(m), c, d) /\ ModemIs(d, m)
                   /\ Same(c, d, {MODEM_CONFIG1, MODEM_CONFIG2, MODEM_CONFIG3})
      BY ModemSet
    <2>2. b.modem = m /\ b.power = a.power /\ b.frf = a.frf /\ b.preamble = a.preamble
      BY OneReplaced
    <2> HIDE DEF b
    <2>3. Means(d, b)
      BY <2>1, <2>2, OthersKept DEF Means
    <2>4. Configures(SetModemConfig(m), c, b)
      BY <2>1, <2>3 DEF Configures
    <2> QED
      BY <2>4 DEF b
  <1> QED
    BY <1>1, <1>2, <1>3, <1>4

\* The arguments init() configures the radio with.
LEMMA DefaultArguments ==
    /\ Default \in Arguments
    /\ Default.power = <<13, FALSE>> /\ Default.power[1] = 13 /\ Default.power[2] = FALSE
    /\ Default.frf \in 0 .. LAST_24 /\ Default.preamble \in 0 .. LAST_16
    /\ Default.modem \in 0 .. 3
  <1>1. /\ Default.power = <<13, FALSE>> /\ Default.frf = FRF_868
        /\ Default.preamble = 8 /\ Default.modem = 0
    BY Zenon DEF Default
  <1>2. FRF_868 \in 0 .. LAST_24 /\ 8 \in 0 .. LAST_16
    <2>1. FRF_868 \in Int /\ 0 <= FRF_868 /\ FRF_868 <= LAST_24
      BY SMT DEF FRF_868, LAST_24
    <2>2. 8 <= LAST_16
      BY SMT DEF LAST_16
    <2> QED
      BY <2>1, <2>2, LastValues
  <1>3. <<13, FALSE>> \in Power
    <2>1. 13 \in -128 .. 127 /\ FALSE \in BOOLEAN
      OBVIOUS
    <2> QED
      BY <2>1, Zenon DEF Power
  <1>4. 0 \in 0 .. 3
    OBVIOUS
  <1>5. Default \in Arguments
    <2>1. \A p \in Power, f \in 0 .. LAST_24, n \in 0 .. LAST_16, m \in 0 .. 3 :
             [power |-> p, frf |-> f, preamble |-> n, modem |-> m] \in Arguments
      BY DEF Arguments
    <2> QED
      BY <1>2, <1>3, <1>4, <2>1, Zenon DEF Default
  <1>6. Default.power[1] = 13 /\ Default.power[2] = FALSE
    <2>1. \A a, b : <<a, b>>[1] = a /\ <<a, b>>[2] = b
      OBVIOUS
    <2>2. <<13, FALSE>>[1] = 13 /\ <<13, FALSE>>[2] = FALSE
      BY <2>1, Zenon
    <2> QED
      BY <1>1, <2>2, Zenon
  <1> QED
    BY <1>1, <1>2, <1>4, <1>5, <1>6, Zenon

\* init() configures a radio whatever its registers were.
LEMMA InitConfigures ==
    ASSUME NEW c
    PROVE  Configures(Configure, c, Default)
  <1> DEFINE c1 == With(c, TX_BASE, 0)
             c2 == With(c1, RX_BASE, 0)
             c3 == With(c2, OP_MODE, STDBY)
             s3 == (Write(TX_BASE, 0) \o Write(RX_BASE, 0)) \o Write(OP_MODE, STDBY)
             a == Default
             s4 == s3 \o SetModemConfig(a.modem)
             s5 == s4 \o SetPreambleLength(a.preamble)
             s6 == s5 \o SetFrequency(a.frf)
             s7 == s6 \o SetTxPower(a.power[1], a.power[2])
  <1>1. /\ TX_BASE \in Registers /\ RX_BASE \in Registers /\ OP_MODE \in Registers
        /\ TX_BASE # OP_MODE /\ RX_BASE # OP_MODE /\ 0 \in Octet /\ STDBY \in Octet
    BY DEF Registers, OP_MODE, TX_BASE, RX_BASE, Octet, STDBY
  <1>2. s7 = Configure
    BY DEF Configure
  <1>3. c3[OP_MODE] = STDBY
    BY <1>1 DEF With
  <1>4. Effect(Write(TX_BASE, 0), c, c1)
    BY <1>1, EffectOne
  <1> HIDE DEF c1
  <1>5. Effect(Write(TX_BASE, 0) \o Write(RX_BASE, 0), c, c2)
    BY <1>1, <1>4, EffectThen
  <1> HIDE DEF c2
  <1>6. Effect(s3, c, c3)
    BY <1>1, <1>5, EffectThen
  <1> HIDE DEF c3, s3, a
  <1>7. PICK c4 : /\ Effect(SetModemConfig(a.modem), c3, c4) /\ ModemIs(c4, a.modem)
                  /\ Same(c3, c4, {MODEM_CONFIG1, MODEM_CONFIG2, MODEM_CONFIG3})
    BY DefaultArguments, ModemSet DEF a
  <1>8. PICK c5 : /\ Effect(SetPreambleLength(a.preamble), c4, c5)
                  /\ PreambleIs(c5, a.preamble) /\ Same(c4, c5, {PREAMBLE_MSB, PREAMBLE_LSB})
    BY DefaultArguments, PreambleSet DEF a
  <1>9. PICK c6 : /\ Effect(SetFrequency(a.frf), c5, c6)
                  /\ FrequencyIs(c6, a.frf) /\ Same(c5, c6, {FRF_MSB, FRF_MID, FRF_LSB})
    BY DefaultArguments, FrequencySet DEF a
  <1>10. PICK c7 : /\ Effect(SetTxPower(a.power[1], a.power[2]), c6, c7)
                   /\ PowerIs(c7, a.power) /\ Same(c6, c7, {PA_CONFIG, PA_DAC})
    <2>1. 13 \in -128 .. 127 /\ FALSE \in BOOLEAN
      OBVIOUS
    <2>2. \E d : /\ Effect(SetTxPower(13, FALSE), c6, d) /\ PowerIs(d, <<13, FALSE>>)
                 /\ Same(c6, d, {PA_CONFIG, PA_DAC})
      BY <2>1, PowerSet
    <2> QED
      BY <2>2, DefaultArguments DEF a
  <1>11. Effect(s4, c, c4)
    BY <1>6, <1>7, EffectConcat
  <1> HIDE DEF s4
  <1>12. Effect(s5, c, c5)
    BY <1>8, <1>11, EffectConcat
  <1> HIDE DEF s5
  <1>13. Effect(s6, c, c6)
    BY <1>9, <1>12, EffectConcat
  <1> HIDE DEF s6
  <1>14. Effect(s7, c, c7)
    BY <1>10, <1>13, EffectConcat
  <1> HIDE DEF s7
  <1>15. Means(c7, a)
    <2>1. c4[OP_MODE] = STDBY
      BY <1>3, <1>7, OthersKept
    <2>2. c5[OP_MODE] = STDBY /\ ModemIs(c5, a.modem)
      BY <1>7, <1>8, <2>1, OthersKept
    <2>3. c6[OP_MODE] = STDBY /\ ModemIs(c6, a.modem) /\ PreambleIs(c6, a.preamble)
      BY <1>8, <1>9, <2>2, OthersKept
    <2> QED
      BY <1>9, <1>10, <2>3, OthersKept DEF Means
  <1> QED
    BY <1>2, <1>14, <1>15 DEF Configures, a

-----------------------------------------------------------------------------
(***************************************************************************)
(* What the firmware does with one octet.                                  *)
(***************************************************************************)
\* A command that is not complete has at most two octets if it is a read.
LEMMA PartialRead ==
    ASSUME NEW s \in Seq(Octet), Partial(s), s # <<>>, s[1] = R
    PROVE  Len(s) \in {1, 2}
  <1>1. Len(s) \in Nat /\ Len(s) # 0
    BY LenProperties, EmptySeq
  <1>2. ~(Len(s) >= 3)
    BY DEF Partial, Complete
  <1>3. \A n \in Nat : n # 0 /\ ~(n >= 3) => n \in {1, 2}
    OBVIOUS
  <1> QED
    BY <1>1, <1>2, <1>3, Zenon

\* What the reply to a read command is made of.
LEMMA ReplyTypes ==
    ASSUME chip \in [Registers -> Octet], NEW reg \in Octet, NEW n \in Octet,
           NEW stray \in Octet
    PROVE  /\ Reply(reg, n, stray) \in Seq(Octet) /\ Len(Reply(reg, n, stray)) = n
           /\ \A i \in 1 .. n : Reply(reg, n, stray)[i] =
                 IF reg + i - 1 \in Touched(reg, n) THEN chip[reg + i - 1] ELSE stray
  <1> DEFINE v(i) == IF reg + i - 1 \in Touched(reg, n) THEN chip[reg + i - 1] ELSE stray
             f == [i \in 1 .. n |-> v(i)]
  <1>1. n \in Nat
    BY OctetRange
  <1>2. \A i \in 1 .. n : v(i) \in Octet
    BY DEF Touched
  <1>3. Reply(reg, n, stray) = f
    BY DEF Reply
  <1> HIDE DEF v
  <1>4. f \in [1 .. n -> Octet] /\ \A i \in 1 .. n : f[i] = v(i)
    BY <1>2
  <1> HIDE DEF f
  <1>5. f \in Seq(Octet)
    BY <1>1, <1>4, IsASeq DEF f
  <1>6. Len(f) = n
    BY <1>1, <1>4, <1>5, LenProperties
  <1> QED
    BY <1>3, <1>4, <1>5, <1>6 DEF v

\* The reply to a read of one register.
LEMMA ReplyOne ==
    ASSUME NEW r \in Registers, NEW stray \in Octet
    PROVE  Reply(r, 1, stray) = <<chip[r]>>
  <1>1. r \in Touched(r, 1) /\ r + 1 - 1 = r
    BY RegisterRange DEF Touched
  <1>2. \A i \in 1 .. 1 : i = 1
    OBVIOUS
  <1>3. Reply(r, 1, stray) = [i \in 1 .. 1 |-> chip[r]]
    BY <1>1, <1>2 DEF Reply
  <1> QED
    BY <1>3

\* An executed command leaves octets in the registers and on the line.
LEMMA ExecuteTypes ==
    ASSUME chip \in [Registers -> Octet], back \in Seq(Octet),
           NEW command \in {W, R}, NEW reg \in Octet, NEW n \in Octet,
           NEW data \in Seq(Octet), Execute(command, reg, n, data)
    PROVE  chip' \in [Registers -> Octet] /\ back' \in Seq(Octet)
  <1>1. chip' \in [Registers -> Octet]
    <2>1. ASSUME NEW d \in Seq(Octet), WriteRegisters(reg - WRITE_MASK, d)
          PROVE  chip' \in [Registers -> Octet]
      <3> DEFINE a == reg - WRITE_MASK
      <3>1. a \in Int /\ Len(d) \in Nat
        BY OctetRange, LenProperties DEF WRITE_MASK
      <3>2. ASSUME NEW r \in Registers, r \in Touched(a, Len(d))
            PROVE  d[r - a + 1] \in Octet
        <4>1. r \in Int /\ r \in a .. a + Len(d) - 1
          BY <3>2, RegisterRange DEF Touched
        <4>2. r - a + 1 \in 1 .. Len(d)
          BY <3>1, <4>1
        <4> QED
          BY <4>2, ElementOfSeq
      <3>3. chip' = [r \in Registers |-> IF r \in Touched(a, Len(d))
                                         THEN d[r - a + 1] ELSE chip[r]]
        BY <2>1 DEF WriteRegisters
      <3> QED
        BY <3>2, <3>3
    <2>2. [i \in 1 .. n |-> 0] \in Seq(Octet)
      <3>1. n \in Nat /\ 0 \in Octet
        BY OctetRange DEF Octet
      <3> QED
        BY <3>1, IsASeq
    <2>3. CASE reg >= WRITE_MASK /\ command = W
      BY <2>1, <2>3 DEF Execute
    <2>4. CASE reg >= WRITE_MASK /\ command # W
      BY <2>1, <2>2, <2>4 DEF Execute
    <2>5. CASE ~(reg >= WRITE_MASK)
      BY <2>5 DEF Execute
    <2> QED
      BY <2>3, <2>4, <2>5
  <1>2. back' \in Seq(Octet)
    <2>1. CASE command = W /\ UNCHANGED back
      BY <2>1
    <2>2. CASE \E stray \in Strays : back' = back \o Reply(reg, n, stray)
      <3>1. PICK stray \in Strays : back' = back \o Reply(reg, n, stray)
        BY <2>2
      <3>2. stray \in Octet
        BY BridgeAssumption DEF Octet
      <3>3. Reply(reg, n, stray) \in Seq(Octet)
        BY <3>2, ReplyTypes
      <3> QED
        BY <3>1, <3>3, ConcatProperties
    <2> QED
      BY <2>1, <2>2 DEF Execute
  <1> QED
    BY <1>1, <1>2

\* Whatever octet comes, the firmware has a command that is not complete, or none.
LEMMA TakeTypes ==
    ASSUME TypeInv, NEW o \in Octet, Take(o)
    PROVE  /\ fw' \in Seq(Octet) /\ Partial(fw') /\ back' \in Seq(Octet)
           /\ chip' \in [Registers -> Octet]
  <1> DEFINE s == Append(fw, o)
  <1>1. s \in Seq(Octet) /\ Len(s) \in Nat /\ s # <<>>
    <2>1. fw \in Seq(Octet)
      BY DEF TypeInv
    <2>2. s \in Seq(Octet) /\ Len(s) = Len(fw) + 1
      BY <2>1, AppendProperties
    <2> QED
      BY <2>1, <2>2, LenProperties, EmptySeq
  <1>2. CASE UNCHANGED <<fw, chip, back>>
    BY <1>2 DEF TypeInv, Partial, Complete
  <1>3. CASE s[1] \in {W, R} /\ ~Complete(s) /\ fw' = s /\ UNCHANGED <<chip, back>>
    <2>1. Partial(fw')
      BY <1>1, <1>3 DEF Partial
    <2> QED
      BY <1>1, <1>3, <2>1 DEF TypeInv
  <1>4. CASE /\ s[1] \in {W, R} /\ Complete(s) /\ fw' = <<>>
             /\ Execute(s[1], s[2], s[3], SubSeq(s, 4, Len(s)))
    <2> HIDE DEF s
    <2>1. Len(s) >= 3
      BY <1>4 DEF Complete
    <2>2. 2 \in 1 .. Len(s) /\ 3 \in 1 .. Len(s) /\ 4 \in 1 .. Len(s) + 1
          /\ Len(s) \in 4 - 1 .. Len(s)
      BY <1>1, <2>1
    <2>3. s[2] \in Octet /\ s[3] \in Octet
      BY <1>1, <2>2, ElementOfSeq
    <2>4. SubSeq(s, 4, Len(s)) \in Seq(Octet)
      BY <1>1, <2>2, SubSeqProperties
    <2>5. chip' \in [Registers -> Octet] /\ back' \in Seq(Octet)
      BY <1>4, <2>3, <2>4, ExecuteTypes DEF TypeInv
    <2>6. fw' \in Seq(Octet) /\ Partial(fw')
      BY <1>4, EmptySeq DEF Partial
    <2> QED
      BY <2>5, <2>6
  <1> QED
    BY <1>2, <1>3, <1>4 DEF Take

\* Between two commands the firmware begins one, or skips the octet.
LEMMA TakeFirst ==
    ASSUME fw = <<>>, NEW o \in Octet, Take(o)
    PROVE  /\ fw' = IF o \in {W, R} THEN <<o>> ELSE <<>>
           /\ UNCHANGED <<chip, back>>
  <1> DEFINE s == Append(fw, o)
  <1>1. s = <<o>> /\ Len(s) = 1 /\ s[1] = o
    OBVIOUS
  <1>2. ~Complete(s)
    BY <1>1 DEF Complete
  <1> QED
    BY <1>1, <1>2 DEF Take, Skipped

\* A read command is complete with its third octet, and answered then.
LEMMA TakeRead ==
    ASSUME TypeInv, fw # <<>>, fw[1] = R, NEW o \in Octet, Take(o)
    PROVE  \/ Len(fw) = 1 /\ fw' = <<R, o>> /\ UNCHANGED <<chip, back>>
           \/ /\ Len(fw) = 2 /\ fw' = <<>>
              /\ fw[2] < WRITE_MASK => UNCHANGED chip
              /\ \E stray \in Strays : back' = back \o Reply(fw[2], o, stray)
  <1> DEFINE s == Append(fw, o)
  <1>1. fw \in Seq(Octet) /\ Len(fw) \in {1, 2}
    BY PartialRead DEF TypeInv
  <1>2. /\ s \in Seq(Octet) /\ Len(s) = Len(fw) + 1
        /\ \A i \in 1 .. Len(fw) : s[i] = fw[i]
        /\ s[Len(fw) + 1] = o
    BY <1>1, AppendProperties
  <1> HIDE DEF s
  <1>3. s[1] = R /\ ~Skipped(s) /\ (Complete(s) <=> Len(fw) = 2)
    BY <1>1, <1>2 DEF Skipped, Complete
  <1>4. CASE Len(fw) = 1
    <2>1. fw' = s /\ UNCHANGED <<chip, back>>
      BY <1>3, <1>4 DEF Take, s
    <2>2. s = <<R, o>>
      <3>1. Len(s) = 2 /\ s[1] = R /\ s[2] = o
        BY <1>2, <1>3, <1>4
      <3>2. <<R, o>> \in Seq(Octet) /\ Len(<<R, o>>) = 2
        BY DEF R, Octet
      <3>3. \A i \in 1 .. Len(s) : s[i] = <<R, o>>[i]
        BY <3>1
      <3> QED
        BY <1>2, <3>1, <3>2, <3>3, SeqEqual
    <2> QED
      BY <1>4, <2>1, <2>2
  <1>5. CASE Len(fw) = 2
    <2>1. s[2] = fw[2] /\ s[3] = o
      BY <1>2, <1>5
    <2>2. fw' = <<>> /\ Execute(R, fw[2], o, SubSeq(s, 4, Len(s)))
      BY <1>3, <1>5, <2>1 DEF Take, s
    <2>3. fw[2] < WRITE_MASK => ~(fw[2] >= WRITE_MASK)
      <3>1. fw[2] \in Octet
        BY <1>1, <1>5, ElementOfSeq
      <3> QED
        BY <3>1, OctetRange DEF WRITE_MASK
    <2>4. R # W
      BY DEF R, W
    <2> QED
      BY <1>5, <2>2, <2>3, <2>4 DEF Execute
  <1> QED
    BY <1>1, <1>4, <1>5

\* A write command is not answered.
LEMMA TakeWrite ==
    ASSUME TypeInv, fw # <<>>, fw[1] = W, NEW o \in Octet, Take(o)
    PROVE  UNCHANGED back /\ (fw' = <<>> \/ fw'[1] = W)
  <1> DEFINE s == Append(fw, o)
  <1>1. s[1] = W
    <2>1. fw \in Seq(Octet) /\ Len(fw) \in Nat /\ Len(fw) # 0
      BY LenProperties, EmptySeq DEF TypeInv
    <2> QED
      BY <2>1, AppendProperties
  <1> HIDE DEF s
  <1>2. W # R
    BY DEF R, W
  <1> QED
    BY <1>1, <1>2 DEF Take, Execute, Skipped, s

(***************************************************************************)
(* One octet of the probe.                                                 *)
(***************************************************************************)
LEMMA ProbeOctetsAre ==
    /\ ProbeOctets[1] = W /\ ProbeOctets[2] = 129 /\ ProbeOctets[3] = 1
    /\ ProbeOctets[4] = 128 /\ ProbeOctets[5] = R /\ ProbeOctets[6] = OP_MODE
    /\ ProbeOctets[7] = 1
  BY DEF ProbeOctets, OP_MODE, WRITE_MASK, SLEEP_LORA

\* How far the probe is when its next octet is written.
LEMMA ProbeStep ==
    ASSUME TypeInv, Len(octets) <= 7,
           \A i \in DOMAIN octets : octets[i] = ProbeOctets[Written + i],
           octets # <<>>, octets' = Tail(octets)
    PROVE  /\ Written \in 0 .. 6 /\ Written' = Written + 1
           /\ Head(octets) = ProbeOctets[Written + 1] /\ Head(octets) \in Octet
           /\ Len(octets') <= 7
           /\ \A i \in DOMAIN octets' : octets'[i] = ProbeOctets[Written' + i]
  <1>1. /\ octets \in Seq(Octet) /\ Len(octets) \in Nat /\ Len(octets) # 0
        /\ DOMAIN octets = 1 .. Len(octets)
    BY LenProperties, EmptySeq DEF TypeInv
  <1>2. /\ Head(octets) = octets[1] /\ Head(octets) \in Octet
        /\ octets' \in Seq(Octet) /\ Len(octets') = Len(octets) - 1
        /\ \A i \in 1 .. Len(octets') : octets'[i] = octets[i + 1]
    BY <1>1, HeadTailProperties
  <1>3. DOMAIN octets' = 1 .. Len(octets')
    BY <1>2, LenProperties
  <1>4. Written \in 0 .. 6 /\ Written' = Written + 1
    <2>1. Written = 7 - Len(octets) /\ Written' = 7 - Len(octets')
      BY DEF Written
    <2>2. \A n \in Nat : n # 0 /\ n <= 7 => 7 - n \in 0 .. 6 /\ 7 - (n - 1) = (7 - n) + 1
      OBVIOUS
    <2>3. Len(octets) \in Nat /\ Len(octets) # 0 /\ Len(octets) <= 7
          /\ Len(octets') = Len(octets) - 1
      BY <1>1, <1>2, Zenon
    <2> QED
      BY <2>1, <2>2, <2>3, Zenon
  <1>5. \A i \in 1 .. Len(octets') : i + 1 \in 1 .. Len(octets)
                                     /\ Written + (i + 1) = Written' + i
    BY <1>1, <1>2, <1>4
  <1>6. 1 \in 1 .. Len(octets)
    BY <1>1
  <1> QED
    BY <1>1, <1>2, <1>3, <1>4, <1>5, <1>6

\* What the firmware has of the probe's read command.
LEMMA ReadingIs ==
    /\ Reading = IF Written = 5 THEN <<R>> ELSE IF Written = 6 THEN <<R, OP_MODE>> ELSE <<>>
    /\ Reading = <<>> \/ Reading[1] = R
    /\ <<R>>[1] = R /\ Len(<<R>>) = 1 /\ <<R>> # <<>>
    /\ <<R, OP_MODE>>[1] = R /\ <<R, OP_MODE>>[2] = OP_MODE /\ Len(<<R, OP_MODE>>) = 2
    /\ <<R, OP_MODE>> # <<>>
  BY DEF Reading

\* The octet comes between two commands.
LEMMA ProbeFirst ==
    ASSUME TypeInv, Probing, octets # <<>>, Take(Head(octets)), octets' = Tail(octets),
           UNCHANGED cut, fw = <<>>
    PROVE  ReadBegun' /\ (Heard' => Written' > 0 /\ fw' = Reading') /\ AnsweredOnce'
  <1> DEFINE k == Written
             o == Head(octets)
  <1>1. k \in 0 .. 6 /\ Written' = k + 1 /\ o = ProbeOctets[k + 1] /\ o \in Octet
    BY ProbeStep DEF Probing
  <1>2. fw' = (IF o \in {W, R} THEN <<o>> ELSE <<>>) /\ UNCHANGED <<chip, back>>
    BY <1>1, TakeFirst
  <1>3. Heard' <=> Heard
    BY <1>2 DEF Heard
  <1>4. (Heard => k > 0 /\ fw = Reading) /\ ~(Heard /\ ~cut)
    BY <1>1 DEF Probing, AnsweredOnce
  <1>5. Reading' = IF k + 1 = 5 THEN <<R>> ELSE IF k + 1 = 6 THEN <<R, OP_MODE>> ELSE <<>>
    BY <1>1 DEF Reading
  <1>6. AnsweredOnce'
    BY <1>3, <1>4 DEF AnsweredOnce
  <1> HIDE DEF k, o
  <1>7. CASE k = 0
    <2>1. o = W
      BY <1>1, <1>7, ProbeOctetsAre
    <2>2. fw' = <<W>> /\ ~Heard'
      BY <1>2, <1>3, <1>4, <1>7, <2>1
    <2>3. ReadBegun'
      <3>1. <<W>>[1] = W /\ W # R
        BY DEF W, R
      <3> QED
        BY <2>2, <3>1 DEF ReadBegun
    <2> QED
      BY <1>6, <2>2, <2>3
  <1>8. CASE k = 4
    <2>1. o = R
      BY <1>1, <1>8, ProbeOctetsAre
    <2>2. fw' = <<R>> /\ Reading' = <<R>> /\ Written' = 5
      BY <1>1, <1>2, <1>5, <1>8, <2>1
    <2> QED
      BY <1>6, <2>2 DEF ReadBegun
  <1>9. CASE k \in {1, 2, 3, 5, 6}
    <2>1. o \notin {W, R}
      BY <1>1, <1>9, ProbeOctetsAre DEF W, R, OP_MODE
    <2>2. fw' = <<>>
      BY <1>2, <2>1
    <2>3. ReadBegun'
      BY <2>2 DEF ReadBegun
    <2>4. Heard => k \notin {5, 6}
      BY <1>4, ReadingIs DEF k
    <2>5. Heard' => Written' > 0 /\ fw' = Reading'
      BY <1>1, <1>3, <1>5, <1>9, <2>2, <2>4
    <2> QED
      BY <1>6, <2>3, <2>5
  <1> QED
    BY <1>1, <1>7, <1>8, <1>9

\* The octet comes within a read command.
LEMMA ProbeInRead ==
    ASSUME TypeInv, Probing, octets # <<>>, Take(Head(octets)), octets' = Tail(octets),
           UNCHANGED cut, fw # <<>>, fw[1] = R
    PROVE  ReadBegun' /\ (Heard' => Written' > 0 /\ fw' = Reading') /\ AnsweredOnce'
  <1> DEFINE k == Written
             o == Head(octets)
  <1>1. k \in 0 .. 6 /\ Written' = k + 1 /\ o = ProbeOctets[k + 1] /\ o \in Octet
    BY ProbeStep DEF Probing
  <1>2. \/ Len(fw) = 1 /\ fw' = <<R, o>> /\ UNCHANGED <<chip, back>>
        \/ /\ Len(fw) = 2 /\ fw' = <<>>
           /\ fw[2] < WRITE_MASK => UNCHANGED chip
           /\ \E stray \in Strays : back' = back \o Reply(fw[2], o, stray)
    BY <1>1, TakeRead
  <1>3. (Heard => k > 0 /\ fw = Reading) /\ ~(Heard /\ ~cut)
    BY <1>1 DEF Probing, AnsweredOnce
  <1>4. Reading' = IF k + 1 = 5 THEN <<R>> ELSE IF k + 1 = 6 THEN <<R, OP_MODE>> ELSE <<>>
    BY <1>1 DEF Reading
  <1>5. \/ cut /\ k <= 1 /\ Len(fw) > k
        \/ k \in {5, 6} /\ fw = Reading
    BY DEF Probing, ReadBegun
  <1>6. CASE cut /\ k <= 1 /\ Len(fw) > k
    <2>1. AnsweredOnce'
      BY <1>6 DEF AnsweredOnce
    <2>2. CASE Len(fw) = 1 /\ fw' = <<R, o>> /\ UNCHANGED <<chip, back>>
      <3>1. k = 0
        BY <1>1, <1>6, <2>2
      <3>2. ~Heard'
        BY <1>3, <2>2, <3>1 DEF Heard
      <3>3. Len(fw') = 2 /\ Written' = 1
        BY <1>1, <2>2, <3>1
      <3>4. ReadBegun'
        BY <1>6, <3>3 DEF ReadBegun
      <3> QED
        BY <2>1, <3>2, <3>4
    <2>3. CASE Len(fw) = 2 /\ fw' = <<>>
      <3>1. ReadBegun'
        BY <2>3 DEF ReadBegun
      <3>2. Written' > 0 /\ Reading' = <<>>
        BY <1>1, <1>4, <1>6
      <3> QED
        BY <2>1, <2>3, <3>1, <3>2
    <2> QED
      BY <1>2, <2>2, <2>3
  <1>7. CASE k = 5 /\ fw = Reading
    <2>1. fw = <<R>> /\ Len(fw) = 1
      BY <1>7, ReadingIs DEF k
    <2>2. o = OP_MODE
      BY <1>1, <1>7, ProbeOctetsAre
    <2>3. fw' = <<R, OP_MODE>> /\ UNCHANGED <<chip, back>>
      BY <1>2, <2>1, <2>2
    <2>4. Written' = 6 /\ Reading' = <<R, OP_MODE>>
      BY <1>1, <1>4, <1>7
    <2>5. Heard' <=> Heard
      BY <2>3 DEF Heard
    <2>6. AnsweredOnce'
      BY <1>3, <2>5 DEF AnsweredOnce
    <2> QED
      BY <2>3, <2>4, <2>6 DEF ReadBegun
  <1>8. CASE k = 6 /\ fw = Reading
    <2>1. fw = <<R, OP_MODE>> /\ Len(fw) = 2 /\ fw[2] = OP_MODE
      BY <1>8, ReadingIs DEF k
    <2>2. o = 1
      BY <1>1, <1>8, ProbeOctetsAre
    <2>3. PICK stray \in Strays : back' = back \o Reply(OP_MODE, 1, stray)
      BY <1>2, <2>1, <2>2
    <2>4. fw' = <<>> /\ UNCHANGED chip
      BY <1>2, <2>1 DEF OP_MODE, WRITE_MASK
    <2>5. Written' = 7 /\ Reading' = <<>>
      BY <1>1, <1>4, <1>8
    <2>6. AnsweredOnce'
      <3> DEFINE q == Reply(OP_MODE, 1, stray)
      <3>1. q \in Seq(Octet) /\ Len(q) = 1 /\ q[1] = chip[OP_MODE]
        <4>1. stray \in Octet /\ OP_MODE \in Registers
          BY BridgeAssumption DEF Registers, Octet
        <4>2. q = <<chip[OP_MODE]>> /\ chip[OP_MODE] \in Octet
          BY <4>1, ReplyOne DEF TypeInv
        <4>3. \A v \in Octet : <<v>> \in Seq(Octet) /\ Len(<<v>>) = 1 /\ <<v>>[1] = v
          OBVIOUS
        <4> QED
          BY <4>2, <4>3, Zenon
      <3> HIDE DEF q
      <3>2. back' = back \o q /\ back \in Seq(Octet)
        BY <2>3 DEF q, TypeInv
      <3>3. SUFFICES ASSUME Heard', ~cut
                     PROVE  /\ back'[1] = chip'[OP_MODE]
                            /\ back'[1] = SLEEP_LORA => back' = <<SLEEP_LORA>>
        BY <2>5 DEF AnsweredOnce
      <3>4. back = <<>>
        <4>1. SUFFICES ASSUME back # <<>> PROVE FALSE
          OBVIOUS
        <4>2. back[1] = I
          BY <1>3, <3>3, <4>1 DEF Heard
        <4>3. Len(back) \in Nat /\ Len(back) # 0
          BY <3>2, <4>1, LenProperties, EmptySeq
        <4>4. back'[1] = back[1]
          BY <3>1, <3>2, <4>3, ConcatProperties
        <4> QED
          BY <3>3, <4>2, <4>4 DEF Heard
      <3>5. back' = q
        BY <3>1, <3>2, <3>4, ConcatEmptySeq
      <3>6. q[1] = SLEEP_LORA => q = <<SLEEP_LORA>>
        BY <3>1
      <3> QED
        BY <2>4, <3>1, <3>5, <3>6
    <2> QED
      BY <2>4, <2>5, <2>6 DEF ReadBegun
  <1> QED
    BY <1>5, <1>6, <1>7, <1>8

\* The octet comes within a write command.
LEMMA ProbeInWrite ==
    ASSUME TypeInv, Probing, octets # <<>>, Take(Head(octets)), octets' = Tail(octets),
           UNCHANGED cut, fw # <<>>, fw[1] = W
    PROVE  ReadBegun' /\ (Heard' => Written' > 0 /\ fw' = Reading') /\ AnsweredOnce'
  <1>1. Head(octets) \in Octet
    BY ProbeStep DEF Probing
  <1>2. UNCHANGED back /\ (fw' = <<>> \/ fw'[1] = W)
    BY <1>1, TakeWrite
  <1>3. W # R
    BY DEF W, R
  <1>4. ~Heard
    BY <1>3, ReadingIs DEF Probing
  <1>5. ~Heard'
    BY <1>2, <1>4 DEF Heard
  <1> QED
    BY <1>2, <1>3, <1>5 DEF ReadBegun, AnsweredOnce

\* The host writes an octet of the probe.
LEMMA ProbePut ==
    ASSUME TypeInv, Probing, octets # <<>>, Take(Head(octets)), octets' = Tail(octets),
           UNCHANGED cut
    PROVE  Probing'
  <1>1. /\ Len(octets') <= 7
        /\ \A i \in DOMAIN octets' : octets'[i] = ProbeOctets[Written' + i]
    BY ProbeStep DEF Probing
  <1>2. fw = <<>> \/ (fw # <<>> /\ fw[1] = R) \/ (fw # <<>> /\ fw[1] = W)
    BY DEF TypeInv, Partial
  <1>3. ReadBegun' /\ (Heard' => Written' > 0 /\ fw' = Reading') /\ AnsweredOnce'
    BY <1>2, ProbeFirst, ProbeInRead, ProbeInWrite
  <1> QED
    BY <1>1, <1>3 DEF Probing

(***************************************************************************)
(* One octet of a setter's writes.                                         *)
(***************************************************************************)
\* What the firmware has and what is still to come, after the next octet.
LEMMA NextOctet ==
    ASSUME NEW a \in Seq(Octet), NEW b \in Seq(Octet), b # <<>>
    PROVE  /\ Append(a, Head(b)) \o Tail(b) = a \o b
           /\ (a \o b)[Len(a) + 1] = Head(b) /\ Head(b) \in Octet
           /\ Len(a \o b) = Len(a) + 1 + Len(Tail(b))
           /\ \A i \in 1 .. Len(a) : (a \o b)[i] = a[i]
           /\ \A i \in 1 .. Len(Tail(b)) : Tail(b)[i] = (a \o b)[Len(a) + 1 + i]
  <1> DEFINE h == Head(b)
             t == Tail(b)
             n == Len(a)
             m == Len(t)
             u == a \o b
             v == Append(a, h) \o t
  <1>1. n \in Nat /\ Len(b) \in Nat /\ Len(b) # 0
    BY LenProperties, EmptySeq
  <1>2. /\ h = b[1] /\ h \in Octet /\ t \in Seq(Octet) /\ m = Len(b) - 1 /\ m \in Nat
        /\ \A i \in 1 .. m : t[i] = b[i + 1]
    BY <1>1, HeadTailProperties, LenProperties
  <1>3. /\ Append(a, h) \in Seq(Octet) /\ Len(Append(a, h)) = n + 1
        /\ \A i \in 1 .. n : Append(a, h)[i] = a[i]
        /\ Append(a, h)[n + 1] = h
    BY <1>2, AppendProperties
  <1>4. /\ u \in Seq(Octet) /\ Len(u) = n + Len(b)
        /\ \A i \in 1 .. n : u[i] = a[i]
        /\ \A i \in 1 .. Len(b) : u[n + i] = b[i]
    BY <1>1, ConcatProperties
  <1>5. /\ v \in Seq(Octet) /\ Len(v) = (n + 1) + m
        /\ \A i \in 1 .. n + 1 : v[i] = Append(a, h)[i]
        /\ \A i \in 1 .. m : v[(n + 1) + i] = t[i]
    BY <1>1, <1>2, <1>3, ConcatProperties
  <1> HIDE DEF u, v, h, t, n, m
  <1>6. \A i \in 1 .. m : t[i] = u[n + 1 + i]
    <2>1. \A i \in 1 .. m : i + 1 \in 1 .. Len(b) /\ n + (i + 1) = n + 1 + i
      BY <1>1, <1>2
    <2> QED
      BY <1>2, <1>4, <2>1
  <1>7. u[n + 1] = h
    <2>1. 1 \in 1 .. Len(b)
      BY <1>1
    <2> QED
      BY <1>2, <1>4, <2>1
  <1>8. Len(u) = n + 1 + m
    BY <1>1, <1>2, <1>4
  <1>9. v = u
    <2>1. Len(v) = Len(u)
      BY <1>1, <1>2, <1>5, <1>8
    <2>2. ASSUME NEW i \in 1 .. Len(v)
          PROVE  v[i] = u[i]
      <3>1. \/ i \in 1 .. n /\ i \in 1 .. n + 1
            \/ i = n + 1 /\ i \in 1 .. n + 1
            \/ i - (n + 1) \in 1 .. m /\ i = (n + 1) + (i - (n + 1))
        BY <1>1, <1>2, <1>5, <2>2
      <3>2. CASE i \in 1 .. n /\ i \in 1 .. n + 1
        BY <1>3, <1>4, <1>5, <3>2
      <3>3. CASE i = n + 1 /\ i \in 1 .. n + 1
        BY <1>3, <1>5, <1>7, <3>3
      <3>4. CASE i - (n + 1) \in 1 .. m /\ i = (n + 1) + (i - (n + 1))
        <4>1. v[i] = t[i - (n + 1)]
          BY <1>5, <3>4
        <4>2. t[i - (n + 1)] = u[n + 1 + (i - (n + 1))]
          BY <1>6, <3>4
        <4> QED
          BY <3>4, <4>1, <4>2
      <3> QED
        BY <3>1, <3>2, <3>3, <3>4
    <2> QED
      BY <1>4, <1>5, <2>1, <2>2, SeqEqual
  <1> QED
    BY <1>2, <1>4, <1>6, <1>7, <1>8, <1>9 DEF u, v, h, t, n, m

\* The fourth octet of a write command sets one register.
LEMMA WriteOne ==
    ASSUME NEW r \in Registers, NEW data \in Seq(Octet), Len(data) = 1,
           WriteRegisters(r, data)
    PROVE  chip' = With(chip, r, data[1])
  <1>1. \A g \in Registers : g \in Touched(r, 1) <=> g = r
    BY RegisterRange DEF Touched
  <1>2. r - r + 1 = 1
    BY RegisterRange
  <1> QED
    BY <1>1, <1>2 DEF WriteRegisters, With

\* The host writes an octet of a setter.
LEMMA SetterPut ==
    ASSUME TypeInv, Configuring, octets # <<>>, Take(Head(octets)), octets' = Tail(octets),
           UNCHANGED <<asked, cut>>
    PROVE  Configuring'
  <1> DEFINE p == fw \o octets
             o == Head(octets)
             t == Tail(octets)
             s == Append(fw, o)
             n == Len(fw)
  <1>1. fw \in Seq(Octet) /\ octets \in Seq(Octet) /\ chip \in [Registers -> Octet]
    BY DEF TypeInv
  <1>2. PICK d : Effect(p, chip, d) /\ Means(d, asked)
    BY DEF Configuring, Configures
  <1>3. /\ s \o t = p /\ p[n + 1] = o /\ o \in Octet /\ Len(p) = n + 1 + Len(t)
        /\ \A i \in 1 .. n : p[i] = fw[i]
        /\ \A i \in 1 .. Len(t) : t[i] = p[n + 1 + i]
    BY <1>1, NextOctet
  <1>4. t \in Seq(Octet) /\ Len(t) \in Nat /\ n \in 0 .. 3
    <2>1. t \in Seq(Octet)
      BY <1>1, HeadTailProperties
    <2>2. Len(fw) \in Nat /\ Len(fw) <= 3
      BY <1>1, LenProperties DEF Configuring
    <2>3. \A k \in Nat : k <= 3 => k \in 0 .. 3
      OBVIOUS
    <2> QED
      BY <2>1, <2>2, <2>3, LenProperties
  <1>5. /\ s \in Seq(Octet) /\ Len(s) = n + 1
        /\ \A i \in 1 .. n + 1 : s[i] = p[i]
    <2>1. /\ s \in Seq(Octet) /\ Len(s) = n + 1 /\ s[n + 1] = o
          /\ \A i \in 1 .. n : s[i] = fw[i]
      BY <1>1, <1>3, AppendProperties
    <2>2. \A i \in 1 .. n + 1 : i \in 1 .. n \/ i = n + 1
      BY <1>4
    <2> QED
      BY <1>3, <2>1, <2>2
  <1> HIDE DEF p, o, t, s, n
  <1>6. /\ p \in Seq(Octet) /\ DOMAIN p = 1 .. Len(p) /\ Len(p) % 4 = 0
        /\ \A i \in DOMAIN p : /\ i % 4 = 1 => p[i] = W
                               /\ i % 4 = 2 => p[i] - WRITE_MASK \in Registers
                               /\ i % 4 = 3 => p[i] = 1
                               /\ Writes(p, i, OP_MODE) => p[i + 2] = STDBY
    BY <1>2, LenProperties DEF Effect, Program
  <1>7. Len(p) >= 4
    <2>1. \A k \in Nat : k >= 1 /\ k % 4 = 0 => k >= 4
      OBVIOUS
    <2>2. Len(p) \in Nat /\ Len(p) >= 1
      BY <1>3, <1>4
    <2> QED
      BY <1>6, <2>1, <2>2
  <1>8. p[1] = W /\ p[2] - WRITE_MASK \in Registers /\ p[3] = 1
    <2>1. /\ 1 \in DOMAIN p /\ 2 \in DOMAIN p /\ 3 \in DOMAIN p
          /\ 1 % 4 = 1 /\ 2 % 4 = 2 /\ 3 % 4 = 3
      BY <1>4, <1>6, <1>7, <1>3
    <2> QED
      BY <1>6, <2>1
  <1>9. s[1] = W
    BY <1>4, <1>5, <1>8
  <1>10. ~Skipped(s)
    BY <1>9 DEF Skipped
  <1>11. Complete(s) <=> n = 3
    <2>1. W # R
      BY DEF W, R
    <2>2. CASE n = 3
      <3>1. s[3] = 1 /\ Len(s) = 4
        BY <1>5, <1>8, <2>2
      <3> QED
        BY <2>2, <3>1 DEF Complete
    <2>3. CASE n = 2
      <3>1. s[3] = 1 /\ Len(s) = 3
        BY <1>5, <1>8, <2>3
      <3> QED
        BY <1>9, <2>1, <2>3, <3>1 DEF Complete
    <2>4. CASE n \in {0, 1}
      BY <1>5, <2>4 DEF Complete
    <2> QED
      BY <1>4, <2>2, <2>3, <2>4
  <1>12. CASE n # 3
    <2>1. fw' = s /\ UNCHANGED <<chip, back>>
      BY <1>10, <1>11, <1>12 DEF Take, s, o
    <2>2. Len(fw') <= 3
      BY <1>4, <1>5, <1>12, <2>1
    <2>3. fw' \o octets' = p
      BY <1>3, <2>1 DEF t
    <2>4. Configures(fw' \o octets', chip', asked')
      BY <1>2, <2>1, <2>3 DEF Configures
    <2> QED
      BY <2>1, <2>2, <2>4 DEF Configuring
  <1>13. CASE n = 3
    <2>1. /\ fw' = <<>>
          /\ Execute(s[1], s[2], s[3], SubSeq(s, 4, Len(s)))
      BY <1>10, <1>11, <1>13 DEF Take, s, o
    <2>2. s[2] = p[2] /\ s[3] = 1 /\ s[4] = p[4] /\ Len(s) = 4
      BY <1>5, <1>8, <1>13
    <2>3. p[2] - WRITE_MASK \in Registers /\ p[2] \in Octet /\ p[2] >= WRITE_MASK /\ p[4] \in Octet
      <3>1. 2 \in 1 .. Len(p) /\ 4 \in 1 .. Len(p)
        BY <1>6, <1>7, <1>3, <1>4, <1>13
      <3>2. p[2] \in Octet /\ p[4] \in Octet
        BY <1>6, <3>1, ElementOfSeq
      <3>3. p[2] \in Int /\ p[2] - WRITE_MASK >= 1
        <4>1. p[2] - WRITE_MASK \in 1 .. 127
          BY <1>8, RegisterRange
        <4>2. \A k \in 1 .. 127 : k >= 1
          OBVIOUS
        <4> QED
          BY <3>2, <4>1, <4>2, OctetRange
      <3> QED
        BY <1>8, <3>2, <3>3 DEF WRITE_MASK
    <2>4. /\ SubSeq(s, 4, 4) \in Seq(Octet) /\ Len(SubSeq(s, 4, 4)) = 1
          /\ SubSeq(s, 4, 4)[1] = p[4]
      <3>1. 4 \in 1 .. Len(s) + 1 /\ 4 \in 4 - 1 .. Len(s)
        BY <2>2
      <3>2. /\ SubSeq(s, 4, 4) \in Seq(Octet) /\ Len(SubSeq(s, 4, 4)) = 4 - 4 + 1
            /\ \A i \in 1 .. 4 - 4 + 1 : SubSeq(s, 4, 4)[i] = s[4 + i - 1]
        BY <1>5, <3>1, SubSeqProperties
      <3> QED
        BY <2>2, <3>2
    <2>5. WriteRegisters(p[2] - WRITE_MASK, SubSeq(s, 4, 4)) /\ UNCHANGED back
      <3>1. W # R
        BY DEF W, R
      <3> QED
        BY <1>9, <2>1, <2>2, <2>3, <3>1 DEF Execute
    <2>6. chip' = With(chip, p[2] - WRITE_MASK, p[4])
      BY <2>3, <2>4, <2>5, WriteOne
    <2>7. Effect(t, chip', d)
      <3>1. Len(p) = Len(t) + 4 /\ \A i \in 1 .. Len(t) : t[i] = p[i + 4]
        <4>1. \A i \in 1 .. Len(t) : n + 1 + i = i + 4
          BY <1>4, <1>13
        <4> QED
          BY <1>3, <1>4, <1>13, <4>1
      <3>2. p # <<>>
        BY <1>6, <1>7, EmptySeq
      <3> QED
        BY <1>2, <1>4, <2>6, <3>1, <3>2, EffectDrop
    <2>8. fw' \o octets' = t /\ Len(fw') = 0
      BY <1>4, <2>1, ConcatEmptySeq DEF t
    <2>9. Configures(fw' \o octets', chip', asked')
      BY <1>2, <2>7, <2>8 DEF Configures
    <2>10. ASSUME ~cut'
           PROVE  back' = <<>> /\ chip'[OP_MODE] \in {SLEEP_LORA, STDBY}
      <3>1. back = <<>> /\ chip[OP_MODE] \in {SLEEP_LORA, STDBY}
        BY <2>10 DEF Configuring
      <3>2. OP_MODE \in Registers
        BY DEF Registers
      <3>3. CASE p[2] - WRITE_MASK = OP_MODE
        <4>1. Writes(p, 2, OP_MODE)
          BY <2>3, <3>3, OctetRange DEF Writes, OP_MODE, WRITE_MASK
        <4>2. 2 \in DOMAIN p /\ 2 + 2 = 4
          BY <1>6, <1>7, <1>3, <1>4, <1>13
        <4>3. p[4] = STDBY
          BY <1>6, <4>1, <4>2
        <4> QED
          BY <2>5, <2>6, <3>1, <3>2, <3>3, <4>3 DEF With
      <3>4. CASE p[2] - WRITE_MASK # OP_MODE
        BY <2>5, <2>6, <3>1, <3>2, <3>4 DEF With
      <3> QED
        BY <3>3, <3>4
    <2> QED
      BY <2>8, <2>9, <2>10 DEF Configuring
  <1> QED
    BY <1>12, <1>13

-----------------------------------------------------------------------------
(***************************************************************************)
(* The steps of the host and the firmware.                                 *)
(***************************************************************************)
\* What init() begins with.
LEMMA ProbeIs ==
    /\ Probe = ProbeOctets /\ Probe \in Seq(Octet) /\ Len(Probe) = 7
    /\ DOMAIN Probe = 1 .. 7 /\ Read(OP_MODE) \in Seq(Octet)
  <1> DEFINE w == Write(OP_MODE, SLEEP_LORA)
             r == Read(OP_MODE)
  <1>1. /\ w \in Seq(Octet) /\ Len(w) = 4 /\ w[1] = W /\ w[2] = OP_MODE + WRITE_MASK
        /\ w[3] = 1 /\ w[4] = SLEEP_LORA
    <2>1. OP_MODE \in Registers /\ SLEEP_LORA \in Octet
      BY DEF Registers, SLEEP_LORA, Octet
    <2> QED
      BY <2>1, OneWrite
  <1>2. /\ r \in Seq(Octet) /\ Len(r) = 3 /\ r[1] = R /\ r[2] = OP_MODE /\ r[3] = 1
    BY DEF Read, R, OP_MODE, Octet
  <1>3. ProbeOctets \in Seq(Octet) /\ Len(ProbeOctets) = 7
    BY DEF ProbeOctets, W, R, OP_MODE, WRITE_MASK, SLEEP_LORA, Octet
  <1> HIDE DEF w, r
  <1>4. /\ w \o r \in Seq(Octet) /\ Len(w \o r) = 7
        /\ \A i \in 1 .. 4 : (w \o r)[i] = w[i]
        /\ \A i \in 1 .. 3 : (w \o r)[4 + i] = r[i]
    <2>1. w \in Seq(Octet) /\ r \in Seq(Octet)
      BY <1>1, <1>2
    <2>2. /\ w \o r \in Seq(Octet) /\ Len(w \o r) = Len(w) + Len(r)
          /\ \A i \in 1 .. Len(w) : (w \o r)[i] = w[i]
          /\ \A i \in 1 .. Len(r) : (w \o r)[Len(w) + i] = r[i]
      BY <2>1, ConcatProperties
    <2> QED
      BY <1>1, <1>2, <2>2
  <1>5. ASSUME NEW i \in 1 .. 7
        PROVE  (w \o r)[i] = ProbeOctets[i]
    <2>1. i \in 1 .. 4 \/ (i - 4 \in 1 .. 3 /\ i = 4 + (i - 4))
      OBVIOUS
    <2>2. CASE i \in 1 .. 4
      <3>1. i = 1 \/ i = 2 \/ i = 3 \/ i = 4
        BY <2>2
      <3> QED
        BY <1>1, <1>4, <2>2, <3>1 DEF ProbeOctets
    <2>3. CASE i - 4 \in 1 .. 3 /\ i = 4 + (i - 4)
      <3>1. \/ i = 5 /\ i - 4 = 1
            \/ i = 6 /\ i - 4 = 2
            \/ i = 7 /\ i - 4 = 3
        BY <2>3
      <3>2. (w \o r)[i] = r[i - 4]
        BY <1>4, <2>3
      <3> QED
        BY <1>2, <3>1, <3>2 DEF ProbeOctets
    <2> QED
      BY <2>1, <2>2, <2>3
  <1>6. w \o r = ProbeOctets
    BY <1>3, <1>4, <1>5, SeqEqual
  <1>7. Probe = ProbeOctets
    BY <1>6 DEF Probe, w, r
  <1>8. DOMAIN Probe = 1 .. 7
    BY <1>3, <1>7, LenProperties
  <1> QED
    BY <1>2, <1>3, <1>7, <1>8 DEF r

\* The host may begin to probe at any moment, with nothing from the radio left.
LEMMA ProbeBegins ==
    ASSUME fw' \in Seq(Octet), octets' = Probe, back' = <<>>,
           fw' # <<>> /\ fw'[1] = R => cut'
    PROVE  Probing'
  <1>1. Len(octets') = 7 /\ DOMAIN octets' = 1 .. 7
    BY ProbeIs
  <1>2. Written' = 0
    BY <1>1 DEF Written
  <1>3. \A i \in DOMAIN octets' : octets'[i] = ProbeOctets[Written' + i]
    <2>1. \A i \in 1 .. 7 : 0 + i = i
      OBVIOUS
    <2> QED
      BY <1>1, <1>2, <2>1, ProbeIs
  <1>4. ReadBegun'
    <2>1. Len(fw') \in Nat /\ (fw' # <<>> => Len(fw') # 0)
      BY LenProperties, EmptySeq
    <2> QED
      BY <1>2, <2>1 DEF ReadBegun
  <1>5. ~Heard'
    BY DEF Heard
  <1> QED
    BY <1>1, <1>3, <1>4, <1>5 DEF Probing, AnsweredOnce

\* The host starts.
LEMMA InitInv == Init => BridgeInv
  <1> SUFFICES ASSUME Init PROVE BridgeInv
    OBVIOUS
  <1>1. TypeInv
    <2>1. chip \in [Registers -> Octet]
      BY DEF Init, Octet
    <2> QED
      BY <2>1, ProbeIs, EmptySeq, DefaultArguments DEF Init, TypeInv, Partial
  <1>2. Probing
    <2>1. Len(octets) = 7 /\ DOMAIN octets = 1 .. 7 /\ octets = ProbeOctets
      BY ProbeIs DEF Init
    <2>2. Written = 0
      BY <2>1 DEF Written
    <2>3. \A i \in DOMAIN octets : octets[i] = ProbeOctets[Written + i]
      <3>1. \A i \in 1 .. 7 : 0 + i = i
        OBVIOUS
      <3> QED
        BY <2>1, <2>2, <3>1
    <2>4. ~Heard /\ ReadBegun
      BY DEF Init, Heard, ReadBegun
    <2> QED
      BY <2>1, <2>3, <2>4 DEF Probing, AnsweredOnce
  <1> QED
    BY <1>1, <1>2 DEF Init, BridgeInv

\* The host writes an octet.
LEMMA PutStep ==
    ASSUME BridgeInv, Put
    PROVE  BridgeInv'
  <1>1. /\ TypeInv /\ octets # <<>> /\ Take(Head(octets)) /\ octets' = Tail(octets)
        /\ UNCHANGED <<host, asked, cut, resets, calls>>
    BY DEF BridgeInv, Put
  <1>2. Head(octets) \in Octet /\ octets' \in Seq(Octet)
    BY <1>1, HeadTailProperties DEF TypeInv
  <1>3. /\ fw' \in Seq(Octet) /\ Partial(fw') /\ back' \in Seq(Octet)
        /\ chip' \in [Registers -> Octet]
    BY <1>1, <1>2, TakeTypes
  <1>4. TypeInv'
    BY <1>1, <1>2, <1>3 DEF TypeInv
  <1>5. host' = "probing" => Probing'
    BY <1>1, ProbePut DEF BridgeInv
  <1>6. host' = "configuring" => Configuring'
    BY <1>1, SetterPut DEF BridgeInv
  <1>7. host' # "up"
    BY <1>1 DEF BridgeInv
  <1> QED
    BY <1>1, <1>4, <1>5, <1>6, <1>7 DEF BridgeInv

\* The octet the host reads is gone from the line.
LEMMA TakeReplyTypes ==
    ASSUME back \in Seq(Octet), TakeReply
    PROVE  back' \in Seq(Octet)
  BY HeadTailProperties, EmptySeq DEF TakeReply

\* What the check of init() receives, if it passes.
LEMMA ProbedPasses ==
    ASSUME TypeInv, Probing, octets = <<>>, DevicePresent
    PROVE  /\ fw = <<>> /\ back # <<>>
           /\ ~cut => back = <<SLEEP_LORA>> /\ chip[OP_MODE] = SLEEP_LORA
  <1>1. back # <<>> /\ Head(back) = SLEEP_LORA
    BY DEF DevicePresent, Received, SLEEP_LORA
  <1>2. back[1] = SLEEP_LORA
    BY <1>1
  <1>3. Heard
    BY <1>1, <1>2 DEF Heard, I, SLEEP_LORA
  <1>4. Written = 7
    BY EmptySeq DEF Written
  <1>5. fw = <<>>
    BY <1>3, <1>4 DEF Probing, Reading
  <1> QED
    BY <1>1, <1>2, <1>3, <1>5 DEF Probing, AnsweredOnce

\* The check of init().
LEMMA ProbedStep ==
    ASSUME BridgeInv, Probed
    PROVE  BridgeInv'
  <1>1. /\ TypeInv /\ Probing /\ asked = Default /\ octets = <<>> /\ TakeReply
        /\ UNCHANGED <<fw, chip, asked, cut>>
    BY DEF BridgeInv, Probed, TakeReply
  <1>2. back' \in Seq(Octet)
    BY <1>1, TakeReplyTypes DEF TypeInv
  <1>3. CASE DevicePresent /\ host' = "configuring" /\ octets' = Configure
    <2>1. /\ fw = <<>> /\ back # <<>>
          /\ ~cut => back = <<SLEEP_LORA>> /\ chip[OP_MODE] = SLEEP_LORA
      BY <1>1, <1>3, ProbedPasses
    <2>2. Configures(Configure, chip, Default)
      BY InitConfigures
    <2>3. Configure \in Seq(Octet)
      BY <2>2 DEF Configures, Effect, Program
    <2>4. fw' \o octets' = Configure /\ Len(fw') = 0
      BY <1>1, <1>3, <2>1, <2>3, ConcatEmptySeq
    <2>5. Configures(fw' \o octets', chip', asked')
      BY <1>1, <2>2, <2>4
    <2>6. ~cut => back' = <<>>
      BY <1>1, <2>1 DEF TakeReply
    <2>7. Configuring'
      BY <1>1, <2>1, <2>4, <2>5, <2>6 DEF Configuring
    <2>8. TypeInv'
      BY <1>1, <1>2, <1>3, <2>3 DEF TypeInv
    <2> QED
      BY <1>3, <2>7, <2>8 DEF BridgeInv
  <1>4. CASE host' = "printing" /\ octets' = Read(OP_MODE)
    <2>1. TypeInv'
      BY <1>1, <1>2, <1>4, ProbeIs DEF TypeInv
    <2> QED
      BY <1>1, <1>4, <2>1 DEF BridgeInv
  <1> QED
    BY <1>3, <1>4 DEF Probed

\* The end of an init() that fails.
LEMMA PrintedStep ==
    ASSUME BridgeInv, Printed
    PROVE  BridgeInv'
  <1>1. /\ TypeInv /\ asked = Default /\ TakeReply /\ host' = "failed"
        /\ UNCHANGED <<fw, chip, asked, cut, octets>>
    BY DEF BridgeInv, Printed, TakeReply
  <1>2. back' \in Seq(Octet)
    BY <1>1, TakeReplyTypes DEF TypeInv
  <1>3. TypeInv'
    BY <1>1, <1>2 DEF TypeInv
  <1> QED
    BY <1>1, <1>3 DEF BridgeInv

\* When all is written, nothing of it is left with the firmware.
LEMMA NothingLeft ==
    ASSUME TypeInv, Configuring, octets = <<>>
    PROVE  fw = <<>> /\ Means(chip, asked)
  <1>1. fw \in Seq(Octet) /\ Len(fw) \in Nat /\ Len(fw) <= 3
    BY LenProperties DEF TypeInv, Configuring
  <1>2. PICK d : Effect(fw \o octets, chip, d) /\ Means(d, asked)
    BY DEF Configuring, Configures
  <1>3. fw \o octets = fw
    BY <1>1, ConcatEmptySeq
  <1>4. Len(fw) % 4 = 0
    BY <1>2, <1>3 DEF Effect, Program
  <1>5. fw = <<>>
    <2>1. \A n \in Nat : n <= 3 /\ n % 4 = 0 => n = 0
      OBVIOUS
    <2> QED
      BY <1>1, <1>4, <2>1, EmptySeq
  <1>6. \A g \in Registers : d[g] = chip[g]
    BY <1>2, <1>3, <1>5, EffectNothing
  <1>7. Means(chip, asked)
    BY <1>2, <1>6 DEF Means, PowerIs, FrequencyIs, PreambleIs, ModemIs, Registers
  <1> QED
    BY <1>5, <1>7

\* The end of init(), or of a setter.
LEMMA ConfiguredStep ==
    ASSUME BridgeInv, Configured
    PROVE  BridgeInv'
  <1>1. /\ TypeInv /\ Configuring /\ octets = <<>> /\ host' = "up"
        /\ UNCHANGED <<fw, chip, back, octets, asked, cut>>
    BY DEF BridgeInv, Configured
  <1>2. TypeInv'
    BY <1>1 DEF TypeInv
  <1>3. Configuring'
    BY <1>1 DEF Configuring
  <1> QED
    BY <1>1, <1>2, <1>3 DEF BridgeInv

\* The sketch calls a setter.
LEMMA CallSetterStep ==
    ASSUME BridgeInv, CallSetter
    PROVE  BridgeInv'
  <1>1. TypeInv /\ Configuring /\ octets = <<>> /\ asked \in Arguments
    BY DEF BridgeInv, CallSetter, Call, TypeInv
  <1>2. fw = <<>> /\ Means(chip, asked)
    BY <1>1, NothingLeft
  <1>3. ASSUME NEW what, NEW arg, NEW writes, Call(what, arg, writes),
               Configures(writes, chip, [asked EXCEPT ![what] = arg]),
               [asked EXCEPT ![what] = arg] \in Arguments
        PROVE  BridgeInv'
    <2>1. /\ host' = "configuring" /\ octets' = writes
          /\ asked' = [asked EXCEPT ![what] = arg]
          /\ UNCHANGED <<fw, chip, back, cut>>
      BY <1>3 DEF Call
    <2>2. writes \in Seq(Octet)
      BY <1>3 DEF Configures, Effect, Program
    <2>3. fw' \o octets' = writes /\ Len(fw') <= 3
      BY <1>1, <1>2, <2>1, <2>2, ConcatEmptySeq DEF Configuring
    <2>4. Configuring'
      BY <1>1, <1>3, <2>1, <2>3 DEF Configuring
    <2>5. TypeInv'
      BY <1>1, <1>3, <2>1, <2>2 DEF TypeInv
    <2> QED
      BY <2>1, <2>4, <2>5 DEF BridgeInv
  <1>4. Powers \subseteq Power
    BY BridgeAssumption DEF Power
  <1>5. CASE \E p \in Powers : Call("power", p, SetTxPower(p[1], p[2]))
    BY <1>1, <1>2, <1>3, <1>4, <1>5, SetterConfigures, OneReplaced
  <1>6. CASE \E f \in Frequencies : Call("frf", f, SetFrequency(f))
    BY <1>1, <1>2, <1>3, <1>6, BridgeAssumption, SetterConfigures, OneReplaced
  <1>7. CASE \E n \in Preambles : Call("preamble", n, SetPreambleLength(n))
    BY <1>1, <1>2, <1>3, <1>7, BridgeAssumption, SetterConfigures, OneReplaced
  <1>8. CASE \E m \in DOMAIN ModemConfig : Call("modem", m, SetModemConfig(m))
    <2>1. DOMAIN ModemConfig = 0 .. 3
      BY DEF ModemConfig
    <2> QED
      BY <1>1, <1>2, <1>3, <1>8, <2>1, SetterConfigures, OneReplaced
  <1> QED
    BY <1>5, <1>6, <1>7, <1>8 DEF CallSetter

\* The host is reset.
LEMMA RestartStep ==
    ASSUME BridgeInv, Restart
    PROVE  BridgeInv'
  <1>1. /\ TypeInv /\ host' = "probing" /\ octets' = Probe /\ back' = <<>>
        /\ asked' = Default /\ cut' = (fw # <<>> /\ fw[1] = R) /\ UNCHANGED <<fw, chip>>
    BY DEF BridgeInv, Restart
  <1>2. TypeInv'
    BY <1>1, ProbeIs, EmptySeq, DefaultArguments DEF TypeInv
  <1>3. Probing'
    BY <1>1, ProbeBegins DEF TypeInv
  <1> QED
    BY <1>1, <1>2, <1>3 DEF BridgeInv

\* The firmware announces an interrupt.
LEMMA InterruptStep ==
    ASSUME BridgeInv, Interrupt
    PROVE  BridgeInv'
  <1>1. /\ TypeInv /\ chip[OP_MODE] % 8 \notin {0, STDBY} /\ back' = Append(back, I)
        /\ UNCHANGED <<fw, chip, octets, host, asked, cut>>
    BY DEF BridgeInv, Interrupt
  <1>2. back \in Seq(Octet) /\ I \in Octet
    BY <1>1 DEF TypeInv, I, Octet
  <1>3. back' \in Seq(Octet) /\ (back # <<>> => back'[1] = back[1]) /\ (back = <<>> => back'[1] = I)
    <2>1. Len(back) \in Nat /\ (back # <<>> => Len(back) # 0) /\ (back = <<>> => Len(back) = 0)
      BY <1>2, LenProperties, EmptySeq
    <2> QED
      BY <1>1, <1>2, <2>1, AppendProperties
  <1>4. TypeInv'
    BY <1>1, <1>3 DEF TypeInv
  <1>5. chip[OP_MODE] \notin {SLEEP_LORA, STDBY}
    BY <1>1 DEF SLEEP_LORA, STDBY
  <1>6. ASSUME Probing PROVE Probing'
    <2>1. Heard' => Heard /\ back'[1] = back[1]
      BY <1>3 DEF Heard
    <2>2. Written' = Written /\ Reading' = Reading
      BY <1>1 DEF Written, Reading
    <2>3. ReadBegun'
      BY <1>1, <1>6, <2>2 DEF Probing, ReadBegun
    <2>4. AnsweredOnce'
      BY <1>1, <1>5, <1>6, <2>1, <2>2 DEF Probing, AnsweredOnce
    <2> QED
      BY <1>1, <1>6, <2>1, <2>2, <2>3, <2>4 DEF Probing
  <1>7. ASSUME Configuring PROVE Configuring'
    BY <1>1, <1>5, <1>7 DEF Configuring
  <1> QED
    BY <1>1, <1>4, <1>6, <1>7 DEF BridgeInv

\* BridgeInv is an inductive invariant.
LEMMA NextInv == BridgeInv /\ [Next]_vars => BridgeInv'
  <1> SUFFICES ASSUME BridgeInv, [Next]_vars PROVE BridgeInv'
    OBVIOUS
  <1>1. CASE Put
    BY <1>1, PutStep
  <1>2. CASE Probed
    BY <1>2, ProbedStep
  <1>3. CASE Printed
    BY <1>3, PrintedStep
  <1>4. CASE Configured
    BY <1>4, ConfiguredStep
  <1>5. CASE CallSetter
    BY <1>5, CallSetterStep
  <1>6. CASE Reset
    BY <1>6, RestartStep DEF Reset
  <1>7. CASE ResetFailed
    BY <1>7, RestartStep DEF ResetFailed
  <1>8. CASE Interrupt
    BY <1>8, InterruptStep
  <1>9. CASE UNCHANGED vars
    BY <1>9 DEF vars, BridgeInv, TypeInv, Probing, Heard, ReadBegun, AnsweredOnce,
                Written, Reading, Configuring
  <1> QED
    BY <1>1, <1>2, <1>3, <1>4, <1>5, <1>6, <1>7, <1>8, <1>9 DEF Next

-----------------------------------------------------------------------------
(***************************************************************************)
(* The theorems.                                                           *)
(***************************************************************************)
\* BridgeInv holds in every state.
LEMMA AlwaysBridgeInv == Spec => []BridgeInv
  BY InitInv, NextInv, PTL DEF Spec

\* Wherever in a command the host was reset, and however often: when init() has
\* returned true, and after every setter, the firmware takes the next octet the
\* library writes for the first of a command (Grove_LoRa_firmware.ino:40).
THEOREM InStepOnceUp == Spec => []CommandsInStep
  <1>1. BridgeInv => CommandsInStep
    BY NothingLeft DEF BridgeInv, CommandsInStep
  <1> QED
    BY <1>1, AlwaysBridgeInv, PTL

\* The registers mean what init() and the setters called since asked for, for all
\* their arguments, whatever the firmware has taken the octets before for.
THEOREM ConfiguredAsAsked == Spec => []ConfigurationHeld
  <1>1. BridgeInv => ConfigurationHeld
    BY NothingLeft DEF BridgeInv, ConfigurationHeld, Means, PowerIs, FrequencyIs,
                       PreambleIs, ModemIs
  <1> QED
    BY <1>1, AlwaysBridgeInv, PTL

\* Nothing the radio said is left for the host to take for its next answer, unless
\* it was reset within a read command (RH_RF95.cpp:31).
THEOREM RepliesTaken == Spec => []RepliesInStep
  <1>1. BridgeInv => RepliesInStep
    BY DEF BridgeInv, Configuring, RepliesInStep
  <1> QED
    BY <1>1, AlwaysBridgeInv, PTL

=============================================================================
