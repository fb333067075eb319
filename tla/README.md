# Grove LoRa radio library: models, checks and proofs

The repository is a RadioHead derivative for Arduino: a LoRa radio (SX1276,
`RH_RF95`) sits behind a serial bridge (an ATmega running
`Grove_LoRa_firmware.ino`), and on top of the driver there are four managers,
each extending the one below: addressed datagrams (`RHDatagram`),
acknowledged datagrams (`RHReliableDatagram`), routing over hard-wired routes
(`RHRouter`) and routing with route discovery (`RHMesh`). This directory holds
TLA+ models of these parts, TLC configurations that check them, and proofs
checked by TLAPS.

## Inventory

| Component | State | Operations | Talks to |
|---|---|---|---|
| `RHGenericDriver`, `RHDatagram` | transmit headers `_txHeader*` (sticky), receive headers, mode | `sendto`, `recvfrom`, `available`, `waitAvailable*`, `waitPacketSent`, `setHeader*` | a driver below, managers and the sketch above |
| `RH_RF95` | `_buf`, `_bufLen`, `_rxBufValid`, `_mode` | `available`, `recv`, `send`, `handleInterrupt`, `sleep`, configuration | chip registers through `RHUartDriver` |
| `RHUartDriver` + firmware | two byte streams; the firmware's `command`, `reg`, `len`, `count`, `intFlag` | register reads and writes, the `'I'` notification | chip (SPI), host (serial line) |
| `RHReliableDatagram` | `_lastSequenceNumber`, `_seenIds[256]`, `_retransmissions`, `_retries`, `_timeout` | `sendtoWait`, `recvfromAck`, `recvfromAckTimeout`, `acknowledge` | the driver through `RHDatagram`; peers |
| `RHRouter` | `_routes[10]`, `_lastE2ESequenceNumber`, `_max_hops`, static `_tmpMessage` | `addRouteTo`, `getRouteTo`, `deleteRouteTo`, `retireOldestRoute`, `clearRoutingTable`, `sendtoWait`, `route`, `recvfromAck` | `RHReliableDatagram`; peers |
| `RHMesh` | static `_tmpMessage` | `sendtoWait`, `doArp`, `peekAtMessage`, `route`, `recvfromAck` | `RHRouter`, by overriding `route` and `peekAtMessage` |
| the example sketches | local variables of `loop()` | send, wait for a reply, answer | one manager, or the driver |

A node is single threaded. There are no real interrupts on the host:
`available()` polls the serial line for an `'I'` and then runs
`handleInterrupt()`. Concurrency is between nodes, and between a node's host,
its firmware and its radio. What is hard:

* frames and acknowledgements are lost, or overwritten in the one-packet FIFO
  and the one-packet `_buf`, at any moment, so `sendtoWait()` repeats itself
  and the receiver has to tell copies from new messages by one octet of ID;
* a node waiting for its acknowledgement also acknowledges others, through
  the same transmit headers;
* the acknowledgement goes out before the message is recorded as seen;
* nothing survives a restart: IDs start again at 1, tables of seen IDs at 0;
* the routing table is searched in three different ways, and deleting leaves
  stale copies in it;
* a hop may give up on a message that the next hop has taken, so that two
  nodes believe different things about where it is; a node that passes a
  message on is deaf to its neighbours until that is done;
* requests for a route travel on all ways at once, and their answers, failures
  and retransmissions cross;
* on the serial line, replies to register reads and notifications share one
  stream of bytes, in which nothing marks where a command begins, and the host
  may be reset within one;
* timeouts of 16 bits, nested in each other, are measured with a 32 bit clock
  that rolls over.

What makes each part correct: reliable datagrams are given to the sketch at
most once and in order, and a true result means that the addressee took the
message; `sendtoWait()` returns; the routing table is a map of bounded size
that loses a route only when it is full, and then the oldest; a routed message is
given only to its addressee and at most once, whatever the routes are, and none
is passed on for ever; routes that are discovered lead towards their
destination; the register protocol stays in step, the radio is configured as
asked, and a transmission ends; no call gives up early or late.

## Modules

| Module | What it models |
|---|---|
| `RHReliableDatagram` | every node's `RHReliableDatagram` over `RHDatagram`, the receive buffer of `RH_RF95` and a lossy medium |
| `AcknowledgedService` | abstract specification of what `RHReliableDatagram` promises: messages are taken once or never, and true means taken |
| `DatagramSketches` | the reliable datagram client and server on top of it |
| `MCReliableDatagram` | node sets and symmetry for TLC |
| `RHReliableDatagram_proofs` | theorems about `RHReliableDatagram` and `DatagramSketches` |
| `Timeouts`, `Timeouts_proofs` | the clock arithmetic of every call that waits, and theorems about it |
| `RouteMap` | abstract specification of a routing table: a bounded map |
| `RHRoutingTable` | the array behind `addRouteTo()` and its relatives; refines `RouteMap` |
| `MCRoutingTable`, `RHRoutingTable_proofs` | addresses and symmetry for TLC; theorems |
| `MessageService` | abstract specification of what both routers promise: messages are given to their addressees, at most once |
| `RelayNetwork` | what `RHRouter` and `RHMesh` share: messages, who hears whom, one hop |
| `RHRouter`, `RHMesh` | the two routers over it; each refines `MessageService` |
| `MCRouter`, `MCMesh` | the routes the router sketches enter, and the networks looked at |
| `RelayNetwork_proofs`, `RHRouter_proofs`, `RHMesh_proofs` | lemmas about one hop, and theorems about both routers |
| `RoutedSketches` | the eight router and mesh sketches on top of `MessageService` |
| `RH_RF95` | one radio below all that: driver, serial line, firmware, chip |
| `RH_RF95_proofs` | theorems about `RH_RF95` |
| `RadioSketches` | the sketches without a manager, on top of `RH_RF95` |
| `SerialBridge`, `MCBridge` | the serial line octet by octet, the firmware's parser, `init()` and the setters, resets of the host; values for TLC |
| `SerialBridge_proofs` | theorems about `SerialBridge` |

The layers are linked by what each is shown to do. `RHReliableDatagram` is
detailed about retransmission and identification; `RelayNetwork` assumes of it
what `AcknowledgedService` says, which it is proved to implement (true means
taken, nothing is taken twice), and that a call ends, and adds what is peculiar
to relaying. It takes a routing table to be the map that
`RHRoutingTable` is proved to implement. `RoutedSketches` uses of the routers
only `MessageService`, which both are proved to implement.

Operators whose comment starts with "Fault" are plausible mistakes in the code,
each a variant of the operator behind it. No specification uses them; they
exist to be put in place of the real one, to see that the properties notice.

### `RHReliableDatagram`

State: one function per member of the C++ objects, indexed by node
(`lastSequenceNumber`, `seenIds`, `retransmissions`; of the driver
`txHeaderId`, `txHeaderAck` and `rxBuf`, which is `_buf` with the receive
headers while `_rxBufValid`; `rxOn` tells whether the receiver was ever
started), the packet in the radio's FIFO (`fifo`), and the control state of the
sketch: `pc` is "idle" between calls, "wait" in the inner loop of
`sendtoWait()` with its locals in `cur` and `retries`, "ackd" in `recvfromAck()`
between `acknowledge()` and the test of `_seenIds`, with the local copies of the
headers in `held`. `sent`, `log` and `outcome` are history: they number the
messages, and record what the sketch got and what `sendtoWait()` returned.

| Action | Code |
|---|---|
| `Available` | `available()`, `waitAvailable()`, `waitAvailableTimeout()` from anywhere: an interrupt is served, the receiver is on |
| `SendtoWait` | `sendtoWait()` up to the end of the first transmission |
| `Retransmit`, `GiveUp` | the inner loop's timeout ends; the outer loop goes round, or the call returns false |
| `RecvWhileWaiting` | `recvfrom()` in the inner loop and the three ways its result is treated |
| `RecvfromAck`, `Deliver` | `recvfromAck()`, cut in two after `acknowledge()` |
| `Sendto` | `RHDatagram::sendto()` called by a sketch |
| `ResetRetransmissions` | the call of that name |
| `Restart` | power failure: constructors and `init()` run again |

`recvfromAckTimeout()` is a sequence of `Available` and `RecvfromAck` steps.
Transmission is one step (`send()` and the `waitPacketSent()` that follows it;
that the latter may never return is added in `DatagramSketches`); each other
node whose receiver is on hears the frame or not, and a frame that
is heard replaces what the FIFO held. Losing a frame covers collisions, bad
checksums, distance and sleeping receivers. A packet waiting in the FIFO of a
node that transmits is lost, because `send()` writes over it and the interrupt
handler clears its flag while waiting for the end of the transmission. Clocks
are abstracted: a timeout may end at any step.

Not in this module: statistics counters, RSSI, promiscuous mode, changing the
address at run time, plain `recvfrom()` by a sketch.

`DatagramSketches` restricts the callers to what the client and the server do:
`at` says where the `loop()` of each is, `Request`, `Reply` and `NoReply` are
their own steps, `Sending`, `Receiving` and `Received` are steps of
`RHReliableDatagram` inside the call they are in. A reply does not name its
request, so `exchanges` and `asked` record which was printed for which.
`waitPacketSent()` has no limit, and `link_hang` shows it waiting for ever: in
each step that transmits (`WaitPacketSent`, `Acknowledging`) a node may get stuck
for good, which `hung` records; then it takes no further step.

### `Timeouts`

`at` and `call` say which call waits, and in which of its loops. The outer loop
(`sendtoWait()`, the three `recvfromAckTimeout()`) computes the time left as an
`int32_t` and hands it to `waitAvailableTimeout()` as a `uint16_t`; the inner
one counts for itself, from its own `millis()`. `Elapsed` is the unsigned
difference, `Signed` the reading of it as an `int32_t`, `Jittered` the random
timeout of a retransmission in 16 bits. Every step takes up to `MaxDelay`.
`passed` is the true time, which no code sees.

### `RHRoutingTable`

The operations are functions of a table, so that other modules can use them;
the actions apply them to `routes`. `memcpy()` between overlapping ranges in
`deleteRoute()` is undefined in C; the model copies in ascending order, which
every implementation the boards ship with does for a move to lower addresses.
`RouteMap` is what callers of `getRouteTo()` rely on, and `MapSpec` says that
the array implements it, with the table mapped to what `getRouteTo()` answers;
`OperationsOfMap` adds that each call does to the map what its name says.

### `RelayNetwork`, `RHRouter`, `RHMesh`

State per node: the routes; the packet waiting in the FIFO (`inbox`), marked
`awaited` while its sender still waits for the acknowledgement; the running
`RHReliableDatagram::sendtoWait()` (`out`), which is the sketch's own or relays
a message that came from a neighbour; in `RHMesh` also the running `doArp()`
(`arp`). `result` is the last error code the sketch got, `sent`, `got` and
`lost` are history. Which of the four `RH_TEST_NETWORK`s a behaviour is about,
whether frames get lost and who sends, is chosen at its beginning (`setting`).

| Action | Code |
|---|---|
| `SendtoWait` | `sendtoWait()` of the router to the start of its first hop, and of the mesh to the broadcast of `doArp()` |
| `Arrive` | a transmission of a hop reaches the radio of a next hop that listens |
| `Return` | `RHReliableDatagram::sendtoWait()` returns to `route()`; in the mesh `route()` goes on to delete the route and to tell the source |
| `Take` | `RHRouter::recvfromAck()` with a message: the test network, `peekAtMessage()`, delivery, relaying with the hop count, and in the mesh requests, responses, failures and the loop of `doArp()` |
| `ArpTimeout` | `doArp()` gives up |
| `ChangeRoute` | `addRouteTo()` or `deleteRouteTo()` by a sketch |

A hop is two things that happen apart from each other: the next hop takes the
message (`Take` sets `taken` of the call it acknowledges), and the sender's call
returns, with true only if it was taken, with false in any case (`MayReturn`).
An acknowledgement that is lost for good is therefore a message on its way with
a sender that reports it as undelivered. A node in `out` hears nothing but its
acknowledgement. A node that transmits loses what its FIFO held.

`peekAtMessage()` is modelled with its double increment: it leaves out the node
behind this one and takes the octet behind the list for a node (`OneTooFar`,
`Behind`). The buffer is the static `_tmpMessage`, in which messages handled before
have left octets of longer lists or of payloads, so that octet is any of
`StaleOctets`, chosen anew each time; `strayed` records that one which names a
node was entered in a routing table. `doArp()` with its variable
`messageLen` that small messages reduce (`deaf`) and with its belief that any
response answers its own request. End-to-end IDs, flags and the contents of
messages are left out, as no router looks at them.

`RoutedSketches` is the `loop()` the eight sketches have in common: `Type`,
`GotReply`, `NoReply`, `GotMessage` and `Answer`. `asked` and `replies` record
whom a sketch asked last, and whose message it printed as the reply.

### `RH_RF95`

The driver's `_mode`, `_rxBufValid`, `_buf` (with `_bufLen` as its length); the
commands on the line to the firmware and the bytes on the line back; the
firmware's `intFlag`; the chip's operating mode, interrupt flags, the mapping of
its pin DIO0 and the FIFO pointer. `pc` tells which register
`handleInterrupt()` is waiting for. `air` is what has been received.

| Action | Code |
|---|---|
| `PollNothing`, `PollInterrupt` | `available()`, or `recv()` from its call of `available()`, with and without an `'I'` to serve |
| `GotFlags`, `GotLength`, `GotAddress`, `GotOctets`, `GotRssi` | `handleInterrupt()` from one register read to the next; at its end the rest of `available()` and of `recv()` |
| `Send`, `Sleep` | the calls of those names; the waiting in `send()` is polling |
| `Execute`, `Notify` | a command of the host, and the `'I'`, in the firmware's `loop()` |
| `Arrive`, `TxEnd` | the chip, as its data sheet and the driver's use of it have it |

The two streams are sequences, and a byte knows which register it is from: the
host does not, and takes the next byte for whatever it asked for. If that is
the wrong one, its value is any, but for `'I'`, which is 0x49 and as interrupt
flags says that a packet was received and one was sent. Data that happens to be
0x49 is taken for an `'I'` by `available()`. Commands travel whole. The firmware
executes one whether or not an interrupt is pending, whose `'I'` it sends at the
end of that turn of its `loop()`: the reply to a read may come before it. What a sent
packet contains, RSSI and frequency are left out, as is the wrapping of the
FIFO, in which a second packet can also overwrite one not read yet.

`disturbed` is a history variable: the radio acted before its previous
interrupt was dealt with, and the line has not been quiet since. Three
properties hold only while it is FALSE; the run `link_hang` shows what happens
otherwise to one of them, with a sketch on top (`RadioSketches`).

### `SerialBridge`

`fw` is what the firmware's parser has put together of a command (its `count` is
the length), `chip` the registers of the radio, `back` the octets on their way to
the host, `octets` what the host has still to write of the call it is in, `host`
where it is: "probing" and "configuring" in `init()` or a setter, "up", or
"printing" and "failed" when the check of `init()` did not succeed.

| Action | Code |
|---|---|
| `Put` | `RHUartDriver` writes one octet, the firmware's `loop()` takes it: skips it, keeps it, or completes and executes a command (`Take`, `Execute`) |
| `Probed`, `Printed`, `Configured` | the steps of `RH_RF95::init()` that wait for an answer, and its end or that of a setter |
| `CallSetter` | `setTxPower()`, `setFrequency()`, `setPreambleLength()`, `setModemConfig()` |
| `Interrupt` | the firmware writes an 'I', where a mutilated command has put the radio into a mode that receives or sends |
| `Reset`, `ResetFailed` | the host starts again, at any octet, or because `init()` failed; the firmware does not |

The setters are the sequences of octets they write. The registers not named
read as anything in `Strays`, and a transfer that is longer than meant goes on
through the registers behind.

## Runs

| Run | Instance | Shows |
|---|---|---|
| `adversity` | 2 nodes, 3 messages, 3 IDs, 1 retry, counter of 2 values, restarts, plain `sendto()`, too long messages | `TypeOK`, `InOrder`, `OrderInv` |
| `sketches` | client and server, 3 messages each, 4 IDs, 1 retry, any transmission may hang, fairness | `AckedImpliesDelivered`, `RetransmissionsBounded`, `ReplyAnswersRequest`, `BothReturn`, `AckedReachesSketch`, `ImplementsAcknowledgedService` |
| `timeouts` | clock of 64 values, timeouts of 16, 4 random numbers, steps of up to 2 | `NeverEarly`, `NeverLate` |
| `table` | 4 addresses, 3 entries, all operations | `TypeOK`, `OnlyFirstIsLive`, `OldestRetired`, `MapSpec`, `OperationsOfMap` |
| `router` | 4 nodes in a row, wired like the sketches or wrongly, one route changed, frames lost, both ends send, fairness | `TypeOK`, `OneCopy`, `ImplementsService`, `Settles`, `Arrives` |
| `mesh` | the four test networks, with and without loss, one sender or two, any octet behind a list, fairness | `TypeOK`, `OneCopy`, `DiscoveredRoutesLeadOn`, `PathsAreWalked`, `ImplementsService`, `DiscoverySucceeds`, `Settles` |
| `link` | one radio, 2 packets arrive, 2 are sent, sleep at any time, fairness | `TypeOK`, `NeverStarved`, `NotDeaf`, `ModesAgree`, `CompletePacketsUndisturbed`, `TransmissionCompleted`, `WaitPacketSentReturnsUndisturbed` |
| `bridge` | 2 resets at any octet, 1 call of a setter, 6 powers, 2 frequencies, 2 preambles, all 4 modem configurations | `CommandsInStep`, `RepliesInStep`, `ConfigurationHeld`, `Recovers` |

Four more runs are expected to end in a violation, see below.

### Bounds, and why they are enough

* Reliable datagrams: `OctetSize` (256 in the code) is 4 where IDs are not to
  repeat and 3 where they are to; two or three messages and one retry suffice
  for every mix of an old copy, a new copy and an old acknowledgement. With three
  IDs the third message has the ID 0, which `_seenIds` starts with, and a
  restarted node uses again what it used before. `adversity` looks at three
  messages in all, from one node or from both (`FewSends`). `Restart` is
  unbounded. Frames of a
  third node in the buffers are covered by the theorems, which are for any
  number of nodes.
* `timeouts`: the clock starts anywhere, so it rolls over in any step; the
  proportions are those of the proof's condition (below), and minimal timeouts
  of 0 and of half the range are among those taken.
* `table`: three entries with four addresses give a full table with a
  destination left over, gaps in the middle and stale copies of it; ten entries
  behave the same. Two of the addresses are interchangeable and declared
  symmetric; address 0 is not, as a table at rest is full of it.
* `router`: four nodes in a row need two relays, which is the hop limit
  (`MaxHops` is 2, 30 in the code), so that a message can use the limit up
  without a detour and a circle of two or three nodes exhausts it. The wrong
  wirings are all that send messages for node 4 anywhere or nowhere. One message
  from each end makes them meet on their way.
* `mesh`: one discovery has up to four broadcasts and two answers; on the
  networks 2 and 3 it goes two ways at once. Frames are lost on the networks 1
  and 4; on network 1 two nodes also look for each other. `StaleOctets` is
  {0, 1, 2, 3, 4}, every node and none ({0} in `late_answer`, whose counterexample
  needs no such octet), and message 1 is an empty one.
* `link`: packets are one octet (shorter than the header, which has two) or two
  long, good or bad, for this node or not; two of each sort of event make every
  pair meet. `MaxPending` keeps the host from filling the line by `sleep()`
  alone: it sleeps only when no command is on the line (in the proofs at any
  time).
* `bridge`: a reset after every octet of every command, and a second one after
  every octet that follows, in or after the recovery from the first. The powers
  lie on both sides of each limit of `setTxPower()`, among them the ends of an
  `int8_t`; one frequency has octets that are the letters 'W' and 'R'. After a
  failed `init()` resets are not counted.

### Fairness

`RHReliableDatagram` states none; its callers do. `DatagramSketches`: the loops
of `sendtoWait()` go on (`millis()` advances, so a timeout ends, whatever
arrives meanwhile), `recvfromAck()` is called and runs to its end, the server
answers what it got, and the client's two seconds pass. All of this holds of a
node only as long as its `waitPacketSent()` returns: nothing is assumed of the
end of a transmission, nor of the medium. `BothReturn` says that a call ends
unless a transmission of its own node hangs, whatever happens to the other node,
and `AckedReachesSketch` makes the same exception for the node that acknowledged.

`RHRouter`: sketches call `recvfromAck()` over and over ("it is important to
call recvfromAck() or recvfromAckTimeout() frequently", RHRouter.h:70), and the
hop below ends; whether messages arrive is left to chance. That a hop ends is an
assumption about the radio below, which `link_hang` shows not to be true of every
transmission: `Settles`, `Arrives` and `DiscoverySucceeds` are about networks in
which no node hangs. `RHMesh`: the same, and in settings without
loss a transmission reaches a next hop that listens.

`RH_RF95`: the firmware loops, a transmission ends, and the host polls, as
`waitPacketSent()` does; nothing is assumed of packets arriving. In
`RadioSketches` that is `loop()` itself. `SerialBridge`: what the host writes is
taken, `init()` goes on, and somebody resets a host on which it failed.

### Disagreements between code and documentation

Each of these runs is expected to violate its one property.

| Run | What happens |
|---|---|
| `restarted_sender` | After a restart a node's first message has the ID the addressee saw last; it is acknowledged and thrown away. The same happens without a restart when 256 IDs have gone round unseen. |
| `link_hang` | In `rf95_client`, a packet arrives in the delay at the end of `loop()` and its 'I' is served after the next `send()`: the end of the transmission falls between reading and clearing the flags for the packet and goes unseen, and `waitPacketSent()` waits for ever. |
| `late_answer` | A node looks for one neighbour, gives up after four seconds, looks for another, and gets the answer of the first. `doArp()` takes any discovery response for its own, so the next hop to the second becomes the first, and the message for it goes there. |
| `mistaken_reply` | At router 1 somebody types 2 and then 3. Router 2's answer comes when the sketch does not wait for it any more (its three seconds are over, or `sendtoWait()` has returned an error although the message arrived), and is printed as the reply to the message for router 3: "wait for a reply from the ultimate router" takes the first message of anybody. |

More follow from the code directly and have no run:

* `_rxBufValid` is never reset: a packet for another node that arrives on top of
  an uncollected message is delivered in its place.
* plain `sendto()` after an acknowledgement carries its ID and ACK flag, and
  counts as an acknowledgement for `sendtoWait()` of the addressee.
* `setRetries(255)` makes the retry loop endless.
* `sendtoWait()` ignores the result of `sendto()`, and returns true for a
  broadcast that is too long to be sent.
* `setTimeout()` with more than 32767 ms may wrap in the sum with its random
  part, so that a retransmission comes early.
* `deleteRouteTo()` returns true for a destination without a route when a stale
  entry names it.
* a packet that arrives while another is read out may be delivered although it
  is bad, or with the length of the other. `CompletePacketsUndisturbed` is about
  all other times.
* `peekAtMessage()` enters a route for the octet behind the node list of a
  response, if the node passing the response on is in the list but not at its
  end. If that octet, left in `_tmpMessage` by an earlier message, names a node,
  the route may lead nowhere, where RHMesh.h:64-66 says that nodes "know how to
  route". `RoutesLeadOn` fails for this reason alone in the `mesh` run's instance;
  `DiscoveredRoutesLeadOn` is about all other causes.
* in the router and mesh sketches a reply that comes outside of any wait is
  answered as a message, and so is the answer.
* an empty message received while `doArp()` waits makes `messageLen` too small
  for any response, and it finds no route.
* a host that is reset within a read command: the firmware takes the 'W' of
  `init()` for the number of octets to read (87) and answers with the registers
  from there on. If the first of them reads as 0x80, `init()`'s check passes,
  and every later read gets what is left over. `RepliesInStep` excludes this
  case (`cut`); writes are not affected.
* the sketches' comments say "Defaults after init are 434.0MHz"; `init()` calls
  `setFrequency(868.0)`.

## Proofs

All theorems are for any values of the constants their module assumes nothing
more about, and machine-checked to the last leaf.

**`RHReliableDatagram_proofs`**: any set of nodes, any number of IDs, any retry
limit and any number of messages.

* `TypeCorrect`: `Spec => []TypeOK`.
* `DeliveryInOrder`: `Spec => []InOrder`, restarts and plain `sendto()`
  included. `InOrder` is not inductive: it says nothing of the copies that are
  still on their way. `OrderInv` adds that the copies a node holds of one
  sender's messages (in `held`, `rxBuf`, `fifo`) are in sending order, that none
  is older than what was delivered, and that a message that may still be sent
  again keeps the ID that `_seenIds` has for it. The lemma `MoveOrder` treats
  all ways frames move between buffers, `SendOrder`, `RestartOrder` and
  `DeliverOrder` the other steps.
* `FramesInOrder`: `Spec => []OrderInv`, the same for every copy of a frame on
  its way, which `DeliveryInOrder` uses.
* `RetransmissionsWithinBudget`: `Spec => []RetransmissionsBounded`, assuming
  `Retries + 1 < OctetSize`: with `setRetries(255)` the octet that counts the
  transmissions wraps before it exceeds the limit, and the loop never ends. The
  invariant `RetriesInv` also counts the transmissions of the running call
  (`retries`): what is left of its share of the budget is what its loop may
  still use. The counter itself may wrap (`CountOn`).
* `AcknowledgedIsDelivered`: `Spec => []AckedImpliesDelivered`, assuming that
  no node restarts, that nobody calls plain `sendto()` and that fewer messages
  are sent than there are IDs; `restarted_sender` shows that it fails otherwise.
  The invariant is `AckInv`: IDs number messages, an ID in `_seenIds` and an
  acknowledgement anywhere belong to a message that was taken.
* `LibraryImplementsService`: `Spec => ImplementsAcknowledgedService`, under the
  same three conditions (`Steady`). The mapping takes a message to be taken when
  `recvfromAck()` has acknowledged it and will find it new (`TakenBy`), which is
  before `log` or `_seenIds` say so; all transmissions, acknowledgements and
  losses are hidden steps. `NewIsLater` says from `OrderInv` and `AckInv` that
  what is then taken was sent, and later than all that was taken from its
  sender; `TakenByKept` that only this step changes it, `TakenIsHad` that an
  acknowledgement that ends a call is for what is taken, and `Addressed` that a
  call waits only for a node other than its own.
* `SketchesUseLibrary`: `SketchSpec => Spec`, so that all of the above holds for
  the client and the server, and `RepliesAnswer`: `SketchSpec =>
  []ReplyAnswersRequest`, both assuming that fewer messages are sent than there
  are IDs (the sketches neither call plain `sendto()` nor restart). Nothing in a
  reply names its request; what makes it right is time. `SketchInv` says that
  the server's k-th message answers the k-th one it got (`Answers`), and that
  while the client waits all it has from the server answers the request it sent
  last (`Awaiting`): the acknowledgement that let it wait has overwritten what
  was in the FIFO and in the buffer, the server was not sending when it gave it,
  and it gets no further request before the client stops waiting. `LastAsked`
  and `AwaitedIsTaken` bring in `InOrder` and `AckedImpliesDelivered`.

**`RHRoutingTable_proofs`**: any addresses, any size of the table.

* `OnlyFirstEntryIsLive`: `Spec => []OnlyFirstIsLive`. With the type of the
  entries (`TableInv`) this is inductive. `DeleteRouteStep` says what shifting
  the entries does to it and to the answers of `getRouteTo()`, `WriteStep` what
  writing one entry does, `Room` that there is a free slot after the oldest
  route was retired; the actions are compositions of these.
* `TableImplementsMap`: `Spec => MapSpec`, the refinement of `RouteMap`.
* `OperationsAreThoseOfMap`: `Spec => OperationsOfMap`.
* `TableTypeCorrect`: `Spec => []TypeOK`, and `OldestMakesRoomFirst`: `Spec =>
  OldestRetired`. The invariant is `AgeInv`: while no entry was made Invalid
  where it stands, the table is `Packed` (routes in front, and behind them
  copies of one entry only, so that a destination found there is found at the
  first free slot) and `InAge`, its entries in the order in which their routes
  were made. `DeleteAge` and `WriteAge` say that shifting and writing keep both,
  `FirstIsOldest` that the first entry is then the oldest route. Without
  `Packed` a destination found in a stale entry behind a free slot would be
  written there, and the next one in front of it.

**`RHRouter_proofs`, `RHMesh_proofs`**, over `RelayNetwork_proofs`: any nodes,
hop limit, settings and routes, any number of messages, any lost frames.

* `RouterTypeCorrect`, `MeshTypeCorrect`: `Spec => []TypeOK`, which says among
  others that hop counts stay within the limit.
* `RouterKeepsOneCopy`, `MeshKeepsOneCopy`: `Spec => []OneCopy`. A message for
  one node has at most one place from which it can go on: a call whose message
  no next hop has taken, or a packet whose sender no longer waits.
* `RouterImplementsService`, `MeshImplementsService`: `Spec =>
  ImplementsService`: every step is one of `MessageService` or leaves it alone.
  The step that matters is `Take` giving a message to the sketch, which must be
  the first time: `OneCopy` says so, for unless its sender waits for it (and
  then there is no other) the packet taken is the one copy.

  The invariant is `NetInv`: the types; an application message on its way is
  one its source has sent, with its addressee (`Underway`, of `Genuine`
  messages), and what was given out was sent (`GivenSent`); a packet whose
  sender still waits is what that sender is sending, to this node (`Awaited`);
  `OneCopy`. The router adds that there are only
  application messages, the mesh that application messages in a node's own call
  are its own (`OwnMessages`) and that the message `doArp()` delays is nowhere
  yet (`Unsent`). `ArriveStep`, `ReturnStep`, `PostStep`, `RelayStep` and
  `GiveStep` are proved once for both.
* `MeshPathsAreWalked`: `Spec => []PathsAreWalked`, for any networks: the list of
  nodes in a request for a route is a way the request has really gone, every
  node in the hearing of the one before. `WalkInv` says it of every copy, in a
  FIFO or being sent, and of a request that it is only broadcast, and heard in
  sight of the last node it lists.
* `MeshRoutesLeadOn`: `Spec => []DiscoveredRoutesLeadOn`, for any number of
  nodes and messages, hop limit, losses and octets behind a message, under one
  assumption on the network and with two exceptions that are part of the
  property:

  * the network is one in which each neighbour of a node leads to different
    nodes (`NoCycles`), or one in which leaving a node out cuts nobody off
    (`NoCutNode`), where every neighbour leads everywhere. `SimulatedNetworks`
    proves that the four test networks are of these kinds (a row and a star are
    of the first, the other two of the second), `OpenSight` that a network where
    all hear each other is of the second, for any nodes;
  * no sketch sends to a second node (`OneDestination`); `late_answer` is the
    counterexample without it;
  * no octet behind a list was taken for a node (`~strayed`): the octets may name
    nodes, and until one of them is entered as a route all routes lead on.

  `RoutesLeadOn` is far from inductive. `RouteInv` adds to it that requests are
  for, and responses from, nodes that were sent to (`Sought`), and, while there is
  one way and nothing has led off it (`OneWay`), that a running call sends towards
  the destination, has the source behind it, and remembers a neighbour on the side
  of the source, which the failure notice needs (`GoodCall`), and that a packet
  comes from the side of its source and its destination is on this side
  (`GoodPacket`). Requests are an exception: in a
  broadcast all ways are taken at once, and their way back follows from
  `WalkInv` (`GoodWaysBack`), as does the way to the nodes in a response's list
  (`BehindOnOneSide`).

  What there is to know of networks is in lemmas about `Beyond`, the nodes
  reached from a neighbour without coming back: `BeyondAway` (without cycles,
  what lies beyond one neighbour is on this side for another), `BeyondApart`
  (a link has two sides) and `PathOnOneSide` (a path that avoids a node stays on
  one side of it), the last by the least element of a set of positions
  (`LeastNumber`) in place of an induction.
* `NextHopsInSight`: the next hop of a route is always a node in sight, without
  any of these conditions.

**`Timeouts_proofs`**: any sizes of clock and timeouts (2^32 and 2^16 in the
code), under `ModerateTimes`: the timeouts of `sendtoWait()` are at most half of
the range of their type, and the steps are far shorter than the time in which the
clock rolls over.

* `TimeoutsAreNeverEarly`, `TimeoutsAreNeverLate`: the invariant `TimeInv` ties
  what the code measures modulo the size of the clock to the time passed: outer
  and inner loop have measured exactly `passed`, or its latter part, and what the
  inner loop may still wait is what the outer one has left, but for one step.

**`RH_RF95_proofs`**: any lengths of packets and of the header, any number of
packets received and messages sent, the host put to sleep at any time, races
with the radio included.

* `RadioTypes`, `RadioTypeOK`: `Spec => []TypeOK`. `TypeInv` adds which commands
  the driver sends and that the addresses in the replies are those of packets
  that have arrived, without which the FIFO pointer could leave the FIFO.
* `NeverDeaf`: `Spec => []NotDeaf`. `ServingStep` says that what serves an
  interrupt (`Serving`) passes on from the firmware's `intFlag` to the `'I'`,
  to `handleInterrupt()`, to the clearing command, and ends only with the flags;
  `Raising` that the pin rises only in steps that set `intFlag`.
* `ModesInStep`: `Spec => []ModesAgree`. The last write of the mode and of the
  pin among the commands (`LastWrite`) decides; the lemmas say what appending
  each of the driver's groups of commands and executing the first one do to it.
* `ReadsAreAnswered`: `Spec => []NeverStarved`, so `uartRx()` never runs into its
  time limit. The invariant is `Fed`: a byte taken for something else leaves
  behind the one that was meant. The one exception is a packet taken to have no
  octets, whose reading is answered by nothing though one byte is awaited; a
  length of 0 is only ever read from a stray byte, so that there is then one
  byte more than needed (`Two`).
* `PacketsComplete`: `Spec => CompletePacketsUndisturbed`, and
  `TransmissionsComplete`: `Spec => TransmissionCompleted`. The invariant
  `RadioInv` joins those above to what holds while nothing disturbs
  (`Undisturbed`): the phases of one interrupt, from the pin that rises
  (`Raised`) over its `'I'` (`Announced`) and the reads of `handleInterrupt()`
  (`AskedFlags` to `AskedRssi`) to the clearing of the flags, each with the
  commands, the replies and the FIFO as they then must be, and the stages of a
  transmission (`SendAsked`, `OnAir`, `SentOut`). `Lasting` is what a
  disturbance does not undo, and `QuietUndisturbed` says why it suffices: once
  the line is quiet, host, firmware and chip are back in the first of these
  phases, whatever went wrong before.

**`SerialBridge_proofs`**: any arguments of the setters, any number of calls and
of resets, at any octet, any values of the registers not modelled.

* `InStepOnceUp`: `Spec => []CommandsInStep`.
* `ConfiguredAsAsked`: `Spec => []ConfigurationHeld`.
* `RepliesTaken`: `Spec => []RepliesInStep`.

  The invariant is `BridgeInv`. While the host probes (`Probing`), what the
  firmware holds of a command of before the reset, followed by what is still to
  be written, ends at most in the middle of a command, and then no answer comes
  that `init()` would accept. Afterwards (`Configuring`) it is a whole number of
  writes (a `Program`), and their `Effect` on the registers as they are gives
  the configuration asked for, so that nothing has to be said of how far the
  host has come. `EffectConcat` and `EffectDrop` say that the effect of writes
  put together is that of one after the other; `FrequencySet`, `PreambleSet`,
  `ModemSet` and `PowerSet` what those of each setter leave, for every argument,
  the octets it is cut into and the power amplifier's boost included.

Model-checked only: what the sketches of the routers and of the bare driver do,
and all liveness, `Recovers` of `SerialBridge` among it, which is out of the
prover's reach.

## Not modelled

* Platform support (macros, AVR atomic blocks no source uses) and
  `RHutil/simulator.h`, an interface without an implementation here.
* Diagnostics: `printBuffer()`, `printRegisters()`, `printRoutingTable()`.
* Promiscuous mode, RSSI, the counters of packets, and `setThisAddress()` at run
  time, which no sketch calls.
* Contents and lengths of application messages, with the one exception of the
  empty message in `doArp()`; that `len` is not reset in the sketches' `loop()`
  is therefore not seen.
* Octets lost or changed on the serial line, for which the code has no remedy.
* `setModemConfig()` with an index behind its table: its check is off by one, but
  no caller has such a value.

## Plan

Done: the six parts of the library, their sketches, and the firmware. Left:

1. `RelayNetwork` composed with `AcknowledgedService`, in place of its own
   `taken` and `MayReturn`. It cannot be by a refinement mapping of the states as
   they are: a node has room for two packets in `RHReliableDatagram` (the FIFO
   and `_buf`), and for one in `RelayNetwork`.
2. The answers of one discovery told apart from those of another, as a repaired
   `doArp()` would have to, and `MeshRoutesLeadOn` without `OneDestination`.
