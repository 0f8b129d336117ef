# A verification of the MySensors node library

The repository holds the household sensor network of its owner: sketches, boot loaders, third-party Arduino
libraries and, under `src/MySensors-development`, the MySensors library, which is where the program's own logic
is. A MySensors network is a tree of small radio nodes. Each node finds a parent, obtains an ID, keeps an eye on
its way to the gateway, relays the messages of its children, and may download new firmware through that tree.
This directory holds TLA+ models of the parts of the library that decide what a node does, TLC configurations
that check them on small instances, and theorems about them that TLAPS has checked for every value of the
constants. Paths below are relative to `src/MySensors-development`.

    tlc  -workers 2 -config TransportSM_search.cfg MCTransportSM     one run
    tlapm --threads 4 TransportSMProofs.tla                          one proof module

Files: `X.tla` models a component, `MCX.tla` gives TLC the constants a `.cfg` cannot spell, `X.cfg` or
`X_run.cfg` is a run, `XProofs.tla` holds the theorems. `PROJECT.json` lists the components, runs, theorems,
hazards and findings and says for each definition which lines it translates.

## 1. Inventory

| component | state | operations | modelled by |
|---|---|---|---|
| Transport state machine and routing: `core/MyTransport.cpp` | `_transportSM`, `_transportConfig`, `_lastUplinkCheck`, routing table and node ID in EEPROM | transitions and updates of six states; `transportProcessFIFO`, `transportProcessMessage`, `transportRouteMessage`, `transportPingNode`, `transportCheckUplink` | `TransportSM`, `NodeLife` (partly) |
| Core: `core/MySensorsCore.cpp` | `_coreConfig` | `_process`, `presentNode`, `_registerNode`, `_processInternalCoreMessage`, `wait`, `sleep` | in `TransportSM`, as far as the transport calls it (partly) |
| OTA firmware update: `core/MyOTAFirmwareUpdate.cpp` | configuration, block, retries, flash, EEPROM | offer, request, reply, give up, store, sign, reboot | `FirmwareUpdate`, `Installer` |
| RF24 receive queue: `hal/transport/MyTransportRF24.cpp`, `drivers/CircularBuffer`, `drivers/RF24` | ring, loss counter, the chip's FIFO and interrupt line | interrupt handler, `transportAvailable`, `transportReceive` | `RxQueue`, `LossyFifo` (partly) |
| RFM95 link: `drivers/RFM95/RFM95.cpp` | radio mode, flags, packet, sequence number | `sendWithRetry`, `sendFrame`, handler, `recv`, `sleep`, `initialise` | `RFM95Link` (partly) |
| RFM69 link | as RFM95, a listen mode | the same protocol | no |
| RS485 transport: `hal/transport/MyTransportRS485.cpp` | receiver state machine, one buffer, packet flags | `_serialProcess`, `transportAvailable`, `transportReceive`, `transportSend` | `RS485` |
| Signing: `core/MySigning.cpp`, `core/MySigningAtsha204Soft.cpp` | message being signed, nonces, timers, tables of who signs | `signerSignMsg`, nonce requests inside nested waits, `signerVerifyMsg` | `Signing`, `OneTimeNonce` (partly) |
| Ethernet gateway: `core/MyGatewayTransportEthernet.cpp`, `core/MyGatewayTransport.cpp`, `drivers/Linux/Ethernet*.cpp` | slots with input buffers, client objects, the server's list, files | accept, reject, read, parse, answer, present, write to all | `EthernetServer`, `EthernetGateway` (partly) |
| Inclusion mode: `core/MyInclusionMode.cpp` | mode, button, a timer | start, stop, timeout | in `EthernetGateway` |
| Serial and MQTT gateways | one message each | poll, send | no |
| Message formats, indication and LEDs, hardware abstraction, chip drivers | data, outputs, registers | | no |
| Household sketches, boot loaders, Arduino libraries | | | no |

How they interact. The main loop (`_process`) calls `transportProcess`, which runs the state machine and then the
receive FIFO; the FIFO's handlers route the message, call the core, the sketch, the OTA module or signing, and
each of these may *wait*, that is, process further messages or the whole main loop before it returns. There are
no threads on the node; the only concurrency in the proper sense is the radio's interrupt handler. So the two
hard behaviours are **re-entrancy** (a step of the state machine in the middle of the handling of a message) and
**interrupts** (a handler between any two accesses to shared variables). The environment adds lost, late and
repeated messages, transmissions that fail, radios that stop working, and power failures; only the node ID, the
routes, the firmware configuration and the external flash outlive a restart.

What makes each part correct:

* *Transport*: ready means attached (parent, ID, distance, radio); an ID once stored stays; a static or preferred
  parent that answered stays; a ready node searches again only after real failures; pings free their slot; nobody
  offers itself to its own parent; every state ends; a flood of messages does not starve the main loop.
* *OTA*: the node never runs a mixture of firmwares, downloads without gaps, records only what it has, gives up late
  and at last, while it has its uplink.
* *Receive queue*: it is a FIFO that loses frames only when full and only at its entrance; no frame is forgotten.
* *Link*: a message reported as delivered was; no packet is overwritten; calls return; the radio listens again.
* *RS485*: what is taken from the buffer is what a station sent to this node; a whole frame is found whatever came
  before it; sending gives up on a busy line.
* *Signing*: one nonce, one message; a message is returned signed only if it is the one given; every call returns.
* *Gateway*: the slots, their buffers and the server's list, three records of the same connections, agree; every
  controller is read; inclusion mode ends.

`PROJECT.json` lists the forty hazards that matter most, with the line at which each bites and the properties that
would catch it. Smaller ones that no property covers: an uplink check that renews its own time without a ping
(`MyTransport.cpp:848`); a wait for an answer looks at the last message only
(`MySensorsCore.cpp:502`); pongs carry no number (`MyTransport.cpp:781`); routes never expire (`:696`, a matter of several
nodes); 16-bit block addresses and offers of 0 blocks (`MyOTAFirmwareUpdate.cpp:124`); the empty critical section of
STM32F1 (`MyHwSTM32F1.h:66`) and the nested lock of Linux (`MyHwLinuxGeneric.h:86`); messages taken twice, sequence
numbers that begin again or wrap, and a wait without a timeout in `RFM95.cpp` (`:499`, `:158`, `:306`, `:566`); sums
that are right by chance in `MyTransportRS485.cpp` (`:211`); the one slot of the MQTT gateway
(`MyGatewayTransportMQTTClient.cpp:71`); the rest of a line too long (`MyGatewayTransportEthernet.cpp:249`,
`MyGatewayTransportSerial.cpp:70`); and files that `stop()` leaves open (`EthernetServer.cpp:173`).

## 2. The modules

### TransportSM

One node, as an ordinary build: node (no gateway), uplink check on, no signing, OTA, signal reports, passive mode
or receive buffer (the last two change only which calls do nothing). The other nodes are `Peers`; they are not
processes but an environment that sends any message of the kinds in `Traffic` at any time.

The program is a stack machine. `pc` says where the innermost activation is (`update`: the main loop is about to
run the state machine; `begin` and `fifo`: in the batch of at most `MAX_SUBSEQ_MSGS` messages; `wait`: in
`transportWait` of a ping) and `calls` is the stack of what is suspended: a ping made for a find-parent request,
the ready callback, a handler that waits. Everything between two points where the program may process messages is
one step, because nothing else runs in between.

| action | code |
|---|---|
| `Update` | `transportProcess` up to the FIFO: the update of the state, sanity check, transitions with everything they send |
| `FifoBegin`, `ProcessMessage`, `FifoEnd` | `transportProcessFIFO` and `transportProcessMessage`, one message a step, routing and relays included |
| `PingContinue`, `PingFailed`, `AnswerChecked` | `transportWait`, the return of `transportPingNode` and `transportCheckUplink`, the answer to the request |
| `CallbackReturn`, `HandlerReturn` | the end of `presentNode`, registration or a sketch's wait |
| `SketchSend` | a message sent by the sketch |
| `Deliver`, `Tick`, `PowerOn` | the radio, time, a restart |

`NodeLife` is what the layers above and the neighbours may rely on, and `TransportSM` maps its flags and its
configuration to it (`ImplementsLife`): a node is down, searching, joining or attached; a search takes a candidate only
for a nearer one or for the preferred one; a parent is kept until the next search, an ID for ever; a node is attached
only with both. `isTransportReady` is "attached", `isTransportSearchingParent`, with the transport active, "searching";
what a failed node has for a parent is not looked at. An uplink check made for a child may change the distance at any
time (`Measure`), in the middle of a search too when a handler waits.

A transmission fails or not by choice; the 4-bit `failedUplinkTransmissions` wraps modulo `TX_COUNTER_MOD`;
`unacked` is a history variable that does not wrap. `broken` is another: how many calls were suspended when the node
last lost its uplink. The calls above are those of a node that has been ready since they began.

### FirmwareUpdate and Installer

A firmware is a model value with a number of blocks; the flash says which block of which firmware each block holds, so that a CRC
check is "all blocks are of the configured firmware". Replies are a set of blocks on their way, taken any number
of times, in any order, of any earlier update. `Uplink` is the transport becoming ready or ceasing to be, at any time:
only while it is ready does the node ask for blocks, count its retries and give up (`MyTransport.cpp:960`). The end of the update (`StoreConfig`, `SignImage`, `hwReboot`) is
one action per write, with a power failure possible before each. `asked` is a history variable.

`Installer` is what the update and the boot loader promise together, whatever is downloaded and whenever power
fails: a firmware is recorded only when the flash holds the whole of it, signed only when recorded, and runs only after
a boot that found its signature; whatever is written to the flash withdraws the signature. `FirmwareUpdate` maps to it
what runs (`program`), what the EEPROM records (`eeprom`), which firmwares the flash holds whole (`Whole`) and what is
signed (`ImplementsInstaller`); requests, retries, losses and refused replies are stutters. It promises an order and that
no mixture is installed, not that recording and installing go together: power lost between the two writes leaves a
firmware recorded that does not run (`SkippedIsInstalled`, section 3).

### RxQueue and LossyFifo

The interrupt handler, step by step (RF24 status, width, payload, clear, push), and `transportReceive`, one access
to shared memory a step, on one processor: the main program stands still while the handler runs, and a critical
section (`Atomic`) masks it. The chip's FIFO and its edge-triggered interrupt line are part of the model.
`LossyFifo` is what both promise together: frames are taken in the order in which they came, each at most once,
and are lost only before they are queued. `RxQueue` defines the refinement mapping (`air`, `queue`, `got`).

### RFM95Link

Several nodes on one channel. For each: radio mode, handler flags, packet, sequence number and where the main
program is in `sendWithRetry`. `CadDone`, `Synchronise` and `TxDone` are the chip with the handler it triggers;
the others are the main program. A receiver hears a frame if it is in RX when the preamble ends. `aired` and `got`
are history: whether a frame of the call was on the air, and which messages each node took.

### RS485

One node and the line. The line is a sequence of bytes of real frames, `Encode(f)` of the code's own sending side;
any of them may be garbled (into one of `Noise`), dropped by a full UART, or pass while the node drives the line. `rec`
is the state machine of `_serialProcess`, and a step of the main program is one byte of it.

Nothing compares the length heard with the size of `_data` (`MyTransportRS485.cpp:149`, `:181`), so that a garbled length
makes the node write behind it. That is undefined in C; the model lets the byte land in one of the variables declared
behind `_data` (`_packet_len`, `_packet_from`, `_packet_received`) or in memory that this module does not use
(`Overruns`, `Behind`). A linker that puts other variables there, the receiver's own or another module's, makes worse
things of it.

| action | code |
|---|---|
| `Read` | one round of the loop of `_serialProcess`, in whichever call it runs, and its return |
| `Poll`, `Receive` | `transportAvailable`, `transportReceive` |
| `Send`, `Look`, `Linger`, `Waited`, `Write`, `Written` | `transportSend`: the look for traffic, the random delay, the tries, the writing |
| `Begin`, `Heard`, `Dropped`, `Unheard` | other stations and the line |

`follows`, `torn` and `spoilt` are history: which frame the bytes read belong to, whether bytes were stored since the
packet was announced, and how many bytes were disturbed.

### Signing and OneTimeNonce

Any number of nodes, each with the state of `MySigning.cpp` (the message to sign and the status of its nonce), the
state of the backend (one verifying nonce, a session and its age) and the stack of its calls of `signerSignMsg`: a
call waits in the main loop, which processes messages, and the sketch may answer a message with one to be signed too.
A signature is the nonce it was made with; the network loses, repeats, delays and reorders.

| action | code |
|---|---|
| `Send` | the sketch's `send` up to the wait: `signerSignMsg`, the nonce request |
| `Return`, `Late` | the end of the wait, with the nonce or too late |
| `Deliver`, `Repeat`: `NonceRequest`, `NonceResponse`, `DataMessage` | `signerProcessInternal` and `signerVerifyMsg`, called for a message received |
| `Expire`, `Lose` | time, the network |

`OneTimeNonce` is what the verifying half promises: a node has at most one session, a nonce issued to one peer; a new
request replaces it; what the node accepts comes from that peer, with that nonce, and ends the session. `Signing` maps
to it the verifying nonces that can still be used, with the peer that asked for each (`asker`, a history variable),
and for every message accepted by a node that requires signatures of all its sender and nonce
(`ImplementsOneTimeNonce`). `Requires` is a relation, who requires signatures of whom: a gateway may require them only
of the nodes that require them of it (`MySigning.cpp:258-261`, `:431-437`); of such a gateway the refinement says nothing.

### EthernetServer and EthernetGateway

`EthernetServer` holds the kernel's connections and files, and the operations of the Linux client and server
objects as functions from one state of the server to the next: every one of them may be the first to notice that a
connection has ended, and changes what the others will see. `EthernetGateway` calls them in the order of the main
loop: inclusion mode and its button, the slots one by one, the refusal of one client too many, the reading of
characters, the command of a complete line, the messages of the transport. A call with several operations inside
(accept, greeting, presentation) is one step in which the controllers' ends of connections are found at any of them
(`late`, `later`). A send does not wait (`MSG_DONTWAIT`, `EthernetClient.cpp:113`): `late` also says which of the
controllers that read slowly (`Slow`) have no room for the message. Such a send fails, perhaps after a part of the
message, and closes the file of a living controller (`:116`).

| action | code |
|---|---|
| `InclusionProcess` | `inclusionProcess`, `inclusionModeSet` |
| `Check`, `Reject` | the first half of `gatewayTransportAvailable`: the slots, the client turned away |
| `ReadChar`, `ReadTooLong`, `ReadEnd`, `ReadNothing` | `_readFromClient`; `ReadEnd` with `gatewayTransportProcess` |
| `TransportProcess` | messages of sketch and network: `EthernetServer::write` |
| `Controller`, `Tick` | `Connect`, `Type`, `Close`, `Break`; the time of inclusion mode |

## 3. The runs

A *pass* run checks properties that hold; a *violation* run checks one statement of the documentation that the
code does not keep, and its counterexample is the run's result.

| run | states | what it asks |
|---|---|---|
| `tsm_search` | 837,000 | a sensor with a dynamic ID and a preferred parent, offers and ID responses in any order, early, late, repeated: `TypeOK`, `ReadyIsAttached`, `PreferredParentKept`, `ImplementsLife`, `NoHastySearch` |
| `tsm_traffic` | 501,000 | a repeater with a static parent, all kinds of traffic, nested pings, sanity checks and transmissions that fail: `PingSlotFreed`, `MainLoopTurns` |
| `tsm_live` | 582,000 | a repeater with a dynamic parent, handlers and callback that wait, so that the main loop nests, under pings for other nodes and sanity checks that fail: `StatesEnd`, `OffersAreUsable` |
| `tsm_offer` | | violates `OffersWhenOperational` |
| `rx_queue` | 713,000 | handler and reader interleaved at every step: `TypeOK`, `NoFrameForgotten`, `SlotsApart`, `ImplementsFifo`, `Drains` |
| `ota` | 304,000 | three firmwares, replies, losses of the uplink and power failures in any order: `TypeOK`, `RunsWholeFirmware`, `BlocksInOrder`, `ImplementsInstaller`, `GivesUpLate`, `UpdateEnds` |
| `rfm95` | 365,000 | two nodes that send to each other: `TypeOK`, `PacketKept`, `ConfirmedIsReceived`, `CallsReturn`, `Listens` |
| `rfm95_unsent` | | violates `TrueMeansSent` |
| `rs485` | 767,000 | frames for this node, for all and for others, data that looks like a header, one disturbance anywhere, sends at any time: `TypeOK`, `UntornIsGenuine`, `WholeFrameAnnounced`, `SendReturns`, `HearsAgain` |
| `signing` | 372,000 | two nodes that sign what they send a gateway, which commands one of them: `TypeOK`, `ImplementsOneTimeNonce`, `UndisturbedIsGiven`, `SignReturns`, `CalmIsAccepted` |
| `gateway` | 796,000 | three controllers and two slots, one controller leaves or reads too slowly, one breaks off: `TypeOK`, `BufferIsOwn`, `HolderIsServed`, `EverythingRead`, `InclusionEnds` |
| `gateway_two_slots` | | violates `OneSlot` |

The violations:

* `tsm_offer` - "only reply if node is fully operational" (`MyTransport.cpp:841`): the node is, when it looks, and then
  pings the gateway for up to two seconds. A sanity check that fails in that wait puts it in Failure with its uplink
  off; a pong in the same batch ends the wait, and the failed node answers (`:852`) with the distance it had.

* `rfm95_unsent` - with the channel busy a call keeps the old sequence number and takes the late acknowledgement of
  the message before for its own (`RFM95.cpp:301`).

* `gateway_two_slots` - a send that fails closes the file (`EthernetClient.cpp:116`) of which the slot keeps the number;
  the next controller gets that number, and with it two slots: its lines are split over two buffers and each
  message is sent to it twice.

Known disagreements without a run of their own. The definitions named are in the modules; with the constants
given, TLC finds them violated within seconds to minutes.

* `NoCircularReference` (`TransportSM`): the own parent is refused as a child (`MyTransport.cpp:844`) before a wait of
  up to two seconds, in which a handler that waits lets the node lose its parent and choose the asking node for a new
  one; then it offers itself. (`TransportSM_offer.cfg` with `SanityCheck = FALSE`, `HandlersWait = TRUE`, `MaxDepth = 1`.)
  What remains true, and is proved, is `OffersAreUsable`: it does not happen as long as the node keeps its uplink.
* `PingGetsItsTime` (`TransportSM`): the wait for a pong ends with any pong, a relayed one too (`:603`), so that a ping
  fails at once. (`TransportSM_offer.cfg` with `SanityCheck = FALSE`.)
* `FailuresStartSearch` (`TransportSM`): sixteen failures between two updates wrap the counter to zero (`:559`) and no
  search starts. (`TransportSM_offer.cfg` with `Repeater = FALSE`, `SanityCheck = FALSE`,
  `Traffic = {"FPAR_RESPONSE", "PONG"}`, and the real `MAX_TX_FAILURES = 5`, `TX_COUNTER_MOD = 16`.)
* `TakenIsGenuine` (`RS485`, as an invariant under `RS485.cfg`): the next packet is stored into `_data` while the one
  before is still announced (`MyTransportRS485.cpp:181`): `transportSend` may receive a packet, and itself or the
  `transportAvailable` after it reads on; the message taken is then of two frames. `UntornIsGenuine` is what remains true.
* `StoredInBuffer` (`RS485`, as an invariant under `RS485.cfg`): "read in _recLen number of bytes and store them in the
  _data array" (`MyTransportRS485.cpp:178`), but for lengths that a garbled byte made too large. `FittingStored`, proved,
  is what remains true.
* `HearsAgain` (`RS485`) without its hypothesis `Marked`: a node whose frames hold what looks like a header of their own
  may never find its place again. Let all frames be for node 1 and hold the data `<<1, 1, 3, 88, 9, 2, 9>>`, with `MaxLen`
  9 or more, and one of their first bytes be lost: the receiver takes the data for a header, swallows nine bytes, which
  take it into the next frame's header, finds no ETX, resets, meets the data of that frame, and so on for ever
  (`:148-197`). TLC finds it in a minute; only a pause or another frame ends it.
* `SignedIsGiven` (`Signing`, as a property under `Signing.cfg`): a call nested in the wait for a nonce overwrites the
  message and the status of the outer one (`MySigning.cpp:211`), which returns true with the other's message.
  `UndisturbedIsGiven` is what remains true, and is proved.
* `SkippedIsInstalled` (`FirmwareUpdate`, as an invariant under `FirmwareUpdate.cfg`): the offer overwrites the
  configuration in RAM (`MyOTAFirmwareUpdate.cpp:74`); after a failed update the same firmware is skipped until the
  next reset. After power was lost between the writes of the configuration (`:121`) and of the signature (`:126`) it is
  skipped for ever: the EEPROM names a firmware that was never installed.
* A controller's broken connection may hold its slot for ever. The error is told once; if the server's write or the
  slot's own read is told, `connected()` in the slot sees a connection like any other, and the slot is not free until
  its file number is given to another controller (`MyGatewayTransportEthernet.cpp:349`, `EthernetClient.cpp:250`).
  "Stop any that are no longer connected" (`MyGatewayTransportEthernet.cpp:345`) is what the loop is for; that every
  broken slot is freed in the end was found violated by TLC and is not kept as a property. For the same reason `stop()`
  of such a connection leaves its file open.
* An update whose uplink does not come back never ends: retries are counted only while the transport is ready
  (`MyTransport.cpp:960`), and a node with an update does not sleep (`MySensorsCore.cpp:525`).
* An uplink check that renews its own time without a ping (`MyTransport.cpp:848`); `MY_OTA_RETRY + 1` requests instead of `MY_OTA_RETRY`; the rest of a line that is too long, which is parsed as a
  line of its own (`MyGatewayTransportEthernet.cpp:249`); the look of `transportSend` for bytes "in the last
  millisecond" (`MyTransportRS485.cpp:247`), which is for bytes in the UART at that moment; the empty critical section
  of STM32F1 (`hal/architecture/MyHwSTM32F1.h:66`), with which (`Atomic = FALSE`) TLC finds `ImplementsFifo` violated.

### Bounds

* `TransportSM`: one or two neighbours beside none or one stranger: every test in the code is "is it my parent, is
  it the gateway, is it me", so one parent and one other suffice. Timeouts are 0 or 1 tick: a guard only asks
  whether the time is over, and `Tick` may happen between any two steps. `RxMax` 1: the environment refills the
  FIFO at once with any message, so a longer FIFO adds no order of messages. `tsm_traffic` has every kind of message
  and pings that nest: with `MaxNest` 2 the second ping meets the slot taken by the first, a third would meet the same.
  Its batches of two (`MAX_SUBSEQ_MSGS`) are left with a message to go when a ping begins. `tsm_live` has handlers that
  wait and a ready callback that waits, below, above and beside one ping (`MaxNest`, `MaxDepth` 1), so that the parent,
  the ID and the state can change while a ping waits; two waits in each other are in the proofs only. `MaxNest` and
  `MaxDepth` bound what nothing in the code bounds. Safety needs neither (the theorems have any value), but for
  `MainLoopTurns` they are assumptions about the network: a neighbour whose find-parent requests always come in time
  for the next wait could keep the node nesting until its stack ends. `MAX_TX_FAILURES` and `TX_COUNTER_MOD` are small.
* `RxQueue`: a ring of 2 and a chip FIFO of 2 get full and wrap; the loss counter saturates at 1; two messages and a
  corrupt one tell order and identity. `FirmwareUpdate`: firmwares of 1, 2 and 3 blocks overlap in the flash and
  share block numbers; `Retry` 1 has a first and a last request.
* `RFM95Link`: two nodes, one retry, two messages in all, so that an acknowledgement of the first message, or of its
  first copy, can meet the second; one node may restart once. Frames of nodes outside the model only disturb
  (`Overhear`). The channel activity detection detects frames of modelled nodes.
* `RS485`: two kinds of frames for this node with 1 byte of data, and frames for another whose data is that of a header
  for this node once the byte after it, their sum, is garbled into STX (`Noise` has 2), which announces five bytes that
  are not there; a length garbled into 6 does not fit `MaxLen` 5, so that the receiver writes behind its buffer. One
  disturbance (`MaxSpoilt`) puts the receiver out of step in every phase, more only do so again; a UART
  of 2 bytes gets full; 2 tries instead of 10 have a first and a last one.
* `Signing`: three messages, so that a third may meet what two nested or concurrent ones left; a stack of 2 has an
  inner and an outer call; three nonces, one fault (a loss or a repetition) beside any delay and order. The gateway
  requires signatures of everybody, so that every message to it needs one; the nodes require none.
* `EthernetGateway`: two slots and three connections, so that one is refused and a slot is used again; three files, as
  many as connections, and the lowest free one is given out, as the kernel does. With a `MY_GATEWAY_MAX_RECEIVE_LENGTH` of
  3 a line may have one character before its end
  (`MyGatewayTransportEthernet.cpp:231`). One controller types such a line, which is a command. One
  types three characters: two fill its buffer, and are thrown away with the third; it may break off (`Breaking`). One
  types nothing, may read too slowly (`Slow`) and leave (`Closing`).

The theorems of section 4 have none of these bounds.

### Fairness

* `TransportSM`: the processor runs (`[]<><<TRUE>>_<<pc, left, rx>>`, the same as `WF(Program)` and quicker to check);
  `WF(Tick)` - time passes; `SF(CallbackReturn)`,
  `SF(HandlerReturn)` - the waits of the core and the sketch have deadlines (`wait(ms)`), which are reached although
  the main loop that runs inside them disables their return again and again. Nothing is assumed of the network,
  the radio or the neighbours.
* `RxQueue`: `WF(irqHandler)`, `WF(transportReceive)` - a latched interrupt is taken, the main loop goes round.
* `FirmwareUpdate`: `WF(DelayOver)`, `WF(firmwareOTAUpdateRequest)`, `WF(Finish)` - time passes and the main loop
  runs; a node does not sleep during an update (`MySensorsCore.cpp:525`). The main loop asks for blocks only while the
  transport is ready, and nothing promises that it is: `UpdateEnds` has as hypotheses that in the end the uplink stays
  (`<>[]ready`) and that offers stop. Replies need not come.
* `RS485`: `WF(Program)` - the processor runs; `SF(Poll)` - the sketch returns to the main loop between its sends;
  `SF(Waited)` - the random delay, a loop of at most 19 rounds, ends although bytes are read in it. Of the line
  nothing is assumed; `HearsAgain` is about stations that keep sending to this node, and about frames in which nothing
  but the end of the header is an STX (`Marked`), which those of the run are.
* `Signing`: `WF(\E m : Deliver(m))` - the main loops process messages, in no promised order; `WF(Return(n) \/
  Late(n))` - the wait for a nonce has a deadline. Only `CalmIsAccepted` rests on messages arriving.
* `EthernetGateway`: the main loop goes round (`[]<><<TRUE>>_<<at, turn>>`, the same as weak fairness of `MainLoop`
  and quicker to check) and `WF(Tick)` - time passes. Of the controllers nothing is assumed.
* `RFM95Link`: for each node `WF(Program(n))`, `WF(Chip(n))` - the processor runs and the chip finishes what it
  began. `waitPacketSent` has no timeout of its own, so that `CallsReturn` rests on the TX_DONE interrupt.

`StatesEnd`, `MainLoopTurns`, `UpdateEnds`, `Drains`, `SendReturns`, `SignReturns`, `InclusionEnds` are therefore about the code's own timeouts and loops:
each is violated by a mutant that drops a timeout, a reset or a limit.

## 4. The theorems

All are of the form `Spec => []Inv` or `Spec => [][A]_vars` and hold for every value of the constants that
satisfies the named assumptions of the module (which TLC evaluates in the runs).

**TransportSMProofs.** `TypeCorrect`, `ReadyCorrect`, `PingSlotCorrect`, `PreferredParentCorrect`,
`IdentityCorrect`, `SearchCorrect`, `OffersCorrect`, and `LifeCorrect`, the refinement `Spec => Life!ASpec`. None of the properties is
inductive: that a ready node is attached depends on what the earlier states established, that its slot is free on
the shape of the stack. The inductive invariant is

    IInv == TypeOK /\ Attachment /\ Identity /\ CallStack /\ FailuresAreReal /\ PreferredParentKept

`Attachment` ties flags and configuration to the state, `Identity` the ID in RAM to the EEPROM, `CallStack` says
what may run above what, `FailuresAreReal` that the wrapping counter never runs ahead of the real failures. The proof has one lemma
per transition, per kind of message and per action. `OffersCorrect` (`OffersAreUsable`) holds with handlers that wait:
its invariant, `PingsForOthers`, is about the pings begun since the uplink was last lost only (those above `broken`):
none of them is for the parent, which was refused when the ping began and does not change while the node is attached.
`CallsStep` says what a step does to the stack, `AttachmentStep` when the parent may change. The refinement needs more: `SearchInv`, that a search shows in its
flag, and has the preferred parent as its candidate only after that one answered (or else `Choose` might displace it).
`Phases` says which phase each state is, and `NextLife` maps the steps: transitions to the steps of the same name,
offers to `Choose`, ID responses to `LearnId`, answered checks to `Measure`, failures and restarts to `Fail`, all
others to stutters. `IdentityKept`, that a stored ID is never replaced, is a theorem only: `ImplementsLife` says more,
and is what the run checks. So is `AttachmentCorrect`, which follows from the refinement alone: as long as a node reports
its uplink its parent and its ID stay what they are, for every step of `NodeLife` that changes one of them begins or
ends outside "attached".

**RxQueueProofs.** `TypeCorrect`, `WakeUpCorrect`, `SlotsCorrect` and `FifoCorrect`, the refinement `Spec =>
Fifo!ASpec`, all with the hypothesis `Atomic`. The invariant is `TypeOK` with `HandlerInv` (what each step of the
handler knows of chip and ring), `WakeInv` (with the handler out, a frame in the chip means a latched edge) and
`MainInv` (the reader holds the slot at the back and what it has copied is still there). The refinement maps each
step to a step or a stutter: arrival, overflow, push, loss, `popBack`.

**FirmwareUpdateProofs.** `TypeCorrect`, `ProgramCorrect`, `DownloadCorrect`, `InstalledCorrect`, `RetriesCorrect`,
from `TypeOK /\ CountInv /\ EndInv /\ BlocksInOrder /\ RunsWholeFirmware`: from the CRC check on the flash holds the
configured firmware, a signature exists only between signing and reboot, and requests and retries left add up.
`InstallerCorrect` is the refinement `Spec => Install!ASpec`, from the same invariant: starting an update and saving a
block are `Write`, storing the configuration is `Record`, and the boot loader's part of a restart or power failure is
`Boot`. `AdvanceCorrect` (`UpdateAdvances`) is the part of `UpdateEnds` that is in the prover's reach: every step of an
update decreases block, retries or pending delay, in this order, unless it leaves the update alone or is a new offer;
replies, in any number and order, cannot make it go round in circles.

**RFM95LinkProofs.** `TypeCorrect`, `PacketKeptCorrect`, `ConfirmedCorrect`, for any number of nodes, retries and
messages, from `TypeOK /\ RadioInv /\ FramesInv`. `RadioInv` is why packets are kept: a radio with an untaken packet
is not in RX. `FramesInv` is the life of an acknowledgement: one on the air, in a packet or seen by the handler
names a sender, a recipient and a sequence number under which the recipient took a message; and a call whose frame
left with a new number has a number no earlier message had. Restarted nodes are excluded, for their numbers begin
again.

**SigningProofs.** `TypeCorrect`, `NonceOnceCorrect`, `UndisturbedCorrect`, `OneTimeNonceCorrect`, for every set of
nodes, every pattern of traffic, every depth of nested calls and any number of faults. The first three rest on
`IInv == TypeOK /\ NonceOnce /\ NonceInv /\ CallsInv`.
`NonceInv` is why a nonce serves once: an accepted nonce was generated before and is not the one to match now, and a
new one is greater than all before. `CallsInv` says that only the innermost call may be undisturbed, and that such a
call finds its own message in `_msgSign`, signed when the status says so. `NonceInv` and `CallsInv` are about
different halves of the state, so that each action keeps one of them by leaving its half alone.
The refinement `Spec => Auth!ASpec` needs `AInv == IInv /\ AskerInv /\ SessionInv`: a nonce in a response, in `_msgSign`
or in a signature was issued to the node that has it (`AskerInv`), and an open session has a nonce (`SessionInv`).
The backend does not remember for whom it generated its nonce (`MySigningAtsha204Soft.cpp:104-134`): that a sender is the
node that asked follows from who can have learnt the nonce, and that is what `AskerInv` follows through the messages.
`NonceOnce`, that no nonce is accepted twice, is a theorem only: `OneTimeNonce` implies it, and is what the run checks.

**RS485Proofs.** `TypeCorrect`, `FramesCorrect` (`WholeFrameAnnounced`), for every set of frames, with any data of up to
`MaxLen` (at most 255) bytes, every size of the UART and any number of disturbed bytes, from `ReceiverOK /\ ProgramOK
/\ WireOK`. `WireOK`: every byte on the line or in the UART is the one its frame has at that place, or noise.
`FollowInv`, in `ReceiverOK`, is why a frame is found: while the bytes of a `Plain` frame are read one after the other, the
receiver is where that many bytes bring it (`At`): looking for a header for the first five, then in the data with the
sum so far, then in the trailer. `HeaderByte`, `DataByte`, `TrailerByte` and `LastByte` are its steps; the heart of the
first is that only the sixth byte of such a frame completes a header, whatever the five bytes before it were. What the
checksum computes is proved as well (`CalcStep`): the sum of one byte more is the sum so far and that byte, modulo 256.
It is an induction over the bytes: `SumsExist`, that the recursive function `Sum` is defined by has a value at each of
them, and `SumOfMore`, that the sums of a sequence are those of any longer one that begins with it.
`UndisturbedCorrect` proves `UntornIsGenuine` on a line that is never disturbed (`spoilt = 0`), with the hypothesis
`Clear`: nowhere in the bytes of a frame does something look like the header of another frame for this node. The data of
frames for others is searched for headers like anything else, so that without it the statement is false; `PlainIsClear` gives a simple condition for it. `ChecksumCorrect`
(`AnnouncedIsSummed`) is what remains true of packets on any line: each is addressed to the node or to all, not from
the node itself, and, if its length fits the buffer, the checksum heard is that of the header and of the data stored.
That the length fits is a hypothesis: the code does not look (`MyTransportRS485.cpp:149-186`). `FittingStored` is the
same limit seen from the other side: data is stored outside `_data` only after a length greater than `MaxLen` was heard.

**EthernetGatewayProofs.** `TypeCorrect`, `BufferCorrect`, `LineCorrect`, `ServedCorrect`, for any number of slots, controllers and
files, any lines typed and any length of the buffers, from

    IInv == TypeOK /\ Sound(server, typed, slot, inputString)
    Sound: ServerOK (FilesApart, ListComplete, BacklogOK) /\ Unread /\ Own

`ListComplete` is why holders are served: a file whose connection is open is on the server's list, whoever holds it.
That the loop of `EthernetServer::write`, which takes clients off the list that it goes through, then writes to each of
them is `SentToAll`, an induction over its turns: whoever was not served yet is still ahead (`TurnServes`).
`ServedCorrect` (`HolderIsServed`) says that everyone with a slot and an open connection is written to, and that only those
lose the connection by it that have no room for the message. It does not say that a controller gets every message: one
that reads too slowly gets a part of it, or nothing, and is cut off (`EthernetClient.cpp:113-118`). `FilesApart` and `BacklogOK` say that no connection has two files, or a file and a place
in the backlog, so that what is accepted is new. `Own` says of a slot that holds a live connection alone that its buffer
is the piece of what was typed that was read last, and `Unread` that the rest is what comes after it. The handlers of the
main loop are chains of operations of the server, each of which may find connections ended: `Aged` is what all of them
but accept and stop do to the server (connections only end, files are only closed and taken off the list, nothing waiting
to be read is touched), and is transitive; `Carries` is what a chain leaves of a slot's claim to its file, whatever
number a new connection was given in between. A turn of `Write` either sends to a client and goes on, or puts the last
of the list in the place of a dead one; that the whole loop is `Aged` is an induction over its turns (`WriteAged`).
`LineCorrect` (`LineIsOwn`) draws the conclusion for what is done with the buffers: a line taken from the one slot of a
live controller is a piece of what that controller typed, and one of its lines unless it is empty or the line's beginning
was too long and thrown away. It needs one more invariant, `Placed`, that the characters in the buffers have places from 1.

**Induction.** `LeastElement`, `SetInduction`, `BoundedInduction`: induction stated with a *set* of numbers instead of a
predicate, from the well-foundedness of the order of the naturals; the library's theorems take an operator as a
parameter, which no backend can instantiate. A set `{n \in 0 .. N : P(n)}` does as well, and the recursions of `Sum` and
`Write` are functions over such an interval.

Only model-checked:

* liveness (`StatesEnd`, `MainLoopTurns`, `Drains`, `UpdateEnds`, `CallsReturn`, `Listens`, `SendReturns`, `HearsAgain`,
  `SignReturns`, `CalmIsAccepted`, `EverythingRead`, `InclusionEnds`), which needs fairness and ENABLED, beyond the
  prover; `StatesEnd` with handlers that wait at depth 1, `MainLoopTurns` with two
  pings in each other and no waiting handlers;
* `UntornIsGenuine` of `RS485` on a line with disturbances, where it is no theorem for every value of the constants:
  data that holds the bytes of a whole frame is taken for one once a byte before it is lost, and two garbled bytes may
  leave the sum as it was. The run shows it for frames whose data is a header at most and one disturbance, too little
  for either; the theorems say what holds without disturbance, and what the checksum alone guarantees with any.

All other safety properties that the runs check are theorems.

RECURSIVE operators are out of the prover's reach; the models have none, and recurse with functions.

## 5. What is left out

Most of the repository's lines are not the program's own: `src/libraries` and the examples beside it are
third-party Arduino libraries (the WiFi shield's firmware alone, in four copies, is 77,000 lines), the boot loaders
are third-party too, and of `src/MySensors-development` a good part are tables of registers and vendored drivers.
The models are about the control in `core`, `hal/transport` and the drivers that have some.

* In `TransportSM`: builds with signing, OTA, signal reports, passive mode and the gateway; names and payloads;
  the delays before answers. Routes are data (`route`), but only one node has them, so loops between nodes are not
  visible. The core's own `wait` for a given message type and `sleep` are not modelled.
* In `RxQueue`: the sending side of the RF24 driver, pipes and addresses.
* In `RFM95Link`: automatic transmit power control, signal quality, the 16-bit wrap of sequence numbers (an
  acknowledgement would have to be delayed by 65,536 messages), listen timing in milliseconds.
* In `RS485`: what undefined behaviour does beyond `Behind`; the driver-enable pin but for the time in which nothing is
  heard; two garbled bytes whose sum is right, with which messages nobody sent pass by design; and, in `WholeFrameAnnounced` only, addresses and lengths equal to
  STX (`Plain`), with which a header may seem to begin before it does; in `HearsAgain` only, frames that hold STX anywhere
  but at the end of the header (`Marked`), for which it is false.
* In `Signing`: the presentation of who requires signatures (a constant), whitelists, the node lock, which counts
  failures and stops the node, the hash itself, the ATSHA204 chip. What a gateway accepts that requires signatures of
  some nodes only is in `Signing`, but not in `OneTimeNonce`, and no run has such a gateway.
* In `EthernetGateway`: the client mode, UDP and W5100 builds; what core, sketch and transport do with a command;
  what a controller is sent but for whether it is sent anything.
* Whole components: RFM69, the serial and MQTT gateways, message formats, indication, hardware layers, sketches, boot
  loaders, libraries. `PROJECT.json` gives the reason for each.

## 6. Plan

Built, in this order: `TransportSM` (the core), its proofs, `RxQueue` with `LossyFifo`, `FirmwareUpdate`, `RFM95Link`,
the proofs of each, `RS485` and `Signing` with their proofs, `EthernetServer` and `EthernetGateway` with theirs,
`NodeLife` and the proof that `TransportSM` implements it, `OneTimeNonce` and `Installer` with the proofs that `Signing`
and `FirmwareUpdate` implement them.

Next, in order of importance:

1. `Network`: several nodes with routing tables and parents, composed of `NodeLife`, which `TransportSM` implements;
   property: routes do not loop for ever.
2. Signing inside the transport: the wait of `signerSignMsg` on the stack of `TransportSM`, with the node lock.
3. `RFM69Link`, if its differences from the RFM95 driver (listen mode, session acknowledgements) prove worth it; the
   MQTT gateway's one slot, with the library below it as environment.
4. Proofs: an abstract specification of the link (a message confirmed is a message taken) with its refinement; that on
   a disturbed line the receiver of `RS485` takes what was sent when the disturbed bytes are those of one frame and a sum tells them.

The project keeps at most twelve runs: a violation whose point has been made is described in section 3 with the
constants that show it, and gives way to a component not checked before.
