# TeensyPower: a TLA+ model of the firmware

TeensyPower runs on a Teensy 4.1.  It reads Victron devices over VE.Direct
serial lines, keeps what they say in a tree of values, the data model, and
publishes that tree to MQTT clients over Ethernet.  This directory holds TLA+
modules that model the firmware, the TLC configurations that check them on small
instances, and TLAPS proofs for instances of any size.

Paths below are relative to the repository, whose library code is under `src/`.

## 1. Inventory

The firmware has one thread.  `loop()` in `TeensyPower.ino` calls the `service()`
of every device, of the broker, of the statistics manager and of the network in
turn.  Nothing pre-empts anything: the hard behaviours come from the order in
which packets, disconnections and timeouts reach the loop, from objects in fixed
pools that point at each other, and from state that outlives a connection.

| Component | State | Operations | Interacts with |
|---|---|---|---|
| `MQTTBroker` | pools of connections and sessions; active and disconnected lists | `service`, `newConnection`, `pairConnectionWithSession`, `sessionLostConnection`, `sessionEnded`, `freeClosedConnections`, `harvestStats` | all of MQTT, `TCPServer`, `DataModel` |
| `MQTTConnection` | TCP client, session, closing flag and timer | `service`, `disconnect`, `processConnectMessage` | broker, session, packet reader |
| `MQTTSession` | connection, TCP client, client ID, clean flag, counters | one handler per packet, `connectionLost`, `newConnection`, `shutdown`, `handleConnectionSendFailure`, `publish` | broker, connection, data model |
| `TCPServer`, `TCPClient` | pool of TCP clients | `accept`, `clientClosed` | QNEthernet (external) |
| `MQTTPacketReader` | reader state, lengths, buffer | `readInput` | `TCPClient` |
| MQTT messages | none | `parse`, `sanityCheck`, `getTopicFilter` | session, connection |
| `DataModel` | tree of leaves: value, set flag, subscriber list; counters | `subscribe`, `unsubscribe`, `unsubscribeAll`, `<<`, `=`, `removeValue` | sessions, devices |
| `StatsManager`, `StatCounter` | update timer, counters and rates | `service`, `harvestStats`, `update` | broker, devices, data model |
| `PassiveTimer` | trigger time on a 32-bit millisecond clock | `setMilliSeconds`, `advanceMilliSeconds`, `expired`, `elapsedTime` | everything with a timeout |
| `Logger` | line under construction, level, re-entry flag | `<<`, `eol` | everything |
| `VEDirectDevice` | text and hex parser state, checksum, command in flight, timers | `service`, `processInput`, `sendGet`, `sendSet`, `resendPing`, a handler per response | devices, registers, fields |
| hex messages, fields, registers | bytes and a cursor; the leaf a value goes to | `append...`, `parse...`, `set` of each class | device, data model |
| `MPPTController`, `BMV` | tables of registers, fields and leaves; battery values to pass on, walk through the history | `service`, `set...`/`clearBattery...`, `walkThroughHistory` | `VEDirectDevice`, data model; the BMV's fields call every MPPT controller |
| `OrionXS` | as the others | never called by the program | |
| `FixedPoint`, typed leaves | an integer and its scale; the last value | `=`, `removeValue`, `sendRetainedValue`, `toString` | fields, registers, data model |
| `NetworkInterface` | none | `setup`, callbacks that log | QNEthernet |

What makes each of them correct:

* **Broker, connections, sessions.**  Pointers agree at both ends; nothing points
  at a slot that went back to its pool; a client ID has one session; a session
  that is not clean survives its connection; the data model publishes to no
  destroyed session; pools do not leak, so a connection that is to be closed is
  closed.
* **Packet reader.**  The packets handed on are the packets of the stream,
  whatever the pieces it arrives in; oversized ones are skipped; a bad one
  closes the connection.
* **Data model.**  A filter selects the leaves it should; unsubscribing undoes
  subscribing; the counters agree with the tree; a subscriber knows the value of
  a retained leaf it is connected to.
* **Timers.**  A timer fires once its time has come and not before, across the
  wrap of the 32-bit clock.
* **Messages and answers.**  A packet is served as what its client meant or not at
  all; a client can tell where a message ends; what is counted as sent was sent.
* **Statistics.**  A total counts every event once, whatever becomes of the object
  that counted it; a rate is that of its interval, although to publish it is an event.
* **Log.**  The leaves tell the last lines, whole and in order, although telling
  them makes others log.
* **VE.Direct.**  Text blocks with a bad checksum change nothing, and after a loss
  one whole block brings the reader back in step; commands wait for the slot that
  an answer or a timeout frees; whatever is lost, every user of the slot gets its
  turn in time.
* **Values.**  A leaf tells what the last message of its register or field said;
  widths, signs and scales survive the way from the BMV's line to an MPPT
  controller and back.

## 2. Modules

| Module | What it holds |
|---|---|
| `MQTTBroker` | the broker with its connections, sessions, TCP pool and subscriptions |
| `MQTTSessionStore` | the abstract specification: what a client is promised about its session |
| `MQTTBrokerRefinement` | the mapping of the broker to the session store |
| `MQTTPacketReader` | the bytes of one TCP connection cut into packets |
| `DataModel` | topic filters, subscriptions, retained values, what subscribers hear |
| `PassiveTimer` | timers on the clock that wraps |
| `MQTTMessages` | `parse` of the messages a client sends, and the lengths the broker writes |
| `MQTTAnswers` | one connection with its session, from packets to the bytes of answers |
| `VEDirectText` | the bytes of one VE.Direct line: text blocks, hex messages, checksums |
| `MPPTController` | the commands of one MPPT controller, in time |
| `VEDirectHex` | the bytes of commands, and the cursor over those of answers |
| `VEDirectReadings` | `set` of each class of register and field |
| `DeviceValues` | integer types, scaled numbers, typed leaves |
| `MPPTWiring`, `BMVWiring` | which register and which field feeds which leaf |
| `DeviceLeaves` | from a device's line to a leaf and its subscribers, and from the BMV to an MPPT controller |
| `Statistics` | counters, harvests, rates and totals, with the life of connections and sessions |
| `Logger` | the line under construction and the leaves that tell the last ones |
| `MC...` | packets, trees, blocks and symmetries for TLC; they only define values for constants |
| `..._proofs` | theorems about the module they are named after; `Timing_proofs` is about `PassiveTimer` and `MPPTController`, `DataModel_proofs` about `DataModel` and `Logger` |

The modules compose at the interfaces of the code.  `MQTTBroker` takes what
`MQTTPacketReader` promises, whole packets in order or a closed connection, as its
input, and has of the data model the one thing the pools depend on: which sessions
are on a leaf's list.  `DataModel` has a set of subscribers where the broker has
sessions, and relies on the broker for two facts the broker's proofs establish:
a leaf's list has room (`SubscriberListHasRoom`) and holds no destroyed session
(`SubscribersAllocated`).  `VEDirectText` and `MPPTController` are two views of a
`VEDirectDevice`: what comes in, byte by byte, and what is sent, pass by pass.
`DeviceLeaves` stands on `DeviceValues`, `VEDirectHex`, `VEDirectReadings` and the two
tables; it takes whole messages as `VEDirectText` promises them, and a free slot for
a command as `MPPTController` does.  `MQTTAnswers` takes whole packets from
`MQTTPacketReader` and leaves to `MQTTBroker` whether a session is found, to
`DataModel` whether a filter is taken.  `Statistics` repeats of the broker the life of
connections and sessions, since totals pass from the one to the other.
`PassiveTimer` shows what an expiry is worth; the other modules take time from it
as far as their properties need it.

### MQTTBroker

One action is one call the loop makes: accepting (`AcceptConnection`,
`AcceptNothing`), one service of one connection (the `Service...`, `Pair...` and
`Session...` actions), and `FreeClosedConnections` at the end of a pass.
`phase` and `pending` are the program counter of `MQTTBroker::service`.
Everything a handler does before it returns is in its action, down to the clean-up
that follows a failed write.

State corresponds one to one: `tcpOf`, `sessionOf`, `closing` are members of
`MQTTConnection`; `connectionOf`, `sessionTcp`, `clientID`, `cleanSession` of
`MQTTSession`; `activeConnections`, `activeSessions`, `disconnectedSessions` are the
broker's lists; `subscribers` is the list in every leaf of the data model.

The environment is as bad as the network may be: a peer closes between any two
steps (`PeerCloses`), any write fails, packets come in any order on any
connection, the closing timer runs out at any time after it is set.

Left out: the bytes of packets and answers (`MQTTAnswers`), statistics (`Statistics`),
QoS, and keep-alive, which the code never uses: `resetKeepAliveTimer` is empty.
Refused CONNECTs, CONNECTs that do not parse and packets a session ignores are
`ServiceIdle`: they change nothing that is modelled.  A SUBSCRIBE with more than 100
filters leaves defined behaviour (`MQTTSession.cpp:206-209`) and is not sent here;
`MQTTAnswers` says exactly when that happens.

`MQTTBrokerRefinement` maps the broker's slots and pointers to `storeOf`, a function
from client IDs to what the client may rely on: whether it has a session, connected
or not, clean or not, and with which topics.  `MQTTSessionStore` says how that may
change; a write that fails in the middle of a handler is the store's choice to lose
the connection in the same step (`Becomes`).

### MQTTPacketReader

One action is one turn of the loop in `readInput` (`readLength`, while the length is
read); bytes arrive between any two.  The states are those of the code.  `sent`,
`starts` and `stream` are the peer's; `delivered` is what `readInput` returned.  Length
bytes are digits to a base the instance chooses, so that lengths of two bytes occur
with packets of a few bytes; the arithmetic of line 140 of `MQTTPacketReader.cpp` is
translated with the precedence C++ gives it.

A packet without payload is delivered only when a further byte is available: the
loop that finds its end is entered while there is something to read.  A PINGREQ or
DISCONNECT that ends what was sent so far waits for the next packet.
`ArrivedIsDelivered` therefore promises delivery of a packet that has a payload or is
followed by a further byte.

### DataModel

One action is one call: `Subscribe`, `Unsubscribe`, `unsubscribeAll`, assignment to and
removal from a retained leaf, and a subscriber that connects or goes.  The tree is the
set of the paths of its leaves; the recursion of the code over nodes is a condition on
paths.  What a subscriber `knows` is the last message it was sent; messages to a session
without a connection are `missed`, as `MQTTSession::publish` drops them.  Each typed leaf
repeats the same assignment, modelled once here; their differences are in `DeviceValues`.

### PassiveTimer

One timer, set or advanced at any time and asked at any time.  `now` and `due` do not
wrap and exist only in the model; the code sees `millis` and `endTime`.

### VEDirectText

One action is one byte, as `service()` reads at most one per pass.  States, sums,
labels and buffers are those of the code, bytes included.  The line starts in the
middle of a block, and may lose one byte between any two blocks that get through.
An 8-bit sum takes a damaged block for a good one with a chance of 1 in 256; the blocks
of the instance are chosen so that losing one byte does not do it.  `MaxHexInRow` bounds
the hex messages between two blocks.  A lost block may go unreported when its `Checksum`
label was damaged and hex messages follow: the end of a hex message discards it without
counting it.  The carriage return before the first whole block after a runt is skipped
with the runt and missing from the sum, so this block is dropped and counted although it
was whole; `OneBlockResyncs` says that it costs no more than that.

### MPPTController

One action is one `MPPTController::service`: three updates, the history, a byte from the
line, a ping, the timeout, in this order, each a function on the record of the members.
`BlockReceived` is the BMV's block, whose fields set the flags; `Lost` loses a command or
its answer.  A late answer frees the slot of a later command, as in the code
(`sendCommand`, lines 490-492: "we don't worry about multiple outstanding commands").
A tick is the longest a pass may take.  `sendBattery...` sends the newest value, and
clears the flag; what becomes of the value is in `DeviceLeaves`.

### MQTTMessages and MQTTAnswers

A packet is its type, the flags of its header and its bytes, which `Encoded` makes of what
a client `meant`; strings are their lengths.  One action is one packet served (`service`)
or one leaf updated that the session listens to (`publish`).  A client that subscribes is
told retained values in the middle of its SUBSCRIBE.  And a handler that logs publishes:
`eol` of a line that is not debug sets the leaves below `$SYS/log`, and a session that
subscribed to them is sent a PUBLISH for each before the handler goes on, as long as it
has its connection.  `Published` are the outputs that can come of that: `LogLine` after
one line, which sets up to `logDepth` leaves, `Meanwhile` after several and after retained
values.  So an answer that fails is logged to the session it failed for, behind the broken
answer, before `handleConnectionSendFailure` takes the connection away; and a client that
comes back to a session subscribed to the log is sent a PUBLISH before its CONNACK, as the
pairing is logged first.  `stream` is what was written, message by message: `expected`
bytes and those the TCP stack had room for.  A message is written in up to five parts;
where the stack stops decides which part fails, and the handlers differ in what they do
then.  `running` records the two ends the code is not ready for: `halted` is `errorExit`
on a CONNECT of a session that does not parse, `undefined` is the array that more filters
than `maxTopicsPerSubscribeMessage` overrun.

### DeviceValues, VEDirectHex, VEDirectReadings, the tables, DeviceLeaves

A behaviour of `DeviceLeaves` follows one `wire`: a text field or a register of the MPPT
controller or the BMV, with the leaf the tables give it.  Actions are a text block with
this field, a hex message of its register (any code, flags, version, a byte too many or
too few), and the commands that carry a battery value to an MPPT controller, which may
take, refuse or not answer them.  Integers wrap and convert at the widths of the code.
The characters of a text are left out, but not whether it fits in its buffer: `Text`
says of a number whether its end is cut.  `Word` is 2^32 in the code; TLC counts to
2^31, so the instance uses 2^20 and keeps all smaller widths.  Registers without a leaf
are followed too: what `set` returns is checked.

### Statistics

One action is one pass of the main loop with the time it takes (`Pass`: a harvest
starts, one holder is asked, or nothing is due), or one thing that happens in between: a
client connects, is paired, sends, goes.  `leaf` are the published numbers.  Publishing
is an event itself: every leaf that changes is counted in the counter of updates and
sent to the sessions that listen, whose counters the broker is about to add up; `Told`
follows that in the order of the code.  `truth`, `harvested` and `rate` exist only in
the model: what really happened, at the start of a harvest and now.

### Logger

One action is a statement, with or without `debug` at its beginning and `eol` at its end,
or a step of publishing a line: the log's leaves are set one by one, and each may make
sessions log (`SayMeanwhile`), which `logging` keeps off the line and out of `lineIsDebug`
(`dontLog`).  `lines` exists only in the model: the lines that should be in the log.

## 3. Runs

| Run | Module | States | What it shows |
|---|---|---|---|
| `safety` | `MCMQTTBroker` | 87 k | pointers agree at both ends, lists with pointers, no slot is used after it was freed, a client has one session, one that is not clean is lost only by its own client's doing, the broker implements the session store; and a connection that is to close, and a TCP client whose peer is gone, leave their pools |
| `framing` | `MCMQTTPacketReader` | 58 k | what is handed on is what was sent, complete and in order, whatever the pieces; after a bad length nothing more; all of it arrives |
| `answers` | `MCMQTTAnswers` | 392 k | a packet is served as it was meant or not at all, a broken answer ends its session and is followed by no more than the line that logs it, and counters match what was written |
| `values` | `MCDataModel` | 249 k | nothing is left of a subscription given up, counters agree with the tree, a subscriber that missed nothing knows the value |
| `clock` | `PassiveTimer` | 1 k | a timer is never early; its expiry is seen until the clock next passes its middle or its end; elapsed time is right |
| `blocks` | `MCVEDirectText` | 85 k | one whole block brings the reader back in step, whole ones are then applied, nothing is applied that was not sent, a gap is counted, no block overruns its buffer unless a byte was lost |
| `commands` | `MPPTController` | 1.6 M | updates leave before the next may come, late answers are accounted for, pings and the walk through the history get their turn |
| `leaves` | `MCDeviceLeaves` | 124 k | a leaf tells its last message, to who was there and to who comes late; which texts are cut; which messages registers take; a value of the BMV comes back from an MPPT controller in its unit |
| `stats` | `MCStatistics` | 2.3 M | rates are those of their intervals, totals count every event once |
| `log` | `Logger` | 192 k | the log's leaves tell the last lines, whole and in order |
| `jumbo` | `MCMQTTPacketReader` | | finds the packet that is cut short (below) |
| `dropped` | `MCStatistics` | | finds the total that is added to itself (below) |

`framing`, `answers`, `blocks` and `stats` do not check for deadlock: they stop where
what may be sent or happen is used up, or where the device stops or runs over an array.
The others are free of deadlock.

Every property has a mutant, a change of one definition such as a plausible slip in the
code, that makes TLC find it violated.

### Bounds, and why they are enough

* **Broker.**  Two TCP clients, connections and sessions for three client IDs: one
  client more than there are sessions, so that one is refused, and a second connection
  for a client that returns while its old one is still there.  Handlers touch at most
  two connections and two sessions.  One topic is enough as the broker treats them
  alike.  No symmetry is used, as it would not be sound for liveness.  The proofs are for
  any number.
* **Packet reader.**  Three packets of four kinds, a buffer of five bytes: without
  payload, filling the buffer, not fitting, with five length bytes.  The reader has no
  memory of packets but the last.
* **Data model.**  A leaf below `$SYS`, one below another node, one at the top; five
  filters that overlap, with the quirk of `+/` and an invalid one; two subscribers.
  Leaves do not interact, the counters aside.
* **Timer.**  Periods up to one less than half the clock, as the code demands, over three
  turns.  `MaxGap` bounds the time between looks where a property depends on it.
* **VE.Direct text.**  Blocks of one and two fields, two hex messages; every position of
  a start and of a lost byte.
* **Commands.**  A tick is 50 ms at the real periods: 200 ms and a pass are 5 ticks, a
  block of the BMV 20, a ping 600.  The instance has one tick for the timeout and 10 for
  a block.  At 8, four commands that time out, `UpdatesLeaveInTime` still holds; at 7,
  which `PaceAssumption` rules out, it fails.  The history has 2 registers instead of 31.
  A ping every 51 ticks and a walk every 102 are the shortest periods that leave room
  (`RoomForPolls`) beside three updates in such a block.  At the slowest pass, 50 ms, and
  with every answer lost, a real walk takes 31 of the 60 seconds, and a ping that waits
  for it and then for the updates may come more than 30 seconds after it was due: there
  is no such room, and `PollsInTime` is not promised.  There is for passes up to 25 ms
  (`CodeLeavesRoom`).
* **Answers.**  Lengths that are zero, fit, and are one too many, at limits of 2; room for
  nothing, one byte, the fixed parts, and everything; publications at the length where one
  length byte becomes two; one leaf of the log, and one PUBLISH in the middle of a
  handler, which is one more than none (the proofs are for any number).  Three messages,
  of which the first packet is any and later ones are a few, as a session remembers
  nothing of a packet.
* **Values.**  All fields and their leaves; the sense registers, the first and the last
  day of the history, and one register of each other class; numbers within and beyond 8
  and 16 bits, negative ones, dashes, words; bytes with and without their sign bit.
* **Statistics.**  A clock of 10 ms that wraps within a behaviour, a counter that wraps,
  passes shorter than, as long as and twice as long as the interval, four events, two
  clients, two connections, harvests in a row and within one millisecond.
* **Log.**  Three leaves, lines of at most three texts, statements that scroll the log
  more than once.

### Fairness

* The broker: `WF(Pass)`, the loop calls the broker for ever, and `WF(CloseTimeout)`,
  time passes.  `loop()` has no branch that leaves out a service, and none of them
  waits.  One thing the code does not quite justify: the timer of a closing connection
  that is due in the last milliseconds before the clock passes its middle or its end
  reads as not expired (`ExpiredUntilHalfTurn`), and the connection then stays until the
  peer leaves or the clock comes round again, weeks later.  Nothing is assumed of peers:
  they may send nothing and never close.
* The packet reader: `WF(Reader)`, as each connection is serviced in every pass.
* The other modules assume none.

### What disagrees with its comments

Shown by a run of their own:

* `MQTTPacketReader.cpp:77` says that packets too big for the buffer are skipped.  The
  length of a packet of 128 bytes or more is computed wrong and the packet is cut
  short (`jumbo`).
* `MQTTBroker.cpp:230` says that what an ended session counted is "included in ongoing
  totals".  Line 294 adds what was dropped to the leaf instead of the total: it is added
  again by every harvest, and that of ended sessions never (`dropped`).

Built into properties that say exactly what happens:

* A CONNECT that does not parse is logged as "Terminating connection."
  (`MQTTConnection.cpp:131`), but the result that says so is dropped and the connection
  stays.
* `MQTTSession.cpp:174` says that a CONNECT that reaches a session has been parsed.  A
  second CONNECT on a connection has not; if it is malformed, the device stops
  (`ServedAsMeant`).  A well formed one is accepted without the checks of the first.
* `PassiveTimer.cpp:32-33` says that timers outlast the wrap of the clock.  One due just
  before the clock passes its middle or its end can be missed (`ExpiredUntilHalfTurn`).
* `DataModelRoot.cpp:73-74` says that wildcards do not match topics that begin with `$`.
  For unsubscribing they do: `DataModel` models the two walks apart.

### What else the models met

* A PUBLISH that fails in its second part is dropped and forgotten: the next message is
  read by the client as the rest of it.  So is what follows a refusal written in part.
* The text of an int16 leaf has four characters: `-1500` is published as `-150`
  (`OnlyInt16TextsAreCut`).  An `Int16Field` takes an int32 and keeps its low 16 bits.
* The two string register classes accept no message: `parseString` increments the byte
  it read instead of its place (`RegistersReadTheirLayout`).  No such register has a leaf.
* `UInt32Field` keeps its exception value in 16 bits (`UInt32Field.h:35`).
* After dashes the BMV's values reach an MPPT controller as the largest number, and its
  leaves show 655.35 V and 327.67 degrees (`MPPTShowsBMV`).
* A history record that is refused leaves the leaves of its day as they were, where other
  registers take their value away.  Days 14 to 30 have no leaves unless
  `INCLUDE_FULL_HISTORY` is defined, but are asked for.
* `network` leaves of an MPPT controller are never set (`WiringAssumption`).
* Two harvests within a millisecond, after one that came an interval late, divide by zero
  (`RatesAreTrue`).  The update that publishes a rate is in no rate.
* A debug statement without an end (`MPPTTotalHistoryRegister.cpp:71`) does no harm only
  because a debug statement follows; one that is no debug statement would be dropped
  with it, as after `TCPServer.cpp:49`.

## 4. Proofs

TLAPS proves, for all values of the constants that satisfy the named assumptions:

* **`MQTTBroker_proofs`.**  Type correctness, every invariant of the run `safety`, and
  `PersistentSurvives`.  The invariants are not inductive one by one: that a handler
  leaves pointers consistent depends on the lists, and these on the pointers.  `IInv` is
  `TcpTypeOK`, `LoopTypeOK`, `ClientsOwned` (a TCP client belongs to one active
  connection), `LoopInv` (a connection still to be serviced has its TCP client) and
  `PairInv`.  The last holds all that handlers of sessions act on, with
  `SessionTcpFresh`: a session's copy of the TCP client is its connection's. Handlers
  are composed of a few operators (`EndSession`, `ParkSession`, `Attach`); a lemma for
  each says how it keeps `PairInv`, and there is a step for each action. That a leaf's
  list has room, and that a client that was accepted finds a connection, follow from
  `IInv` by counting.  Assumed are `PoolAssumption`, which relates the sizes of the
  pools as the constants of the code do, and `NullAssumption`.
  `Refinement`: every behaviour of the broker is one of the session store.  For each
  operator a lemma gives `storeOf` afterwards; every action then changes it at one
  client ID only, since a client has one session, and by one of the store's actions, or
  not at all.
* **`MQTTPacketReader_proofs`.**  `ReaderDeliversInOrder`: what is handed on are the
  packets that fit, byte for byte and in order, for any packets, any pieces and any
  buffer.  The invariant says at which byte of which packet each state of the reader is
  and what it has of it in its variables.  The hypothesis `Readable` is that the code's
  arithmetic reads the length bytes of every packet sent as its length, or as one too big
  for the buffer.  `ShortPacketUnderstood` proves it for every packet with one length
  byte; that the packets of the instance are such is checked (`ReadableAssumption`).  The
  run `jumbo` shows that others are not.
* **`VEDirectText_proofs`.**  `WholeBlockResyncs`, `WholeIsTaken` and `OnlyLossOverruns`,
  for any blocks and hex messages that are `WellFormed` (the sum of a block is 0, a label
  or value holds none of the bytes that end it; checked for the instance as
  `WellFormedAssumption`).  The invariant says for each position of the item that is being
  sent what the state machine has made of it when it was in step, and that it is out of
  step only before the end of the first whole block after a loss.  The sum of a block is
  that of its parts: a lemma by induction on the length, as a set of numbers closed
  under successor.
* **`DataModel_proofs`.**  Nothing is left of a filter given up, the counters, and what
  subscribers know, for any tree and any filters.  The last needs
  `StrangersKnowNothing`: who is not on a leaf's list starts without a value, so that
  subscribing is what tells it.
  Of the log, `LeavesTellLastLines`, for any number of leaves, texts and statements.
  While a line is being told the leaves above the one that is next are those of the new
  line, the others those of the old.
* **`Timing_proofs`.**  Of the timer: never early, seen until the half turn, elapsed time;
  modular arithmetic for any clock and however long a behaviour runs.
  Of the MPPT controller: types, the account of commands, and `UpdatesLeaveInTime`
  for any periods such that four commands may time out in a block and no two pings come
  in one (`PaceAssumption`).  The inductive invariant bounds the ticks until all is sent
  (`Need`: the rest of the command that holds the slot, a slot for each update but the
  last, one ping) by the ticks until the next block; each pass takes as much off the one
  as off the other.  A ping can only come between updates by taking over the slot of a
  command that was answered a tick before it would have timed out, or earlier; this tick
  is why four slots suffice.
  `MPPTPollsInTime` is a second bound, over many blocks: while a poll is due, what it
  waits for (a walk, a ping, the rest of a command) has a load in ticks, and the load,
  weighed with the time since the last block, shrinks by the same amount in every tick
  (`Pace`: what three updates leave of a block).  The load a poll starts with is
  bounded, as neither poll comes round again in the `w` ticks of `RoomForPolls`.
* **`MQTTAnswers_proofs`.**  `AnswersCounted` and `AnswersFollowed`, for any packets, any
  publications and any room on the stream.  Each message is `Honest`: the length its
  header announces is what its writes add up to, and the last write succeeds exactly if
  everything before it did, so that looking at the last result only, as the handlers do,
  is enough.  `LengthIsRead` says that a client reads from up to four length bytes the
  length the broker put in them.  The invariant says what each counter counts of the
  stream, and that a session's answer that was broken off has only PUBLISHes behind it, at
  most `logDepth`, and its session gone.  `Published` is a recursion over sets of outputs;
  that it has a value, and that it only adds PUBLISHes and counts them, is shown by
  induction (`UpToExists`, `PublishedAdds`).  Assumed are `TopicsAssumption` (the result
  of a SUBSCRIBE has one length byte in a `uint8_t`), `LengthsAssumption` (a topic's
  length is a `uint16_t`), `PacketAssumption` (a packet is bytes) and `LogAssumption` (the
  log has some number of leaves). `AnswersServed` is `ServedAsMeant`, for any limits, any
  flags, any strings and any number of filters of any length, undamaged, with a byte too
  many, a byte too few, cut after the first byte or with another protocol name.  The
  strings of a packet are laid out one behind the other (`IsLaidOut`: where each begins
  and that the two bytes there are its length), which holds of what a client encodes by
  induction over the strings (`LaidOut`).  A parser passes a string that lies in the
  packet and fails at the first that is cut (`ParsesOne`, `StringsFound`); the loop over
  filters passes exactly the proper ones, tries once more if a byte is left, and never
  stops short of the end (`Passed`, `FiltersFound`); the second walk, which checks
  nothing, comes through the same places (`FiltersGot`).  `RequestServed` and
  `ConnectServed` say what this makes of each message, and a lemma for each handler what
  becomes of the session.  Assumed are also `MeantAssumption`, which only says of which
  types what a client means is, and `DamageAssumption`: of a packet whose first string has
  another length than it says, that it does not parse.  This is a hypothesis because it
  cannot be proved: cut elsewhere, the bytes may be another legal packet, which nobody
  could tell from one that was meant.
* **`Statistics_proofs`.**  `Totals` and `Rates`, for any number of clients, connections,
  sessions and changing leaves, any word sizes, any interval and any delays.  The
  invariant of the totals is a balance: for each counter, what was really counted is the
  total of what has ended plus the sums over connections, active and waiting sessions
  (`Balance`).  Every action moves counts between these four places or counts in one of
  them what `truth` counts; that the right session is found needs that a paired
  connection has a session and shares it with no other (`PairedHaveSessions`,
  `PairedOnce`).  The harvest adds up sessions that have already been sent some of the
  new values: each sum is at least what it was at the start and at most what it is at the
  end (`SeenBetween`).  For the rates the invariant relates the counter, the last reading
  and the end of the timer to what they stand for (`ReadingOK`), and the rest is modular
  arithmetic.  Sums over lists are recursive functions; lemmas by induction say what
  appending, removing and changing a place does to them.

* **`DeviceLeaves_proofs`.**  The five properties of the run `leaves`, for any texts, any
  data of the messages and all 246 registers and 51 fields of the tables:
  `RegistersRead`, `LeavesTell`, `LateSubscriberIsTold`, `OnlyInt16Cut` and `MPPTTold`.
  `WordAssumption` is all that is assumed of the widest integers: a multiple of 2^16, of
  at least 2^17 and at most 2^32, so that the proofs hold for the code's 2^32 and for the
  2^20 of the instance.  `LeavesAssumption` says what a text is.  At the bottom, the
  recursive functions over bytes are the values of sequences that exist by induction
  (`Recursion`): a sum of bytes, a number from its bytes, the cursor's place after each
  of its reads, which are the places of the layout (`ReadsAll`).  Then there is one lemma
  for each class of register (`EveryRegisterDoes`) and of field (`FieldSays`), that says
  what `set` makes of any message, and one that says what the tables wire to what.
  `LeavesInv` relates the leaf, what was told and the last message: what a leaf has is
  always as much of a value as it keeps (`Kept`), so that the two buffers its text comes
  from agree; `MPPTTold` needs that an update and a command on their way come from one
  text (`UpdateInv`, `CommandInv`) and that a command's bytes give the number back that
  was put in them.

Only model-checked: liveness, as the prover knows nothing of fairness and ENABLED;
`AppliedWasSent` and `NoSilentGap` of `VEDirectText`, which hold for the instance's
blocks and not for all, as an 8-bit sum takes one damaged block in 256 for a whole one;
`DamageAssumption` for the packets of the instance; what
`WiringAssumption` and `CommandAssumption` say of the tables and of the bytes of other
commands; that the properties fail for the mutants.  `DroppedTotalIsTrue` is no theorem:
the run `dropped` refutes it.

## 5. Not modelled

* `NetworkInterface`, which starts the QNEthernet stack and logs its callbacks, keeps no
  state; the stack itself is the environment of the broker and of `MQTTAnswers`.
* `OrionXS`, which the program neither constructs nor services.
* Number formats and the wording of topics' values and of the log; the serial ports.
* Keep-alive, which the code stores and never looks at.
* `setup` and the order of the devices in the loop: no service waits for or interrupts
  another.
* Leaves for int8, int32 and scaled uint8 values, which nothing uses.
* What happens after a SUBSCRIBE with too many filters overran its array: undefined.

## 6. Plan

What is left:

1. **Composition** of the packet reader with `MQTTAnswers`, so that packets cut short by
   their length reach the parsers.
