# A TLA+ model of mcutie

mcutie is an async MQTT client for embedded devices (embassy, `no_std`) with
support for Home Assistant. This directory holds TLA+ modules that model its
source, TLC configurations that check small instances of them, and theorems that
TLAPS checks for every instance: about the pipe between the application and the
socket, the task, the operations and their composition, the framing, Home
Assistant, and the path of a message. Paths are relative to the repository's root, whose crate is in
`src/`: `io.rs` below is `src/src/io.rs`.

    tlc -config pipe.cfg MCConnectedPipe.tla
    tlapm McutieTaskProofs.tla

`PROJECT.json` lists the components, the runs, a mutation of the code that
breaks each property, the source lines of every definition, the findings, the
hazards and the theorems.

## 1. The system

```
  application tasks                    task of McutieTask::run
  -----------------                    --------------------------------------
  publish / subscribe / unsubscribe    select4( ping_loop, write_loop,
      |            ^                            recv_loop, wait for link down )
      |            | CONTROL_CHANNEL       |        ^          |
      |            | (2 kept, 5 subscr.)   |        |          |
      |            +-----------------------|--------|----------+
      +--> SEND_QUEUE (one slot) <---------+        |          |
               +------------------------------------+          |
  McutieReceiver::receive <---- DATA_CHANNEL (10) -------------+
```

| component | its state | operations | talks to |
|---|---|---|---|
| `ConnectedPipe` (pipe.rs), the static `SEND_QUEUE` | the pending packet, one waker for senders, one for the receiver, `connect_count` | `push`, `reader`, `receive`, the polls of both futures, the drop of futures and of `PipeReader` | every task that sends, `write_loop` |
| confirmed operations (`publish`, `subscribe`, `wait_for_publish`, `assign_pid`, `send_packet` of io.rs; `Topic::subscribe`, `unsubscribe` of topic.rs) | `PID`, the futures of the callers, the subscribers and unread messages of `CONTROL_CHANNEL` | start, get a subscriber, get an identifier, push, wait two seconds, be cancelled | `SEND_QUEUE`, `recv_loop` through `CONTROL_CHANNEL` |
| `McutieTask::run` and its loops (io.rs; `ha_handle_update` in homeassistant/mod.rs) | the back-off, the connection, what each loop is waiting for, `DATA_CHANNEL` | wait, look up, connect, run the four futures, report Disconnected; one handler for each packet type | network stack, `SEND_QUEUE`, both channels |
| framing (`recv_loop`'s buffer, `packet_size`) | the buffer, `cursor`, `start_pos` | read, measure, decode, move the rest to the front | the socket, the handlers |
| `Topic` text (topic.rs) | none | `to_string`, `from_str` | operations, the PUBLISH handler |
| `LightState`, `BinarySensorState` (homeassistant/) | none | to JSON and back, to `bool` and back | the application |
| `Buffer` (buffer.rs) | cursor and bytes | `write`, `encode_packet`, `serialize_json` | `send_packet`, `write_loop`, discovery |
| `Publishable` and its message types (publish.rs) | none | `write_topic`, `write_payload`, `publish` | `publish()` |
| Home Assistant discovery (ser.rs, mod.rs, sensor.rs) | none | serialise an entity's configuration | `publish` |
| `McutieBuilder` (lib.rs) | the configuration | `with_*`, `build` | runs before everything else |

### What is hard about it

* **One waker slot for many.** All tasks that wait to push share one waker, and
  `PipeReader::drop`, cancelled futures and several futures in one task all
  touch it. A lost wake-up is a task that sleeps for ever.
* **Dropping the three loops wherever they are.** When one branch of `select4`
  ends the others are dropped at their current await: between delivering a
  message and acknowledging it, in a write, while subscribing, with a packet in
  the slot.
* **Everything passes through one receive loop.** While it subscribes, sends
  an acknowledgement or waits for the application's channel, it reads no
  acknowledgement of any operation.
* **Bounded channels.** One slot, five subscribers, two control messages, ten
  messages for the application.
* **Time-outs and identifiers.** An acknowledgement races the two seconds; an
  identifier may come again; the publisher's channel may drop a message.
* **TCP is a stream.** A packet may arrive in pieces.

* **Fixed buffers.** A topic of 256 bytes, a payload of 2048, a packet of the same
  2048: each is checked, or not, in a place of its own.
* **Home Assistant comes and goes.** Neither discovery nor its birth message is
  retained; which of the two sides is there first is anybody's guess.

The `hazards` of `PROJECT.json` give these with their lines. Those that no
property covers say why.

### What makes each component correct

* pipe: no lost wake-up, no packet lost or doubled while a connection is there,
  order per sender, nothing left over for the next connection;
* confirmed operations: `Ok` only if the broker carried out this operation, a
  time-out only if it did not answer it, every operation ends, and the receive
  loop is never stuck behind them;
* task: events reach the application in an order that makes sense, messages are
  acknowledged only once delivered, nothing of one connection is written to the
  next, every end is followed by a new attempt after the right wait;
* framing: exactly the packets that were sent are decoded;
* the three together: no request is lost between an operation and the receive
  loop, and an application that waits from within its own receive loop does not
  bring the task to a halt;
* messages: what is published arrives whole and under the topic it was published
  to, or fails with an error; a light understands its own state;
* Home Assistant: it hears of the entity - ideally whoever starts first - and the
  topics it is told of are the ones the device uses.

## 2. The modules

| module | models | note |
|---|---|---|
| `SendQueue` | what the task's loops rely on in the pipe: one slot and whether somebody reads | most abstract: nobody pushes, it is filled |
| `DroppingPipe` | what the doc comment of `ConnectedPipe` promises | abstract: no wakers, polls or tasks; implements `SendQueue` |
| `ConnectedPipe` | pipe.rs | implements `DroppingPipe` |
| `Confirmation` | publish, subscribe, unsubscribe, `CONTROL_CHANNEL`, identifiers | |
| `McutieTask` | `run`, `write_loop`, `recv_loop`'s handlers, `DATA_CHANNEL` | implements `SendQueue` with its slot |
| `PacketStream` | the framing half of `recv_loop`, `packet_size` | |
| `Client` | the composition of `McutieTask` and `Confirmation` | two instances over one set of variables |
| `HomeAssistant` | `ha_after_connected`, `ha_handle_update`, an application that publishes discovery | on an instance of `McutieTask` |
| `Topic` | `to_string`, `from_str` | operators |
| `Light` | `LightState`, `BinarySensorState` | operators |
| `Buffer` | buffer.rs | operators |
| `Discovery` | the serialization of an `Entity` | operators; extends `Topic` and `Light` |
| `Message` | `Publishable`, `send_packet`, the CONNECT with its last will, the PUBLISH arm of `recv_loop` | the path of one message; extends `Discovery` and `Buffer` |
| `MC…` | | constants of the instances |
| `…Proofs` | | the theorems about the module of that name (section 5) |
| `Induction` | | the lemmas on induction and recursion they share |

`McutieTask` does not instantiate the pipe: a push is one guarded step of its own. What
holds the two together is `SendQueue`, which both implement, the code's pipe by way
of `DroppingPipe`. `McutieTask` meets `Confirmation` in `Client`:

```
  ConnectedPipe --implements--> DroppingPipe --implements--> SendQueue
                                                                 ^
                                                                 | implements
                                                             McutieTask --+--> Client
                                                                 |        |
                                                                 |   Confirmation
                                                           HomeAssistant
  Topic, Light --> Discovery --> Message <-- Buffer          PacketStream
```

The proofs are built the same way: `ClientProofs` and `HomeAssistantProofs` show
that the composition implements its parts, and instantiate the proof modules of
the parts to take over what was proved of them.

```
  ConnectedPipeProofs    McutieTaskProofs   ConfirmationProofs     Induction
                            |         |          |                |       |
             HomeAssistantProofs     ClientProofs      MessageProofs   PacketStreamProofs
```

An operator whose comment begins with *Mutant of* is not part of a model: it
is the named definition with a plausible error, kept to show that a property
notices it.

### ConnectedPipe

The variables `connect_count`, `receiver_waker`, `sender_waker` and `pending`
are the fields of `PipeData`. Each poll holds the pipe's mutex and is one
action; each of its branches is an action too (`PushDropped`, `PushBlocked`,
`PushAccepted`, `ReceiveReady`, `ReceiveBlocked`). A waker is abstracted to the
task it wakes, which is what `Waker::will_wake` compares. `scheduled` is the
executor: the futures that live in a task woken since their last poll. A poll
may also happen unscheduled (something else in the task was woken). `CancelPush`
is a caller that drops its `PushFuture`, `DropReader` the end of `write_loop`,
with its `ReceiveFuture` if it was waiting: neither future has a `Drop`, and
their wakers stay behind. `received`, `discarded` and `withdrawn` are history.

### DroppingPipe

Offer, accept, drop, withdraw, connect, ask, deliver, disconnect, as the comment
on `ConnectedPipe` describes them, with weak fairness of what can complete. The
refinement mapping is `slot <- pending`, `offered <- push`; a blocked poll is a
stutter. That the abstract fairness is implemented says that no wake-up is lost
in a way that matters.

### SendQueue

Two variables, `connected` and `slot`, and four actions: `Open` and `Close` are the first
reader and the end of the last, `Put` and `Take` the two transfers. Offers, dropped
packets and further readers are stutters. `DroppingPipe` has it as
`ImplementsSendQueue` (`connected <- readers # {}`), `McutieTask` as `UsesSendQueue`
(`connected <- Connected`: `write_loop` has made its reader). Both are proved (section
5), so that what `McutieTask` does with its slot in one step is what pipe.rs does in
several polls.

### Confirmation

A client is a caller of the application (one operation at a time) or the receive
loop, which subscribes to the configured topics after a CONNACK. `Start` begins
an operation; `Join` is `subscribe().await` up to the push, with no await in
between, and takes an identifier; `Send` is the end of the push; `ReadMessage`
and `TimeOut` are the two branches of the `select` in the waiting loop, `Cancel`
is a caller that gives up. `Answer` is the receive loop reading an
acknowledgement: it does so only in `Reading`, and publishes to the mailboxes
of the subscribers, which keep the newest `QueueLength` messages. A mailbox for
each subscriber stands for embassy's shared queue with a position for each; it
keeps the same messages for a subscriber as long as that one reads no slower
than the queue fills, and `lagged` remembers who lost one. The broker answers
each request at most once, and only on the connection on which it came
(`clean_session: true`); it may refuse a subscription and may stay silent.

### McutieTask

`phase` is where `run` is: waiting, connecting, in `select4`, reporting
Disconnected. `writer` is where `write_loop` is. The pipe appears as `SendQueue` has
it: a push is one step, blocked while the slot is full and a
reader is there, lost if there is none. What `recv_loop` does for a packet is the
sequence `steps` of what it awaits, in order (`Handler`); each await is a step of
its own, so that `EndSession`, the drop of all four futures, can fall in between.
Looking up the address, the state of the link and the TCP connection are one
step that succeeds or fails. The broker is external: it answers CONNECT once,
sends only on an accepted connection, and no message again on the next.
`ended` is a history variable that says how the last attempt ended: without a
connection, refused, or lost, and a lost one is `"dropped"` when the receive loop
had read the CONNACK that accepts it and `"not accepted"` before (`Lost`). Only the
back-off's properties read it.

### PacketStream

The stream is a fixed sequence of packets whose bytes keep only what
`packet_size` sees: seven bits and a continuation bit, with `Base` for 128 so
that small lengths take several bytes. `Read` takes any number of bytes the
buffer has room for. An entry of `decoded` is a range that `decode_slice` was given:
where in the stream it begins, where it ends, and how far the stream was read.
`DecodeIncomplete` is the case the code does not tell from `Decode`: the range goes
beyond the cursor, and the rest of it are stale bytes of the buffer. What they say is
not determined by the model: either `decode_slice` fails, or a packet comes out,
which is handled, and `start_pos` moves past the cursor, where the next slice panics
(`SlicePanics`).

### Client

The variables are those of `McutieTask` and of `Confirmation`, and both modules
are instantiated with them; a constant of one is given by the other (`Others`,
the packets of the operations, and `Reply`, what the broker answers them with).
Every action of `Client` is an action of one instance with the other unchanged,
or of both at once where the code does both in one step: the end of a push is
`T!OtherPush` and `C!Send`, reading an acknowledgement is `T!Read` and
`C!Answer`, the end of a connection is `T!Dropped` and `C!Disconnect`. What
`Confirmation` keeps in `wire`, unordered, is here in the slot, in the write loop,
with the broker or in `inbox`, in order; `TaskPacket` says which packet is which
and `RequestsInOnePlace` that the two accounts agree.
The application is a single loop: `App` receives only while it runs no operation,
and `recv_loop` is one of the clients. So the circular wait is in the
model: an application that waits for an acknowledgement behind a message that it
would have to receive first. Pings are left out, and what `recv_loop` subscribes
to always fits its buffers.

### HomeAssistant

Home Assistant is `home`: offline, starting (it listens to discovery), online.
The broker handles the packets the device has written in their order (`seen`
counts them): discovery reaches Home Assistant if it listens at that moment
(`known`), and its "online" reaches the device if the broker has handled the
subscription to the status topic (`greeted`, until one of the two goes). `AnnounceOn`
is what the application publishes discovery on, before it receives again. The
comments of `MqttMessage` ask for it on `HomeAssistantOnline` (lib.rs:83); on
`Connected` they ask for subscriptions and state (lib.rs:76-77), which are left out
here because they make no difference to discovery but the time they take. The run
has this application; a theorem also speaks of one that publishes discovery on
`Connected` as well. Events are not matched to connections: a `Connected` may be
read when that connection is gone.

`AnswersGreeting` is the safety half of what the code does for discovery: once the
device was greeted, the entity is known or its discovery, or an event that will make
the application publish it, is somewhere on its way. `GreetingMakesKnown` is the
liveness half. Without the greeting neither is true: `KnownIfPassedOn` says that this
application is unknown to Home Assistant until a birth message has been passed on.

### Topic, Light, Buffer, Discovery and Message

The first four are operators, named like the functions they model. A text of
`Topic` is a sequence of characters because the prefixes are what matters, and
some characters are two bytes long because the code slices bytes; `Size` is the
length the code compares. A JSON payload is the record of its fields in `Light`
and the sequence of keys and values in `Discovery`. A `Buffer` is the sequence of
what was written; `write` panics on a partial write as `copy_from_slice` does.

`Message` follows one message. `Publish` is `publish` of one of the kinds: into
the topic, into the payload (bytes in one piece, a `Display` in several, JSON all or
nothing), into the packet. `Connect` is the message as the last will in
CONNECT. `Deliver` is what `recv_loop` makes of a packet, `Parse`
`LightState::from_payload`. A byte is a pair of what the whole text says and a
position, so that a text that is cut or mixed is told from one that is whole.
Waiting, identifiers and the queue are in `Confirmation` and `McutieTask`.

## 3. The runs

| run | instance | shows |
|---|---|---|
| `pipe` | three senders (ping, receive loop, application) with two packets each, one writer; three of the four futures in one task; the executor's fairness only | readers counted, no lost wake-ups, every item in one place, order; a push never hangs while the writer comes back; `ConnectedPipe` implements `DroppingPipe` with its liveness |
| `confirm_kinds` | every kind of request, confirmed or not; two callers and the receive loop, which resubscribes, share two subscribers and a queue of one | `Ok` and time-outs mean what they say, also for what is left over from the operation or the connection before; every operation ends; the receive loop resumes although the callers hold all subscribers |
| `confirm_wrap` | four operations, three identifiers | **violation**: see finding 2 |
| `task` | messages of every QoS, for the application and on Home Assistant's status topic, two connections, two topics, a channel of one | order of events, acknowledgements, nothing stale, back-off; no handler hangs; a lost connection is followed by an attempt |
| `task_refused` | one connection, refused | **violation**: finding 3 |
| `stream` | eleven packets with lengths of one to five bytes, the last but one malformed; reads end anywhere, the broker may close at any time | `decode_slice` is given the packets that were sent, incomplete only if a body was torn apart, and none after that; while no body is torn apart, all of them up to the malformed one, and nothing else ends the loop |
| `stream_torn` | the same | **violation**: finding 1 |
| `client` | one application task that publishes with QoS 1 or subscribes and receives, one configured topic, one message to be acknowledged, two connections; every queue holds one element | no request is lost or left over between operation and receive loop; `Ok` is the broker's answer to this request; the task gets back to reading or to the next attempt in spite of the circular wait |
| `homeassistant` | two connections, two starts of Home Assistant, in any order | once Home Assistant's "online" went to the device, the entity is known or on its way, and becomes known |
| `message` | topics of up to four bytes over four letters, payloads around a limit of 24 bytes in one or two pieces, all light states over two values, entities of every platform with every optional field there or not; topics and commands of others | topics and payloads arrive whole or fail; a light understands itself; discovery is well formed and names the topics in use |
| `message_panic` | the payloads | **violation**: finding 4 |
| `light_bool` | the light states | **violation**: finding 5 |

### Bounds, and why they are enough

* What section 5 lists holds for every value of the bounds; they matter for the
  liveness properties and for the runs that no theorem covers.
* One reader: `McutieTask::run` has one `write_loop`. The theorems hold for several.
* `MaxPush` 2: a sender that has pushed once and pushes again meets every waker
  the first push can leave behind; a third push starts from a state (waker and
  slot) a second one has met.
* `QueueLength` 1, `MaxSubscribers` 2: fewer than the answers on their way and,
  in `confirm_kinds`, than the clients, so that mailboxes overflow and subscribers
  run out; in the code that takes three answers in one read or six operations.
* `MaxPid` 7 is more than the operations of a run can use up, so that identifiers
  do not wrap; `confirm_wrap` has 3 and one operation more, so that they do. Both keep `PidOf` as it is
  in the code.
* `MaxOps`, `MaxConnections`, `MaxSessions` 1 or 2: two operations of a caller
  and two connections are what it takes for something to be left over. With a
  bound on operations, liveness says nothing about an application that starts
  operations without end; see below.
* `DataCapacity` 1 (10 in the code): the channel fills up.
* `Base` 2, `BufferSize` 64: lengths of four and five bytes are reached with
  packets of 8 and 16 bytes; several packets and a part of the next fit the
  buffer, and each packet alone does, as the code needs it to.
* `Client`: one caller, because what it adds to `confirm_kinds` is the order of
  packets and the application's loop; one operation and two connections.
* `HomeAssistant`: two starts and two connections give every order of the device's
  and Home Assistant's coming and going twice; the channel holds two, so that
  a stale event may be waiting.
* `Message`: one letter for the type and one for the id, one letter of two bytes,
  names that contain any of them, texts beyond the capacity. Lengths go from none
  to one more than fits, in the payload and, by way of the topic, in the packet;
  `Base` 8 makes the length field of a packet take one byte or two.

Symmetry is used for callers, in runs without liveness properties only. A run
with `CHECK_DEADLOCK FALSE` says in its `.cfg` why it may stop: the bounds, or
a broker that closes.

### Fairness

* `ConnectedPipe!ExecutorFairness`: a future whose task was woken is polled. This
  is all an executor promises; a future that is not scheduled is owed nothing,
  which is what makes the liveness of `pipe` a check of wake-ups. `PushResolves`
  has one more premise: `write_loop` comes back to `receive`, that is, the socket
  takes what is written.
* `Confirmation!Fairness`: each step of an operation that can happen does, timers
  included. That a push ends is what `PushResolves` shows. Weak fairness of
  `Join` is all the 50 ms polling for a subscriber gives: a slot that others take
  again and again may starve it. The bound on operations hides that, and no
  property claims otherwise.
* `McutieTask!Fairness`: the task is polled, the socket takes what is written,
  and the application keeps receiving. The last one is an assumption about the
  application; without it the receive loop waits for ever by design of
  `DATA_CHANNEL`. Connecting, reading and the broker are not assumed fair.
* `Client!Fairness`: the same, operation by operation, with the time-outs; the
  application comes back to `receive` whenever no operation holds it. `TaskGoesOn`
  fails without the time-outs (its mutant), which are all that resolves the
  circular wait.
* `HomeAssistant!Fairness`: in addition the broker handles what is written and
  what it has sent is read; nobody has to connect, start or come online.
* `PacketStream!LiveSpec`: the broker's bytes arrive and the loop is polled.
  `AllDecoded` itself says what it needs: no body torn apart, no close.

## 4. Findings

1. **A packet whose body arrives later is decoded from stale bytes**
   (`stream_torn`, io.rs:225). `packet_size` is `Some` as soon as the length field
   is there, and nothing compares it with `cursor`. The comment at io.rs:232 says
   that `None` is returned while a packet is incomplete. The loop ends with a
   packet error, or a packet with bytes that were never received is handled - a PUBLISH
   is handed to the application and acknowledged - before `start_pos` moves beyond the
   cursor and the slice of the next round panics.
2. **Identifiers come again while in use** (`confirm_wrap`, io.rs:52). `PID` wraps;
   counter values 65535 and 0 both give identifier 1, and any identifier comes
   again after 65536 operations. An operation whose packet was dropped, or whose
   answer is outstanding, is confirmed by the answer to another.
3. **A refused connection is retried after 200 ms** (`task_refused`, io.rs:449).
   The short back-off is set once TCP is connected, before CONNACK. lib.rs:40 says
   that errors connecting to the broker wait five seconds. A connection that ends
   before the CONNACK has come is the same case (`ended = "not accepted"`): no run
   demands either wait of it, and `RightBackOff` proves that it is the short one.
4. **A payload that is too large panics** (`message_panic`, buffer.rs:105). `write`
   computes how much fits and then copies everything into that much, and
   `copy_from_slice` panics on two lengths. This is met by a `Display` or a last
   will that does not fit and by a received payload of more than 2048 bytes, where
   lib.rs:67 promises an error and io.rs:291 a line in the log.
5. **`bool::from(BinarySensorState::Off)` is `true`** (`light_bool`,
   binary_sensor.rs:50), where the comment at line 8 says that the state converts
   to and from `bool`.

Observations the runs rest on without contradicting any document: an
operation may time out although it was acknowledged if its subscriber lagged
(`TimedOutMeansUnanswered` allows it), and a topic whose name repeats the
device's type or id comes back as another variant (`ArrivesAsSubscribed` says
exactly when). Three more come from modelling the code and are no run's subject:
a last will that fits its own buffers but not the CONNECT packet makes the client
connect again every 200 ms for ever; a `PublishBytes` of nearly 2048 bytes fails
with `PacketError` and not `TooLarge`, because topic and payload share the packet's
buffer; and the topic of a discovery message does not name the device.

One observation is a theorem and no run: **a Home Assistant that is already online
does not learn of the device** (homeassistant/mod.rs:82). Only `HomeAssistantOnline`
asks for discovery (lib.rs:83), and it follows from a message that is not retained and
that Home Assistant sends when it starts. README.md:9-10 promises support for
auto-discovery, and `publish_discovery` is to let Home Assistant detect the entity
(mod.rs:190). An application that does just what it is asked stays unknown until Home
Assistant is started again (`UnaskedUnknown`); one that also publishes discovery on
`Connected` does not (`AnnouncedOnConnected`). No run claims the contrary.

## 5. What is proved

Every safety property that the passing runs check is a theorem, and so are the
refinements between the modules. `PROJECT.json` names
the property each theorem states. The theorems hold for all values of the
constants that satisfy the named assumptions, which TLC evaluates on every run:

| assumption | says | because |
|---|---|---|
| `ConstantsAssumption` (each module), `LengthAssumption` | finite sets of tasks, clients, readers; capacities are not 0; every message has a QoS and a target; `Base` is at least 2 and the receive buffer holds 5 bytes | 128 and 4096 in the code |
| `NoneIsNoPacket`, `NoneIsNoValue`, `ErrorsAreNoTopics`, `ErrorsAreNoMessages` | `None`, `TooLarge` and `Panic` are nothing else | they stand for `Option::None`, `Err` and a panic |
| `NamesDiffer` (`Client`) | no topic is configured twice | the broker's answers to two subscriptions to one topic would be one packet in the model |
| `TopicAssumption`, `LightAssumption`, `MessageAssumption` | texts, values and messages have their types | |
| `PacketHoldsTopic` | `TopicLength + 5 <= N` | 256 and 2048 in the code |

**ConnectedPipeProofs.** Nothing is assumed of how futures are spread over tasks.

* `TypeCorrect`, `CountRight`: `TypeOK` and `connect_count = Cardinality(readers)`
  are inductive together: that the count is positive before `-= 1` comes from
  the cardinality of a set with a member.
* `SlotEmptied`, `SendersWoken`, `ReadersWoken`: `Handover`, their conjunction, is
  inductive relative to the type and the count. An unscheduled sender's task *is*
  the task in the one waker slot, so two unscheduled senders share a task, and
  whoever displaces the waker wakes all of them (`SenderWokenAllScheduled`,
  `ReceiverWokenAllScheduled`). Futures not concerned stay scheduled
  (`StillScheduled`). That the slot is empty while no reader exists is needed for
  the first poll of the next reader.
* `InOrder`, `NothingVanishes`: from `OrderInv`: what a sender still offers is its
  newest item, what is in the slot is older, what was received is older still;
  the same order makes the places of an item exclude each other.
* `Implements`: `Spec => Pipe!SafeSpec`. Each action maps to one of `DroppingPipe`
  or to a stutter; the count of readers is needed where the code asks for
  `connect_count = 0` and the abstract pipe for `readers = {}`.
* `DroppingPipeIsSendQueue`: one level up, each step of `DroppingPipe` fills or empties
  the slot, connects the first reader, loses the last, or is a stutter. All the invariant
  needs (`Offers`) is that what is offered is an item and that who waits is connected.
  `PipeIsSendQueue` puts the two together.

**McutieTaskProofs**, for any messages, topics, capacity and number of connections.

* `RightBackOff`: `AttemptInv` follows the variable `timeout` through the phases, since
  the property itself speaks of the wait only once it is over. `BackOffFits` is what the
  code does as lib.rs:40-43 says: no wait before the first attempt, the long one after a
  failure to reach the broker, the short one after the loss of a connection that the
  broker had accepted. The theorem adds what it does otherwise (finding 3).
* `AcknowledgedDelivered`: `DeliveredInv` adds what `steps` may still hold: an
  acknowledgement to be pushed stands behind the event it is for, or that event
  was delivered. Every await of every handler may be the last (`EndSession`),
  so the order within `steps` is all there is.
* `NeverStale`: `FreshInv` adds that what the handler still has to push, and what
  is unread, was caused by this connection, and that CONNECT is the first packet
  written and only that.
* `EventsMakeSense`: `ToldInv` counts the Connected that the handler of a CONNACK
  still has to tell in with what the channel has, and says that a refused
  connection has nothing else to read.
* `SubscribedFirst`, an action property: from `SubscribedInv`, that Connected is
  the last step of its handler and that every topic's SUBSCRIBE is under way or
  among the steps before it.

* `SlotIsSendQueue`: `Spec => UsesSendQueue`, with the type invariant (before
  `write_loop` has its reader the slot is empty). `Queue` is the same
  specification that the pipe implements.

**ConfirmationProofs**, for any callers, kinds of operations, capacities, and
numbers of subscribers.

* `TypeCorrect` includes that there are no more subscribers than the channel has, no mailbox
  over its capacity and no identifier 0.
* `TimedOutRight`, an action property: `HeardInv` says of each operation that
  the answers since it subscribed are in its mailbox, or that it lagged: what
  it has read was not the answer, or it would have returned.
* `OkIfPidsFree`: `Spec /\ [][TakesFreePid]_vars => []OkMeansConfirmed`. The code does
  not guarantee the premise, that identifiers are free when they are given:
  `confirm_wrap` shows what follows where they are not (finding 2). The theorem says that this is the *only* way in which `Ok` can be
  wrong. `TrueInv` needs four things of the identifier of an operation under
  way: no other operation has it, what is on the wire with it is this
  operation's request, a message in the mailbox that confirms it is the
  broker's answer to it, and who is no subscriber has no mailbox.
* `OkUntilWrap`: `Spec /\ [][counter' >= counter]_vars => []OkMeansConfirmed`: until the
  counter wraps identifiers are free, because all that were given are below it
  (`Given`).
* `OkWhileIdentifiersLast`: what a client can rely on without any premise on the
  behaviour. If the operations of all callers and the subscriptions of all
  connections are at most 65535 together, `Ok` is right. The two theorems above assume
  something of every step; this one counts. Each `Join` adds another operation to `Served`, which
  is a subset of the operations there may be (`MayBe`, of the cardinality `HowMany`
  states), so the counter has not come round (`TakenOnce`). The bound is tight: `confirm_wrap` has one operation more
  than identifiers and is violated.
* `NoSubscriberLost`: `SubscribersInUse`, an invariant that no run checks. The channel has
  five subscribers; if an operation that fails, times out, is cancelled or loses its connection kept
  its own, or if two shared one, operations would in the end wait for ever. It is an
  equality of sets, inductive together with `Plain` (only a PUBREL goes without a
  subscriber, and it never looks for one).

**ClientProofs**, for the composition.

* `ImplementsConfirmation` (`Spec => C!Spec`) and `ImplementsTask` (`Spec => T!Spec`):
  every step of the client is a step of each part or a stutter. The second needs
  the invariant `Named`: what an operation pushes is one of the packets that
  `McutieTask` expects of its application.
* `TaskProperties`, `SubscribedFirst`, `OperationsTimeOutRight` take over the
  invariants of the parts.
* `OkIfPidsFree`, `OkUntilWrap`: `OkMeansAnswered`, the claim of `Confirmation` brought down to packets:
  `Ok` means that the broker has sent the acknowledgement of this request.
  `AnswersInv` connects `answered`, which the operations have, with `offered`, which
  the task has.
* `OkWhileIdentifiersLast`: the same for a bound on operations and connections.
* `SlotIsSendQueue`: operations and handlers together keep to the pipe's slot.
* `NothingLostBetween`: `RequestsInOnePlace`. Where the model has the request twice, once
  among the operations and once among the packets, nothing in the code keeps the two
  together but the order of the handlers. `RequestsInv` has ten parts; the core is
  `WireIsUnderWay` (a request on the wire is in slot, write loop or with the
  broker, or its answer is unread), `PushedOnce` and `AnsweredOnce`, `NotYetPushed` (what
  is not sent is nowhere) and `WireInOrder`, `AwaitsFit` (what the receive loop
  has sent of its subscriptions is a beginning of them, and what it still awaits is
  the rest).
* `NeverStandsStill`: `NoStandstill`, the safety half of `TaskGoesOn`, for any callers,
  capacities, subscribers and messages. As long as an operation is under way, a handler
  has something to await or the end of a connection has to be told, one of the
  device's own steps is possible (`OperationGoesOn`, `LoopsGoOn`, `ApplicationGoesOn` are
  the guards of the actions that `Fairness` names); neither the broker nor a new
  operation is needed. The argument goes from one who waits to the one he waits for: a
  full slot is for the write loop; a push into a free slot can be done, because nobody
  pushes twice (`Past`); a handler in front of a full `DATA_CHANNEL` has the
  application, or the application is in an operation; an operation in front of exhausted
  subscribers has those who own them (`NoSubscriberLost`), and they send or
  wait; who waits has a timer. If the owner is the receive loop itself, its next await is
  the push of that very SUBSCRIBE (`AwaitsFit`, from `NothingLostBetween`).

**HomeAssistantProofs**, for any number of starts, connections and any capacity.

* `ImplementsTask` takes over the task's invariants.
* `GreetingAnswered`: `AnswersGreeting`, whatever `AnnounceOn` has besides
  `HomeAssistantOnline`. An event goes from the socket to the handler, to `DATA_CHANNEL`
  and to the application (`EventMoves`, `WillPublishKeeps`), discovery from the slot to
  the write loop and to the broker (`QueueMoves`, `DiscoveryKeeps`); `GreetedInv` says that
  who was greeted is still connected.
* `AnnouncedOnConnected`: `NotForgotten`, without a greeting, for an application that
  publishes discovery on `Connected` as well. When Home Assistant comes online before
  the broker has handled the device's subscription its birth message is lost. What
  makes up for it is that Connected comes after the subscription
  (`SubscribedInv`, from `McutieTaskProofs`) and discovery after Connected:
  `UnseenAnnounced` says that as long as the broker has not seen the
  subscription, discovery is still to come behind it.
* `UnaskedUnknown`: for the application that the comments ask for there is no such
  theorem, since Home Assistant knows the entity only if a birth message was passed
  on. `Unasked` says that before that no event asks for discovery, no handler is about to
  send such an event, and no discovery is in the slot, in the write loop or written.

**MessageProofs**, for any device type and id, texts, payloads and values of any
length, and any size of the buffers.

* `MessageInv` says of a packet what the message that caused it makes it. Most of
  the work is in lemmas about the operators: `Restored`, `TopicComesBack`,
  `PrefixBehind` (what the prefixes take away `to_string` puts back, and when it does
  not), `PutInFront` (sizes, in letters of one or two bytes),
  `WriteAllResult`, `DisplayedWhole` (several writes are one write or none),
  `RoundTrip`, `ColorUnderstood` and `NumberUnderstood` (the light), `FieldsOfEntity` (which keys a
  discovery message has).
* `ArrivesUnderItsTopic`, `TopicStandsForText`, `OwnMessagesAreRead`,
  `OnlyExtremesRejected`, `WrittenWholeOrNot`, `LightUnderstandsItself`, `ColorFromCommand`,
  `DiscoveryIsWellFormed`, `AnnouncedIsUsed` are the nine invariants of the run `message`.

**PacketStreamProofs**, for any packets, any base and any size of the buffer.

* `StreamInv` (`HeldInv`, `DecodedInv`, `StatusInv`, `TornInv`): the buffer is the part of the
  stream that ends at `taken`, and `start_pos` is the end of the last packet decoded -
  or (`TornInv`) the last one was incomplete, and the loop is about to panic if it has not
  ended.
  `TypeCorrect` and `PacketsDecoded` (`DecodesPackets`) follow. What it takes is
  `SizeOfPacket`: of a beginning of a packet `packet_size` makes the packet's size,
  0 or `None`, and it is never wrong about which. That rests on `ValueOfDigits` (the
  accumulation in `packet_size` inverts the division in the encoder) and on
  `StreamBegins` (what is sent later changes nothing before it).
* `LoopSurvives` (`StreamSurvives`): `SurvivesInv` says that while no body was torn apart
  the bytes read do not end in one. `DecodeIncomplete` means that they do
  (`PacketFound`), so it cannot happen. Finding 1 is what happens otherwise.

**Induction.** `Digits`, `Value`, `Sent`, `Ends` and `Displayed` are recursive
functions. The induction principles of the library take an operator, which the provers cannot
instantiate. `UpTo` and `StrongUpTo` state induction of a *set* of numbers instead: a
set that has 0, and with every number below n its successor, has all up to n (or
the successor would map the numbers before the first gap into a proper subset
of theirs). `Iterated` says that what is computed step by step is a function,
so that the `CHOOSE` behind a recursive definition can be resolved.

Only model-checked:

* liveness: `PushResolves` and the fairness half of `ImplementsDroppingPipe`, `OperationEnds`,
  `ReceiveLoopResumes`, `HandlerCompletes`, `TriesAgain`, `TaskGoesOn`, `GreetingMakesKnown`,
  `AllDecoded`. They rest on fairness and `ENABLED`, which the prover does not handle. For
  `TaskGoesOn` the theorem `NeverStandsStill` gives what liveness needs of safety: somebody
  can always go on. That the steps that are possible lead somewhere is TLC's;
* the violations of section 4, which are counterexamples.

## 6. What is not modelled, and why

* `McutieBuilder` copies its arguments before anything concurrent exists; logging
  has no effect. What `build` leaves behind, the type and the id of the device, are
  constants of `Topic`. That publishing before `build` panics is documented
  (publish.rs:26).
* The methods of `DiscoverySerializer` other than `serialize_struct`: they are
  `unimplemented!()` or pass their argument on, and every component is a struct.
  The enumerations of class names, and `List`, which is a list.
* The text of JSON, and its parser: serde_json_core is external. What follows a
  payload that is not JSON is the error path of `from_payload`, as for a command
  without its state.
* embassy's shared queue with a position for each subscriber: `Confirmation` gives
  each subscriber a mailbox of the newest `QueueLength` messages, which is what the
  queue shows it with `publish_immediate`, the only way the code publishes.
* `ping_loop` is an `OtherPush` of `McutieTask`; that PINGRESP is never looked at
  means that a silent broker is not noticed, and nothing is claimed about it.
* QoS 2 receipt: PUBREL is answered by PUBREL, modelled as it is in `Handler`;
  no document promises more.
* The second `assign_pid`, for targets without 16-bit atomics, differs in where
  it starts.
* Starvation: by unfair polling for a subscriber or by a sender overtaken for
  the slot. Both are possible in the code.
* When Home Assistant subscribes to the topics it learns from discovery, and a
  second device on the broker.

## 7. What could follow

All modules of section 2 and all theorems of section 5 are done, and every safety
property of a passing run is a theorem. The following would say more:

1. `OkIfPidsFree` across a wrap. Away from the wrap an identifier comes again 65536
   operations later; at the wrap, where the counter values 65535 and 0 have
   the same one, with the next operation (finding 2). That the first kind does no harm rests on the two seconds
   for which an identifier is in use, so it needs a model with a clock;
2. `NeverStandsStill` for `HomeAssistant`, whose application publishes discovery from its
   receive loop, without a confirmation to wait for;
3. the step from `NoStandstill` to `TaskGoesOn`: a measure that each of the steps it
   names makes smaller. The measure can be written and checked; the conclusion needs
   induction over a well-founded order, which the installed provers cannot instantiate.
