----------------------------- MODULE McutieTask -----------------------------
(***************************************************************************)
(* McutieTask::run (src/src/io.rs): the connection's life cycle with its   *)
(* back-off, and during a connection the write loop, the ping loop and the *)
(* receive loop, which hands what the broker sends to the application over *)
(* DATA_CHANNEL.                                                           *)
(*                                                                         *)
(* SEND_QUEUE is the DroppingPipe with the write loop as its only reader.  *)
(* The acknowledgements that go to CONTROL_CHANNEL are in Confirmation:    *)
(* here they are read and change nothing.  Client puts the two together.   *)
(***************************************************************************)
EXTENDS Naturals, Sequences, Functions

CONSTANTS
  Topics,         \* the topics to subscribe to, in order: Home Assistant's
                  \* status topic and the configured ones
  Inbound,        \* the messages the broker publishes, each at most once
  Qos,            \* Qos[m]: the QoS of message m
  Target,         \* Target[m]: "application", "online" or "other" (on Home
                  \* Assistant's status topic), "oversized" (topic too long)
  DataCapacity,   \* messages DATA_CHANNEL holds (10 in the code)
  Others,         \* packets of the application and pings, each pushed once
  Reply,          \* Reply[a]: what the broker answers one of them, or the
                  \* subscription to a topic, with, or None
  MaxSessions,    \* TCP connections (bound)
  None            \* Rust's None

ASSUME ConstantsAssumption ==
  /\ Topics \in Seq(Range(Topics))
  /\ Qos \in [Inbound -> 0 .. 2]
  /\ Target \in [Inbound -> {"application", "online", "other", "oversized"}]
  /\ Reply \in [Others \cup Range(Topics) -> {"PUBACK", "PUBREC", "SUBACK", "UNSUBACK", "PINGRESP",
                                            None}]
  /\ {DataCapacity, MaxSessions} \subseteq Nat \ {0}

VARIABLES
  phase,       \* where run() is
  timeout,     \* the back-off before the next attempt
  waited,      \* history: the back-off before the present attempt
  ended,       \* history: how the previous attempt ended
  writer,      \* where write_loop is
  slot,        \* SEND_QUEUE's pending packet, or None
  outgoing,    \* the packet write_loop is writing, or None
  steps,       \* what recv_loop has still to await for the packet it handles
  broker,      \* what the broker thinks of this connection
  inbox,       \* the packets the broker has sent and recv_loop not read
  written,     \* history: the packets written to this connection
  data,        \* DATA_CHANNEL
  log,         \* history: all messages ever sent to DATA_CHANNEL
  offered,     \* the packets the broker has sent, with their connection
  others,      \* the packets of the application and pings there were
  sessions     \* how many TCP connections there have been

connection == <<writer, slot, outgoing, steps, broker, inbox, written>>
attempt == <<phase, timeout, waited, ended>>
channel == <<data, log>>
bounds == <<offered, others, sessions>>
vars == <<attempt, connection, channel, bounds>>

Packet(type, arg) == <<type, arg>>

Init ==
  /\ phase = "backoff" /\ timeout = "none"
  /\ waited = "none" /\ ended = "none"
  /\ writer = "none" /\ slot = None /\ outgoing = None /\ steps = << >>
  /\ broker = "none" /\ inbox = << >> /\ written = << >> /\ data = << >> /\ log = << >>
  /\ offered = {} /\ others = {} /\ sessions = 0

-----------------------------------------------------------------------------
(* run() *)

\* Mutant of BackOff: the default is not put back.
BackOffAgain ==
  /\ phase = "backoff"
  /\ waited' = timeout
  /\ phase' = "connecting"
  /\ UNCHANGED <<timeout, ended, connection, channel, bounds>>

\* Mutant of BackOff: after the short wait the loop starts over, its value kept.
BackOffStuck ==
  /\ phase = "backoff"
  /\ waited' = timeout
  /\ timeout' = IF timeout = "none" THEN "DEFAULT_BACKOFF" ELSE timeout
  /\ phase' = IF timeout = "RESET_BACKOFF" THEN "backoff" ELSE "connecting"
  /\ UNCHANGED <<ended, connection, channel, bounds>>

\* timeout.replace(DEFAULT_BACKOFF), and the wait if there was a value.
BackOff ==
  /\ phase = "backoff"
  /\ waited' = timeout
  /\ timeout' = "DEFAULT_BACKOFF"
  /\ phase' = "connecting"
  /\ UNCHANGED <<ended, connection, channel, bounds>>

\* No answer from DNS, no address or no TCP connection.
ConnectFails ==
  /\ phase = "connecting"
  /\ phase' = "backoff" /\ ended' = "no connection"
  /\ UNCHANGED <<timeout, waited, connection, channel, bounds>>

\* socket.connect succeeds: the four futures of select4 are made.
Connect ==
  /\ phase = "connecting" /\ sessions < MaxSessions
  /\ sessions' = sessions + 1
  /\ phase' = "session" /\ timeout' = "RESET_BACKOFF"
  /\ writer' = "connect"
  /\ UNCHANGED <<waited, ended, slot, outgoing, steps, broker, inbox, written, channel,
                 offered, others>>

\* The futures of select4 are dropped: what they were doing stops where it is,
\* write_loop's PipeReader empties the slot.
EndSession(how) ==
  /\ phase' = "report" /\ ended' = how
  /\ writer' = "none" /\ slot' = None /\ outgoing' = None /\ steps' = << >>
  /\ broker' = "none" /\ inbox' = << >> /\ written' = << >>
  /\ UNCHANGED <<timeout, waited, channel, bounds>>

\* What a connection that is lost was: one the receive loop knew to be accepted by
\* the broker, or an attempt that had not come so far.
Lost ==
  IF broker = "accepted" /\ \A i \in DOMAIN inbox : inbox[i][1] # "CONNACK"
  THEN "dropped" ELSE "not accepted"

\* Mutant of Dropped: the slot's packet stays for the next connection.
DroppedKeepingSlot ==
  /\ phase = "session"
  /\ phase' = "report" /\ ended' = Lost
  /\ writer' = "none" /\ outgoing' = None /\ steps' = << >>
  /\ broker' = "none" /\ inbox' = << >> /\ written' = << >>
  /\ UNCHANGED <<slot, timeout, waited, channel, bounds>>

\* The socket is closed or fails, a packet is malformed, the link or the
\* configuration goes down - at any moment of the session.
Dropped == phase = "session" /\ EndSession(Lost)

\* DATA_CHANNEL.send(message) can complete.
SendData(message) ==
  /\ Len(data) < DataCapacity
  /\ data' = Append(data, message)
  /\ log' = Append(log, message)

\* Mutant of Report: the application is not told.
ReportNothing ==
  /\ phase = "report"
  /\ phase' = "backoff"
  /\ UNCHANGED <<timeout, waited, ended, connection, channel, bounds>>

\* Disconnected is sent, and the loop starts over.
Report ==
  /\ phase = "report"
  /\ SendData(<<"Disconnected", None>>)
  /\ phase' = "backoff"
  /\ UNCHANGED <<timeout, waited, ended, connection, bounds>>

-----------------------------------------------------------------------------
(* Writing *)

\* write_loop writes CONNECT, and only then becomes the queue's reader.
WriteConnect ==
  /\ writer = "connect"
  /\ writer' = "receive"
  /\ written' = <<Packet("CONNECT", None)>>
  /\ UNCHANGED <<attempt, slot, outgoing, steps, broker, inbox, channel, bounds>>

Connected == writer # "none" /\ writer # "connect"

\* reader.receive() returns the next packet.
WriterReceive ==
  /\ writer = "receive" /\ slot # None
  /\ writer' = "write" /\ outgoing' = slot /\ slot' = None
  /\ UNCHANGED <<attempt, steps, broker, inbox, written, channel, bounds>>

\* Mutant of WriterDone: the write loop waits until the receive loop is idle.
WriterDoneIfIdle ==
  /\ writer = "write" /\ steps = << >>
  /\ written' = Append(written, outgoing)
  /\ writer' = "receive" /\ outgoing' = None
  /\ UNCHANGED <<attempt, slot, steps, broker, inbox, channel, bounds>>

\* write_all is done.  (If it fails the session is over: Dropped.)
WriterDone ==
  /\ writer = "write"
  /\ written' = Append(written, outgoing)
  /\ writer' = "receive" /\ outgoing' = None
  /\ UNCHANGED <<attempt, slot, steps, broker, inbox, channel, bounds>>

\* The push of a packet is over.
Pushed(packet) ==
  IF Connected THEN slot = None /\ slot' = packet ELSE UNCHANGED slot

\* A packet of the application, or a ping.
OtherPush(a) ==
  /\ a \notin others
  /\ others' = others \cup {a}
  /\ Pushed(Packet("OTHER", a))
  /\ UNCHANGED <<attempt, writer, outgoing, steps, broker, inbox, written, channel,
                 offered, sessions>>

-----------------------------------------------------------------------------
(* Receiving *)

Push(type, arg) == <<"push", Packet(type, arg)>>

Tell(type, arg) == <<"data", <<type, arg>>>>

\* Mutant of Subscribing: Connected is reported first.
ConnectedFirst(topics) ==
  <<Tell("Connected", None)>>
    \o [i \in DOMAIN topics |-> Push("SUBSCRIBE", topics[i])]

\* After an accepting CONNACK: one subscription after the other, in a fixed
\* order, then Connected.
Subscribing(topics) ==
  [i \in DOMAIN topics |-> Push("SUBSCRIBE", topics[i])]
    \o <<Tell("Connected", None)>>

\* Mutant of Delivery: Home Assistant's goodbye is taken for its greeting.
DeliveryOfGoodbye(m) ==
  CASE Target[m] = "application" -> <<Tell("Publish", m)>>
    [] Target[m] = "other"       -> <<Tell("HomeAssistantOnline", m)>>
    [] OTHER                     -> << >>

\* Home Assistant's status topic is handled here, of what it says only "online"
\* is passed on; a topic that does not fit is logged and dropped.
Delivery(m) ==
  CASE Target[m] = "application" -> <<Tell("Publish", m)>>
    [] Target[m] = "online"      -> <<Tell("HomeAssistantOnline", m)>>
    [] OTHER                     -> << >>

Acknowledgement(m) ==
  CASE Qos[m] = 0 -> << >>
    [] Qos[m] = 1 -> <<Push("PUBACK", m)>>
    [] Qos[m] = 2 -> <<Push("PUBREC", m)>>

\* Mutant of Publishing: the broker is answered before the application has it.
AcknowledgeFirst(m) == Acknowledgement(m) \o Delivery(m)

Publishing(m) == Delivery(m) \o Acknowledgement(m)

\* Everything recv_loop awaits for one packet, in the order it does.
Handler(packet) ==
  CASE packet[1] = "CONNACK" -> Subscribing(Topics)
    [] packet[1] = "PUBLISH" -> Publishing(packet[2])
    [] packet[1] = "PUBREC"  -> <<Push("PUBREL", packet[2])>>
    [] packet[1] = "PUBREL"  -> <<Push("PUBREL", packet[2])>>
    [] OTHER                 -> << >>

\* The next packet is read and its handler runs to its first await.
Read ==
  /\ steps = << >> /\ inbox # << >> /\ Head(inbox)[1] # "REFUSED"
  /\ inbox' = Tail(inbox)
  /\ steps' = Handler(Head(inbox))
  /\ UNCHANGED <<attempt, writer, slot, outgoing, broker, written, channel, bounds>>

\* A CONNACK that does not accept ends recv_loop with an error.
ReadRefusal ==
  /\ steps = << >> /\ inbox # << >> /\ Head(inbox)[1] = "REFUSED"
  /\ EndSession("refused")

\* DATA_CHANNEL takes the message the handler sends.
HandlerSends ==
  /\ steps # << >> /\ Head(steps)[1] = "data"
  /\ SendData(Head(steps)[2])
  /\ steps' = Tail(steps)
  /\ UNCHANGED <<attempt, writer, slot, outgoing, broker, inbox, written, bounds>>

\* The push of the packet the handler sends is over.
HandlerPushes ==
  /\ steps # << >> /\ Head(steps)[1] = "push"
  /\ Pushed(Head(steps)[2])
  /\ steps' = Tail(steps)
  /\ UNCHANGED <<attempt, writer, outgoing, broker, inbox, written, channel, bounds>>

-----------------------------------------------------------------------------
(* The broker and the application *)

Wrote(type, arg) == \E i \in DOMAIN written : written[i] = Packet(type, arg)

\* The broker's answer to CONNECT.
BrokerAnswersConnect(accepts) ==
  /\ broker = "none" /\ Wrote("CONNECT", None)
  /\ broker' = IF accepts THEN "accepted" ELSE "refused"
  /\ inbox' = Append(inbox, Packet(IF accepts THEN "CONNACK" ELSE "REFUSED", None))
  /\ UNCHANGED <<attempt, writer, slot, outgoing, steps, written, channel, bounds>>

\* The packets the broker may send on an accepted connection: messages, the
\* second half of QoS 2 for a message, and its answers to what it was asked.
BrokerPackets ==
  {Packet("PUBLISH", m) : m \in Inbound}
  \cup {Packet("PUBREL", m) : m \in {n \in Inbound : Wrote("PUBREC", n)}}
  \cup {Packet(Reply[a], a) :
           a \in {b \in DOMAIN Reply :
                   Reply[b] # None /\ (Wrote("OTHER", b) \/ Wrote("SUBSCRIBE", b))}}

\* Answers are given once per connection, a message is published once: the
\* broker keeps nothing of a clean session.
BrokerSends(packet) ==
  /\ broker = "accepted"
  /\ \A o \in offered : o[1] = packet => o[2] # sessions /\ packet[1] # "PUBLISH"
  /\ inbox' = Append(inbox, packet)
  /\ offered' = offered \cup {<<packet, sessions>>}
  /\ UNCHANGED <<attempt, writer, slot, outgoing, steps, broker, written, channel,
                 others, sessions>>

\* McutieReceiver::receive
AppReceive ==
  /\ data # << >>
  /\ data' = Tail(data)
  /\ UNCHANGED <<attempt, connection, log, bounds>>

-----------------------------------------------------------------------------
Next ==
  \/ BackOff \/ ConnectFails \/ Connect \/ Dropped \/ Report
  \/ WriteConnect \/ WriterReceive \/ WriterDone
  \/ \E a \in Others : OtherPush(a)
  \/ Read \/ ReadRefusal \/ HandlerSends \/ HandlerPushes
  \/ \E accepts \in BOOLEAN : BrokerAnswersConnect(accepts)
  \/ \E packet \in BrokerPackets : BrokerSends(packet)
  \/ AppReceive

Spec == Init /\ [][Next]_vars

\* The task is polled, the socket takes what is written and the application
\* keeps receiving.  The broker and the network owe nothing.
Fairness ==
  /\ WF_vars(BackOff) /\ WF_vars(Report)
  /\ WF_vars(WriterReceive) /\ WF_vars(WriterDone)
  /\ WF_vars(HandlerSends) /\ WF_vars(HandlerPushes)
  /\ WF_vars(AppReceive)

LiveSpec == Spec /\ Fairness

-----------------------------------------------------------------------------
(* Properties *)

\* What is written to the broker, what it sends, what the application is told,
\* and what a handler awaits.
ToBroker ==
  {Packet("CONNECT", None)}
  \cup {Packet("OTHER", a) : a \in Others}
  \cup {Packet("SUBSCRIBE", topic) : topic \in Range(Topics)}
  \cup {Packet(type, m) : type \in {"PUBACK", "PUBREC"}, m \in Inbound}
  \cup {Packet("PUBREL", a) : a \in Inbound \cup DOMAIN Reply}

ASSUME NoneIsNoPacket == None \notin ToBroker

FromBroker ==
  {Packet(type, None) : type \in {"CONNACK", "REFUSED"}}
  \cup {Packet(type, m) : type \in {"PUBLISH", "PUBREL"}, m \in Inbound}
  \cup {Packet(type, a) : type \in {"PUBACK", "PUBREC", "SUBACK", "UNSUBACK", "PINGRESP"},
                          a \in DOMAIN Reply}

Events ==
  {<<type, None>> : type \in {"Connected", "Disconnected"}}
  \cup {<<type, m>> : type \in {"Publish", "HomeAssistantOnline"}, m \in Inbound}

Awaits ==
  {<<"push", packet>> : packet \in {p \in ToBroker : p[1] # "CONNECT"}}
  \cup {<<"data", event>> : event \in Events}

AttemptTyped ==
  /\ phase \in {"backoff", "connecting", "session", "report"}
  /\ timeout \in {"none", "DEFAULT_BACKOFF", "RESET_BACKOFF"}
  /\ waited \in {"none", "DEFAULT_BACKOFF", "RESET_BACKOFF"}
  /\ ended \in {"none", "no connection", "dropped", "not accepted", "refused"}

ConnectionTyped ==
  /\ writer \in {"none", "connect", "receive", "write"}
  /\ broker \in {"none", "accepted", "refused"}
  /\ slot \in ToBroker \cup {None} /\ outgoing \in ToBroker \cup {None}
  /\ steps \in Seq(Awaits) /\ inbox \in Seq(FromBroker) /\ written \in Seq(ToBroker)

ChannelTyped ==
  /\ data \in Seq(Events) /\ log \in Seq(Events)
  /\ Len(data) <= DataCapacity /\ Len(data) <= Len(log)

BoundsTyped ==
  /\ offered \subseteq FromBroker \X (1 .. MaxSessions)
  /\ others \subseteq Others /\ sessions \in 0 .. MaxSessions

\* What belongs to a connection exists only while there is one.
OnlyInSession ==
  /\ phase = "session" => sessions > 0
  /\ phase # "session" => writer = "none" /\ broker = "none"
  /\ broker # "none" => Connected
  /\ broker = "none" => steps = << >> /\ inbox = << >>
  /\ Connected = (written # << >>)
  /\ ~Connected => slot = None
  /\ (writer = "write") = (outgoing # None)

TypeOK == AttemptTyped /\ ConnectionTyped /\ ChannelTyped /\ BoundsTyped /\ OnlyInSession

\* What the application is told makes sense to it: Connected comes once per
\* connection, messages come only between a Connected and the next
\* Disconnected.
EventsInOrder ==
  \A i \in DOMAIN log :
    LET sinceDisconnected(j) == \A k \in j .. i : log[k][1] # "Disconnected"
        connects == {j \in 1 .. i : log[j][1] = "Connected" /\ sinceDisconnected(j)}
    IN  /\ log[i][1] \in {"Publish", "HomeAssistantOnline"} => connects # {}
        /\ log[i][1] = "Connected" => connects = {i}

\* The broker gets an acknowledgement for a message only after it is in the
\* application's channel, so that a connection lost in between never loses a
\* message the broker believes delivered.
AcknowledgedMeansDelivered ==
  \A m \in Inbound :
    (Wrote("PUBACK", m) \/ Wrote("PUBREC", m)) /\ Target[m] \in {"application", "online"}
      => \E i \in DOMAIN log : log[i][2] = m

\* Each connection starts with one CONNECT, and no answer to a packet of an
\* earlier connection is ever written to it.
NothingStaleWritten ==
  \A i \in DOMAIN written :
    /\ (written[i][1] = "CONNECT") = (i = 1)
    /\ written[i][1] \in {"PUBACK", "PUBREC"}
         => <<Packet("PUBLISH", written[i][2]), sessions>> \in offered

\* When the application learns that it is connected, the subscriptions are on
\* their way, ahead of whatever it sends in response.
SubscribedBeforeConnected ==
  [][ log' # log /\ log'[Len(log')][1] = "Connected"
        => \A i \in DOMAIN Topics :
             \/ Wrote("SUBSCRIBE", Topics[i])
             \/ Packet("SUBSCRIBE", Topics[i]) \in {slot, outgoing} ]_vars

\* The slot as the task's loops use it, with the write loop as the only reader.
Queue == INSTANCE SendQueue WITH Packets <- ToBroker, connected <- Connected

\* The loops do with the slot what the pipe does: they push into it only while it
\* is empty and the write loop reads, also a handler and another sender at once, and
\* a connection that ends takes what is in it along.
UsesSendQueue == Queue!Spec

\* The next attempt waits long after a failure to reach the broker and briefly
\* after a connection the broker had accepted was lost, and only the first does not
\* wait.  What follows a connection it had not accepted is RefusalBacksOff.
BackOffFits ==
  phase = "connecting" =>
    /\ (waited = "none") = (ended = "none")
    /\ ended = "no connection" => waited = "DEFAULT_BACKOFF"
    /\ ended = "dropped" => waited = "RESET_BACKOFF"

\* "in the event of an error connecting to the broker we will wait for 5s": a
\* broker that refuses the connection is not asked again at once.
RefusalBacksOff ==
  phase = "connecting" /\ ended = "refused" => waited = "DEFAULT_BACKOFF"

\* The receive loop never hangs in a handler: it comes back to reading, or the
\* connection ends.
HandlerCompletes == steps # << >> ~> steps = << >>

\* After every connection a new one is tried, once the application has been
\* told.
TriesAgain == phase = "report" ~> phase = "connecting"
=============================================================================
