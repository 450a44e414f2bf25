------------------------------ MODULE Message -------------------------------
(***************************************************************************)
(* What becomes of a message between the value that is published and the   *)
(* value that is received: Publishable and its three kinds                 *)
(* (src/src/publish.rs), the buffers and the topic it is written to, the   *)
(* packet that carries it (send_packet and the CONNECT of write_loop in    *)
(* src/src/io.rs), and the way back (recv_loop, LightState::from_payload). *)
(* A discovery message (Entity::publish_discovery) goes the way of JSON.   *)
(*                                                                         *)
(* A text is the sequence of its bytes, the i-th byte of the text of v     *)
(* being <<v, i>>: what it says and how long it is is all that matters.    *)
(***************************************************************************)
EXTENDS Discovery, Buffer, FiniteSets

CONSTANTS
  Messages,       \* what the application publishes, or has as its last will
  DiscoveryPrefix,\* "homeassistant/<platform>/" with "/config", which are
                  \* around an object_id in the topic of its discovery
  Base,           \* 128, from where on a length takes two bytes
  ConnectLength,  \* the bytes of a CONNECT without a last will
  MaxReceived     \* the longest topic of a message of others (bound)

ASSUME MessageAssumption ==
  /\ \A m \in Messages :
       /\ m.topic \in AnyTopic
       /\ m.kind \in {"bytes", "display", "json", "discovery"}
       /\ m.parts \in Seq(Nat) /\ m.state \in LightStates \cup {None} /\ m.qos \in 0 .. 2
       /\ m.kind = "json" => m.state # None
       /\ m.kind = "discovery" =>
            LET e == m.entity
                c == e.component
            IN  /\ e.state_topic \in AnyTopic /\ e.availability.topics \in Seq(AnyTopic)
                /\ c.platform \in Platforms
                /\ c.platform = "light" => c.command_topic \in AnyTopic \cup {None}
  /\ {Base, ConnectLength, MaxReceived} \subseteq Nat

\* 256 and 2048: a packet has room for any topic.
ASSUME PacketHoldsTopic == TopicLength + 5 <= N

VARIABLES
  message,   \* what the application publishes or registers as its last will,
             \* or None for messages of others
  outcome,   \* how the operation ended
  packet,    \* the packet on the wire, or None
  received,  \* what recv_loop made of it
  light      \* what LightState::from_payload made of the payload

vars == <<message, outcome, packet, received, light>>

Text(value, size) == [i \in 1 .. size |-> <<value, i>>]

-----------------------------------------------------------------------------
(* Publishable *)

\* Where the first i parts of a text end.
Ends(parts) ==
  LET end[i \in 0 .. Len(parts)] == IF i = 0 THEN 0 ELSE end[i - 1] + parts[i]
  IN  end

Total(parts) == Ends(parts)[Len(parts)]

\* What the message says: bytes, what its Display writes part by part, or the
\* JSON of a light's state or of an entity - of one byte for each field.
Content(m) ==
  IF m.kind \in {"bytes", "display"} THEN Text(None, Total(m.parts))
  ELSE IF m.kind = "discovery"
  THEN Text(DiscoveryFields(m.entity), Len(DiscoveryFields(m.entity)))
  ELSE LET json == Serialize(m.state)
           present == {f \in DOMAIN json : json[f] # None}
           colors == IF json.color = None THEN {}
                     ELSE {f \in Fields : json.color[f] # None}
       IN  Text(json, Cardinality(present) + Cardinality(colors))

\* The i-th part of what is displayed.
Part(m, i) == SubSeq(Content(m), Ends(m.parts)[i - 1] + 1, Ends(m.parts)[i])

\* Mutant of Displayed: a part that does not fit is passed over.
DisplayedSkipping(m) ==
  LET w[i \in 0 .. Len(m.parts)] ==
        IF i = 0 THEN Written("Ok", New, 0)
        ELSE IF Len(Part(m, i)) > available(w[i - 1].buffer) THEN w[i - 1]
        ELSE write_all(w[i - 1].buffer, Part(m, i))
  IN  w

\* The parts of a Display are written one by one, up to the first error.
Displayed(m) ==
  LET w[i \in 0 .. Len(m.parts)] ==
        IF i = 0 THEN Written("Ok", New, 0)
        ELSE IF w[i - 1].outcome # "Ok" THEN w[i - 1]
        ELSE write_all(w[i - 1].buffer, Part(m, i))
  IN  w

WriteDisplay(m) == Displayed(m)[Len(m.parts)]

\* PublishBytes, PublishDisplay and PublishJson::write_payload
write_payload(m) ==
  LET w == CASE m.kind = "bytes"   -> write_all(New, Content(m))
             [] m.kind = "display" -> WriteDisplay(m)
             [] m.kind = "json"    -> append_encoded(New, Content(m))
             [] m.kind = "discovery" ->
                  IF Serializes(m.entity) THEN append_encoded(New, Content(m))
                  ELSE Written("Error", New, 0)
  IN  [w EXCEPT !.outcome = IF @ \in {"Full", "Error"} THEN "TooLarge" ELSE @]

\* The text of a length, as mqttrs encodes it.
LengthBytes(n) == IF n < Base THEN 1 ELSE 2

PublishSize(topic, payload, qos) ==
  LET remaining == 2 + Size(topic) + (IF qos = 0 THEN 0 ELSE 2) + Len(payload)
  IN  1 + LengthBytes(remaining) + remaining

\* send_packet: the packet is encoded into a Payload of its own.
send_packet(topic, payload, qos) ==
  LET publish == [type |-> "PUBLISH", topic |-> topic, payload |-> payload, qos |-> qos]
  IN  IF append_encoded(New, Text(publish, PublishSize(topic, payload, qos))).outcome = "Ok"
      THEN [outcome |-> "Ok", packet |-> publish]
      ELSE [outcome |-> "PacketError", packet |-> None]

Failed(why) == [outcome |-> why, packet |-> None]

\* Publishable::publish.  PublishBytes hands its data on as they are.
publish(m) ==
  LET topic == to_string(m.topic)
      w == write_payload(m)
  IN  IF topic = TooLarge THEN Failed("TooLarge")
      ELSE IF m.kind = "bytes" THEN send_packet(topic, Content(m), m.qos)
      ELSE IF w.outcome # "Ok" THEN Failed(w.outcome)
      ELSE send_packet(topic, w.buffer, m.qos)

\* Entity::publish_discovery and publish_state
DiscoveryMessage(e) ==
  [topic |-> Made("General", DiscoveryPrefix \o e.object_id), kind |-> "discovery",
   parts |-> << >>, state |-> None, entity |-> e, qos |-> 0]

StateMessage(e, parts, state) ==
  [topic |-> e.state_topic, kind |-> StateKind(e.component), parts |-> parts,
   state |-> state, entity |-> None, qos |-> 0]

\* The CONNECT of write_loop.  A last will that cannot be written is left out;
\* a CONNECT that cannot be encoded ends write_loop, and the connection with it.
connect(m) ==
  LET topic == to_string(m.topic)
      w == write_payload(m)
      fits == topic # TooLarge /\ w.outcome = "Ok"
      will == IF fits THEN [topic |-> topic, payload |-> w.buffer] ELSE None
      size == ConnectLength + (IF fits THEN 4 + Size(topic) + Len(w.buffer) ELSE 0)
      sent == [type |-> "CONNECT", will |-> will]
  IN  IF topic # TooLarge /\ w.outcome = "Panic" THEN Failed("Panic")
      ELSE IF append_encoded(New, Text(sent, size)).outcome # "Ok" THEN Failed("NotConnected")
      ELSE [outcome |-> "Ok", packet |-> sent]

-----------------------------------------------------------------------------
(* Receiving *)

\* What a text may say, and its bytes.
Sayings ==
  {None} \cup Commands \cup {Serialize(l) : l \in LightStates}
    \cup {DiscoveryFields(m.entity) : m \in {n \in Messages : n.kind = "discovery"}}

Bytes == Sayings \X Nat

ASSUME ErrorsAreNoMessages ==
  /\ None \notin {TooLarge, Panic}
  /\ {None, TooLarge, Panic} \cap [topic : AnyTopic, payload : Seq(Bytes)] = {}
  /\ None \notin [topic : Seq(Characters), payload : Seq(Bytes)]

\* The PUBLISH arm of recv_loop: topic and payload are both converted, then a
\* message of which either is too large is dropped.
Receive(p) ==
  LET topic == from_str(p.topic)
      payload == from(p.payload)
  IN  IF topic = Panic \/ payload.outcome = "Panic" THEN Panic
      ELSE IF topic = TooLarge \/ payload.outcome = "TooLarge" THEN TooLarge
      ELSE [topic |-> topic, payload |-> payload.buffer]

-----------------------------------------------------------------------------
Init ==
  /\ message \in Messages \cup {None}
  /\ outcome = "none" /\ packet = None /\ received = None /\ light = None

Publish ==
  /\ message # None /\ outcome = "none"
  /\ outcome' = publish(message).outcome
  /\ packet' = publish(message).packet
  /\ UNCHANGED <<message, received, light>>

\* write_loop starts on a connection, the message being the last will.
Connect ==
  /\ message # None /\ message.kind # "discovery" /\ outcome = "none"
  /\ outcome' = connect(message).outcome
  /\ packet' = connect(message).packet
  /\ UNCHANGED <<message, received, light>>

\* A message that somebody else publishes, with a topic or a payload that may
\* be too large, or with a command of Home Assistant.
OthersPublish ==
  /\ message = None /\ packet = None
  /\ \E p \in {<<topic, << >>>> : topic \in Texts(MaxReceived)}
                \cup {<<<<"/">>, Text(None, n)>> : n \in N .. N + 1}
                \cup {<<<<"/">>, Text(command, 1)>> : command \in Commands} :
       packet' = [type |-> "PUBLISH", topic |-> p[1], payload |-> p[2], qos |-> 0]
  /\ UNCHANGED <<message, outcome, received, light>>

\* The application is subscribed to the topic, also to its own.
Deliver ==
  /\ packet # None /\ packet.type = "PUBLISH" /\ received = None
  /\ received' = Receive(packet)
  /\ UNCHANGED <<message, outcome, packet, light>>

\* What the payload received says.
Said == received.payload[1][1]

\* The payload is JSON, and the application takes it for a light's state.
Parse ==
  /\ received \notin {None, TooLarge, Panic} /\ light = None
  /\ received.payload # << >> /\ Said # None
  /\ message # None => message.kind = "json"
  /\ light' = from_payload(Said)
  /\ UNCHANGED <<message, outcome, packet, received>>

Next == Publish \/ Connect \/ OthersPublish \/ Deliver \/ Parse

Spec == Init /\ [][Next]_vars

-----------------------------------------------------------------------------
(* Properties *)

\* Names that from_str takes for a prefix: read as another topic, or not at all.
Shadowed(t) ==
  LET reads(prefix) ==
        /\ IsPrefix(prefix, t.name)
        /\ t.name = prefix \/ t.name[Len(prefix) + 1] \in Wide \cup {"/"}
  IN  \/ t.variant = "General" /\ reads(DeviceType)
      \/ t.variant = "DeviceType" /\ reads(DeviceId)

Arrived == received \notin {None, TooLarge, Panic}

\* A message to a topic the application subscribed to arrives under the very
\* topic it would match against, unless the name it chose repeats a prefix: such
\* a topic is never matched.
ArrivesAsSubscribed ==
  message # None /\ received # None =>
    (Arrived /\ received.topic = message.topic) = ~Shadowed(message.topic)

\* Whatever the broker publishes to, the topic handed to the application stands
\* for it - or would not fit when printed in full.
StandsForText ==
  Arrived => to_string(received.topic) \in {packet.topic, TooLarge}

\* A message is given up only for a topic or a payload that is too large, or a
\* topic that is a prefix with nothing or with a wide character behind it.
RejectsOnlyExtremes ==
  /\ received = TooLarge => Size(packet.topic) > TopicLength
  /\ received = Panic =>
       \/ Len(packet.payload) > N
       \/ \E prefix \in {DeviceType, DeviceType \o <<"/">> \o DeviceId} :
            /\ IsPrefix(prefix, packet.topic)
            /\ packet.topic = prefix \/ packet.topic[Len(prefix) + 1] \in Wide

\* The broker gets the whole of a message or nothing of it, whatever pieces it
\* was written in; and a last will is left out only if it is too large.
WholeOrNothing ==
  message # None /\ packet # None =>
    CASE packet.type = "PUBLISH" -> packet.payload = Content(message)
      [] packet.type = "CONNECT" ->
           IF packet.will # None THEN packet.will.payload = Content(message)
           ELSE to_string(message.topic) = TooLarge \/ Len(Content(message)) > N

\* What publish() accepts, a client like this one can receive.
OwnMessagesReadable ==
  message # None /\ received # None /\ ~Shadowed(message.topic) =>
    Arrived /\ received.payload = packet.payload

\* Home Assistant echoes the state it was sent: a light understands its own
\* state as the state it was in, whatever its color mode.
UnderstandsItself == message # None /\ light # None => light = message.state

\* The light gets the color that the command gives, value by value, and 0 only for
\* what is missing in the mode chosen.  Nothing is lost that one mode can carry, and
\* of a command that mixes modes it is one of those it names that is taken - but a y
\* without its x and an s without its h are passed over.  Without a color it is the
\* color temperature, and without that the brightness.
ColorComesFromCommand ==
  light \notin {None, PacketError} =>
    LET color == light.color
        given == {f \in Fields : Said.color[f] # None}
        numbers == {f \in {"color_temp", "brightness"} : Said[f] # None}
    IN  IF Said.color # None
        THEN /\ color.mode \in ColorModes /\ DOMAIN color.value = FieldsOf[color.mode]
             /\ \A f \in DOMAIN color.value :
                  color.value[f] = IF f \in given THEN Said.color[f] ELSE 0
             /\ given \subseteq {"y", "s"} \/ given \cap FieldsOf[color.mode] # {}
             /\ \A mode \in ColorModes :
                  /\ given \subseteq FieldsOf[mode]
                  /\ ("y" \in given => "x" \in given) /\ ("s" \in given => "h" \in given)
                  => given \subseteq FieldsOf[color.mode]
        ELSE /\ color.mode \in numbers \cup {"none"}
             /\ color.value = [f \in FieldsOf[color.mode] |-> Said[f]]
             /\ color.mode = "none" => numbers = {}
             /\ color.mode = "brightness" => numbers = {"brightness"}

\* What Home Assistant is told in a discovery message is what the device does:
\* its state goes to the topic announced, a command sent to the topic announced
\* is recognised, and availability is looked for where it is published.
AnnouncedTopicsAreUsed ==
  message # None /\ message.kind = "discovery" /\ packet # None =>
    LET e == message.entity
        fields == packet.payload[1][1]
        told(key) == {fields[i][2] : i \in {j \in DOMAIN fields : fields[j][1] = key}}
        goesTo(t) == send_packet(to_string(t), << >>, 0).packet.topic
        state == publish(StateMessage(e, <<1>>, CHOOSE l \in LightStates : TRUE))
    IN  /\ state.outcome = "Ok" => told("stat_t") = {state.packet.topic}
        /\ \A text \in told("cmd_t") \ {None} :
             ~Shadowed(e.component.command_topic)
               => from_str(text) = e.component.command_topic
        /\ \A topics \in told("avty"), i \in DOMAIN e.availability.topics :
             topics[i] = <<<<"topic", goesTo(e.availability.topics[i])>>>>

\* A discovery message names no key twice, says how topics combine if and only
\* if it gives some, and is never longer than the serializer was told.
DiscoveryWellFormed ==
  message # None /\ message.kind = "discovery" /\ packet # None =>
    LET fields == packet.payload[1][1]
        keys == {fields[i][1] : i \in DOMAIN fields}
    IN  /\ Cardinality(keys) = Len(fields)
        /\ ("avty" \in keys) = ("avty_mode" \in keys)
        /\ Len(fields) <= DeclaredLength(message.entity)

\* "TooLarge: An attempt was made to encode something too large", and "unable to
\* process publish data as it was too large": neither brings the program down.
TooLargeIsAnError ==
  /\ outcome # "Panic"
  /\ received = Panic => Len(packet.payload) <= N

\* "The state of the sensor. Can be easily converted to or from a bool": there
\* and back is the same.
BoolRoundTrip ==
  message # None /\ message.kind = "json" =>
    FromBool(ToBool(message.state.state)) = message.state.state
=============================================================================
