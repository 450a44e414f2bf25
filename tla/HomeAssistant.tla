--------------------------- MODULE HomeAssistant ---------------------------
(***************************************************************************)
(* A device of Home Assistant (src/src/homeassistant/mod.rs) over the      *)
(* connection of McutieTask.  MqttMessage (src/src/lib.rs) asks the        *)
(* application for discovery messages when Home Assistant comes online,    *)
(* and on Connected for subscriptions and state only; AnnounceOn says what *)
(* this application sends discovery on, {"HomeAssistantOnline"} if it does *)
(* just what is asked.  Its other packets, which matter to nobody here,    *)
(* are left out.                                                           *)
(*                                                                         *)
(* Discovery is published with QoS 0 and not retained: Home Assistant has  *)
(* it only if it listens when the broker gets it, and forgets it when it   *)
(* goes down.  Home Assistant's "online" is not retained either: the       *)
(* broker passes it on only to who is subscribed at that moment.           *)
(***************************************************************************)
EXTENDS Naturals, FiniteSets, Sequences

CONSTANTS
  AnnounceOn,     \* the events the application publishes discovery on
  MaxStarts,      \* how often Home Assistant starts (bound)
  MaxSessions, DataCapacity, None

VARIABLES
  phase, timeout, waited, ended, writer, slot, outgoing, steps, broker, inbox,
  written, data, log, offered, others, sessions,
  home,           \* Home Assistant: "offline", "starting" (listening to
                  \* discovery) or "online"
  starts,         \* how often it has started
  known,          \* it knows the entity
  greeted,        \* its "online" was passed on to the device on this connection
  seen,           \* how many packets of `written' the broker has handled
  reacting        \* the application has discovery to publish

task ==
  <<phase, timeout, waited, ended, writer, slot, outgoing, steps, broker, inbox,
    written, data, log, offered, others, sessions>>
home_assistant == <<home, starts, known, greeted>>
vars == <<task, home_assistant, seen, reacting>>

HA_STATUS_TOPIC == "homeassistant/status"

\* The discovery messages: at most one for each connection and for each start of
\* Home Assistant.
Discovery == 1 .. MaxSessions + MaxStarts

\* Home Assistant's "online" of each start.
Online == 1 .. MaxStarts

T == INSTANCE McutieTask WITH
       Topics <- <<HA_STATUS_TOPIC>>,
       Inbound <- Online,
       Qos <- [m \in Online |-> 0],
       Target <- [m \in Online |-> "online"],
       Others <- Discovery,
       Reply <- [a \in Discovery \cup {HA_STATUS_TOPIC} |-> None]

ASSUME ConstantsAssumption ==
  /\ {DataCapacity, MaxSessions} \subseteq Nat \ {0} /\ MaxStarts \in Nat
  /\ "HomeAssistantOnline" \in AnnounceOn
  /\ AnnounceOn \subseteq {"Connected", "HomeAssistantOnline"}

ASSUME NoneIsNoPacket ==
  \A type \in {"CONNECT", "OTHER", "SUBSCRIBE", "PUBACK", "PUBREC", "PUBREL"} :
    /\ \A n \in Discovery \cup Online : None # T!Packet(type, n)
    /\ None # T!Packet(type, HA_STATUS_TOPIC) /\ None # T!Packet(type, None)

Init ==
  /\ T!Init
  /\ home = "offline" /\ starts = 0 /\ known = FALSE /\ greeted = FALSE
  /\ seen = 0 /\ reacting = FALSE

-----------------------------------------------------------------------------
(* The device *)

\* Steps of the task that nobody else notices.
TaskAlone ==
  /\ \/ T!BackOff \/ T!ConnectFails \/ T!Connect \/ T!Report \/ T!WriteConnect
  /\ UNCHANGED <<home_assistant, seen, reacting>>

\* The loops of a connection.
Loops ==
  /\ \/ T!WriterReceive \/ T!WriterDone
     \/ T!Read \/ T!HandlerSends \/ T!HandlerPushes
  /\ UNCHANGED <<home_assistant, seen, reacting>>

\* The next connection is a new one to the broker.
SessionEnds ==
  /\ T!Dropped \/ T!ReadRefusal
  /\ seen' = 0 /\ greeted' = FALSE
  /\ UNCHANGED <<home, starts, known, reacting>>

Announces(message) == message[1] \in AnnounceOn

\* The application's loop receives a message.
AppReceive ==
  /\ ~reacting
  /\ T!AppReceive
  /\ reacting' = Announces(Head(data))
  /\ UNCHANGED <<home_assistant, seen>>

\* Entity::publish_discovery: QoS 0, over when the push is.
PublishDiscovery ==
  /\ reacting
  /\ \E d \in Discovery : d = Cardinality(others) + 1 /\ T!OtherPush(d)
  /\ reacting' = FALSE
  /\ UNCHANGED <<home_assistant, seen>>

-----------------------------------------------------------------------------
(* The broker and Home Assistant *)

BrokerAnswersConnect ==
  /\ \E accepts \in BOOLEAN : T!BrokerAnswersConnect(accepts)
  /\ UNCHANGED <<home_assistant, seen, reacting>>

\* The broker handles the next packet of an accepted connection and passes
\* discovery on to Home Assistant.
BrokerReads ==
  /\ broker = "accepted" /\ seen < Len(written)
  /\ seen' = seen + 1
  /\ known' = (known \/ (written[seen + 1][1] = "OTHER" /\ home # "offline"))
  /\ UNCHANGED <<task, home, starts, greeted, reacting>>

\* Home Assistant starts and subscribes to the discovery topics.
HomeStarts ==
  /\ home = "offline" /\ starts < MaxStarts
  /\ home' = "starting" /\ starts' = starts + 1
  /\ UNCHANGED <<task, known, greeted, seen, reacting>>

Subscribed ==
  \E i \in 1 .. seen : written[i] = T!Packet("SUBSCRIBE", HA_STATUS_TOPIC)

\* It publishes "online", and the broker passes that on to a subscriber.
HomeOnline ==
  /\ home = "starting"
  /\ home' = "online" /\ greeted' = Subscribed
  /\ IF Subscribed THEN T!BrokerSends(T!Packet("PUBLISH", starts)) ELSE UNCHANGED task
  /\ UNCHANGED <<starts, known, seen, reacting>>

HomeStops ==
  /\ home # "offline"
  /\ home' = "offline" /\ known' = FALSE /\ greeted' = FALSE
  /\ UNCHANGED <<task, starts, seen, reacting>>

-----------------------------------------------------------------------------
Next ==
  \/ TaskAlone \/ Loops \/ SessionEnds \/ AppReceive \/ PublishDiscovery
  \/ BrokerAnswersConnect \/ BrokerReads
  \/ HomeStarts \/ HomeOnline \/ HomeStops

Spec == Init /\ [][Next]_vars

\* The task and the application are polled, bytes are on their way in both
\* directions and the broker handles them.  That anybody connects, answers
\* CONNECT, starts or comes online is not asked for.
Fairness ==
  /\ WF_vars(T!WriterReceive /\ UNCHANGED <<home_assistant, seen, reacting>>)
  /\ WF_vars(T!WriterDone /\ UNCHANGED <<home_assistant, seen, reacting>>)
  /\ WF_vars(T!Read /\ UNCHANGED <<home_assistant, seen, reacting>>)
  /\ WF_vars(T!HandlerSends /\ UNCHANGED <<home_assistant, seen, reacting>>)
  /\ WF_vars(T!HandlerPushes /\ UNCHANGED <<home_assistant, seen, reacting>>)
  /\ WF_vars(AppReceive) /\ WF_vars(PublishDiscovery) /\ WF_vars(BrokerReads)

LiveSpec == Spec /\ Fairness

-----------------------------------------------------------------------------
(* Properties *)

\* Who will publish discovery: the application, which has it to publish or will
\* be told to by what is in DATA_CHANNEL, in a handler or still to be read.
WillPublish ==
  \/ reacting
  \/ \E i \in DOMAIN data : Announces(data[i])
  \/ \E i \in DOMAIN steps : steps[i][1] = "data" /\ Announces(steps[i][2])
  \/ \E i \in DOMAIN inbox :
       \/ inbox[i][1] = "PUBLISH"
       \/ inbox[i][1] = "CONNACK" /\ "Connected" \in AnnounceOn

\* Discovery on its way to the broker.
DiscoveryUnderWay ==
  \/ \E packet \in {slot, outgoing} \ {None} : packet[1] = "OTHER"
  \/ \E i \in DOMAIN written : i > seen /\ written[i][1] = "OTHER"

\* Home Assistant's "online" is not lost between the broker and the application, nor
\* the discovery that answers it on its way back: as long as both stay, Home Assistant
\* knows the entity, or the discovery or what makes the application publish it is on
\* its way.
AnswersGreeting == greeted => known \/ WillPublish \/ DiscoveryUnderWay

\* Home Assistant that has sent "online" to the device comes to know the entity, unless
\* one of the two goes first.
GreetingMakesKnown == greeted ~> known \/ ~greeted

\* Discovery is only sent because of a start of Home Assistant that was passed on to the
\* device: a Home Assistant that was online before the device first connected does not
\* know an entity of an application that does just what it is asked.
PassedOn == \E offer \in offered : offer[1][1] = "PUBLISH"

KnownIfPassedOn == known => PassedOn

\* While the device is connected and Home Assistant online, the entity is known or
\* will be.  An application that announces itself on Connected as well achieves it.
NotForgotten ==
  broker = "accepted" /\ home = "online" => known \/ WillPublish \/ DiscoveryUnderWay
=============================================================================
