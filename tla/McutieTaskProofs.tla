--------------------------- MODULE McutieTaskProofs --------------------------
(***************************************************************************)
(* Proofs about McutieTask, for any topics, any messages of any QoS and    *)
(* target, any number of connections and any capacity of DATA_CHANNEL.     *)
(***************************************************************************)
EXTENDS McutieTask, SequenceTheorems, TLAPS

(***************************************************************************)
(* Queues, and what the handlers put into one.                             *)
(***************************************************************************)

\* Taking the first element off a queue.
LEMMA Taking ==
  ASSUME NEW S, NEW q \in Seq(S), q # << >>
  PROVE  /\ Tail(q) \in Seq(S) /\ Len(Tail(q)) = Len(q) - 1
         /\ Head(q) \in S /\ Head(q) = q[1] /\ 1 \in DOMAIN q
         /\ Len(q) \in Nat /\ Len(q) > 0
         /\ \A i \in DOMAIN Tail(q) : i + 1 \in DOMAIN q /\ Tail(q)[i] = q[i + 1]
<1>1. Len(q) \in Nat /\ Len(q) > 0 /\ DOMAIN q = 1 .. Len(q)
  OBVIOUS
<1>2. /\ Tail(q) \in Seq(S) /\ Len(Tail(q)) = Len(q) - 1
      /\ \A i \in 1 .. Len(Tail(q)) : Tail(q)[i] = q[i + 1]
  BY HeadTailProperties
<1> QED  BY <1>1, <1>2

\* Adding an element to a queue.
LEMMA Adding ==
  ASSUME NEW S, NEW q \in Seq(S), NEW e \in S
  PROVE  /\ Append(q, e) \in Seq(S) /\ Len(Append(q, e)) = Len(q) + 1
         /\ Append(q, e)[Len(q) + 1] = e /\ Append(q, e) # << >>
         /\ Len(q) \in Nat /\ DOMAIN q = 1 .. Len(q)
         /\ DOMAIN Append(q, e) = 1 .. Len(q) + 1
         /\ \A i \in DOMAIN q : Append(q, e)[i] = q[i]
<1>1. /\ Append(q, e) \in Seq(S) /\ Len(Append(q, e)) = Len(q) + 1
      /\ \A i \in 1 .. Len(q) : Append(q, e)[i] = q[i]
      /\ Append(q, e)[Len(q) + 1] = e
  BY AppendProperties
<1> QED  BY <1>1

\* What is in a queue once an element is added.
LEMMA AddingHas ==
  ASSUME NEW S, NEW q \in Seq(S), NEW e \in S, NEW x
  PROVE  (\E i \in DOMAIN Append(q, e) : Append(q, e)[i] = x)
           <=> x = e \/ \E i \in DOMAIN q : q[i] = x
<1>1. ASSUME NEW i \in DOMAIN Append(q, e), Append(q, e)[i] = x
      PROVE  x = e \/ \E j \in DOMAIN q : q[j] = x
  <2>1. CASE i = Len(q) + 1
    BY <1>1, <2>1, Adding
  <2>2. CASE i \in DOMAIN q
    BY <1>1, <2>2, Adding
  <2> QED  BY <2>1, <2>2, Adding
<1>2. ASSUME NEW i \in DOMAIN q, q[i] = x
      PROVE  i \in DOMAIN Append(q, e) /\ Append(q, e)[i] = x
  BY <1>2, Adding
<1>3. Len(q) + 1 \in DOMAIN Append(q, e) /\ Append(q, e)[Len(q) + 1] = e
  BY Adding
<1> QED  BY <1>1, <1>2, <1>3

\* Joining two one-element sequences.
LEMMA Joining ==
  ASSUME NEW a, NEW b
  PROVE  <<a>> \o <<b>> = <<a, b>>
<1> DEFINE S == {a, b}
<1>1. <<a>> \in Seq(S) /\ <<b>> \in Seq(S) /\ <<a, b>> \in Seq(S)
  OBVIOUS
<1>2. Len(<<a>>) = 1 /\ Len(<<b>>) = 1 /\ Len(<<a, b>>) = 2
  OBVIOUS
<1>3. <<a>> \o <<b>> \in Seq(S) /\ Len(<<a>> \o <<b>>) = 2
  BY <1>1, <1>2
<1>4. \A i \in 1 .. 2 : (<<a>> \o <<b>>)[i] = <<a, b>>[i]
  BY <1>1, <1>2
<1> QED  BY <1>1, <1>2, <1>3, <1>4, SeqEqual

\* What the parts of the task push, and what they tell the application.
LEMMA Pushable ==
  /\ \A a \in Others : Packet("OTHER", a) \in ToBroker
  /\ \A topic \in Range(Topics) : Push("SUBSCRIBE", topic) \in Awaits
  /\ \A m \in Inbound : {Push("PUBACK", m), Push("PUBREC", m)} \subseteq Awaits
  /\ \A a \in Inbound \cup DOMAIN Reply : Push("PUBREL", a) \in Awaits
<1>1. \A topic \in Range(Topics) : Packet("SUBSCRIBE", topic) \in ToBroker
  BY DEF ToBroker
<1>2. \A m \in Inbound : {Packet("PUBACK", m), Packet("PUBREC", m)} \subseteq ToBroker
  BY DEF ToBroker
<1>3. \A a \in Inbound \cup DOMAIN Reply : Packet("PUBREL", a) \in ToBroker
  BY DEF ToBroker
<1>4. \A type, arg : Packet(type, arg) \in ToBroker /\ type # "CONNECT"
                       => Push(type, arg) \in Awaits
  BY DEF Push, Packet, Awaits
<1>5. \A a \in Others : Packet("OTHER", a) \in ToBroker
  BY DEF ToBroker
<1> QED  BY <1>1, <1>2, <1>3, <1>4, <1>5

\* Events that a handler may tell the application.
LEMMA Tellable ==
  /\ \A type \in {"Connected", "Disconnected"} :
       <<type, None>> \in Events /\ Tell(type, None) \in Awaits
  /\ \A type \in {"Publish", "HomeAssistantOnline"}, m \in Inbound :
       <<type, m>> \in Events /\ Tell(type, m) \in Awaits
<1>1. \A event \in Events : <<"data", event>> \in Awaits
  BY DEF Awaits
<1>2. \A type \in {"Connected", "Disconnected"} : <<type, None>> \in Events
  BY DEF Events
<1>3. \A type \in {"Publish", "HomeAssistantOnline"}, m \in Inbound : <<type, m>> \in Events
  BY DEF Events
<1> QED  BY <1>1, <1>2, <1>3 DEF Tell

\* A handler awaits a push or a message to the application, never CONNECT.
LEMMA AwaitsParts ==
  ASSUME NEW a \in Awaits
  PROVE  \/ a[1] = "push" /\ a[2] \in ToBroker /\ a[2][1] # "CONNECT"
         \/ a[1] = "data" /\ a[2] \in Events
BY DEF Awaits

\* After an accepting CONNACK the subscriptions, one for each topic and in
\* order, then Connected.
LEMMA SubscribingParts ==
  LET n == Len(Topics) IN
  /\ n \in Nat /\ DOMAIN Topics = 1 .. n
  /\ Subscribing(Topics) \in Seq(Awaits) /\ Len(Subscribing(Topics)) = n + 1
  /\ \A i \in 1 .. n : Subscribing(Topics)[i] = Push("SUBSCRIBE", Topics[i])
  /\ Subscribing(Topics)[n + 1] = Tell("Connected", None)
<1> DEFINE n == Len(Topics)
           pushes == [i \in DOMAIN Topics |-> Push("SUBSCRIBE", Topics[i])]
           last == <<Tell("Connected", None)>>
<1>1. n \in Nat /\ DOMAIN Topics = 1 .. n
  BY ConstantsAssumption
<1>2. \A i \in 1 .. n : Topics[i] \in Range(Topics)
  BY <1>1 DEF Range
<1>3. \A i \in 1 .. n : Push("SUBSCRIBE", Topics[i]) \in Awaits
  BY <1>2, Pushable
<1>4. pushes \in Seq(Awaits) /\ Len(pushes) = n
  BY <1>1, <1>3
<1>5. last \in Seq(Awaits) /\ Len(last) = 1 /\ last[1] = Tell("Connected", None)
  BY Tellable
<1>6. /\ pushes \o last \in Seq(Awaits) /\ Len(pushes \o last) = n + 1
      /\ \A i \in 1 .. n : (pushes \o last)[i] = pushes[i]
      /\ (pushes \o last)[n + 1] = Tell("Connected", None)
  BY <1>1, <1>4, <1>5, ConcatProperties
<1> QED  BY <1>1, <1>6 DEF Subscribing

\* For a message: what the application is told of it, then the acknowledgement.
LEMMA PublishingParts ==
  ASSUME NEW m \in Inbound
  PROVE  /\ Publishing(m) \in Seq(Awaits) /\ Len(Publishing(m)) \in 0 .. 2
         /\ \A i \in DOMAIN Publishing(m) :
              \/ Publishing(m)[i] \in {Tell("Publish", m), Tell("HomeAssistantOnline", m)}
              \/ /\ Publishing(m)[i] \in {Push("PUBACK", m), Push("PUBREC", m)}
                 /\ Target[m] \in {"application", "online"}
                      => \E j \in 1 .. i - 1 :
                           Publishing(m)[j] \in {Tell("Publish", m),
                                                 Tell("HomeAssistantOnline", m)}
<1> USE ConstantsAssumption
<1> DEFINE told == {Tell("Publish", m), Tell("HomeAssistantOnline", m)}
           acks == {Push("PUBACK", m), Push("PUBREC", m)}
           due == Target[m] \in {"application", "online"}
<1>1. told \cup acks \subseteq Awaits
  BY Pushable, Tellable
<1>2. \/ Delivery(m) = << >> /\ ~due
      \/ \E t \in told : Delivery(m) = <<t>>
  BY DEF Delivery
<1>3. \/ Acknowledgement(m) = << >>
      \/ \E a \in acks : Acknowledgement(m) = <<a>>
  <2>1. Qos[m] \in {0, 1, 2}
    OBVIOUS
  <2> QED  BY <2>1 DEF Acknowledgement
<1> HIDE DEF told, acks
<1>4. \/ Publishing(m) = << >>
      \/ \E t \in told : Publishing(m) = <<t>>
      \/ ~due /\ \E a \in acks : Publishing(m) = <<a>>
      \/ \E t \in told, a \in acks : Publishing(m) = <<t, a>>
  <2>1. CASE Delivery(m) = << >> /\ ~due
    BY <1>3, <2>1 DEF Publishing
  <2>2. ASSUME NEW t \in told, Delivery(m) = <<t>>
        PROVE  \/ Publishing(m) = <<t>>
               \/ \E a \in acks : Publishing(m) = <<t, a>>
    <3>1. CASE Acknowledgement(m) = << >>
      BY <2>2, <3>1 DEF Publishing
    <3>2. ASSUME NEW a \in acks, Acknowledgement(m) = <<a>>
          PROVE  Publishing(m) = <<t, a>>
      BY <2>2, <3>2, Joining DEF Publishing
    <3> QED  BY <1>3, <3>1, <3>2
  <2> QED  BY <1>2, <2>1, <2>2
<1>5. CASE Publishing(m) = << >>
  BY <1>5
<1>6. ASSUME NEW t \in told, Publishing(m) = <<t>>
      PROVE  /\ Publishing(m) \in Seq(Awaits) /\ Len(Publishing(m)) \in 0 .. 2
             /\ \A i \in DOMAIN Publishing(m) : Publishing(m)[i] \in told
  BY <1>1, <1>6
<1>7. ASSUME NEW a \in acks, Publishing(m) = <<a>>, ~due
      PROVE  /\ Publishing(m) \in Seq(Awaits) /\ Len(Publishing(m)) \in 0 .. 2
             /\ \A i \in DOMAIN Publishing(m) : Publishing(m)[i] \in acks
  BY <1>1, <1>7
<1>8. ASSUME NEW t \in told, NEW a \in acks, Publishing(m) = <<t, a>>
      PROVE  /\ Publishing(m) \in Seq(Awaits) /\ Len(Publishing(m)) \in 0 .. 2
             /\ DOMAIN Publishing(m) = {1, 2}
             /\ Publishing(m)[1] \in told /\ Publishing(m)[2] \in acks
  BY <1>1, <1>8
<1>9. /\ Publishing(m) \in Seq(Awaits) /\ Len(Publishing(m)) \in 0 .. 2
      /\ \A i \in DOMAIN Publishing(m) :
           \/ Publishing(m)[i] \in told
           \/ /\ Publishing(m)[i] \in acks
              /\ due => \E j \in 1 .. i - 1 : Publishing(m)[j] \in told
  BY <1>4, <1>5, <1>6, <1>7, <1>8
<1> QED  BY <1>9 DEF told, acks

\* Every handler's part is in the order and of the kind recv_loop awaits.
LEMMA HandlerTyped ==
  ASSUME NEW packet \in FromBroker, packet[1] # "REFUSED"
  PROVE  Handler(packet) \in Seq(Awaits)
<1>1. CASE packet[1] = "CONNACK"
  BY <1>1, SubscribingParts DEF Handler
<1>2. CASE packet[1] = "PUBLISH"
  <2>1. packet[2] \in Inbound
    BY <1>2 DEF FromBroker, Packet
  <2> QED  BY <1>2, <2>1, PublishingParts DEF Handler
<1>3. CASE packet[1] \in {"PUBREC", "PUBREL"}
  <2>1. packet[2] \in Inbound \cup DOMAIN Reply
    BY <1>3 DEF FromBroker, Packet
  <2>2. Push("PUBREL", packet[2]) \in Awaits
    BY <2>1, Pushable
  <2>3. Handler(packet) = <<Push("PUBREL", packet[2])>>
    BY <1>3 DEF Handler
  <2> QED  BY <2>2, <2>3
<1>4. CASE packet[1] \notin {"CONNACK", "PUBLISH", "PUBREC", "PUBREL"}
  BY <1>4 DEF Handler
<1> QED  BY <1>1, <1>2, <1>3, <1>4

(***************************************************************************)
(* Type correctness.                                                       *)
(***************************************************************************)

\* What the broker may send next is one of its packets.
LEMMA BrokerPacketsTyped == BrokerPackets \subseteq FromBroker
BY ConstantsAssumption DEF BrokerPackets, FromBroker, Packet

\* How a connection can end.
Ends == {"dropped", "not accepted", "refused"}

\* One that is lost, and one that is refused.
LEMMA EndsAre == Lost \in Ends /\ "refused" \in Ends
BY DEF Lost, Ends

\* Ending a session leaves nothing of it behind.
LEMMA EndSessionTyped ==
  ASSUME TypeOK, NEW how \in Ends, EndSession(how)
  PROVE  TypeOK'
<1> USE DEF TypeOK, EndSession
<1>1. AttemptTyped'
  BY DEF AttemptTyped, Ends
<1>2. ConnectionTyped'
  <2>1. \A S : << >> \in Seq(S)
    OBVIOUS
  <2> QED  BY <2>1 DEF ConnectionTyped
<1>3. ChannelTyped'
  BY DEF ChannelTyped, channel
<1>4. BoundsTyped'
  BY DEF BoundsTyped, bounds
<1>5. OnlyInSession'
  BY DEF OnlyInSession, Connected
<1> QED  BY <1>1, <1>2, <1>3, <1>4, <1>5

\* The task's variables always hold values the Rust types allow, and what
\* belongs to a connection exists only while there is one: no packet is in the
\* slot, in a handler or on its way once the futures of select4 are dropped.
THEOREM TypeCorrect == Spec => []TypeOK
<1>0. DataCapacity \in Nat \ {0} /\ MaxSessions \in Nat \ {0}
  BY ConstantsAssumption
<1>1. Init => TypeOK
  <2> SUFFICES ASSUME Init PROVE TypeOK
    OBVIOUS
  <2> USE DEF Init
  <2>1. \A S : << >> \in Seq(S)
    OBVIOUS
  <2>2. AttemptTyped /\ ConnectionTyped /\ BoundsTyped
    BY <1>0, <2>1 DEF AttemptTyped, ConnectionTyped, BoundsTyped
  <2>3. ChannelTyped
    BY <1>0, <2>1 DEF ChannelTyped
  <2>4. OnlyInSession
    BY DEF OnlyInSession, Connected
  <2> QED  BY <2>2, <2>3, <2>4 DEF TypeOK
<1>2. TypeOK /\ [Next]_vars => TypeOK'
  <2> SUFFICES ASSUME TypeOK, [Next]_vars PROVE TypeOK'
    OBVIOUS
  <2> USE DEF TypeOK
  <2>0. /\ UNCHANGED attempt => AttemptTyped'
        /\ UNCHANGED channel => ChannelTyped'
        /\ UNCHANGED bounds => BoundsTyped'
        /\ UNCHANGED connection => ConnectionTyped'
    <3>1. UNCHANGED attempt => AttemptTyped'
      BY DEF attempt, AttemptTyped
    <3>2. UNCHANGED channel => ChannelTyped'
      BY DEF channel, ChannelTyped
    <3>3. UNCHANGED bounds => BoundsTyped'
      BY DEF bounds, BoundsTyped
    <3>4. UNCHANGED connection => ConnectionTyped'
      BY DEF connection, ConnectionTyped
    <3> QED  BY <3>1, <3>2, <3>3, <3>4
  <2>1. CASE BackOff
    <3>1. AttemptTyped'
      BY <2>1 DEF BackOff, AttemptTyped
    <3>2. OnlyInSession'
      BY <2>1 DEF BackOff, OnlyInSession, Connected, connection, bounds
    <3> QED  BY <2>0, <2>1, <3>1, <3>2 DEF BackOff
  <2>2. CASE ConnectFails
    <3>1. AttemptTyped'
      BY <2>2 DEF ConnectFails, AttemptTyped
    <3>2. OnlyInSession'
      BY <2>2 DEF ConnectFails, OnlyInSession, Connected, connection, bounds
    <3> QED  BY <2>0, <2>2, <3>1, <3>2 DEF ConnectFails
  <2>3. CASE Connect
    <3>1. AttemptTyped'
      BY <2>3 DEF Connect, AttemptTyped
    <3>2. BoundsTyped'
      BY <1>0, <2>3 DEF Connect, BoundsTyped
    <3>3. ConnectionTyped'
      BY <2>3 DEF Connect, ConnectionTyped
    <3>4. sessions' > 0
      BY <2>3 DEF Connect, BoundsTyped
    <3>5. OnlyInSession'
      BY <2>3, <3>4 DEF Connect, OnlyInSession, Connected
    <3> QED  BY <2>0, <2>3, <3>1, <3>2, <3>3, <3>5 DEF Connect
  <2>4. CASE Dropped
    BY <2>4, EndSessionTyped, EndsAre DEF Dropped
  <2>5. CASE Report
    <3>1. AttemptTyped'
      BY <2>5 DEF Report, AttemptTyped
    <3>2. <<"Disconnected", None>> \in Events
      BY Tellable
    <3>3. ChannelTyped'
      BY <1>0, <2>5, <3>2, Adding DEF Report, SendData, ChannelTyped
    <3>4. OnlyInSession'
      BY <2>5 DEF Report, OnlyInSession, Connected, connection, bounds
    <3> QED  BY <2>0, <2>5, <3>1, <3>3, <3>4 DEF Report
  <2>6. CASE WriteConnect
    <3>1. Packet("CONNECT", None) \in ToBroker
      BY DEF ToBroker
    <3>2. ConnectionTyped'
      BY <2>6, <3>1 DEF WriteConnect, ConnectionTyped
    <3>3. OnlyInSession'
      BY <2>6 DEF WriteConnect, OnlyInSession, Connected, attempt, bounds
    <3> QED  BY <2>0, <2>6, <3>2, <3>3 DEF WriteConnect
  <2>7. CASE WriterReceive
    <3>1. ConnectionTyped'
      BY <2>7 DEF WriterReceive, ConnectionTyped
    <3>2. OnlyInSession'
      BY <2>7 DEF WriterReceive, OnlyInSession, Connected, attempt, bounds
    <3> QED  BY <2>0, <2>7, <3>1, <3>2 DEF WriterReceive
  <2>8. CASE WriterDone
    <3>1. outgoing \in ToBroker
      BY <2>8 DEF WriterDone, ConnectionTyped, OnlyInSession
    <3>2. written' \in Seq(ToBroker) /\ written' # << >>
      BY <2>8, <3>1, Adding DEF WriterDone, ConnectionTyped
    <3>3. ConnectionTyped'
      BY <2>8, <3>2 DEF WriterDone, ConnectionTyped
    <3>4. OnlyInSession'
      BY <2>8, <3>2 DEF WriterDone, OnlyInSession, Connected, attempt, bounds
    <3> QED  BY <2>0, <2>8, <3>3, <3>4 DEF WriterDone
  <2>9. ASSUME NEW a \in Others, OtherPush(a) PROVE TypeOK'
    <3>1. Packet("OTHER", a) \in ToBroker
      BY Pushable
    <3>2. ConnectionTyped'
      BY <2>9, <3>1 DEF OtherPush, Pushed, ConnectionTyped
    <3>3. BoundsTyped'
      BY <2>9 DEF OtherPush, BoundsTyped
    <3>4. OnlyInSession'
      BY <2>9 DEF OtherPush, Pushed, OnlyInSession, Connected, attempt
    <3> QED  BY <2>0, <2>9, <3>2, <3>3, <3>4 DEF OtherPush
  <2>10. CASE Read
    <3>1. /\ inbox' \in Seq(FromBroker)
          /\ Head(inbox) \in FromBroker /\ Head(inbox)[1] # "REFUSED"
      BY <2>10, Taking DEF Read, ConnectionTyped
    <3>2. steps' \in Seq(Awaits)
      BY <2>10, <3>1, HandlerTyped DEF Read
    <3>3. ConnectionTyped'
      BY <2>10, <3>1, <3>2 DEF Read, ConnectionTyped
    <3>4. OnlyInSession'
      BY <2>10 DEF Read, OnlyInSession, Connected, attempt, bounds
    <3> QED  BY <2>0, <2>10, <3>3, <3>4 DEF Read
  <2>11. CASE ReadRefusal
    BY <2>11, EndSessionTyped, EndsAre DEF ReadRefusal
  <2>12. CASE HandlerSends
    <3>1. steps' \in Seq(Awaits) /\ Head(steps)[2] \in Events
      BY <2>12, Taking, AwaitsParts DEF HandlerSends, ConnectionTyped
    <3>2. ConnectionTyped'
      BY <2>12, <3>1 DEF HandlerSends, ConnectionTyped
    <3>3. ChannelTyped'
      BY <1>0, <2>12, <3>1, Adding DEF HandlerSends, SendData, ChannelTyped
    <3>4. OnlyInSession'
      BY <2>12 DEF HandlerSends, OnlyInSession, Connected, attempt, bounds
    <3> QED  BY <2>0, <2>12, <3>2, <3>3, <3>4 DEF HandlerSends
  <2>13. CASE HandlerPushes
    <3>1. steps' \in Seq(Awaits) /\ Head(steps)[2] \in ToBroker
      BY <2>13, Taking, AwaitsParts DEF HandlerPushes, ConnectionTyped
    <3>2. ConnectionTyped'
      BY <2>13, <3>1 DEF HandlerPushes, Pushed, ConnectionTyped
    <3>3. OnlyInSession'
      BY <2>13 DEF HandlerPushes, Pushed, OnlyInSession, Connected, attempt, bounds
    <3> QED  BY <2>0, <2>13, <3>2, <3>3 DEF HandlerPushes
  <2>14. ASSUME NEW accepts \in BOOLEAN, BrokerAnswersConnect(accepts)
         PROVE  TypeOK'
    <3>1. written # << >>
      BY <2>14 DEF BrokerAnswersConnect, Wrote
    <3>2. Packet(IF accepts THEN "CONNACK" ELSE "REFUSED", None) \in FromBroker
      BY DEF FromBroker
    <3>3. inbox' \in Seq(FromBroker)
      BY <2>14, <3>2, Adding DEF BrokerAnswersConnect, ConnectionTyped
    <3>4. ConnectionTyped'
      BY <2>14, <3>3 DEF BrokerAnswersConnect, ConnectionTyped
    <3>5. OnlyInSession'
      BY <2>14, <3>1 DEF BrokerAnswersConnect, OnlyInSession, Connected, attempt, bounds
    <3> QED  BY <2>0, <2>14, <3>4, <3>5 DEF BrokerAnswersConnect
  <2>15. ASSUME NEW packet \in BrokerPackets, BrokerSends(packet) PROVE TypeOK'
    <3>1. packet \in FromBroker
      BY BrokerPacketsTyped
    <3>2. inbox' \in Seq(FromBroker)
      BY <2>15, <3>1, Adding DEF BrokerSends, ConnectionTyped
    <3>3. ConnectionTyped'
      BY <2>15, <3>2 DEF BrokerSends, ConnectionTyped
    <3>4. phase = "session" /\ sessions > 0
      BY <2>15 DEF BrokerSends, OnlyInSession
    <3>5. <<packet, sessions>> \in FromBroker \X (1 .. MaxSessions)
      BY <1>0, <3>1, <3>4 DEF BoundsTyped
    <3>6. BoundsTyped'
      BY <2>15, <3>5 DEF BrokerSends, BoundsTyped
    <3>7. OnlyInSession'
      BY <2>15 DEF BrokerSends, OnlyInSession, Connected, attempt
    <3> QED  BY <2>0, <2>15, <3>3, <3>6, <3>7 DEF BrokerSends
  <2>16. CASE AppReceive
    <3>1. ChannelTyped'
      BY <1>0, <2>16, Taking DEF AppReceive, ChannelTyped
    <3>2. OnlyInSession'
      BY <2>16 DEF AppReceive, OnlyInSession, Connected, attempt, connection, bounds
    <3> QED  BY <2>0, <2>16, <3>1, <3>2 DEF AppReceive
  <2>17. CASE UNCHANGED vars
    <3>1. UNCHANGED <<attempt, connection, channel, bounds>>
      BY <2>17 DEF vars
    <3>2. OnlyInSession'
      BY <3>1 DEF OnlyInSession, Connected, attempt, connection, bounds
    <3> QED  BY <2>0, <3>1, <3>2
  <2> QED
    BY <2>1, <2>2, <2>3, <2>4, <2>5, <2>6, <2>7, <2>8, <2>9, <2>10, <2>11, <2>12,
       <2>13, <2>14, <2>15, <2>16, <2>17 DEF Next
<1> QED  BY <1>1, <1>2, PTL DEF Spec

(***************************************************************************)
(* The back-off.                                                           *)
(***************************************************************************)

\* The wait that suits the way the previous attempt ended.
Fitting ==
  CASE ended = "none"          -> "none"
    [] ended = "no connection" -> "DEFAULT_BACKOFF"
    [] OTHER                   -> "RESET_BACKOFF"

\* timeout holds the next wait until BackOff takes it and puts the default back;
\* only a connection replaces the default, by the short wait.
AttemptInv ==
  /\ phase = "backoff" => timeout = Fitting
  /\ phase = "connecting" => timeout = "DEFAULT_BACKOFF" /\ waited = Fitting
  /\ phase \in {"session", "report"} => timeout = "RESET_BACKOFF"
  /\ phase = "report" => ended \in Ends

\* The steps that take run() from one phase to another, and all the others.
LEMMA AttemptSteps ==
  ASSUME TypeOK, [Next]_vars
  PROVE  \/ BackOff \/ ConnectFails \/ Connect \/ Report
         \/ \E how \in Ends : phase = "session" /\ EndSession(how)
         \/ UNCHANGED attempt
<1>1. ASSUME TypeOK, ReadRefusal PROVE phase = "session"
  BY <1>1 DEF ReadRefusal, TypeOK, OnlyInSession
<1> QED
  BY <1>1, EndsAre DEF Next, Dropped, ReadRefusal, WriteConnect, WriterReceive, WriterDone,
         OtherPush, Read, HandlerSends, HandlerPushes, BrokerAnswersConnect,
         BrokerSends, AppReceive, vars

\* The wait after an attempt that the broker refused or had not accepted when it ended.
BrieflyAfterRefusal ==
  phase = "connecting" /\ ended \in {"not accepted", "refused"} => waited = "RESET_BACKOFF"

\* run (io.rs): there is no wait before the first attempt and one before every other,
\* the long one after a failure to reach the broker, the short one after a connection
\* that was lost - and the short one also after an attempt that the broker refused or
\* had not yet accepted, which is what RefusalBacksOff objects to.
THEOREM RightBackOff ==
  Spec => [](BackOffFits /\ BrieflyAfterRefusal)
<1>1. Init => AttemptInv
  BY DEF Init, AttemptInv, Fitting
<1>2. TypeOK /\ AttemptInv /\ [Next]_vars => AttemptInv'
  <2> SUFFICES ASSUME TypeOK, AttemptInv, [Next]_vars PROVE AttemptInv'
    OBVIOUS
  <2> USE DEF AttemptInv, Fitting
  <2>1. CASE BackOff
    BY <2>1 DEF BackOff
  <2>2. CASE ConnectFails
    BY <2>2 DEF ConnectFails
  <2>3. CASE Connect
    BY <2>3 DEF Connect
  <2>4. CASE Report
    BY <2>4 DEF Report, Ends
  <2>5. ASSUME NEW how \in Ends, phase = "session", EndSession(how)
        PROVE  AttemptInv'
    BY <2>5 DEF EndSession, Ends
  <2>6. CASE UNCHANGED attempt
    BY <2>6 DEF attempt
  <2> QED  BY <2>1, <2>2, <2>3, <2>4, <2>5, <2>6, AttemptSteps
<1>3. TypeOK /\ AttemptInv => BackOffFits /\ BrieflyAfterRefusal
  <2> SUFFICES ASSUME AttemptTyped, phase = "connecting", waited = Fitting
               PROVE  /\ (waited = "none") = (ended = "none")
                      /\ ended = "no connection" => waited = "DEFAULT_BACKOFF"
                      /\ ended \in {"dropped", "not accepted", "refused"}
                           => waited = "RESET_BACKOFF"
    BY DEF TypeOK, AttemptInv, BackOffFits, BrieflyAfterRefusal
  <2>1. ended = "none" => waited = "none"
    BY DEF Fitting
  <2>2. ended = "no connection" => waited = "DEFAULT_BACKOFF"
    BY DEF Fitting
  <2>3. ended \in {"dropped", "not accepted", "refused"} => waited = "RESET_BACKOFF"
    BY DEF Fitting
  <2>4. ended # "none" => waited # "none"
    BY <2>2, <2>3 DEF AttemptTyped
  <2> QED  BY <2>1, <2>2, <2>3, <2>4
<1> QED  BY <1>1, <1>2, <1>3, TypeCorrect, PTL DEF Spec

(***************************************************************************)
(* Acknowledgements.                                                       *)
(***************************************************************************)

\* What the broker gets of this connection, has got or is about to get.
Underway(packet) ==
  packet \in {slot, outgoing} \/ \E i \in DOMAIN written : written[i] = packet

Acks(m) == {Packet("PUBACK", m), Packet("PUBREC", m)}

Tells(m) == {Tell("Publish", m), Tell("HomeAssistantOnline", m)}

Delivered(m) == \E i \in DOMAIN log : log[i][2] = m

\* The packets under way are the same while the write loop takes one from the
\* slot and writes it; one more is after a push, and none after the session.
LEMMA UnderwaySteps ==
  ASSUME TypeOK, NEW packet \in ToBroker, packet[1] # "CONNECT"
  PROVE  /\ UNCHANGED <<slot, outgoing, written>> => Underway(packet)' = Underway(packet)
         /\ WriteConnect \/ WriterReceive \/ WriterDone
              => Underway(packet)' = Underway(packet)
         /\ \A how : EndSession(how) => ~Underway(packet)'
         /\ \A other : Pushed(other) /\ UNCHANGED <<outgoing, written>> =>
              /\ Underway(packet) => Underway(packet)'
              /\ Underway(packet)' => Underway(packet) \/ packet = other
              /\ Connected /\ packet = other => Underway(packet)'
<1>0. packet # None
  BY NoneIsNoPacket
<1>1. UNCHANGED <<slot, outgoing, written>> => Underway(packet)' = Underway(packet)
  BY DEF Underway
<1>2. ASSUME WriteConnect PROVE Underway(packet)' = Underway(packet)
  <2>1. written = << >>
    BY <1>2 DEF WriteConnect, TypeOK, OnlyInSession, Connected
  <2>2. /\ DOMAIN written = {} /\ DOMAIN written' = {1}
        /\ written'[1] = Packet("CONNECT", None) /\ UNCHANGED <<slot, outgoing>>
    BY <1>2, <2>1 DEF WriteConnect
  <2>3. packet # Packet("CONNECT", None)
    BY DEF Packet
  <2> QED  BY <2>2, <2>3 DEF Underway
<1>3. ASSUME WriterReceive PROVE Underway(packet)' = Underway(packet)
  <2>1. outgoing = None
    BY <1>3 DEF WriterReceive, TypeOK, OnlyInSession
  <2> QED  BY <1>0, <1>3, <2>1 DEF WriterReceive, Underway
<1>4. ASSUME WriterDone PROVE Underway(packet)' = Underway(packet)
  <2>1. outgoing \in ToBroker /\ written \in Seq(ToBroker)
    BY <1>4 DEF WriterDone, TypeOK, OnlyInSession, ConnectionTyped
  <2>2. (\E i \in DOMAIN written' : written'[i] = packet)
          <=> packet = outgoing \/ \E i \in DOMAIN written : written[i] = packet
    BY <1>4, <2>1, AddingHas DEF WriterDone
  <2>3. packet \in {slot', outgoing'} <=> packet = slot
    BY <1>0, <1>4 DEF WriterDone
  <2> QED  BY <2>2, <2>3 DEF Underway
<1>5. ASSUME NEW how, EndSession(how) PROVE ~Underway(packet)'
  BY <1>0, <1>5 DEF EndSession, Underway
<1>6. ASSUME NEW other, Pushed(other), UNCHANGED <<outgoing, written>>
      PROVE  /\ Underway(packet) => Underway(packet)'
             /\ Underway(packet)' => Underway(packet) \/ packet = other
             /\ Connected /\ packet = other => Underway(packet)'
  BY <1>0, <1>6 DEF Pushed, Underway
<1> QED  BY <1>1, <1>2, <1>3, <1>4, <1>5, <1>6

\* A handler either publishes, or subscribes, or pushes nothing but PUBREL.
LEMMA HandlerParts ==
  ASSUME NEW packet \in FromBroker, packet[1] # "REFUSED"
  PROVE  \/ /\ packet[1] = "PUBLISH" /\ packet[2] \in Inbound
            /\ packet = Packet("PUBLISH", packet[2])
            /\ Handler(packet) = Publishing(packet[2])
         \/ packet[1] = "CONNACK" /\ Handler(packet) = Subscribing(Topics)
         \/ /\ packet[1] \notin {"CONNACK", "PUBLISH"}
            /\ \A i \in DOMAIN Handler(packet) :
                 \E a : Handler(packet)[i] = Push("PUBREL", a)
<1>1. CASE packet[1] = "CONNACK"
  BY <1>1 DEF Handler
<1>2. CASE packet[1] = "PUBLISH"
  <2>1. packet[2] \in Inbound /\ packet = Packet("PUBLISH", packet[2])
    BY <1>2 DEF FromBroker, Packet
  <2> QED  BY <1>2, <2>1 DEF Handler
<1>3. CASE packet[1] \in {"PUBREC", "PUBREL"}
  <2>1. Handler(packet) = <<Push("PUBREL", packet[2])>>
    BY <1>3 DEF Handler
  <2> QED  BY <1>3, <2>1
<1>4. CASE packet[1] \notin {"CONNACK", "PUBLISH", "PUBREC", "PUBREL"}
  <2>1. Handler(packet) = << >>
    BY <1>4 DEF Handler
  <2> QED  BY <1>4, <2>1
<1> QED  BY <1>1, <1>2, <1>3, <1>4

\* What happens to what is under way, to the handler's awaits and to the log,
\* step by step.
LEMMA ConnectionSteps ==
  ASSUME TypeOK, [Next]_vars
  PROVE  \/ UNCHANGED <<slot, outgoing, written, steps, log>>
         \/ UNCHANGED <<slot, outgoing, written, steps>> /\ Report
         \/ UNCHANGED <<steps, log>> /\ (WriteConnect \/ WriterReceive \/ WriterDone)
         \/ /\ UNCHANGED <<outgoing, written, steps, log>>
            /\ \E a \in Others : Pushed(Packet("OTHER", a))
         \/ UNCHANGED <<slot, outgoing, written, log>> /\ Read
         \/ UNCHANGED <<slot, outgoing, written>> /\ HandlerSends
         \/ UNCHANGED <<outgoing, written, log>> /\ HandlerPushes
         \/ UNCHANGED log /\ \E how \in Ends : EndSession(how)
BY EndsAre
   DEF Next, BackOff, ConnectFails, Connect, Report, Dropped, ReadRefusal, EndSession,
       WriteConnect, WriterReceive, WriterDone, OtherPush, Read, HandlerSends,
       HandlerPushes, BrokerAnswersConnect, BrokerSends, AppReceive, vars, connection, channel

\* An acknowledgement is under way only for a message the application has; in
\* a handler the message still comes before its acknowledgement.
DeliveredInv ==
  \A m \in Inbound : Target[m] \in {"application", "online"} =>
    /\ (\E ack \in Acks(m) : Underway(ack)) => Delivered(m)
    /\ \A i \in DOMAIN steps :
         steps[i] \in {Push("PUBACK", m), Push("PUBREC", m)}
           => Delivered(m) \/ \E j \in 1 .. i - 1 : steps[j] \in Tells(m)

\* A packet is an acknowledgement only of what the broker published on this
\* very connection, and so is one a handler awaits to push.
OfThisConnection(packet) ==
  packet[1] \in {"PUBACK", "PUBREC"} => <<Packet("PUBLISH", packet[2]), sessions>> \in offered

\* Everything but the answer to CONNECT.
OnRequest(packet) == packet[1] \notin {"CONNACK", "REFUSED"}

FreshInv ==
  /\ \A packet \in ToBroker : Underway(packet) => OfThisConnection(packet)
  /\ \A i \in DOMAIN steps : steps[i][1] = "push" => OfThisConnection(steps[i][2])
  /\ \A i \in DOMAIN inbox : OnRequest(inbox[i]) => <<inbox[i], sessions>> \in offered
  /\ slot # None => slot[1] # "CONNECT"
  /\ outgoing # None => outgoing[1] # "CONNECT"
  /\ \A i \in DOMAIN written : (written[i][1] = "CONNECT") = (i = 1)

\* The broker never gets an acknowledgement for a message that the application
\* does not have: whatever connection is lost at whatever moment, no message the
\* broker believes delivered is lost.
THEOREM AcknowledgedDelivered == Spec => []AcknowledgedMeansDelivered
<1>1. Init => DeliveredInv
  <2>1. ASSUME Init, NEW packet \in ToBroker PROVE ~Underway(packet)
    BY <2>1, NoneIsNoPacket DEF Init, Underway
  <2>2. \A m \in Inbound : Acks(m) \subseteq ToBroker
    BY DEF Acks, ToBroker
  <2> QED  BY <2>1, <2>2 DEF Init, DeliveredInv
<1>2. TypeOK /\ DeliveredInv /\ [Next]_vars => DeliveredInv'
  <2> SUFFICES ASSUME TypeOK, DeliveredInv, [Next]_vars,
                      NEW m \in Inbound, Target[m] \in {"application", "online"}
               PROVE  /\ (\E ack \in Acks(m) : Underway(ack)') => Delivered(m)'
                      /\ \A i \in DOMAIN steps' :
                           steps'[i] \in {Push("PUBACK", m), Push("PUBREC", m)}
                             => \/ Delivered(m)'
                                \/ \E j \in 1 .. i - 1 : steps'[j] \in Tells(m)
    BY DEF DeliveredInv, Acks, Tells, Delivered, Underway
  <2>0. /\ (\E ack \in Acks(m) : Underway(ack)) => Delivered(m)
        /\ \A i \in DOMAIN steps :
             steps[i] \in {Push("PUBACK", m), Push("PUBREC", m)}
               => Delivered(m) \/ \E j \in 1 .. i - 1 : steps[j] \in Tells(m)
    BY DEF DeliveredInv
  <2>a. \A ack \in Acks(m) : ack \in ToBroker /\ ack[1] # "CONNECT"
    BY DEF Acks, ToBroker, Packet
  <2>b. steps \in Seq(Awaits) /\ log \in Seq(Events)
    BY DEF TypeOK, ConnectionTyped, ChannelTyped
  <2>1. CASE UNCHANGED <<slot, outgoing, written, steps, log>>
    BY <2>0, <2>1 DEF Underway, Delivered
  <2>2. ASSUME NEW e \in Events, log' = Append(log, e)
        PROVE  /\ Delivered(m) => Delivered(m)'
               /\ e[2] = m => Delivered(m)'
    BY <2>2, <2>b, Adding DEF Delivered
  <2>3. CASE UNCHANGED <<slot, outgoing, written, steps>> /\ Report
    <3>1. Delivered(m) => Delivered(m)'
      BY <2>2, <2>3, Tellable DEF Report, SendData
    <3> QED  BY <2>0, <2>3, <3>1 DEF Underway
  <2>4. CASE UNCHANGED <<steps, log>> /\ (WriteConnect \/ WriterReceive \/ WriterDone)
    BY <2>0, <2>a, <2>4, UnderwaySteps DEF Delivered
  <2>5. ASSUME UNCHANGED <<outgoing, written, steps, log>>,
               NEW a \in Others, Pushed(Packet("OTHER", a))
        PROVE  \A ack \in Acks(m) : Underway(ack)' => Underway(ack)
    <3>1. \A ack \in Acks(m) : ack # Packet("OTHER", a)
      BY DEF Acks, Packet
    <3> QED  BY <2>a, <2>5, <3>1, UnderwaySteps
  <2>6. CASE UNCHANGED <<slot, outgoing, written, log>> /\ Read
    <3>1. Head(inbox) \in FromBroker /\ Head(inbox)[1] # "REFUSED"
      BY <2>6, Taking DEF Read, TypeOK, ConnectionTyped
    <3>2. steps' = Handler(Head(inbox))
      BY <2>6 DEF Read
    <3>3. ASSUME NEW i \in DOMAIN steps',
                 steps'[i] \in {Push("PUBACK", m), Push("PUBREC", m)}
          PROVE  \E j \in 1 .. i - 1 : steps'[j] \in Tells(m)
      <4>1. CASE \E a : steps'[i] \in {Push("PUBREL", a), Push("SUBSCRIBE", a)}
        BY <3>3, <4>1 DEF Push, Packet
      <4>2. CASE steps'[i] = Tell("Connected", None)
        BY <3>3, <4>2 DEF Push, Tell
      <4>3. ASSUME NEW n \in Inbound, steps' = Publishing(n)
            PROVE  \E j \in 1 .. i - 1 : steps'[j] \in Tells(m)
        <5>1. steps'[i] \notin {Tell("Publish", n), Tell("HomeAssistantOnline", n)}
          BY <3>3 DEF Push, Tell
        <5>2. n = m
          BY <3>3, <4>3, <5>1, PublishingParts DEF Push, Packet
        <5> QED  BY <4>3, <5>1, <5>2, PublishingParts DEF Tells
      <4>4. ASSUME steps' = Subscribing(Topics)
            PROVE  \/ \E a : steps'[i] = Push("SUBSCRIBE", a)
                   \/ steps'[i] = Tell("Connected", None)
        BY <4>4, SubscribingParts
      <4> QED  BY <3>1, <3>2, <4>1, <4>2, <4>3, <4>4, HandlerParts
    <3> QED  BY <2>0, <2>6, <3>3 DEF Underway, Delivered
  <2>c. ASSUME steps # << >>, steps' = Tail(steps),
               Head(steps) \in Tells(m) => Delivered(m)',
               Delivered(m) => Delivered(m)'
        PROVE  \A i \in DOMAIN steps' :
                 steps'[i] \in {Push("PUBACK", m), Push("PUBREC", m)}
                   => Delivered(m)' \/ \E j \in 1 .. i - 1 : steps'[j] \in Tells(m)
    <3> SUFFICES ASSUME NEW i \in DOMAIN steps', ~Delivered(m)',
                        steps'[i] \in {Push("PUBACK", m), Push("PUBREC", m)}
                 PROVE  \E j \in 1 .. i - 1 : steps'[j] \in Tells(m)
      OBVIOUS
    <3>1. /\ i \in Nat /\ i + 1 \in DOMAIN steps /\ steps'[i] = steps[i + 1]
          /\ \A k \in 1 .. i : steps'[k] = steps[k + 1]
          /\ Head(steps) = steps[1]
      BY <2>b, <2>c, Taking
    <3>2. PICK j \in 1 .. i : steps[j] \in Tells(m)
      BY <2>0, <2>c, <3>1
    <3>3. j # 1
      BY <2>c, <3>1, <3>2
    <3>4. j - 1 \in 1 .. i - 1 /\ steps'[j - 1] = steps[j]
      BY <3>1, <3>2, <3>3
    <3> QED  BY <3>2, <3>4
  <2>7. CASE UNCHANGED <<slot, outgoing, written>> /\ HandlerSends
    <3>1. Head(steps) \in Awaits /\ Head(steps)[2] \in Events
      BY <2>b, <2>7, Taking, AwaitsParts DEF HandlerSends
    <3>2. Delivered(m) => Delivered(m)'
      BY <2>2, <2>7, <3>1 DEF HandlerSends, SendData
    <3>3. Head(steps) \in Tells(m) => Delivered(m)'
      BY <2>2, <2>7, <3>1 DEF HandlerSends, SendData, Tells, Tell
    <3> QED  BY <2>0, <2>c, <2>7, <3>2, <3>3 DEF HandlerSends, Underway
  <2>8. CASE UNCHANGED <<outgoing, written, log>> /\ HandlerPushes
    <3>1. Head(steps) \in Awaits /\ Head(steps)[1] = "push" /\ Head(steps) = steps[1]
      BY <2>b, <2>8, Taking DEF HandlerPushes
    <3>2. Head(steps) \notin Tells(m)
      BY <3>1 DEF Tells, Tell
    <3>3. ASSUME NEW ack \in Acks(m), ack = Head(steps)[2] PROVE Delivered(m)
      <4>1. steps[1] \in {Push("PUBACK", m), Push("PUBREC", m)}
        BY <3>1, <3>3 DEF Awaits, Acks, Push
      <4> QED  BY <2>0, <2>b, <2>8, <4>1, Taking DEF HandlerPushes
    <3>4. \A ack \in Acks(m) : Underway(ack)' => Underway(ack) \/ ack = Head(steps)[2]
      BY <2>a, <2>8, UnderwaySteps DEF HandlerPushes
    <3> QED  BY <2>0, <2>c, <2>8, <3>2, <3>3, <3>4 DEF HandlerPushes, Delivered
  <2>9. ASSUME NEW how \in Ends, EndSession(how)
        PROVE  steps' = << >> /\ \A ack \in Acks(m) : ~Underway(ack)'
    BY <2>a, <2>9, UnderwaySteps DEF EndSession
  <2> QED
    BY <2>0, <2>1, <2>3, <2>4, <2>5, <2>6, <2>7, <2>8, <2>9, ConnectionSteps
    DEF Delivered
<1>3. TypeOK /\ DeliveredInv => AcknowledgedMeansDelivered
  BY DEF DeliveredInv, AcknowledgedMeansDelivered, Wrote, Acks, Underway, Delivered
<1> QED  BY <1>1, <1>2, <1>3, TypeCorrect, PTL DEF Spec

\* What happens to the packets from the broker: except when a connection is
\* made, what the broker was seen to send stays sent on this connection.
LEMMA InboxSteps ==
  ASSUME TypeOK, [Next]_vars
  PROVE  \/ Connect
         \/ /\ sessions' = sessions /\ offered \subseteq offered'
            /\ \/ inbox' \in {inbox, << >>}
               \/ inbox # << >> /\ inbox' = Tail(inbox)
               \/ \E packet \in FromBroker :
                    /\ inbox' = Append(inbox, packet)
                    /\ OnRequest(packet) => <<packet, sessions>> \in offered'
<1>1. ASSUME NEW accepts \in BOOLEAN, BrokerAnswersConnect(accepts)
      PROVE  \E packet \in FromBroker :
               inbox' = Append(inbox, packet) /\ ~OnRequest(packet)
  <2> DEFINE packet == Packet(IF accepts THEN "CONNACK" ELSE "REFUSED", None)
  <2>1. packet \in FromBroker /\ ~OnRequest(packet)
    BY DEF FromBroker, Packet, OnRequest
  <2> QED  BY <1>1, <2>1 DEF BrokerAnswersConnect
<1>2. ASSUME NEW packet \in BrokerPackets, BrokerSends(packet)
      PROVE  /\ packet \in FromBroker /\ inbox' = Append(inbox, packet)
             /\ sessions' = sessions /\ offered' = offered \cup {<<packet, sessions>>}
  BY <1>2, BrokerPacketsTyped DEF BrokerSends
<1>3. ASSUME NEW accepts \in BOOLEAN, BrokerAnswersConnect(accepts)
      PROVE  UNCHANGED <<offered, sessions>>
  BY <1>3 DEF BrokerAnswersConnect, bounds
<1>4. \/ Connect
      \/ UNCHANGED <<offered, sessions, inbox>>
      \/ UNCHANGED <<offered, sessions>> /\ inbox' = << >>
      \/ UNCHANGED <<offered, sessions>> /\ inbox # << >> /\ inbox' = Tail(inbox)
      \/ \E accepts \in BOOLEAN : BrokerAnswersConnect(accepts)
      \/ \E packet \in BrokerPackets : BrokerSends(packet)
  BY DEF Next, BackOff, ConnectFails, Report, Dropped, ReadRefusal, EndSession,
         WriteConnect, WriterReceive, WriterDone, OtherPush, Read, HandlerSends,
         HandlerPushes, AppReceive, vars, connection, bounds
<1> QED  BY <1>1, <1>2, <1>3, <1>4

\* Nothing of a connection is left when the next one is made.
LEMMA FreshHolds == Spec => []FreshInv
<1>1. Init => FreshInv
  <2>1. ASSUME Init, NEW packet \in ToBroker PROVE ~Underway(packet)
    BY <2>1, NoneIsNoPacket DEF Init, Underway
  <2> QED  BY <2>1 DEF Init, FreshInv
<1>2. TypeOK /\ FreshInv /\ [Next]_vars => FreshInv'
  <2> SUFFICES ASSUME TypeOK, FreshInv, [Next]_vars PROVE FreshInv'
    OBVIOUS
  <2>1. CASE Connect
    <3>1. /\ slot' = None /\ outgoing' = None
          /\ written' = << >> /\ steps' = << >> /\ inbox' = << >>
      BY <2>1 DEF Connect, TypeOK, OnlyInSession, Connected
    <3> QED  BY <3>1, NoneIsNoPacket DEF FreshInv, Underway
  <2>2. CASE ~Connect
    <3>0. \A packet : OfThisConnection(packet) => OfThisConnection(packet)'
      BY <2>2, InboxSteps DEF OfThisConnection
    <3>1. \A i \in DOMAIN inbox' :
            OnRequest(inbox'[i]) => <<inbox'[i], sessions'>> \in offered'
      <4>0. inbox \in Seq(FromBroker)
        BY DEF TypeOK, ConnectionTyped
      <4>1. CASE inbox' \in {inbox, << >>}
        BY <2>2, <4>1, InboxSteps DEF FreshInv
      <4>2. CASE inbox # << >> /\ inbox' = Tail(inbox)
        BY <2>2, <4>0, <4>2, Taking, InboxSteps DEF FreshInv
      <4>3. ASSUME NEW packet \in FromBroker, inbox' = Append(inbox, packet),
                   OnRequest(packet) => <<packet, sessions>> \in offered'
            PROVE  \A i \in DOMAIN inbox' :
                     OnRequest(inbox'[i]) => <<inbox'[i], sessions'>> \in offered'
        <5> SUFFICES ASSUME NEW i \in DOMAIN inbox', OnRequest(inbox'[i])
                     PROVE  <<inbox'[i], sessions'>> \in offered'
          OBVIOUS
        <5>0. sessions' = sessions /\ offered \subseteq offered'
          BY <2>2, InboxSteps
        <5>1. CASE i = Len(inbox) + 1
          <6>1. inbox'[i] = packet
            BY <4>0, <4>3, <5>1, Adding
          <6> QED  BY <4>3, <5>0, <6>1
        <5>2. CASE i \in DOMAIN inbox
          BY <4>0, <4>3, <5>0, <5>2, Adding DEF FreshInv
        <5>3. i \in DOMAIN inbox \/ i = Len(inbox) + 1
          BY <4>0, <4>3, Adding
        <5> QED  BY <5>1, <5>2, <5>3
      <4> QED  BY <2>2, <4>1, <4>2, <4>3, InboxSteps
    <3>2. steps \in Seq(Awaits) /\ written \in Seq(ToBroker)
      BY DEF TypeOK, ConnectionTyped
    <3> DEFINE Rest == /\ \A packet \in ToBroker : Underway(packet)' => OfThisConnection(packet)'
                       /\ \A i \in DOMAIN steps' :
                            steps'[i][1] = "push" => OfThisConnection(steps[i][2])'
                       /\ slot' # None => slot'[1] # "CONNECT"
                       /\ outgoing' # None => outgoing'[1] # "CONNECT"
                       /\ \A i \in DOMAIN written' : (written'[i][1] = "CONNECT") = (i = 1)
    <3> SUFFICES Rest
      BY <3>1 DEF FreshInv
    <3>a. \A packet : packet[1] = "CONNECT" => OfThisConnection(packet)'
      BY DEF OfThisConnection
    <3>b. ASSUME UNCHANGED steps
          PROVE  \A i \in DOMAIN steps' :
                   steps'[i][1] = "push" => OfThisConnection(steps[i][2])'
      BY <3>0, <3>b DEF FreshInv
    <3>c. ASSUME steps # << >>, steps' = Tail(steps)
          PROVE  \A i \in DOMAIN steps' :
                   steps'[i][1] = "push" => OfThisConnection(steps[i][2])'
      BY <3>0, <3>2, <3>c, Taking DEF FreshInv
    <3>3. CASE UNCHANGED <<slot, outgoing, written, steps>>
      <4>1. \A packet \in ToBroker : Underway(packet)' => OfThisConnection(packet)'
        BY <3>0, <3>3 DEF FreshInv, Underway
      <4> QED  BY <3>b, <3>3, <4>1 DEF FreshInv
    <3>4. CASE UNCHANGED steps /\ (WriteConnect \/ WriterReceive \/ WriterDone)
      <4>1. \A packet \in ToBroker : Underway(packet)' => OfThisConnection(packet)'
        BY <3>0, <3>a, <3>4, UnderwaySteps DEF FreshInv
      <4>2. /\ slot' # None => slot'[1] # "CONNECT"
            /\ outgoing' # None => outgoing'[1] # "CONNECT"
        BY <3>4 DEF WriteConnect, WriterReceive, WriterDone, FreshInv
      <4>3. \A i \in DOMAIN written' : (written'[i][1] = "CONNECT") = (i = 1)
        <5>1. CASE WriteConnect
          BY <5>1 DEF WriteConnect, Packet
        <5>2. CASE WriterReceive
          BY <5>2 DEF WriterReceive, FreshInv
        <5>3. CASE WriterDone
          <6>1. outgoing \in ToBroker /\ outgoing[1] # "CONNECT" /\ written # << >>
            BY <5>3 DEF WriterDone, FreshInv, TypeOK, ConnectionTyped, OnlyInSession, Connected
          <6>2. Len(written) \in Nat /\ Len(written) > 0
            BY <3>2, <6>1
          <6>3. ASSUME NEW i \in DOMAIN written'
                PROVE  (written'[i][1] = "CONNECT") = (i = 1)
            <7>1. CASE i = Len(written) + 1
              BY <3>2, <5>3, <6>1, <6>2, <7>1, Adding DEF WriterDone
            <7>2. CASE i \in DOMAIN written
              BY <3>2, <5>3, <6>1, <7>2, Adding DEF WriterDone, FreshInv
            <7> QED  BY <3>2, <5>3, <6>1, <6>3, <7>1, <7>2, Adding DEF WriterDone
          <6> QED  BY <6>3
        <5> QED  BY <3>4, <5>1, <5>2, <5>3
      <4> QED  BY <3>b, <3>4, <4>1, <4>2, <4>3
    <3>d. ASSUME NEW other, Pushed(other), UNCHANGED <<outgoing, written>>,
                 OfThisConnection(other), other[1] # "CONNECT"
          PROVE  /\ \A packet \in ToBroker : Underway(packet)' => OfThisConnection(packet)'
                 /\ slot' # None => slot'[1] # "CONNECT"
                 /\ outgoing' # None => outgoing'[1] # "CONNECT"
                 /\ \A i \in DOMAIN written' : (written'[i][1] = "CONNECT") = (i = 1)
      <4>1. \A packet \in ToBroker : Underway(packet)' => OfThisConnection(packet)'
        BY <3>0, <3>a, <3>d, UnderwaySteps DEF FreshInv
      <4> QED  BY <3>d, <4>1 DEF FreshInv, Pushed
    <3>5. ASSUME UNCHANGED <<outgoing, written, steps>>,
                 NEW a \in Others, Pushed(Packet("OTHER", a))
          PROVE  Rest
      <4>1. OfThisConnection(Packet("OTHER", a)) /\ Packet("OTHER", a)[1] # "CONNECT"
        BY DEF OfThisConnection, Packet
      <4> QED  BY <3>b, <3>d, <3>5, <4>1
    <3>6. CASE UNCHANGED <<slot, outgoing, written>> /\ Read
      <4>1. \A packet \in ToBroker : Underway(packet)' => OfThisConnection(packet)'
        BY <3>0, <3>6 DEF FreshInv, Underway
      <4>2. /\ Head(inbox) \in FromBroker /\ Head(inbox)[1] # "REFUSED"
            /\ steps' = Handler(Head(inbox))
            /\ Head(inbox)[1] = "PUBLISH" => <<Head(inbox), sessions>> \in offered
        BY <3>6, Taking DEF Read, TypeOK, ConnectionTyped, FreshInv, OnRequest
      <4>3. ASSUME NEW i \in DOMAIN steps', steps'[i][1] = "push"
            PROVE  OfThisConnection(steps'[i][2])
        <5>1. CASE \E a : steps'[i] \in {Push("PUBREL", a), Push("SUBSCRIBE", a)}
          BY <5>1 DEF Push, Packet, OfThisConnection
        <5>2. ASSUME NEW m \in Inbound, Head(inbox) = Packet("PUBLISH", m),
                     steps' = Publishing(m)
              PROVE  OfThisConnection(steps'[i][2])
          <6>1. steps'[i] \in {Push("PUBACK", m), Push("PUBREC", m)}
            BY <4>3, <5>2, PublishingParts DEF Tell
          <6>2. <<Packet("PUBLISH", m), sessions>> \in offered
            BY <4>2, <5>2 DEF Packet
          <6> QED  BY <6>1, <6>2 DEF Push, Packet, OfThisConnection
        <5>3. ASSUME steps' = Subscribing(Topics)
              PROVE  \E a : steps'[i] = Push("SUBSCRIBE", a)
          BY <4>3, <5>3, SubscribingParts DEF Tell
        <5> QED  BY <4>2, <5>1, <5>2, <5>3, HandlerParts
      <4> QED  BY <3>0, <3>6, <4>1, <4>3 DEF FreshInv
    <3>7. CASE UNCHANGED <<slot, outgoing, written>> /\ HandlerSends
      <4>1. \A packet \in ToBroker : Underway(packet)' => OfThisConnection(packet)'
        BY <3>0, <3>7 DEF FreshInv, Underway
      <4> QED  BY <3>c, <3>7, <4>1 DEF FreshInv, HandlerSends
    <3>8. CASE UNCHANGED <<outgoing, written>> /\ HandlerPushes
      <4>1. Head(steps) \in Awaits /\ Head(steps) = steps[1] /\ 1 \in DOMAIN steps
        BY <3>2, <3>8, Taking DEF HandlerPushes
      <4>2. OfThisConnection(Head(steps)[2]) /\ Head(steps)[2][1] # "CONNECT"
        BY <3>8, <4>1, AwaitsParts DEF HandlerPushes, FreshInv
      <4> QED  BY <3>c, <3>d, <3>8, <4>2 DEF HandlerPushes
    <3>9. ASSUME NEW how \in Ends, EndSession(how) PROVE Rest
      <4>1. \A packet \in ToBroker : Underway(packet)' => OfThisConnection(packet)'
        BY <3>a, <3>9, UnderwaySteps
      <4> QED  BY <3>9, <4>1 DEF EndSession
    <3> QED  BY <3>3, <3>4, <3>5, <3>6, <3>7, <3>8, <3>9, ConnectionSteps
  <2> QED  BY <2>1, <2>2
<1> QED  BY <1>1, <1>2, TypeCorrect, PTL DEF Spec

\* Each connection starts with one CONNECT, and no answer to a packet of an
\* earlier connection is written to it: nothing of the queue, of the handler or
\* of the write loop outlives the connection it was meant for.
THEOREM NeverStale == Spec => []NothingStaleWritten
<1>1. TypeOK /\ FreshInv => NothingStaleWritten
  <2> SUFFICES ASSUME TypeOK, FreshInv, NEW i \in DOMAIN written
               PROVE  OfThisConnection(written[i])
    BY DEF FreshInv, NothingStaleWritten, OfThisConnection
  <2>1. written[i] \in ToBroker
    BY DEF TypeOK, ConnectionTyped
  <2> QED  BY <2>1 DEF FreshInv, Underway
<1> QED  BY <1>1, FreshHolds, TypeCorrect, PTL

(***************************************************************************)
(* What the application is told.                                           *)
(***************************************************************************)

\* The application was told Connected, and not Disconnected since.
Told ==
  \E j \in DOMAIN log :
    /\ log[j][1] = "Connected"
    /\ \A k \in j .. Len(log) : log[k][1] # "Disconnected"

NoConnack == \A i \in DOMAIN inbox : inbox[i][1] # "CONNACK"

\* On an accepted connection CONNACK is to be read, or its handler has to tell
\* Connected, after nothing but pushes, or has told it.
ConnackUnread ==
  /\ ~Told /\ steps = << >> /\ inbox # << >>
  /\ \A i \in DOMAIN inbox : (inbox[i][1] = "CONNACK") = (i = 1)

ConnackHandled ==
  /\ ~Told /\ NoConnack /\ steps # << >>
  /\ steps[Len(steps)] = Tell("Connected", None)
  /\ \A i \in DOMAIN steps : steps[i][1] = "data" => i = Len(steps)

ConnectedTold ==
  /\ Told /\ NoConnack
  /\ \A i \in DOMAIN steps :
       steps[i][1] = "data" => steps[i][2][1] \in {"Publish", "HomeAssistantOnline"}

ToldInv ==
  /\ EventsInOrder
  /\ phase \in {"backoff", "connecting"} \/ (phase = "session" /\ broker # "accepted") => ~Told
  /\ broker = "refused" => steps = << >> /\ \A i \in DOMAIN inbox : inbox[i][1] = "REFUSED"
  /\ broker = "accepted" => ConnackUnread \/ ConnackHandled \/ ConnectedTold

\* One more event: it keeps the order if it fits what was told before.
LEMMA TellingOne ==
  ASSUME log \in Seq(Events), EventsInOrder, NEW e \in Events, log' = Append(log, e)
  PROVE  /\ e[1] = "Disconnected" => EventsInOrder' /\ ~Told'
         /\ e[1] = "Connected" /\ ~Told => EventsInOrder' /\ Told'
         /\ e[1] \in {"Publish", "HomeAssistantOnline"} /\ Told => EventsInOrder' /\ Told'
<1>0. PICK n \in Nat : n = Len(log)
  OBVIOUS
<1> DEFINE connects(i) == {j \in 1 .. i : /\ log[j][1] = "Connected"
                                          /\ \A k \in j .. i : log[k][1] # "Disconnected"}
           InOrder(i) == /\ log[i][1] \in {"Publish", "HomeAssistantOnline"} => connects(i) # {}
                         /\ log[i][1] = "Connected" => connects(i) = {i}
<1>1. /\ n \in Nat /\ DOMAIN log = 1 .. n /\ DOMAIN log' = 1 .. n + 1 /\ Len(log') = n + 1
      /\ log'[n + 1] = e /\ \A i \in 1 .. n : log'[i] = log[i]
  BY <1>0, Adding
<1>2. \A i \in 1 .. n : InOrder(i)
  BY <1>1 DEF EventsInOrder
<1>3. \A i \in 1 .. n : (connects(i))' = connects(i)
  BY <1>1
<1>4. \A i \in 1 .. n : InOrder(i)'
  BY <1>1, <1>2, <1>3
<1>5. (\A i \in 1 .. n + 1 : InOrder(i)') => EventsInOrder'
  BY <1>1 DEF EventsInOrder
<1>6. InOrder(n + 1)' => EventsInOrder'
  BY <1>1, <1>4, <1>5
<1>7. ASSUME e[1] = "Disconnected" PROVE EventsInOrder' /\ ~Told'
  <2>1. ~Told'
    BY <1>1, <1>7 DEF Told
  <2>2. InOrder(n + 1)'
    BY <1>1, <1>7
  <2> QED  BY <1>6, <2>1, <2>2
<1>8. ASSUME e[1] = "Connected", ~Told PROVE EventsInOrder' /\ Told'
  <2>1. Told'
    BY <1>1, <1>8 DEF Told
  <2>2. (connects(n + 1))' = {n + 1}
    BY <1>1, <1>8 DEF Told
  <2>3. InOrder(n + 1)'
    BY <1>1, <1>8, <2>2
  <2> QED  BY <1>6, <2>1, <2>3
<1>9. ASSUME e[1] \in {"Publish", "HomeAssistantOnline"}, Told PROVE EventsInOrder' /\ Told'
  <2>1. PICK j \in 1 .. n : /\ log[j][1] = "Connected"
                            /\ \A k \in j .. n : log[k][1] # "Disconnected"
    BY <1>1, <1>9 DEF Told
  <2>2. j \in 1 .. n + 1 /\ log'[j][1] = "Connected"
          /\ \A k \in j .. n + 1 : log'[k][1] # "Disconnected"
    BY <1>1, <1>9, <2>1
  <2>3. Told'
    BY <1>1, <2>2 DEF Told
  <2>4. InOrder(n + 1)'
    BY <1>1, <1>9, <2>2
  <2> QED  BY <1>6, <2>3, <2>4
<1> QED  BY <1>7, <1>8, <1>9

\* The application gets Connected once per connection and messages only between
\* a Connected and the next Disconnected.
THEOREM EventsMakeSense == Spec => []EventsInOrder
<1>1. Init => ToldInv
  BY DEF Init, ToldInv, EventsInOrder, Told
<1>2. TypeOK /\ ToldInv /\ [Next]_vars => ToldInv'
  <2> SUFFICES ASSUME TypeOK, ToldInv, [Next]_vars PROVE ToldInv'
    OBVIOUS
  <2>a. /\ log \in Seq(Events) /\ steps \in Seq(Awaits) /\ inbox \in Seq(FromBroker)
        /\ broker \in {"none", "accepted", "refused"}
    BY DEF TypeOK, ConnectionTyped, ChannelTyped
  <2>b. ASSUME UNCHANGED log PROVE (Told' = Told) /\ (EventsInOrder' = EventsInOrder)
    BY <2>b DEF Told, EventsInOrder
  <2>c. ASSUME UNCHANGED <<log, steps, inbox>>
        PROVE  /\ ConnackUnread' = ConnackUnread
               /\ ConnackHandled' = ConnackHandled
               /\ ConnectedTold' = ConnectedTold
    BY <2>b, <2>c DEF ConnackUnread, ConnackHandled, ConnectedTold, NoConnack
  <2>1. CASE UNCHANGED <<phase, broker, steps, inbox, log>>
    BY <2>b, <2>c, <2>1 DEF ToldInv
  <2>2. CASE BackOff \/ ConnectFails \/ Connect
    <3>1. UNCHANGED <<broker, steps, inbox, log>> /\ phase \in {"backoff", "connecting"}
      BY <2>2 DEF BackOff, ConnectFails, Connect, connection, channel
    <3>2. broker = "none"
      BY <3>1 DEF TypeOK, OnlyInSession
    <3> QED  BY <2>b, <3>1, <3>2 DEF ToldInv
  <2>3. ASSUME NEW how \in Ends, EndSession(how) PROVE ToldInv'
    BY <2>b, <2>3 DEF EndSession, channel, ToldInv
  <2>4. CASE Report
    <3>1. UNCHANGED <<broker, steps, inbox>> /\ phase = "report" /\ phase' = "backoff"
      BY <2>4 DEF Report, connection
    <3>2. broker' = "none"
      BY <3>1 DEF TypeOK, OnlyInSession
    <3>3. EventsInOrder' /\ ~Told'
      BY <2>4, <2>a, Tellable, TellingOne DEF Report, SendData, ToldInv
    <3> QED  BY <3>2, <3>3 DEF ToldInv
  <2>5. CASE Read
    <3>1. /\ steps = << >> /\ inbox # << >> /\ Head(inbox)[1] # "REFUSED"
          /\ inbox' = Tail(inbox) /\ steps' = Handler(Head(inbox))
          /\ UNCHANGED <<phase, broker, log>>
      BY <2>5 DEF Read, attempt, channel
    <3>2. /\ Head(inbox) \in FromBroker /\ Head(inbox) = inbox[1] /\ 1 \in DOMAIN inbox
          /\ \A i \in DOMAIN inbox' : i \in Nat /\ i > 0
                 /\ i + 1 \in DOMAIN inbox /\ inbox'[i] = inbox[i + 1]
      BY <2>a, <3>1, Taking
    <3>3. broker = "accepted" /\ ~ConnackHandled
      BY <2>a, <3>1, <3>2 DEF TypeOK, OnlyInSession, ToldInv, ConnackHandled
    <3>4. CASE ConnackUnread
      <4>1. Head(inbox)[1] = "CONNACK" /\ NoConnack'
        BY <3>2, <3>4 DEF ConnackUnread, NoConnack
      <4>2. steps' = Subscribing(Topics)
        BY <3>1, <3>2, <4>1, HandlerParts
      <4>3. PICK n \in Nat : n = Len(Topics)
        BY SubscribingParts
      <4>4. /\ steps' \in Seq(Awaits) /\ Len(steps') = n + 1
            /\ steps'[n + 1] = Tell("Connected", None)
            /\ \A i \in 1 .. n : steps'[i][1] = "push"
        BY <4>2, <4>3, SubscribingParts DEF Push
      <4>5. ConnackHandled'
        BY <2>b, <3>1, <3>4, <4>1, <4>4 DEF ConnackUnread, ConnackHandled
      <4> QED  BY <2>b, <3>1, <3>3, <4>5 DEF ToldInv
    <3>5. CASE ConnectedTold
      <4>1. Head(inbox)[1] # "CONNACK" /\ NoConnack'
        BY <3>2, <3>5 DEF ConnectedTold, NoConnack
      <4>2. ASSUME NEW i \in DOMAIN steps', steps'[i][1] = "data"
            PROVE  steps'[i][2][1] \in {"Publish", "HomeAssistantOnline"}
        <5>1. ~ \E a : steps'[i] = Push("PUBREL", a)
          BY <4>2 DEF Push
        <5>2. PICK m \in Inbound : steps' = Publishing(m)
          BY <3>1, <3>2, <4>1, <4>2, <5>1, HandlerParts
        <5>3. steps'[i] \notin {Push("PUBACK", m), Push("PUBREC", m)}
          BY <4>2 DEF Push
        <5>4. steps'[i] \in {Tell("Publish", m), Tell("HomeAssistantOnline", m)}
          BY <4>2, <5>2, <5>3, PublishingParts
        <5> QED  BY <5>4 DEF Tell
      <4>3. ConnectedTold'
        BY <2>b, <3>1, <3>5, <4>1, <4>2 DEF ConnectedTold
      <4> QED  BY <2>b, <3>1, <3>3, <4>3 DEF ToldInv
    <3> QED  BY <3>3, <3>4, <3>5 DEF ToldInv
  <2>6. CASE HandlerSends
    <3>1. /\ steps # << >> /\ Head(steps)[1] = "data" /\ steps' = Tail(steps)
          /\ log' = Append(log, Head(steps)[2])
          /\ UNCHANGED <<phase, broker, inbox>>
      BY <2>6 DEF HandlerSends, SendData, attempt
    <3>2. /\ Head(steps) \in Awaits /\ Head(steps) = steps[1] /\ 1 \in DOMAIN steps
          /\ \A i \in DOMAIN steps' : i + 1 \in DOMAIN steps /\ steps'[i] = steps[i + 1]
          /\ steps' \in Seq(Awaits) /\ Len(steps') = Len(steps) - 1
      BY <2>a, <3>1, Taking
    <3>3. Head(steps)[2] \in Events
      BY <3>1, <3>2, AwaitsParts
    <3>4. broker = "accepted" /\ ~ConnackUnread /\ phase = "session"
      BY <2>a, <3>1 DEF TypeOK, OnlyInSession, ToldInv, ConnackUnread
    <3>5. CASE ConnackHandled
      <4>1. Len(steps) = 1 /\ Head(steps) = Tell("Connected", None)
        BY <2>a, <3>1, <3>2, <3>5 DEF ConnackHandled
      <4>2. EventsInOrder' /\ Told'
        BY <2>a, <3>1, <3>3, <3>5, <4>1, TellingOne DEF ToldInv, ConnackHandled, Tell
      <4>3. DOMAIN steps' = {}
        BY <3>2, <4>1
      <4>4. ConnectedTold'
        BY <3>1, <3>5, <4>2, <4>3 DEF ConnackHandled, ConnectedTold, NoConnack
      <4> QED  BY <3>1, <3>4, <4>2, <4>4 DEF ToldInv
    <3>6. CASE ConnectedTold
      <4>1. Head(steps)[2][1] \in {"Publish", "HomeAssistantOnline"}
        BY <3>1, <3>2, <3>6 DEF ConnectedTold
      <4>2. EventsInOrder' /\ Told'
        BY <2>a, <3>1, <3>3, <3>6, <4>1, TellingOne DEF ToldInv, ConnectedTold
      <4>3. ConnectedTold'
        BY <3>1, <3>2, <3>6, <4>2 DEF ConnectedTold, NoConnack
      <4> QED  BY <3>1, <3>4, <4>2, <4>3 DEF ToldInv
    <3> QED  BY <3>4, <3>5, <3>6 DEF ToldInv
  <2>7. CASE HandlerPushes
    <3>1. /\ steps # << >> /\ Head(steps)[1] = "push" /\ steps' = Tail(steps)
          /\ UNCHANGED <<phase, broker, inbox, log>>
      BY <2>7 DEF HandlerPushes, attempt, channel
    <3>2. /\ Head(steps) = steps[1] /\ 1 \in DOMAIN steps
          /\ \A i \in DOMAIN steps' : i \in Nat /\ i + 1 \in DOMAIN steps
                                        /\ steps'[i] = steps[i + 1]
          /\ steps' \in Seq(Awaits) /\ Len(steps') = Len(steps) - 1
          /\ Len(steps) \in Nat /\ Len(steps) > 0
      BY <2>a, <3>1, Taking
    <3>3. broker = "accepted" /\ ~ConnackUnread
      BY <2>a, <3>1 DEF TypeOK, OnlyInSession, ToldInv, ConnackUnread
    <3>4. CASE ConnackHandled
      <4>1. Len(steps) # 1
        BY <3>1, <3>2, <3>4 DEF ConnackHandled, Tell
      <4>2. Len(steps') \in DOMAIN steps' /\ steps' # << >>
        BY <3>2, <4>1
      <4>3. steps'[Len(steps')] = Tell("Connected", None)
        BY <3>2, <3>4, <4>2 DEF ConnackHandled
      <4>4. \A i \in DOMAIN steps' : steps'[i][1] = "data" => i = Len(steps')
        BY <3>2, <3>4 DEF ConnackHandled
      <4>5. ConnackHandled'
        BY <2>b, <3>1, <3>4, <4>2, <4>3, <4>4 DEF ConnackHandled, NoConnack
      <4> QED  BY <2>b, <3>1, <3>3, <4>5 DEF ToldInv
    <3>5. CASE ConnectedTold
      <4>1. ConnectedTold'
        BY <2>b, <3>1, <3>2, <3>5 DEF ConnectedTold, NoConnack
      <4> QED  BY <2>b, <3>1, <3>3, <4>1 DEF ToldInv
    <3> QED  BY <3>3, <3>4, <3>5 DEF ToldInv
  <2>8. ASSUME NEW accepts \in BOOLEAN, BrokerAnswersConnect(accepts)
        PROVE  ToldInv'
    <3>1. /\ broker = "none" /\ steps = << >> /\ inbox = << >> /\ phase = "session"
          /\ UNCHANGED <<phase, steps, log>>
      BY <2>8 DEF BrokerAnswersConnect, TypeOK, OnlyInSession, Connected, Wrote, attempt, channel
    <3>2. ~Told' /\ EventsInOrder'
      BY <2>b, <3>1 DEF ToldInv
    <3>3. CASE accepts
      <4>1. broker' = "accepted" /\ inbox' = <<Packet("CONNACK", None)>>
        BY <2>8, <3>1, <3>3 DEF BrokerAnswersConnect
      <4>2. ConnackUnread'
        BY <3>1, <3>2, <4>1 DEF ConnackUnread, Packet
      <4> QED  BY <3>1, <3>2, <4>1, <4>2 DEF ToldInv
    <3>4. CASE ~accepts
      <4>1. broker' = "refused" /\ inbox' = <<Packet("REFUSED", None)>>
        BY <2>8, <3>1, <3>4 DEF BrokerAnswersConnect
      <4> QED  BY <3>1, <3>2, <4>1 DEF ToldInv, Packet
    <3> QED  BY <3>3, <3>4
  <2>9. ASSUME NEW packet \in BrokerPackets, BrokerSends(packet) PROVE ToldInv'
    <3>1. /\ broker = "accepted" /\ UNCHANGED <<phase, broker, steps, log>>
          /\ inbox' = Append(inbox, packet)
      BY <2>9 DEF BrokerSends, attempt, channel
    <3>2. packet \in FromBroker /\ packet[1] # "CONNACK"
      BY BrokerPacketsTyped, ConstantsAssumption DEF BrokerPackets, Packet
    <3>3. /\ Len(inbox) \in Nat /\ DOMAIN inbox = 1 .. Len(inbox)
          /\ DOMAIN inbox' = 1 .. Len(inbox) + 1
          /\ inbox'[Len(inbox) + 1] = packet /\ inbox' # << >>
          /\ \A i \in DOMAIN inbox : inbox'[i] = inbox[i]
          /\ inbox # << >> => Len(inbox) > 0
      BY <2>a, <3>1, <3>2, Adding
    <3>4. CASE ConnackUnread
      <4>1. ConnackUnread'
        BY <2>b, <3>1, <3>2, <3>3, <3>4 DEF ConnackUnread
      <4> QED  BY <2>b, <3>1, <4>1 DEF ToldInv
    <3>5. CASE ConnackHandled
      <4>1. ConnackHandled'
        BY <2>b, <3>1, <3>2, <3>3, <3>5 DEF ConnackHandled, NoConnack
      <4> QED  BY <2>b, <3>1, <4>1 DEF ToldInv
    <3>6. CASE ConnectedTold
      <4>1. ConnectedTold'
        BY <2>b, <3>1, <3>2, <3>3, <3>6 DEF ConnectedTold, NoConnack
      <4> QED  BY <2>b, <3>1, <4>1 DEF ToldInv
    <3> QED  BY <3>1, <3>4, <3>5, <3>6 DEF ToldInv
  <2>d. \/ UNCHANGED <<phase, broker, steps, inbox, log>>
        \/ BackOff \/ ConnectFails \/ Connect \/ Report \/ Read \/ HandlerSends \/ HandlerPushes
        \/ \E how \in Ends : EndSession(how)
        \/ \E accepts \in BOOLEAN : BrokerAnswersConnect(accepts)
        \/ \E packet \in BrokerPackets : BrokerSends(packet)
    BY EndsAre
       DEF Next, Dropped, ReadRefusal, WriteConnect, WriterReceive, WriterDone, OtherPush,
           AppReceive, vars, attempt, connection, channel
  <2> QED
    BY <2>1, <2>2, <2>3, <2>4, <2>5, <2>6, <2>7, <2>8, <2>9, <2>d
<1>3. ToldInv => EventsInOrder
  BY DEF ToldInv
<1> QED  BY <1>1, <1>2, <1>3, TypeCorrect, PTL DEF Spec

\* While a handler has Connected to tell, which comes last, each subscription
\* is under way or to be pushed before.
SubscribedInv ==
  \A i \in DOMAIN steps : steps[i] = Tell("Connected", None) =>
    /\ i = Len(steps)
    /\ \A t \in DOMAIN Topics :
         \/ Underway(Packet("SUBSCRIBE", Topics[t]))
         \/ \E j \in DOMAIN steps : steps[j] = Push("SUBSCRIBE", Topics[t])

\* Every topic is subscribed to before the application is told.
LEMMA SubscribedHolds == Spec => []SubscribedInv
<1>0. \A t \in DOMAIN Topics :
        /\ Packet("SUBSCRIBE", Topics[t]) \in ToBroker
        /\ Packet("SUBSCRIBE", Topics[t])[1] # "CONNECT"
  <2>1. \A t \in DOMAIN Topics : Topics[t] \in Range(Topics)
    BY ConstantsAssumption DEF Range
  <2> QED  BY <2>1 DEF ToBroker, Packet
<1>1. Init => SubscribedInv
  BY DEF Init, SubscribedInv
<1>2. TypeOK /\ SubscribedInv /\ [Next]_vars => SubscribedInv'
  <2> SUFFICES ASSUME TypeOK, SubscribedInv, [Next]_vars,
                      NEW i \in DOMAIN steps', steps'[i] = Tell("Connected", None)
               PROVE  /\ i = Len(steps')
                      /\ \A t \in DOMAIN Topics :
                           \/ Underway(Packet("SUBSCRIBE", Topics[t]))'
                           \/ \E j \in DOMAIN steps' : steps'[j] = Push("SUBSCRIBE", Topics[t])
    BY DEF SubscribedInv, Underway, Push, Packet, Tell
  <2>a. steps \in Seq(Awaits)
    BY DEF TypeOK, ConnectionTyped
  <2>1. CASE UNCHANGED <<slot, outgoing, written, steps>>
    BY <2>1 DEF SubscribedInv, Underway
  <2>2. CASE UNCHANGED steps /\ (WriteConnect \/ WriterReceive \/ WriterDone)
    BY <1>0, <2>2, UnderwaySteps DEF SubscribedInv
  <2>3. ASSUME UNCHANGED <<outgoing, written, steps>>,
               NEW a \in Others, Pushed(Packet("OTHER", a))
        PROVE  \A t \in DOMAIN Topics : Underway(Packet("SUBSCRIBE", Topics[t]))
                                          => Underway(Packet("SUBSCRIBE", Topics[t]))'
    BY <1>0, <2>3, UnderwaySteps
  <2>4. CASE Read
    <3>1. Head(inbox) \in FromBroker /\ Head(inbox)[1] # "REFUSED"
      BY <2>4, Taking DEF Read, TypeOK, ConnectionTyped
    <3>2. steps' = Handler(Head(inbox))
      BY <2>4 DEF Read
    <3>3. ~ \E a : steps'[i] \in {Push("PUBREL", a), Push("PUBACK", a), Push("PUBREC", a),
                                  Push("SUBSCRIBE", a),
                                  Tell("Publish", a), Tell("HomeAssistantOnline", a)}
      BY DEF Push, Tell
    <3>4. steps' = Subscribing(Topics)
      <4>1. \A m \in Inbound : steps' # Publishing(m)
        BY <3>3, PublishingParts
      <4> QED  BY <3>1, <3>2, <3>3, <4>1, HandlerParts
    <3>5. /\ Len(Topics) \in Nat /\ DOMAIN Topics = 1 .. Len(Topics)
          /\ steps' \in Seq(Awaits) /\ Len(steps') = Len(Topics) + 1
          /\ \A t \in 1 .. Len(Topics) : steps'[t] = Push("SUBSCRIBE", Topics[t])
      BY <3>4, SubscribingParts
    <3>6. DOMAIN steps' = 1 .. Len(Topics) + 1
      BY <3>5
    <3>7. i = Len(steps')
      BY <3>3, <3>5, <3>6
    <3> QED  BY <3>5, <3>6, <3>7
  <2>b. ASSUME steps # << >>, steps' = Tail(steps)
        PROVE  /\ i = Len(steps')
               /\ \A t \in DOMAIN Topics :
                    \/ Underway(Packet("SUBSCRIBE", Topics[t]))
                    \/ Head(steps) = Push("SUBSCRIBE", Topics[t])
                    \/ \E j \in DOMAIN steps' : steps'[j] = Push("SUBSCRIBE", Topics[t])
    <3>1. /\ i \in Nat /\ i + 1 \in DOMAIN steps /\ steps[i + 1] = Tell("Connected", None)
          /\ Len(steps') = Len(steps) - 1 /\ Head(steps) = steps[1]
          /\ steps' \in Seq(Awaits) /\ Len(steps) \in Nat
          /\ \A j \in DOMAIN steps' : steps'[j] = steps[j + 1]
      BY <2>a, <2>b, Taking
    <3>2. i + 1 = Len(steps)
      BY <3>1 DEF SubscribedInv
    <3>3. ASSUME NEW t \in DOMAIN Topics, NEW j \in DOMAIN steps,
                 steps[j] = Push("SUBSCRIBE", Topics[t]), j # 1
          PROVE  \E k \in DOMAIN steps' : steps'[k] = Push("SUBSCRIBE", Topics[t])
      <4>1. j - 1 \in DOMAIN steps' /\ steps'[j - 1] = steps[j]
        BY <2>a, <3>1, <3>3
      <4> QED  BY <3>3, <4>1
    <3> QED  BY <3>1, <3>2, <3>3 DEF SubscribedInv
  <2>5. CASE UNCHANGED <<slot, outgoing, written>> /\ HandlerSends
    <3>1. \A t : Head(steps) # Push("SUBSCRIBE", t)
      BY <2>5 DEF HandlerSends, Push
    <3> QED  BY <2>b, <2>5, <3>1 DEF HandlerSends, Underway
  <2>6. CASE UNCHANGED <<outgoing, written>> /\ HandlerPushes
    <3>1. Connected
      BY <2>6 DEF HandlerPushes, TypeOK, OnlyInSession
    <3>2. \A t \in DOMAIN Topics :
            /\ Underway(Packet("SUBSCRIBE", Topics[t]))
                 => Underway(Packet("SUBSCRIBE", Topics[t]))'
            /\ Packet("SUBSCRIBE", Topics[t]) = Head(steps)[2]
                 => Underway(Packet("SUBSCRIBE", Topics[t]))'
      BY <1>0, <2>6, <3>1, UnderwaySteps DEF HandlerPushes
    <3>3. \A t : Head(steps) = Push("SUBSCRIBE", t) => Head(steps)[2] = Packet("SUBSCRIBE", t)
      BY DEF Push
    <3>4. steps # << >> /\ steps' = Tail(steps)
      BY <2>6 DEF HandlerPushes
    <3> QED  BY <2>b, <3>2, <3>3, <3>4
  <2>7. ASSUME NEW how \in Ends, EndSession(how) PROVE FALSE
    BY <2>7 DEF EndSession
  <2> QED
    BY <2>1, <2>2, <2>3, <2>4, <2>5, <2>6, <2>7, ConnectionSteps DEF SubscribedInv
<1> QED  BY <1>1, <1>2, TypeCorrect, PTL DEF Spec

\* When Connected is told, every subscription has been written or is in the
\* slot or the write loop, ahead of all that the application sends in response.
THEOREM SubscribedFirst == Spec => SubscribedBeforeConnected
<1>1. TypeOK /\ SubscribedInv /\ [Next]_vars =>
        [ log' # log /\ log'[Len(log')][1] = "Connected"
            => \A i \in DOMAIN Topics :
                 \/ Wrote("SUBSCRIBE", Topics[i])
                 \/ Packet("SUBSCRIBE", Topics[i]) \in {slot, outgoing} ]_vars
  <2> SUFFICES ASSUME TypeOK, SubscribedInv, [Next]_vars,
                      log' # log, log'[Len(log')][1] = "Connected"
               PROVE  \A t \in DOMAIN Topics : Underway(Packet("SUBSCRIBE", Topics[t]))
    BY DEF Wrote, Underway
  <2>a. log \in Seq(Events) /\ steps \in Seq(Awaits)
    BY DEF TypeOK, ConnectionTyped, ChannelTyped
  <2>1. ~Report
    <3>1. ASSUME Report PROVE log'[Len(log')] = <<"Disconnected", None>>
      BY <2>a, <3>1, Adding, Tellable DEF Report, SendData
    <3> QED  BY <3>1
  <2>2. HandlerSends
    BY <2>1, ConnectionSteps
  <2>3. /\ steps # << >> /\ Head(steps)[1] = "data" /\ Head(steps) = steps[1]
        /\ Head(steps) \in Awaits /\ 1 \in DOMAIN steps
    BY <2>a, <2>2, Taking DEF HandlerSends
  <2>4. log'[Len(log')] = Head(steps)[2] /\ Head(steps)[2] \in Events
    BY <2>a, <2>2, <2>3, Adding, AwaitsParts DEF HandlerSends, SendData
  <2>5. Head(steps)[2] = <<"Connected", None>>
    BY <2>4 DEF Events
  <2>6. steps[1] = Tell("Connected", None)
    BY <2>3, <2>5 DEF Awaits, Tell
  <2>7. Len(steps) = 1
    BY <2>3, <2>6 DEF SubscribedInv
  <2>8. \A t \in DOMAIN Topics, j \in DOMAIN steps : steps[j] # Push("SUBSCRIBE", Topics[t])
    BY <2>a, <2>3, <2>7 DEF Push
  <2> QED  BY <2>3, <2>6, <2>8 DEF SubscribedInv
<1> QED  BY <1>1, SubscribedHolds, TypeCorrect, PTL DEF Spec, SubscribedBeforeConnected


(***************************************************************************)
(* The slot is the pipe's.                                                 *)
(***************************************************************************)

\* A push that is over filled the slot, or nobody was connected.
LEMMA PushedPuts ==
  ASSUME NEW packet \in ToBroker, Pushed(packet), UNCHANGED writer
  PROVE  [Queue!Next]_Queue!queue
<1>1. Connected' <=> Connected
  BY DEF Connected
<1>2. CASE Connected
  <2>1. Queue!Put(packet)
    BY <1>1, <1>2 DEF Queue!Put, Pushed, Connected
  <2> QED  BY <2>1 DEF Queue!Next
<1>3. CASE ~Connected
  <2>1. UNCHANGED Queue!queue
    BY <1>1, <1>3 DEF Queue!queue, Pushed, Connected
  <2> QED  BY <2>1
<1> QED  BY <1>2, <1>3

\* Every step of the task treats the slot of SEND_QUEUE as the pipe does: a push of a
\* handler or of anybody else fills it only while it is empty and read from, and what
\* is in it is read by the write loop or dropped with the connection.  PipeIsSendQueue
\* says the same of ConnectedPipe.
THEOREM SlotIsSendQueue == Spec => UsesSendQueue
<1>1. Init => Queue!Init
  BY DEF Init, Queue!Init, Connected
<1>2. TypeOK /\ [Next]_vars => [Queue!Next]_Queue!queue
  <2> SUFFICES ASSUME TypeOK, [Next]_vars PROVE [Queue!Next]_Queue!queue
    OBVIOUS
  <2>1. CASE UNCHANGED <<writer, slot>>
    BY <2>1 DEF Queue!queue, Connected
  <2>2. CASE Connect
    BY <2>2 DEF Connect, Queue!queue, Connected, TypeOK, OnlyInSession
  <2>3. ASSUME NEW how, EndSession(how) PROVE [Queue!Next]_Queue!queue
    <3>1. CASE Connected
      BY <2>3, <3>1 DEF EndSession, Queue!Next, Queue!Close, Connected
    <3>2. CASE ~Connected
      BY <2>3, <3>2 DEF EndSession, Queue!queue, Connected, TypeOK, OnlyInSession
    <3> QED  BY <3>1, <3>2
  <2>4. CASE WriteConnect
    BY <2>4 DEF WriteConnect, Queue!Next, Queue!Open, Connected
  <2>5. CASE WriterReceive
    BY <2>5 DEF WriterReceive, Queue!Next, Queue!Take, Connected
  <2>6. CASE WriterDone
    BY <2>6 DEF WriterDone, Queue!queue, Connected
  <2>7. ASSUME NEW a \in Others, OtherPush(a) PROVE [Queue!Next]_Queue!queue
    <3>1. Packet("OTHER", a) \in ToBroker
      BY DEF ToBroker
    <3> QED  BY <2>7, <3>1, PushedPuts DEF OtherPush
  <2>8. CASE HandlerPushes
    <3>1. steps \in Seq(Awaits) /\ steps # << >>
      BY <2>8 DEF HandlerPushes, TypeOK, ConnectionTyped
    <3>2. Head(steps) \in Awaits
      BY <3>1
    <3>3. Head(steps)[2] \in ToBroker
      BY <2>8, <3>2, AwaitsParts DEF HandlerPushes
    <3> QED  BY <2>8, <3>3, PushedPuts DEF HandlerPushes
  <2> QED
    BY <2>1, <2>2, <2>3, <2>4, <2>5, <2>6, <2>7, <2>8
    DEF Next, vars, connection, BackOff, ConnectFails, Dropped, Report, Read, ReadRefusal,
        HandlerSends, BrokerAnswersConnect, BrokerSends, AppReceive
<1> QED  BY <1>1, <1>2, TypeCorrect, PTL DEF Spec, UsesSendQueue, Queue!Spec
=============================================================================
