------------------------- MODULE HomeAssistantProofs -------------------------
(***************************************************************************)
(* Proofs about HomeAssistant: its device is McutieTask's, Home Assistant  *)
(* that has told the device of its coming is answered, one that has not is *)
(* not if the application does just what it is asked, and an application   *)
(* that also announces itself on Connected leaves no Home Assistant        *)
(* waiting for a discovery message that nobody is going to send.           *)
(***************************************************************************)
EXTENDS HomeAssistant, SequenceTheorems, TLAPS

\* The task with its theorems.
TP == INSTANCE McutieTaskProofs WITH
        Topics <- <<HA_STATUS_TOPIC>>,
        Inbound <- Online,
        Qos <- [m \in Online |-> 0],
        Target <- [m \in Online |-> "online"],
        Others <- Discovery,
        Reply <- [a \in Discovery \cup {HA_STATUS_TOPIC} |-> None]

\* The constants are as the task assumes.
LEMMA TaskAssumptions == TP!ConstantsAssumption /\ TP!NoneIsNoPacket
<1>1. TP!Range(<<HA_STATUS_TOPIC>>) = {HA_STATUS_TOPIC}
  BY DEF TP!Range
<1>2. <<HA_STATUS_TOPIC>> \in Seq({HA_STATUS_TOPIC})
  OBVIOUS
<1>3. TP!NoneIsNoPacket
  BY <1>1, NoneIsNoPacket DEF TP!ToBroker, T!Packet, TP!Packet
<1> QED  BY <1>1, <1>2, <1>3, ConstantsAssumption

(***************************************************************************)
(* The device is McutieTask's.                                             *)
(***************************************************************************)

\* Home Assistant's "online" names one of its starts.
HomeTyped ==
  /\ starts \in 0 .. MaxStarts
  /\ home \in {"offline", "starting", "online"} /\ (home # "offline" => starts > 0)

\* Every step is a step of the task, or none.
LEMMA TaskStep ==
  ASSUME HomeTyped, [Next]_vars
  PROVE  [T!Next]_T!vars
<1>0. UNCHANGED task => UNCHANGED T!vars
  BY DEF task, T!vars, T!attempt, T!connection, T!channel, T!bounds
<1>1. CASE TaskAlone \/ Loops \/ SessionEnds \/ AppReceive \/ PublishDiscovery
  BY <1>1 DEF TaskAlone, Loops, SessionEnds, AppReceive, PublishDiscovery, T!Next
<1>2. CASE BrokerAnswersConnect
  BY <1>2 DEF BrokerAnswersConnect, T!Next
<1>3. CASE HomeOnline
  <2>1. T!Packet("PUBLISH", starts) \in T!BrokerPackets
    BY <1>3, ConstantsAssumption DEF HomeOnline, HomeTyped, Online, T!BrokerPackets
  <2> QED  BY <1>0, <1>3, <2>1 DEF HomeOnline, T!Next
<1>4. CASE BrokerReads \/ HomeStarts \/ HomeStops \/ UNCHANGED vars
  BY <1>0, <1>4 DEF BrokerReads, HomeStarts, HomeStops, vars
<1> QED  BY <1>1, <1>2, <1>3, <1>4 DEF Next

\* The types of what is outside of the task.
LEMMA HomeHolds == Spec => []HomeTyped
<1>1. Init => HomeTyped
  BY ConstantsAssumption DEF Init, HomeTyped
<1>2. HomeTyped /\ [Next]_vars => HomeTyped'
  BY ConstantsAssumption DEF HomeTyped, Next, vars, TaskAlone, Loops, SessionEnds, AppReceive,
     PublishDiscovery, BrokerAnswersConnect, BrokerReads, HomeStarts, HomeOnline, HomeStops,
     home_assistant
<1> QED  BY <1>1, <1>2, PTL DEF Spec

\* Neither the application that reacts nor Home Assistant asks anything of the task
\* that McutieTask does not know of.
THEOREM ImplementsTask == Spec => T!Spec
<1>1. Init => T!Init
  BY DEF Init
<1> QED  BY <1>1, HomeHolds, TaskStep, PTL DEF Spec, T!Spec

\* McutieTask and its theorems are instantiated apart; they are the same.
LEMMA TaskSame ==
  /\ T!Init <=> TP!Init
  /\ UNCHANGED T!vars <=> UNCHANGED TP!vars
  /\ T!BackOff <=> TP!BackOff
  /\ T!ConnectFails <=> TP!ConnectFails
  /\ T!Connect <=> TP!Connect
  /\ T!Report <=> TP!Report
  /\ T!Dropped <=> TP!Dropped
  /\ T!ReadRefusal <=> TP!ReadRefusal
  /\ T!WriteConnect <=> TP!WriteConnect
  /\ T!WriterReceive <=> TP!WriterReceive
  /\ T!WriterDone <=> TP!WriterDone
  /\ \A a : T!OtherPush(a) <=> TP!OtherPush(a)
  /\ T!HandlerPushes <=> TP!HandlerPushes
  /\ T!HandlerSends <=> TP!HandlerSends
  /\ T!Read <=> TP!Read
  /\ \A accepts : T!BrokerAnswersConnect(accepts) <=> TP!BrokerAnswersConnect(accepts)
  /\ \A packet : T!BrokerSends(packet) <=> TP!BrokerSends(packet)
  /\ T!BrokerPackets = TP!BrokerPackets
  /\ T!AppReceive <=> TP!AppReceive
<1> USE DEF T!attempt, TP!attempt, T!connection, TP!connection, T!channel, TP!channel,
            T!bounds, TP!bounds, T!Packet, TP!Packet
<1>1. T!Init <=> TP!Init
  BY DEF T!Init, TP!Init
<1>2. UNCHANGED T!vars <=> UNCHANGED TP!vars
  BY DEF T!vars, TP!vars
<1>3. /\ T!BackOff <=> TP!BackOff
      /\ T!ConnectFails <=> TP!ConnectFails
      /\ T!Connect <=> TP!Connect
      /\ T!Report <=> TP!Report
  BY DEF T!BackOff, TP!BackOff, T!ConnectFails, TP!ConnectFails, T!Connect, TP!Connect,
         T!Report, TP!Report, T!SendData, TP!SendData
<1>4. /\ T!Dropped <=> TP!Dropped
      /\ T!ReadRefusal <=> TP!ReadRefusal
  BY DEF T!Dropped, TP!Dropped, T!ReadRefusal, TP!ReadRefusal, T!EndSession, TP!EndSession,
      T!Lost, TP!Lost
<1>5. /\ T!WriteConnect <=> TP!WriteConnect
      /\ T!WriterReceive <=> TP!WriterReceive
      /\ T!WriterDone <=> TP!WriterDone
  BY DEF T!WriteConnect, TP!WriteConnect, T!WriterReceive, TP!WriterReceive,
         T!WriterDone, TP!WriterDone
<1>6. /\ \A a : T!OtherPush(a) <=> TP!OtherPush(a)
      /\ T!HandlerPushes <=> TP!HandlerPushes
  BY DEF T!OtherPush, TP!OtherPush, T!HandlerPushes, TP!HandlerPushes, T!Pushed, TP!Pushed,
         T!Connected, TP!Connected
<1>7. T!HandlerSends <=> TP!HandlerSends
  BY DEF T!HandlerSends, TP!HandlerSends, T!SendData, TP!SendData
<1>8. T!Read <=> TP!Read
  BY DEF T!Read, TP!Read, T!Handler, TP!Handler, T!Subscribing, TP!Subscribing,
         T!Publishing, TP!Publishing, T!Push, TP!Push, T!Tell, TP!Tell, T!Delivery,
         TP!Delivery, T!Acknowledgement, TP!Acknowledgement
<1>9. \A type, arg : T!Wrote(type, arg) <=> TP!Wrote(type, arg)
  BY DEF T!Wrote, TP!Wrote
<1>10. /\ \A accepts : T!BrokerAnswersConnect(accepts) <=> TP!BrokerAnswersConnect(accepts)
       /\ \A packet : T!BrokerSends(packet) <=> TP!BrokerSends(packet)
       /\ T!BrokerPackets = TP!BrokerPackets
  BY <1>9 DEF T!BrokerAnswersConnect, TP!BrokerAnswersConnect, T!BrokerSends, TP!BrokerSends,
         T!BrokerPackets, TP!BrokerPackets
<1>11. T!AppReceive <=> TP!AppReceive
  BY DEF T!AppReceive, TP!AppReceive
<1> QED  BY <1>1, <1>2, <1>3, <1>4, <1>5, <1>6, <1>7, <1>8, <1>10, <1>11

\* A behaviour is one of the task.
LEMMA TaskSpec == Spec => TP!Spec
<1>1. T!Init => TP!Init
  BY TaskSame
<1>2. [T!Next]_T!vars => [TP!Next]_TP!vars
  BY TaskSame DEF T!Next, TP!Next
<1> QED  BY <1>1, <1>2, ImplementsTask, PTL DEF T!Spec, TP!Spec

\* What is proved of the task holds of the device of Home Assistant.
LEMMA TaskHolds == Spec => [](TP!TypeOK /\ TP!SubscribedInv)
BY TaskSpec, TaskAssumptions, TP!TypeCorrect, TP!SubscribedHolds, PTL

(***************************************************************************)
(* What goes to the broker and what comes from it.                         *)
(***************************************************************************)

\* What is taken from a sequence was its first element, and what is added its last.
LEMMA Taking ==
  ASSUME NEW S, NEW q \in Seq(S), q # << >>
  PROVE  /\ Head(q) \in S /\ Head(q) = q[1] /\ 1 \in DOMAIN q /\ Len(q) \in Nat
         /\ \A i \in DOMAIN q \ {1} : i - 1 \in DOMAIN Tail(q) /\ Tail(q)[i - 1] = q[i]
         /\ \A i \in DOMAIN Tail(q) : i + 1 \in DOMAIN q /\ Tail(q)[i] = q[i + 1]
<1>1. Len(q) \in Nat /\ Len(q) > 0 /\ DOMAIN q = 1 .. Len(q)
  OBVIOUS
<1>2. /\ Tail(q) \in Seq(S) /\ Len(Tail(q)) = Len(q) - 1
      /\ \A i \in 1 .. Len(Tail(q)) : Tail(q)[i] = q[i + 1]
  BY HeadTailProperties
<1> QED  BY <1>1, <1>2

\* What adding an element does to a sequence.
LEMMA Adding ==
  ASSUME NEW S, NEW q \in Seq(S), NEW e \in S
  PROVE  /\ Append(q, e) \in Seq(S) /\ Append(q, e)[Len(q) + 1] = e
         /\ Len(q) \in Nat /\ DOMAIN q = 1 .. Len(q)
         /\ Len(Append(q, e)) = Len(q) + 1 /\ DOMAIN Append(q, e) = 1 .. Len(q) + 1
         /\ \A i \in DOMAIN q : Append(q, e)[i] = q[i]
<1>1. /\ Append(q, e) \in Seq(S) /\ Len(Append(q, e)) = Len(q) + 1
      /\ \A i \in 1 .. Len(q) : Append(q, e)[i] = q[i]
      /\ Append(q, e)[Len(q) + 1] = e
  BY AppendProperties
<1> QED  BY <1>1

Subscription == TP!Packet("SUBSCRIBE", HA_STATUS_TOPIC)

SubscriptionWritten == \E i \in DOMAIN written : written[i] = Subscription

\* Connected is still to be told of this connection.
ConnectedToTell ==
  \/ \E i \in DOMAIN inbox : inbox[i][1] = "CONNACK"
  \/ \E i \in DOMAIN steps : steps[i] = TP!Tell("Connected", None)

\* The application has discovery to publish or will be told to by what has been sent.
Reminded == reacting \/ \E i \in DOMAIN data : Announces(data[i])

IsDiscovery(packet) == packet # None /\ packet[1] = "OTHER"

\* Discovery is on its way behind the subscription to the status topic.
Behind ==
  \/ IsDiscovery(slot) /\ (outgoing = Subscription \/ SubscriptionWritten)
  \/ IsDiscovery(outgoing) /\ SubscriptionWritten
  \/ \E i, j \in DOMAIN written :
       i < j /\ written[i] = Subscription /\ written[j][1] = "OTHER"

\* The broker has handled no more than it has got.
SeenFits == seen \in 0 .. Len(written)

\* Once Connected is told the subscription is on its way (from McutieTask).
ToldSubscribed ==
  broker = "accepted" /\ ~ConnectedToTell => TP!Underway(Subscription)

\* A start of Home Assistant that the broker does not pass on, because it has not come
\* to the subscription yet, is made up for by discovery that comes after it.
UnseenAnnounced ==
  broker = "accepted" /\ ~Subscribed => ConnectedToTell \/ Reminded \/ Behind

NotForgottenInv == SeenFits /\ ToldSubscribed /\ UnseenAnnounced /\ NotForgotten

TaskInv == TP!TypeOK /\ TP!SubscribedInv

\* What the types say of the queues.
LEMMA Typed ==
  ASSUME TaskInv
  PROVE  /\ slot \in TP!ToBroker \cup {None} /\ outgoing \in TP!ToBroker \cup {None}
         /\ written \in Seq(TP!ToBroker) /\ inbox \in Seq(TP!FromBroker)
         /\ steps \in Seq(TP!Awaits) /\ data \in Seq(TP!Events)
         /\ Len(written) \in Nat /\ DOMAIN written = 1 .. Len(written)
         /\ writer = "receive" => outgoing = None
         /\ broker = "accepted" => TP!Connected
         /\ broker = "none" => steps = << >> /\ inbox = << >>
         /\ Subscription \in TP!ToBroker /\ Subscription # None
         /\ None \notin TP!ToBroker
<1>1. TP!ConnectionTyped /\ TP!ChannelTyped /\ TP!OnlyInSession
  BY DEF TaskInv, TP!TypeOK
<1>2. Subscription \in TP!ToBroker
  <2>1. HA_STATUS_TOPIC \in TP!Range(<<HA_STATUS_TOPIC>>)
    BY DEF TP!Range
  <2> QED  BY <2>1 DEF Subscription, TP!ToBroker
<1> QED
  BY <1>1, <1>2, TaskAssumptions
  DEF TP!ConnectionTyped, TP!ChannelTyped, TP!OnlyInSession, TP!NoneIsNoPacket

\* What a step does on an accepted connection.
LEMMA Moves ==
  ASSUME TaskInv, [Next]_vars, broker' = "accepted"
  PROVE  \/ /\ broker = "none" /\ inbox' = Append(inbox, TP!Packet("CONNACK", None))
            /\ UNCHANGED <<seen, slot, outgoing, written, steps, data, reacting>>
         \/ /\ broker = "accepted"
            /\ \/ /\ \/ TP!WriterReceive \/ TP!WriterDone
                     \/ TP!Read \/ TP!HandlerSends \/ TP!HandlerPushes
                  /\ UNCHANGED <<home_assistant, seen, reacting>>
               \/ /\ ~reacting /\ TP!AppReceive /\ reacting' = Announces(Head(data))
                  /\ UNCHANGED <<home_assistant, seen>>
               \/ /\ reacting /\ (\E d \in Discovery : TP!OtherPush(d))
                  /\ UNCHANGED <<home_assistant, seen>>
               \/ BrokerReads \/ HomeStarts \/ HomeStops \/ HomeOnline \/ UNCHANGED vars
<1>0. TP!OnlyInSession
  BY DEF TaskInv, TP!TypeOK
<1>1. CASE TaskAlone
  <2>1. TP!BackOff \/ TP!ConnectFails \/ TP!Connect \/ TP!Report \/ TP!WriteConnect
    BY <1>1, TaskSame DEF TaskAlone
  <2>2. broker = "none" /\ broker' = broker
    BY <1>0, <2>1
    DEF TP!BackOff, TP!ConnectFails, TP!Connect, TP!Report, TP!WriteConnect, TP!OnlyInSession,
        TP!Connected, TP!connection
  <2> QED  BY <2>2
<1>2. CASE SessionEnds
  BY <1>2, TaskSame DEF SessionEnds, TP!Dropped, TP!ReadRefusal, TP!EndSession
<1>3. CASE Loops
  <2>1. broker' = broker
    BY <1>3, TaskSame
    DEF Loops, TP!WriterReceive, TP!WriterDone, TP!Read, TP!HandlerSends, TP!HandlerPushes
  <2> QED  BY <1>3, <2>1, TaskSame DEF Loops
<1>4. CASE AppReceive \/ PublishDiscovery
  <2>1. broker' = broker
    BY <1>4, TaskSame
    DEF AppReceive, PublishDiscovery, TP!AppReceive, TP!OtherPush, TP!connection
  <2> QED  BY <1>4, <2>1, TaskSame DEF AppReceive, PublishDiscovery
<1>5. CASE BrokerAnswersConnect
  BY <1>5, TaskSame DEF BrokerAnswersConnect, TP!BrokerAnswersConnect, TP!channel
<1>6. CASE BrokerReads \/ HomeStarts \/ HomeStops \/ HomeOnline \/ UNCHANGED vars
  <2>1. broker' = broker
    BY <1>6, TaskSame
    DEF BrokerReads, HomeStarts, HomeStops, HomeOnline, vars, task, TP!BrokerSends
  <2> QED  BY <1>6, <2>1
<1> QED  BY <1>1, <1>2, <1>3, <1>4, <1>5, <1>6 DEF Next

\* Packets go from the slot to the write loop and on to the broker, and a push
\* puts one where there was none.
LEMMA QueueMoves ==
  ASSUME TaskInv, [Next]_vars, broker' = "accepted"
  PROVE  \/ UNCHANGED <<slot, outgoing, written>>
         \/ /\ broker = "accepted" /\ outgoing = None /\ outgoing' = slot
            /\ slot' = None /\ UNCHANGED written
         \/ /\ broker = "accepted" /\ outgoing \in TP!ToBroker /\ outgoing' = None
            /\ written' = Append(written, outgoing) /\ UNCHANGED slot
         \/ broker = "accepted" /\ slot = None /\ UNCHANGED <<outgoing, written>>
<1>1. TP!WriterReceive => outgoing = None /\ outgoing' = slot /\ slot' = None /\ UNCHANGED written
  BY Typed DEF TP!WriterReceive
<1>2. TP!WriterDone => /\ outgoing \in TP!ToBroker /\ outgoing' = None
                       /\ written' = Append(written, outgoing) /\ UNCHANGED slot
  BY Typed DEF TP!WriterDone, TaskInv, TP!TypeOK, TP!OnlyInSession
<1>3. \A packet : broker = "accepted" /\ TP!Pushed(packet) => slot = None
  BY Typed DEF TP!Pushed
<1>4. /\ TP!HandlerPushes => UNCHANGED <<outgoing, written>> /\ TP!Pushed(Head(steps)[2])
      /\ \A d : TP!OtherPush(d) =>
           UNCHANGED <<outgoing, written>> /\ TP!Pushed(TP!Packet("OTHER", d))
  BY DEF TP!HandlerPushes, TP!OtherPush
<1>5. TP!Read \/ TP!HandlerSends \/ TP!AppReceive => UNCHANGED <<slot, outgoing, written>>
  BY DEF TP!Read, TP!HandlerSends, TP!AppReceive, TP!connection
<1>6. BrokerReads \/ HomeStarts \/ HomeStops \/ HomeOnline \/ UNCHANGED vars
        => UNCHANGED <<slot, outgoing, written>>
  BY TaskSame DEF BrokerReads, HomeStarts, HomeStops, HomeOnline, vars, task, TP!BrokerSends
<1>7. broker = "none" => UNCHANGED <<slot, outgoing, written>>
  BY Moves
<1> QED  BY <1>1, <1>2, <1>3, <1>4, <1>5, <1>6, <1>7, Moves

\* While the broker accepts the connection nothing written is taken back.
LEMMA WrittenGrows ==
  ASSUME TaskInv, [Next]_vars, broker' = "accepted"
  PROVE  /\ Len(written') \in Nat /\ Len(written) <= Len(written')
         /\ DOMAIN written' = 1 .. Len(written')
         /\ \A i \in DOMAIN written : i \in DOMAIN written' /\ written'[i] = written[i]
<1>1. CASE UNCHANGED written
  BY <1>1, Typed
<1>2. CASE outgoing \in TP!ToBroker /\ written' = Append(written, outgoing)
  BY <1>2, Typed, Adding
<1> QED  BY <1>1, <1>2, QueueMoves

\* What is on its way stays on its way, and in its order.
LEMMA QueueKeeps ==
  ASSUME TaskInv, [Next]_vars, broker' = "accepted"
  PROVE  /\ SubscriptionWritten => SubscriptionWritten'
         /\ TP!Underway(Subscription) => TP!Underway(Subscription)'
         /\ Behind => Behind'
<1>1. SubscriptionWritten => SubscriptionWritten'
  BY WrittenGrows DEF SubscriptionWritten, Subscription, TP!Packet
<1>2. \A packet \in TP!ToBroker : written' = Append(written, packet) =>
        \E i \in DOMAIN written' : /\ written'[i] = packet
                                   /\ \A j \in DOMAIN written : j < i
  BY Typed, Adding
<1>3. TP!Underway(Subscription) = (Subscription \in {slot, outgoing} \/ SubscriptionWritten)
  BY DEF TP!Underway, SubscriptionWritten
<1>4. TP!Underway(Subscription)' = (Subscription \in {slot', outgoing'} \/ SubscriptionWritten')
  BY DEF TP!Underway, SubscriptionWritten, Subscription, TP!Packet
<1>5. Subscription \in {slot, outgoing} =>
        Subscription \in {slot', outgoing'} \/ SubscriptionWritten'
  <2>1. \A packet \in TP!ToBroker : packet = Subscription /\ written' = Append(written, packet)
          => SubscriptionWritten'
    BY <1>2 DEF SubscriptionWritten, Subscription, TP!Packet
  <2> QED  BY <2>1, QueueMoves, Typed
<1>6. ASSUME NEW i \in DOMAIN written, NEW j \in DOMAIN written, i < j,
             written[i] = Subscription, written[j][1] = "OTHER"
      PROVE  Behind'
  BY <1>6, WrittenGrows DEF Behind, Subscription, TP!Packet
<1>7. ASSUME IsDiscovery(outgoing), SubscriptionWritten
      PROVE  Behind'
  <2>1. CASE outgoing' = outgoing
    BY <1>1, <1>7, <2>1 DEF Behind, IsDiscovery
  <2>2. CASE outgoing \in TP!ToBroker /\ written' = Append(written, outgoing)
    <3>1. PICK i \in DOMAIN written : written[i] = Subscription
      BY <1>7 DEF SubscriptionWritten
    <3>2. PICK j \in DOMAIN written' : written'[j] = outgoing /\ i < j
      BY <1>2, <2>2
    <3>3. i \in DOMAIN written' /\ written'[i] = Subscription
      BY <3>1, WrittenGrows
    <3> QED  BY <1>7, <3>2, <3>3 DEF Behind, IsDiscovery, Subscription, TP!Packet
  <2> QED  BY <1>7, <2>1, <2>2, QueueMoves DEF IsDiscovery
<1>8. ASSUME IsDiscovery(slot), outgoing = Subscription \/ SubscriptionWritten
      PROVE  Behind'
  <2>1. CASE UNCHANGED <<slot, outgoing>>
    BY <1>1, <1>8, <2>1 DEF Behind, IsDiscovery, Subscription, TP!Packet
  <2>2. CASE outgoing = None /\ outgoing' = slot
    BY <1>1, <1>8, <2>2, Typed DEF Behind, IsDiscovery
  <2>3. CASE /\ outgoing \in TP!ToBroker /\ written' = Append(written, outgoing)
             /\ UNCHANGED slot
    <3>1. outgoing = Subscription => SubscriptionWritten'
      BY <1>2, <2>3 DEF SubscriptionWritten, Subscription, TP!Packet
    <3> QED  BY <1>1, <1>8, <2>3, <3>1 DEF Behind, IsDiscovery
  <2> QED  BY <1>8, <2>1, <2>2, <2>3, QueueMoves DEF IsDiscovery
<1> QED  BY <1>1, <1>3, <1>4, <1>5, <1>6, <1>7, <1>8 DEF Behind

\* The broker handles what it gets in order and forgets it with the connection.
LEMMA SeenStep ==
  ASSUME TaskInv, SeenFits, [Next]_vars
  PROVE  SeenFits'
<1>0. Len(written) \in Nat /\ seen \in Nat /\ seen <= Len(written)
  BY Typed DEF SeenFits
<1>1. CASE TP!WriteConnect /\ UNCHANGED seen
  <2>1. written = << >>
    BY <1>1 DEF TP!WriteConnect, TaskInv, TP!TypeOK, TP!OnlyInSession, TP!Connected
  <2> QED  BY <1>0, <1>1, <2>1 DEF TP!WriteConnect, SeenFits
<1>2. CASE SessionEnds
  <2>1. written' = << >> /\ seen' = 0
    BY <1>2, TaskSame DEF SessionEnds, TP!Dropped, TP!ReadRefusal, TP!EndSession
  <2> QED  BY <2>1 DEF SeenFits
<1>3. CASE TP!WriterDone /\ UNCHANGED seen
  <2>1. outgoing \in TP!ToBroker /\ written' = Append(written, outgoing)
    BY <1>3, Typed DEF TP!WriterDone, TaskInv, TP!TypeOK, TP!OnlyInSession
  <2>2. Len(written') = Len(written) + 1
    BY <2>1, Typed, Adding
  <2> QED  BY <1>0, <1>3, <2>2 DEF SeenFits
<1>4. CASE BrokerReads
  BY <1>0, <1>4 DEF BrokerReads, task, SeenFits
<1>5. CASE UNCHANGED <<written, seen>>
  BY <1>5 DEF SeenFits
<1>6. \/ SessionEnds \/ BrokerReads \/ UNCHANGED <<written, seen>>
      \/ (TP!WriteConnect \/ TP!WriterDone) /\ UNCHANGED seen
  <2>1. /\ TP!BackOff \/ TP!ConnectFails \/ TP!Connect \/ TP!Report => UNCHANGED written
        /\ TP!WriterReceive \/ TP!Read \/ TP!HandlerSends \/ TP!HandlerPushes
             => UNCHANGED written
        /\ TP!AppReceive => UNCHANGED written
        /\ \A a : TP!OtherPush(a) => UNCHANGED written
        /\ \A accepts : TP!BrokerAnswersConnect(accepts) => UNCHANGED written
        /\ \A packet : TP!BrokerSends(packet) => UNCHANGED written
    BY DEF TP!BackOff, TP!ConnectFails, TP!Connect, TP!Report, TP!WriterReceive, TP!Read,
           TP!HandlerSends, TP!HandlerPushes, TP!AppReceive, TP!OtherPush,
           TP!BrokerAnswersConnect, TP!BrokerSends, TP!connection
  <2>2. TaskAlone \/ Loops =>
          \/ UNCHANGED <<written, seen>>
          \/ (TP!WriteConnect \/ TP!WriterDone) /\ UNCHANGED seen
    BY <2>1, TaskSame DEF TaskAlone, Loops
  <2>3. AppReceive \/ PublishDiscovery \/ BrokerAnswersConnect \/ HomeOnline
          => UNCHANGED <<written, seen>>
    BY <2>1, TaskSame DEF AppReceive, PublishDiscovery, BrokerAnswersConnect, HomeOnline, task
  <2> QED  BY <2>2, <2>3 DEF Next, HomeStarts, HomeStops, vars, task
<1> QED  BY <1>1, <1>2, <1>3, <1>4, <1>5, <1>6

\* Within a connection Home Assistant's status stays subscribed to.
LEMMA SubscribedStays ==
  ASSUME TaskInv, SeenFits, [Next]_vars, broker' = "accepted", Subscribed
  PROVE  Subscribed'
<1>1. PICK i \in 1 .. seen : written[i] = T!Packet("SUBSCRIBE", HA_STATUS_TOPIC)
  BY DEF Subscribed
<1>2. seen' \in Nat /\ seen <= seen'
  <2>1. UNCHANGED seen \/ seen' = seen + 1
    BY Moves DEF BrokerReads, HomeStarts, HomeStops, HomeOnline, vars
  <2> QED  BY <2>1, Typed DEF SeenFits
<1>3. i \in DOMAIN written /\ i \in 1 .. seen'
  BY <1>1, <1>2, Typed DEF SeenFits
<1> QED  BY <1>1, <1>3, WrittenGrows DEF Subscribed, T!Packet

\* What there is to hear goes from inbox to steps, to data and to the application.
LEMMA EventMoves ==
  ASSUME TaskInv, HomeTyped, [Next]_vars, broker' = "accepted"
  PROVE  \/ UNCHANGED <<steps, inbox, data, reacting>>
         \/ /\ broker = "accepted" /\ reacting
            /\ (\E d \in Discovery : TP!OtherPush(d)) /\ UNCHANGED <<steps, inbox, data>>
         \/ TP!Read /\ UNCHANGED <<data, reacting>>
         \/ TP!HandlerSends /\ UNCHANGED <<inbox, reacting>>
         \/ TP!HandlerPushes /\ UNCHANGED <<inbox, data, reacting>>
         \/ /\ data # << >> /\ data' = Tail(data) /\ reacting' = Announces(Head(data))
            /\ ~reacting /\ UNCHANGED <<steps, inbox>>
         \/ /\ \E packet \in TP!FromBroker : inbox' = Append(inbox, packet)
            /\ UNCHANGED <<steps, data, reacting>>
<1>1. broker = "none" =>
        /\ \E packet \in TP!FromBroker : inbox' = Append(inbox, packet)
        /\ UNCHANGED <<steps, data, reacting>>
  <2>1. TP!Packet("CONNACK", None) \in TP!FromBroker
    BY DEF TP!FromBroker
  <2> QED  BY <2>1, Moves
<1>2. TP!WriterReceive \/ TP!WriterDone => UNCHANGED <<steps, inbox, data>>
  BY DEF TP!WriterReceive, TP!WriterDone, TP!channel
<1>3. /\ TP!Read \/ TP!HandlerPushes => UNCHANGED data
      /\ TP!HandlerSends \/ TP!HandlerPushes => UNCHANGED inbox
  BY DEF TP!Read, TP!HandlerPushes, TP!HandlerSends, TP!channel
<1>4. /\ TP!AppReceive => data # << >> /\ data' = Tail(data) /\ UNCHANGED <<steps, inbox>>
      /\ \A d : TP!OtherPush(d) => UNCHANGED <<steps, inbox, data>>
  BY DEF TP!AppReceive, TP!OtherPush, TP!connection, TP!channel
<1>5. HomeOnline => /\ \/ UNCHANGED inbox
                       \/ \E packet \in TP!FromBroker : inbox' = Append(inbox, packet)
                    /\ UNCHANGED <<steps, data, reacting>>
  <2>1. HomeOnline => TP!Packet("PUBLISH", starts) \in TP!FromBroker
    BY ConstantsAssumption DEF HomeOnline, HomeTyped, TP!FromBroker, Online
  <2>2. T!Packet("PUBLISH", starts) = TP!Packet("PUBLISH", starts)
    BY DEF T!Packet, TP!Packet
  <2> QED  BY <2>1, <2>2, TaskSame DEF HomeOnline, TP!BrokerSends, TP!channel, task
<1>6. BrokerReads \/ HomeStarts \/ HomeStops \/ UNCHANGED vars
        => UNCHANGED <<steps, inbox, data, reacting>>
  BY DEF BrokerReads, HomeStarts, HomeStops, vars, task
<1> QED  BY <1>1, <1>2, <1>3, <1>4, <1>5, <1>6, Moves

\* The handler of an accepting CONNACK tells Connected, the one of Home Assistant's
\* "online" HomeAssistantOnline.
LEMMA HandlerTells ==
  ASSUME NEW packet \in TP!FromBroker
  PROVE  /\ packet[1] = "CONNACK" => \E i \in DOMAIN TP!Handler(packet) :
              TP!Handler(packet)[i] = TP!Tell("Connected", None)
         /\ packet[1] = "PUBLISH" => \E i \in DOMAIN TP!Handler(packet) :
              TP!Handler(packet)[i] = TP!Tell("HomeAssistantOnline", packet[2])
<1>1. CASE packet[1] = "CONNACK"
  <2> DEFINE n == Len(<<HA_STATUS_TOPIC>>)
             handler == TP!Subscribing(<<HA_STATUS_TOPIC>>)
  <2>1. /\ n \in Nat /\ Len(handler) = n + 1 /\ handler[n + 1] = TP!Tell("Connected", None)
        /\ handler \in Seq(TP!Awaits)
    BY TP!SubscribingParts, TaskAssumptions
  <2>2. n + 1 \in DOMAIN handler
    BY <2>1
  <2>3. TP!Handler(packet) = handler
    BY <1>1 DEF TP!Handler
  <2> QED  BY <1>1, <2>1, <2>2, <2>3
<1>2. CASE packet[1] = "PUBLISH"
  <2> DEFINE m == packet[2]
             told == TP!Tell("HomeAssistantOnline", m)
  <2>1. m \in Online
    BY <1>2 DEF TP!FromBroker, TP!Packet
  <2>2. TP!Handler(packet) = TP!Publishing(m)
    BY <1>2 DEF TP!Handler
  <2>3. TP!Delivery(m) = <<told>> /\ TP!Acknowledgement(m) = << >>
    BY <2>1 DEF TP!Delivery, TP!Acknowledgement
  <2>4. <<told>> \in Seq({told}) /\ << >> \in Seq({told})
    OBVIOUS
  <2>5. <<told>> \o << >> = <<told>>
    BY <2>4, ConcatEmptySeq
  <2>6. TP!Handler(packet) = <<told>>
    BY <2>2, <2>3, <2>5 DEF TP!Publishing
  <2>7. 1 \in DOMAIN <<told>> /\ <<told>>[1] = told
    OBVIOUS
  <2> QED  BY <1>2, <2>6, <2>7
<1> QED  BY <1>1, <1>2

Publishes == broker = "accepted" /\ reacting /\ \E d \in Discovery : TP!OtherPush(d)

\* What reminds the application does so until it publishes.
LEMMA RemindedKeeps ==
  ASSUME TaskInv, HomeTyped, [Next]_vars, broker' = "accepted", Reminded
  PROVE  Reminded' \/ Publishes
<1>1. CASE UNCHANGED <<data, reacting>>
  BY <1>1 DEF Reminded, Announces
<1>2. CASE TP!HandlerSends /\ UNCHANGED reacting
  <2>1. data' = Append(data, Head(steps)[2]) /\ Head(steps)[2] \in TP!Events
    <3>1. steps # << >> /\ Head(steps)[1] = "data" /\ data' = Append(data, Head(steps)[2])
      BY <1>2 DEF TP!HandlerSends, TP!SendData
    <3>2. Head(steps) \in TP!Awaits
      BY <3>1, Typed, Taking
    <3> QED  BY <3>1, <3>2, TP!AwaitsParts, TaskAssumptions
  <2>2. \A i \in DOMAIN data : i \in DOMAIN data' /\ data'[i] = data[i]
    BY <2>1, Typed, Adding
  <2> QED  BY <1>2, <2>2 DEF Reminded, Announces
<1>3. CASE /\ data # << >> /\ data' = Tail(data) /\ reacting' = Announces(Head(data))
           /\ ~reacting
  <2>1. PICK i \in DOMAIN data : Announces(data[i])
    BY <1>3 DEF Reminded
  <2>2. i = 1 => reacting'
    BY <1>3, <2>1, Typed, Taking
  <2>3. i # 1 => i - 1 \in DOMAIN data' /\ data'[i - 1] = data[i]
    BY <1>3, <2>1, Typed, Taking
  <2> QED  BY <2>1, <2>2, <2>3 DEF Reminded, Announces
<1> QED  BY <1>1, <1>2, <1>3, EventMoves DEF Publishes

\* An event that a handler has sent is with the application.
LEMMA SentReminds ==
  ASSUME TaskInv, TP!HandlerSends, Announces(Head(steps)[2])
  PROVE  Reminded'
<1>1. steps # << >> /\ Head(steps)[1] = "data" /\ data' = Append(data, Head(steps)[2])
  BY DEF TP!HandlerSends, TP!SendData
<1>2. Head(steps) \in TP!Awaits
  BY <1>1, Typed, Taking
<1>3. Head(steps)[2] \in TP!Events
  BY <1>1, <1>2, TP!AwaitsParts, TaskAssumptions
<1>4. Len(data) + 1 \in DOMAIN data' /\ data'[Len(data) + 1] = Head(steps)[2]
  BY <1>1, <1>3, Typed, Adding
<1> QED  BY <1>4 DEF Reminded, Announces

\* recv_loop tells Connected.
TellsConnected == TP!HandlerSends /\ Head(steps) = TP!Tell("Connected", None)

\* Connected is to be told until it is.
LEMMA ToldKeeps ==
  ASSUME TaskInv, HomeTyped, [Next]_vars, broker' = "accepted", ConnectedToTell
  PROVE  ConnectedToTell' \/ TellsConnected
<1>1. CASE UNCHANGED <<steps, inbox>>
  BY <1>1 DEF ConnectedToTell, TP!Tell
<1>2. CASE TP!Read
  <2>1. inbox # << >> /\ steps = << >> /\ inbox' = Tail(inbox) /\ steps' = TP!Handler(Head(inbox))
    BY <1>2 DEF TP!Read
  <2>2. PICK i \in DOMAIN inbox : inbox[i][1] = "CONNACK"
    BY <2>1 DEF ConnectedToTell
  <2>3. CASE i = 1
    BY <2>1, <2>2, <2>3, Typed, Taking, HandlerTells DEF ConnectedToTell, TP!Tell
  <2>4. CASE i # 1
    <3>1. i - 1 \in DOMAIN inbox' /\ inbox'[i - 1] = inbox[i]
      BY <2>1, <2>4, Typed, Taking
    <3> QED  BY <2>2, <3>1 DEF ConnectedToTell
  <2> QED  BY <2>3, <2>4
<1>3. CASE (TP!HandlerSends \/ TP!HandlerPushes) /\ UNCHANGED inbox
  <2>1. steps # << >> /\ steps' = Tail(steps)
    BY <1>3 DEF TP!HandlerSends, TP!HandlerPushes
  <2>2. ASSUME NEW i \in DOMAIN steps, steps[i] = TP!Tell("Connected", None), i # 1
        PROVE  ConnectedToTell'
    <3>1. i - 1 \in DOMAIN steps' /\ steps'[i - 1] = steps[i]
      BY <2>1, <2>2, Typed, Taking
    <3> QED  BY <2>2, <3>1 DEF ConnectedToTell, TP!Tell
  <2>3. Head(steps) = TP!Tell("Connected", None) => TP!HandlerSends
    BY <1>3 DEF TP!HandlerPushes, TP!Tell
  <2>4. Head(steps) = steps[1]
    BY <2>1, Typed, Taking
  <2> QED  BY <1>3, <2>2, <2>3, <2>4 DEF ConnectedToTell, TellsConnected
<1>4. ASSUME NEW packet \in TP!FromBroker, inbox' = Append(inbox, packet), UNCHANGED steps
      PROVE  ConnectedToTell'
  <2>1. \A i \in DOMAIN inbox : i \in DOMAIN inbox' /\ inbox'[i] = inbox[i]
    BY <1>4, Typed, Adding
  <2> QED  BY <1>4, <2>1 DEF ConnectedToTell, TP!Tell
<1> QED  BY <1>1, <1>2, <1>3, <1>4, EventMoves

\* A packet of the broker whose handler tells the application to publish discovery.
Reminds(packet) ==
  packet[1] = "PUBLISH" \/ (packet[1] = "CONNACK" /\ "Connected" \in AnnounceOn)

\* Whoever will publish does so in the end.
LEMMA WillPublishKeeps ==
  ASSUME TaskInv, HomeTyped, [Next]_vars, broker' = "accepted", WillPublish
  PROVE  WillPublish' \/ Publishes
<1>0. Reminded' => WillPublish'
  BY DEF Reminded, WillPublish, Announces
<1>1. CASE Reminded
  BY <1>0, <1>1, RemindedKeeps
<1>2. ASSUME NEW i \in DOMAIN steps, steps[i][1] = "data", Announces(steps[i][2])
      PROVE  WillPublish'
  <2>1. CASE UNCHANGED steps
    BY <1>2, <2>1 DEF WillPublish, Announces
  <2>2. CASE TP!Read
    BY <1>2, <2>2 DEF TP!Read
  <2>3. CASE TP!HandlerSends \/ TP!HandlerPushes
    <3>1. steps # << >> /\ steps' = Tail(steps)
      BY <2>3 DEF TP!HandlerSends, TP!HandlerPushes
    <3>2. CASE i = 1
      <4>1. Head(steps)[1] = "data" /\ Announces(Head(steps)[2])
        BY <1>2, <3>1, <3>2, Typed, Taking
      <4>2. TP!HandlerSends
        BY <2>3, <4>1 DEF TP!HandlerPushes
      <4> QED  BY <1>0, <4>1, <4>2, SentReminds
    <3>3. CASE i # 1
      <4>1. i - 1 \in DOMAIN steps' /\ steps'[i - 1] = steps[i]
        BY <3>1, <3>3, Typed, Taking
      <4> QED  BY <1>2, <4>1 DEF WillPublish, Announces
    <3> QED  BY <3>2, <3>3
  <2> QED  BY <2>1, <2>2, <2>3, EventMoves
<1>3. ASSUME NEW i \in DOMAIN inbox, Reminds(inbox[i])
      PROVE  WillPublish'
  <2>1. CASE UNCHANGED inbox
    BY <1>3, <2>1 DEF WillPublish, Reminds
  <2>2. CASE TP!Read
    <3>1. inbox # << >> /\ inbox' = Tail(inbox) /\ steps' = TP!Handler(Head(inbox))
      BY <2>2 DEF TP!Read
    <3>2. CASE i = 1
      <4>1. Head(inbox) \in TP!FromBroker /\ Reminds(Head(inbox))
        BY <1>3, <3>1, <3>2, Typed, Taking
      <4>2. PICK j \in DOMAIN steps', type \in AnnounceOn :
              \E arg : steps'[j] = TP!Tell(type, arg)
        BY <3>1, <4>1, HandlerTells, ConstantsAssumption DEF Reminds
      <4> QED  BY <4>2 DEF WillPublish, Announces, TP!Tell
    <3>3. CASE i # 1
      <4>1. i - 1 \in DOMAIN inbox' /\ inbox'[i - 1] = inbox[i]
        BY <3>1, <3>3, Typed, Taking
      <4> QED  BY <1>3, <4>1 DEF WillPublish, Reminds
    <3> QED  BY <3>2, <3>3
  <2>3. ASSUME NEW packet \in TP!FromBroker, inbox' = Append(inbox, packet)
        PROVE  WillPublish'
    <3>1. i \in DOMAIN inbox' /\ inbox'[i] = inbox[i]
      BY <2>3, Typed, Adding
    <3> QED  BY <1>3, <3>1 DEF WillPublish, Reminds
  <2> QED  BY <2>1, <2>2, <2>3, EventMoves
<1> QED  BY <1>1, <1>2, <1>3 DEF WillPublish, Reminded, Reminds

\* A connection that has just been accepted has Connected to tell.
LEMMA Accepted ==
  ASSUME TaskInv, [Next]_vars, broker' = "accepted", broker # "accepted"
  PROVE  ConnectedToTell'
<1>1. inbox' = Append(inbox, TP!Packet("CONNACK", None))
  BY Moves
<1>2. TP!Packet("CONNACK", None) \in TP!FromBroker
  BY DEF TP!FromBroker
<1>3. /\ Len(inbox) + 1 \in DOMAIN inbox'
      /\ inbox'[Len(inbox) + 1] = TP!Packet("CONNACK", None)
  BY <1>1, <1>2, Typed, Adding
<1> QED  BY <1>3 DEF ConnectedToTell, TP!Packet

\* The application is told of the connection after the subscription is under way.
LEMMA ToldSubscribedStep ==
  ASSUME TaskInv, HomeTyped, ToldSubscribed, [Next]_vars
  PROVE  ToldSubscribed'
<1> SUFFICES ASSUME broker' = "accepted", ~ConnectedToTell'
             PROVE  TP!Underway(Subscription)'
  BY DEF ToldSubscribed
<1>1. broker = "accepted"
  BY Accepted
<1>2. CASE TellsConnected
  <2>1. steps # << >> /\ steps[1] = TP!Tell("Connected", None) /\ 1 \in DOMAIN steps
    BY <1>2, Typed, Taking DEF TellsConnected, TP!HandlerSends
  <2>2. /\ Len(steps) = 1
        /\ \A t \in DOMAIN <<HA_STATUS_TOPIC>> :
             \/ TP!Underway(TP!Packet("SUBSCRIBE", <<HA_STATUS_TOPIC>>[t]))
             \/ \E j \in DOMAIN steps :
                  steps[j] = TP!Push("SUBSCRIBE", <<HA_STATUS_TOPIC>>[t])
    BY <2>1 DEF TaskInv, TP!SubscribedInv
  <2>3. 1 \in DOMAIN <<HA_STATUS_TOPIC>> /\ <<HA_STATUS_TOPIC>>[1] = HA_STATUS_TOPIC
    OBVIOUS
  <2>4. \A j \in DOMAIN steps : j = 1
    BY <2>2, Typed
  <2>5. TP!Underway(Subscription)
    BY <2>1, <2>2, <2>3, <2>4 DEF Subscription, TP!Push, TP!Tell
  <2> QED  BY <2>5, QueueKeeps
<1>3. CASE ~TellsConnected
  BY <1>1, <1>3, ToldKeeps, QueueKeeps DEF ToldSubscribed
<1> QED  BY <1>2, <1>3

\* What the application publishes goes behind the subscription once Connected is told.
LEMMA PublishedBehind ==
  ASSUME TaskInv, HomeTyped, [Next]_vars, broker' = "accepted", Publishes
  PROVE  /\ IsDiscovery(slot')
         /\ ToldSubscribed /\ ~ConnectedToTell => Behind'
<1>1. PICK d \in Discovery : TP!OtherPush(d)
  BY DEF Publishes
<1>2. /\ slot = None /\ slot' = TP!Packet("OTHER", d) /\ UNCHANGED <<outgoing, written>>
      /\ broker = "accepted"
  BY <1>1, Typed DEF Publishes, TP!OtherPush, TP!Pushed
<1>3. slot' # None
  BY <1>2, Typed DEF TP!ToBroker
<1>4. IsDiscovery(slot')
  BY <1>2, <1>3 DEF IsDiscovery, TP!Packet
<1>5. ASSUME TP!Underway(Subscription) PROVE Behind'
  <2>1. outgoing = Subscription \/ SubscriptionWritten
    BY <1>2, <1>5, Typed DEF TP!Underway, SubscriptionWritten
  <2>2. outgoing' = Subscription \/ SubscriptionWritten'
    BY <1>2, <2>1 DEF SubscriptionWritten, Subscription, TP!Packet
  <2> QED  BY <1>4, <2>2 DEF Behind, IsDiscovery, Subscription, TP!Packet
<1> QED  BY <1>2, <1>4, <1>5 DEF ToldSubscribed

\* Until the subscription is seen, the announcement is to come or comes behind it.
LEMMA UnseenAnnouncedStep ==
  ASSUME TaskInv, HomeTyped, SeenFits, ToldSubscribed, UnseenAnnounced, [Next]_vars,
         "Connected" \in AnnounceOn
  PROVE  UnseenAnnounced'
<1> SUFFICES ASSUME broker' = "accepted", ~Subscribed', ~ConnectedToTell'
             PROVE  Reminded' \/ Behind'
  BY DEF UnseenAnnounced
<1>1. ~Subscribed
  BY SubscribedStays
<1>2. CASE ConnectedToTell
  <2>1. TellsConnected
    BY <1>2, ToldKeeps
  <2>2. Announces(Head(steps)[2])
    BY <2>1 DEF TellsConnected, TP!Tell, Announces
  <2> QED  BY <2>1, <2>2, SentReminds DEF TellsConnected
<1>3. CASE Reminded /\ ~ConnectedToTell
  BY <1>3, RemindedKeeps, PublishedBehind
<1>4. CASE Behind
  BY <1>4, QueueKeeps
<1>5. broker = "accepted"
  BY Accepted
<1> QED  BY <1>1, <1>2, <1>3, <1>4, <1>5 DEF UnseenAnnounced

\* Discovery on its way gets to the broker, and to Home Assistant if it is there.
LEMMA DiscoveryKeeps ==
  ASSUME TaskInv, SeenFits, [Next]_vars, broker' = "accepted", home # "offline",
         DiscoveryUnderWay
  PROVE  DiscoveryUnderWay' \/ known'
<1>0. seen \in Nat /\ seen <= Len(written)
  BY Typed DEF SeenFits
<1>1. CASE BrokerReads
  <2>1. /\ seen' = seen + 1 /\ UNCHANGED <<slot, outgoing, written>>
        /\ written[seen + 1][1] = "OTHER" => known'
    BY <1>1 DEF BrokerReads, task
  <2>2. ASSUME NEW i \in DOMAIN written, i > seen, written[i][1] = "OTHER"
        PROVE  DiscoveryUnderWay' \/ known'
    BY <1>0, <2>1, <2>2, Typed DEF DiscoveryUnderWay
  <2> QED  BY <2>1, <2>2 DEF DiscoveryUnderWay
<1>2. CASE UNCHANGED seen
  <2>1. ASSUME NEW i \in DOMAIN written, i > seen, written[i][1] = "OTHER"
        PROVE  DiscoveryUnderWay'
    BY <1>2, <2>1, WrittenGrows DEF DiscoveryUnderWay
  <2>2. ASSUME IsDiscovery(outgoing) PROVE DiscoveryUnderWay'
    <3>1. CASE outgoing' = outgoing
      BY <2>2, <3>1 DEF DiscoveryUnderWay, IsDiscovery
    <3>2. CASE outgoing \in TP!ToBroker /\ written' = Append(written, outgoing)
      <4>1. /\ Len(written) + 1 \in DOMAIN written'
            /\ written'[Len(written) + 1] = outgoing
        BY <3>2, Typed, Adding
      <4>2. Len(written) + 1 > seen'
        BY <1>0, <1>2, Typed
      <4> QED  BY <2>2, <4>1, <4>2 DEF DiscoveryUnderWay, IsDiscovery
    <3> QED  BY <2>2, <3>1, <3>2, QueueMoves DEF IsDiscovery
  <2>3. ASSUME IsDiscovery(slot) PROVE DiscoveryUnderWay'
    <3>1. slot \in {slot', outgoing'}
      BY <2>3, QueueMoves DEF IsDiscovery
    <3> QED  BY <2>3, <3>1 DEF DiscoveryUnderWay, IsDiscovery
  <2> QED  BY <2>1, <2>2, <2>3 DEF DiscoveryUnderWay, IsDiscovery
<1>3. BrokerReads \/ UNCHANGED seen
  BY Moves DEF HomeStarts, HomeStops, HomeOnline, vars
<1> QED  BY <1>1, <1>2, <1>3

\* What makes the application publish, and what it has published, stays on its way.
LEMMA OnItsWay ==
  ASSUME TaskInv, HomeTyped, SeenFits, [Next]_vars, broker' = "accepted", home # "offline",
         WillPublish \/ DiscoveryUnderWay
  PROVE  known' \/ WillPublish' \/ DiscoveryUnderWay'
<1>1. Publishes => DiscoveryUnderWay'
  BY PublishedBehind DEF DiscoveryUnderWay, IsDiscovery
<1> QED  BY <1>1, WillPublishKeeps, DiscoveryKeeps

\* The birth message that is passed on is with the device.
LEMMA BirthReminds ==
  ASSUME TaskInv, HomeTyped, HomeOnline, Subscribed
  PROVE  WillPublish'
<1>1. TP!Packet("PUBLISH", starts) \in TP!FromBroker
  BY ConstantsAssumption DEF HomeOnline, HomeTyped, TP!FromBroker, Online
<1>2. inbox' = Append(inbox, TP!Packet("PUBLISH", starts))
  BY DEF HomeOnline, T!BrokerSends, T!Packet, TP!Packet
<1>3. /\ Len(inbox) + 1 \in DOMAIN inbox'
      /\ inbox'[Len(inbox) + 1] = TP!Packet("PUBLISH", starts)
  BY <1>1, <1>2, Typed, Adding
<1> QED  BY <1>3 DEF WillPublish, TP!Packet

\* What Home Assistant knows it knows until it stops.
LEMMA KnownKeeps ==
  ASSUME TaskInv, [Next]_vars, broker = "accepted", broker' = "accepted", ~HomeOnline,
         home' = "online"
  PROVE  home = "online" /\ (known => known')
<1>1. CASE BrokerReads
  BY <1>1, Zenon DEF BrokerReads
<1>2. CASE UNCHANGED home_assistant
  BY <1>2 DEF home_assistant
<1>3. broker = "accepted" => UNCHANGED home_assistant \/ BrokerReads
  BY Moves DEF HomeStarts, HomeStops, vars
<1> QED  BY <1>1, <1>2, <1>3

(***************************************************************************)
(* Who comes is answered.                                                  *)
(***************************************************************************)

\* An accepted connection stays so until it ends.
LEMMA AcceptedStays ==
  ASSUME TaskInv, [Next]_vars, broker = "accepted"
  PROVE  SessionEnds \/ broker' = "accepted"
<1>0. TP!OnlyInSession
  BY DEF TaskInv, TP!TypeOK
<1>1. ASSUME TaskAlone PROVE FALSE
  <2>1. TP!BackOff \/ TP!ConnectFails \/ TP!Connect \/ TP!Report \/ TP!WriteConnect
    BY <1>1, TaskSame DEF TaskAlone
  <2> QED
    BY <1>0, <2>1
    DEF TP!BackOff, TP!ConnectFails, TP!Connect, TP!Report, TP!WriteConnect, TP!OnlyInSession,
        TP!Connected
<1>2. CASE Loops
  BY <1>2, TaskSame
  DEF Loops, TP!WriterReceive, TP!WriterDone, TP!Read, TP!HandlerSends, TP!HandlerPushes
<1>3. CASE AppReceive \/ PublishDiscovery
  BY <1>3, TaskSame
  DEF AppReceive, PublishDiscovery, TP!AppReceive, TP!OtherPush, TP!connection
<1>4. ASSUME BrokerAnswersConnect PROVE FALSE
  BY <1>4, TaskSame DEF BrokerAnswersConnect, TP!BrokerAnswersConnect
<1>5. CASE BrokerReads \/ HomeStarts \/ HomeStops \/ HomeOnline \/ UNCHANGED vars
  BY <1>5, TaskSame
  DEF BrokerReads, HomeStarts, HomeStops, HomeOnline, vars, task, TP!BrokerSends
<1> QED  BY <1>1, <1>2, <1>3, <1>4, <1>5 DEF Next

\* Home Assistant has greeted the device only while both are there.
GreetedInv == greeted => broker = "accepted" /\ home = "online"

\* Whoever goes takes the greeting along.
LEMMA GreetedStep ==
  ASSUME TaskInv, GreetedInv, [Next]_vars
  PROVE  GreetedInv'
<1>1. CASE SessionEnds
  BY <1>1 DEF SessionEnds, GreetedInv
<1>2. CASE HomeOnline
  <2>1. greeted' = Subscribed /\ home' = "online"
    BY <1>2 DEF HomeOnline
  <2>2. Subscribed => broker = "accepted" /\ broker' = broker
    BY <1>2, TaskSame DEF HomeOnline, TP!BrokerSends
  <2> QED  BY <2>1, <2>2 DEF GreetedInv
<1>3. CASE HomeStarts \/ HomeStops
  BY <1>3, AcceptedStays DEF HomeStarts, HomeStops, GreetedInv
<1>4. CASE UNCHANGED <<home, greeted>> /\ ~SessionEnds
  BY <1>4, AcceptedStays DEF GreetedInv
<1>5. SessionEnds \/ HomeOnline \/ HomeStarts \/ HomeStops \/ UNCHANGED <<home, greeted>>
  BY DEF Next, vars, home_assistant, TaskAlone, Loops, AppReceive, PublishDiscovery,
         BrokerAnswersConnect, BrokerReads
<1> QED  BY <1>1, <1>2, <1>3, <1>4, <1>5

\* Every step keeps the answer on its way.
LEMMA AnswersGreetingStep ==
  ASSUME TaskInv, HomeTyped, SeenFits, GreetedInv, AnswersGreeting, [Next]_vars
  PROVE  AnswersGreeting'
<1> SUFFICES ASSUME greeted' PROVE known' \/ WillPublish' \/ DiscoveryUnderWay'
  BY DEF AnswersGreeting
<1>1. broker' = "accepted" /\ home' = "online"
  BY GreetedStep DEF GreetedInv
<1>2. CASE HomeOnline
  BY <1>2, BirthReminds DEF HomeOnline
<1>3. CASE ~HomeOnline
  <2>1. greeted
    BY <1>3
    DEF Next, vars, home_assistant, TaskAlone, Loops, SessionEnds, AppReceive,
        PublishDiscovery, BrokerAnswersConnect, BrokerReads, HomeStarts, HomeStops
  <2>2. known => known'
    BY <1>1, <1>3, <2>1, KnownKeeps DEF GreetedInv
  <2> QED  BY <1>1, <2>1, <2>2, OnItsWay DEF AnswersGreeting, GreetedInv
<1> QED  BY <1>2, <1>3

\* Whatever the application publishes discovery on besides: from when the broker has
\* passed Home Assistant's "online" on to the device until one of them goes, Home
\* Assistant knows the entity, or discovery or what makes the application publish it
\* is on its way.
THEOREM GreetingAnswered == Spec => []AnswersGreeting
<1>1. Init => SeenFits /\ GreetedInv /\ AnswersGreeting
  BY DEF Init, T!Init, SeenFits, GreetedInv, AnswersGreeting
<1>2. TaskInv /\ HomeTyped /\ SeenFits /\ GreetedInv /\ AnswersGreeting /\ [Next]_vars
        => SeenFits' /\ GreetedInv' /\ AnswersGreeting'
  BY SeenStep, GreetedStep, AnswersGreetingStep
<1>3. Spec => []TaskInv
  BY TaskHolds, PTL DEF TaskInv
<1> QED  BY <1>1, <1>2, <1>3, HomeHolds, PTL DEF Spec

(***************************************************************************)
(* Who does not come while the device is there is not answered.            *)
(***************************************************************************)

\* Without a start of Home Assistant that was passed on nothing makes the application
\* publish discovery, and none is anywhere.
Unasked ==
  PassedOn \/
    /\ ~known /\ ~reacting
    /\ \A i \in DOMAIN data : ~Announces(data[i])
    /\ \A i \in DOMAIN inbox : inbox[i][1] # "PUBLISH"
    /\ \A i \in DOMAIN steps :
         /\ steps[i][1] = "data" => ~Announces(steps[i][2])
         /\ steps[i][1] = "push" => ~IsDiscovery(steps[i][2])
    /\ ~IsDiscovery(slot) /\ ~IsDiscovery(outgoing)
    /\ \A i \in DOMAIN written : ~IsDiscovery(written[i])

\* What the handler of a packet other than PUBLISH awaits.
LEMMA HandlerUnasked ==
  ASSUME NEW packet \in TP!FromBroker, packet[1] # "PUBLISH",
         AnnounceOn = {"HomeAssistantOnline"}
  PROVE  \A i \in DOMAIN TP!Handler(packet) :
           /\ TP!Handler(packet)[i][1] = "data" => ~Announces(TP!Handler(packet)[i][2])
           /\ TP!Handler(packet)[i][1] = "push" => ~IsDiscovery(TP!Handler(packet)[i][2])
<1> DEFINE handler == TP!Handler(packet)
<1>1. ASSUME NEW type, NEW arg, type # "OTHER"
      PROVE  LET await == TP!Push(type, arg)
             IN  await[1] = "push" /\ ~IsDiscovery(await[2])
  BY <1>1 DEF TP!Push, TP!Packet, IsDiscovery
<1>2. LET await == TP!Tell("Connected", None)
      IN  await[1] = "data" /\ ~Announces(await[2])
  BY DEF TP!Tell, Announces
<1>3. CASE packet[1] = "CONNACK"
  <2> DEFINE topics == <<HA_STATUS_TOPIC>>
  <2>1. handler = TP!Subscribing(topics)
    BY <1>3 DEF TP!Handler
  <2>2. /\ handler \in Seq(TP!Awaits) /\ Len(handler) = 2
        /\ handler[1] = TP!Push("SUBSCRIBE", topics[1])
        /\ handler[2] = TP!Tell("Connected", None)
    BY <2>1, TP!SubscribingParts, TaskAssumptions
  <2>3. DOMAIN handler = {1, 2}
    BY <2>2
  <2> QED  BY <1>1, <1>2, <2>2, <2>3
<1>4. CASE packet[1] \in {"PUBREC", "PUBREL"}
  <2>1. handler = <<TP!Push("PUBREL", packet[2])>>
    BY <1>4 DEF TP!Handler
  <2> QED  BY <1>1, <2>1
<1>5. CASE packet[1] \notin {"CONNACK", "PUBREC", "PUBREL"}
  <2>1. handler = << >>
    BY <1>5 DEF TP!Handler
  <2> QED  BY <2>1
<1> QED  BY <1>3, <1>4, <1>5

\* No step makes the application publish discovery, or publishes it, unasked.
LEMMA UnaskedStep ==
  ASSUME TaskInv, HomeTyped, SeenFits, Unasked, [Next]_vars,
         AnnounceOn = {"HomeAssistantOnline"}
  PROVE  Unasked'
<1>1. CASE UNCHANGED <<offered, known, reacting, data, inbox, steps, slot, outgoing, written>>
  BY <1>1 DEF Unasked, PassedOn, Announces, IsDiscovery
<1>2. PassedOn => PassedOn'
  <2>1. offered \subseteq offered'
    BY TaskSame
    DEF Next, vars, task, TaskAlone, Loops, SessionEnds, AppReceive, PublishDiscovery,
        BrokerAnswersConnect, BrokerReads, HomeStarts, HomeOnline, HomeStops,
        TP!BackOff, TP!ConnectFails, TP!Connect, TP!Report, TP!WriteConnect,
        TP!WriterReceive, TP!WriterDone, TP!Read, TP!HandlerSends, TP!HandlerPushes,
        TP!Dropped, TP!ReadRefusal, TP!EndSession, TP!AppReceive, TP!OtherPush,
        TP!BrokerAnswersConnect, TP!BrokerSends, TP!bounds
  <2> QED  BY <2>1 DEF PassedOn
<1> SUFFICES ASSUME ~PassedOn PROVE Unasked'
  BY <1>2 DEF Unasked
<1> DEFINE Quiet(await) == /\ await[1] = "data" => ~Announces(await[2])
                           /\ await[1] = "push" => ~IsDiscovery(await[2])
<1>3. /\ ~known /\ ~reacting /\ ~IsDiscovery(slot) /\ ~IsDiscovery(outgoing)
      /\ \A i \in DOMAIN data : ~Announces(data[i])
      /\ \A i \in DOMAIN inbox : inbox[i][1] # "PUBLISH"
      /\ \A i \in DOMAIN steps : Quiet(steps[i])
      /\ \A i \in DOMAIN written : ~IsDiscovery(written[i])
  BY DEF Unasked
<1>4. /\ ~known' /\ ~reacting' /\ ~IsDiscovery(slot') /\ ~IsDiscovery(outgoing')
      /\ \A i \in DOMAIN data' : ~Announces(data'[i])
      /\ \A i \in DOMAIN inbox' : inbox'[i][1] # "PUBLISH"
      /\ \A i \in DOMAIN steps' : Quiet(steps'[i])
      /\ \A i \in DOMAIN written' : ~IsDiscovery(written'[i])
      => Unasked'
  BY DEF Unasked, Announces, IsDiscovery
<1>5. CASE TaskAlone
  <2>1. CASE TP!Report
    <3>1. /\ data' = Append(data, <<"Disconnected", None>>)
          /\ UNCHANGED <<inbox, steps, slot, outgoing, written, known, reacting>>
      BY <1>5, <2>1
      DEF TaskAlone, TP!Report, TP!SendData, TP!connection, home_assistant
    <3>2. ~Announces(<<"Disconnected", None>>) /\ <<"Disconnected", None>> \in TP!Events
      BY DEF Announces, TP!Events
    <3>3. \A i \in DOMAIN data' :
            \/ i \in DOMAIN data /\ data'[i] = data[i]
            \/ data'[i] = <<"Disconnected", None>>
      BY <3>1, <3>2, Typed, Adding
    <3> QED  BY <1>3, <1>4, <3>1, <3>2, <3>3
  <2>2. CASE TP!WriteConnect
    <3>1. /\ written' = <<TP!Packet("CONNECT", None)>>
          /\ UNCHANGED <<inbox, steps, slot, outgoing, data, known, reacting>>
      BY <1>5, <2>2 DEF TaskAlone, TP!WriteConnect, TP!channel, home_assistant
    <3>2. ~IsDiscovery(TP!Packet("CONNECT", None))
      BY DEF IsDiscovery, TP!Packet
    <3> QED  BY <1>3, <1>4, <3>1, <3>2
  <2>3. CASE TP!BackOff \/ TP!ConnectFails \/ TP!Connect
    BY <1>1, <1>5, <2>3
    DEF TaskAlone, TP!BackOff, TP!ConnectFails, TP!Connect, TP!connection, TP!channel,
        TP!bounds, home_assistant
  <2> QED  BY <1>5, <2>1, <2>2, <2>3, TaskSame DEF TaskAlone
<1>6. CASE SessionEnds
  <2>1. /\ slot' = None /\ outgoing' = None /\ steps' = << >> /\ inbox' = << >>
        /\ written' = << >> /\ UNCHANGED <<data, known, reacting>>
    BY <1>6, TaskSame
    DEF SessionEnds, TP!Dropped, TP!ReadRefusal, TP!EndSession, TP!channel
  <2> QED  BY <1>3, <1>4, <2>1 DEF IsDiscovery
<1>7. CASE Loops
  <2>0. UNCHANGED <<known, reacting>>
    BY <1>7 DEF Loops, home_assistant
  <2>1. CASE TP!WriterReceive
    BY <1>3, <1>4, <2>0, <2>1 DEF TP!WriterReceive, TP!channel, IsDiscovery
  <2>2. CASE TP!WriterDone
    <3>1. /\ outgoing \in TP!ToBroker /\ outgoing' = None /\ written' = Append(written, outgoing)
          /\ UNCHANGED <<slot, steps, inbox, data>>
      BY <2>2, Typed DEF TP!WriterDone, TP!channel, TaskInv, TP!TypeOK, TP!OnlyInSession
    <3>2. \A i \in DOMAIN written' :
            \/ i \in DOMAIN written /\ written'[i] = written[i]
            \/ written'[i] = outgoing
      BY <3>1, Typed, Adding
    <3> QED  BY <1>3, <1>4, <2>0, <3>1, <3>2 DEF IsDiscovery
  <2>3. CASE TP!Read
    <3>1. /\ inbox # << >> /\ inbox' = Tail(inbox) /\ steps' = TP!Handler(Head(inbox))
          /\ UNCHANGED <<slot, outgoing, written, data>>
      BY <2>3 DEF TP!Read, TP!channel
    <3>2. /\ Head(inbox) \in TP!FromBroker /\ Head(inbox)[1] # "PUBLISH"
          /\ \A i \in DOMAIN inbox' : inbox'[i][1] # "PUBLISH"
      BY <1>3, <3>1, Typed, Taking
    <3>3. \A i \in DOMAIN steps' : Quiet(steps'[i])
      BY <3>1, <3>2, HandlerUnasked
    <3> QED  BY <1>3, <1>4, <2>0, <3>1, <3>2, <3>3
  <2>4. CASE TP!HandlerSends \/ TP!HandlerPushes
    <3>1. steps # << >> /\ steps' = Tail(steps) /\ UNCHANGED <<outgoing, written, inbox>>
      BY <2>4 DEF TP!HandlerSends, TP!HandlerPushes
    <3>2. /\ 1 \in DOMAIN steps /\ Head(steps) = steps[1] /\ Head(steps) \in TP!Awaits
          /\ \A i \in DOMAIN steps' : Quiet(steps'[i])
      BY <1>3, <3>1, Typed, Taking
    <3>3. CASE TP!HandlerSends
      <4>1. /\ Head(steps)[1] = "data" /\ data' = Append(data, Head(steps)[2])
            /\ UNCHANGED slot
        BY <3>3 DEF TP!HandlerSends, TP!SendData
      <4>2. ~Announces(Head(steps)[2]) /\ Head(steps)[2] \in TP!Events
        BY <1>3, <3>2, <4>1 DEF TP!Awaits
      <4>3. \A i \in DOMAIN data' :
              \/ i \in DOMAIN data /\ data'[i] = data[i]
              \/ data'[i] = Head(steps)[2]
        BY <4>1, <4>2, Typed, Adding
      <4> QED  BY <1>3, <1>4, <2>0, <3>1, <3>2, <4>1, <4>2, <4>3
    <3>4. CASE TP!HandlerPushes
      <4>1. /\ Head(steps)[1] = "push" /\ slot' \in {slot, Head(steps)[2]}
            /\ UNCHANGED data
        BY <3>4 DEF TP!HandlerPushes, TP!Pushed, TP!channel
      <4>2. ~IsDiscovery(Head(steps)[2])
        BY <1>3, <3>2, <4>1
      <4>3. ~IsDiscovery(slot')
        BY <1>3, <4>1, <4>2
      <4> QED  BY <1>3, <1>4, <2>0, <3>1, <3>2, <4>1, <4>3
    <3> QED  BY <2>4, <3>3, <3>4
  <2> QED  BY <1>7, <2>1, <2>2, <2>3, <2>4, TaskSame DEF Loops
<1>8. CASE AppReceive
  <2>1. /\ data # << >> /\ data' = Tail(data) /\ reacting' = Announces(Head(data))
        /\ UNCHANGED <<known, slot, outgoing, steps, inbox, written>>
    BY <1>8, TaskSame DEF AppReceive, TP!AppReceive, TP!connection, home_assistant
  <2>2. ~Announces(Head(data)) /\ \A i \in DOMAIN data' : ~Announces(data'[i])
    BY <1>3, <2>1, Typed, Taking
  <2> QED  BY <1>3, <1>4, <2>1, <2>2
<1>9. ASSUME PublishDiscovery PROVE FALSE
  BY <1>3, <1>9 DEF PublishDiscovery
<1>10. CASE BrokerAnswersConnect
  <2>0. PICK accepts \in BOOLEAN : TP!BrokerAnswersConnect(accepts)
    BY <1>10, TaskSame DEF BrokerAnswersConnect
  <2> DEFINE packet == TP!Packet(IF accepts THEN "CONNACK" ELSE "REFUSED", None)
  <2>1. /\ packet \in TP!FromBroker /\ packet[1] # "PUBLISH"
        /\ inbox' = Append(inbox, packet)
        /\ UNCHANGED <<known, reacting, slot, outgoing, steps, written, data>>
    BY <1>10, <2>0
    DEF BrokerAnswersConnect, TP!BrokerAnswersConnect, TP!FromBroker, TP!Packet, TP!channel,
        home_assistant
  <2> HIDE DEF packet
  <2>2. \A i \in DOMAIN inbox' :
          \/ i \in DOMAIN inbox /\ inbox'[i] = inbox[i]
          \/ inbox'[i] = packet
    BY <2>1, Typed, Adding
  <2> QED  BY <1>3, <1>4, <2>1, <2>2
<1>11. CASE BrokerReads
  <2>1. seen + 1 \in DOMAIN written
    BY <1>11, Typed DEF BrokerReads, SeenFits
  <2>2. written[seen + 1] # None
    BY <2>1, Typed
  <2>3. written[seen + 1][1] # "OTHER"
    BY <1>3, <2>1, <2>2 DEF IsDiscovery
  <2>4. known' = FALSE
    BY <1>3, <1>11, <2>3 DEF BrokerReads
  <2>5. UNCHANGED <<reacting, slot, outgoing, steps, inbox, written, data>>
    BY <1>11 DEF BrokerReads, task
  <2> QED  BY <1>3, <1>4, <2>4, <2>5
<1>12. CASE HomeOnline
  <2>1. CASE Subscribed
    <3>1. offered' = offered \cup {<<TP!Packet("PUBLISH", starts), sessions>>}
      BY <1>12, <2>1, TaskSame DEF HomeOnline, TP!BrokerSends, T!Packet, TP!Packet
    <3> DEFINE offer == <<TP!Packet("PUBLISH", starts), sessions>>
    <3>2. offer \in offered' /\ offer[1][1] = "PUBLISH"
      BY <3>1 DEF TP!Packet
    <3> HIDE DEF offer
    <3> QED  BY <3>2 DEF Unasked, PassedOn
  <2>2. CASE ~Subscribed
    BY <1>1, <1>12, <2>2 DEF HomeOnline, task
  <2> QED  BY <2>1, <2>2
<1>13. CASE HomeStarts \/ HomeStops \/ UNCHANGED vars
  <2>1. /\ known' \in {known, FALSE}
        /\ UNCHANGED <<reacting, slot, outgoing, steps, inbox, written, data>>
    BY <1>13 DEF HomeStarts, HomeStops, vars, task, home_assistant
  <2> QED  BY <1>3, <1>4, <2>1
<1> QED  BY <1>5, <1>6, <1>7, <1>8, <1>9, <1>10, <1>11, <1>12, <1>13 DEF Next

\* If the application publishes discovery just when it is asked to: Home Assistant knows
\* the entity only if one of its starts was passed on to the device.  One that was online
\* before does not, however long the device is connected.
THEOREM UnaskedUnknown ==
  ASSUME AnnounceOn = {"HomeAssistantOnline"}
  PROVE  Spec => []KnownIfPassedOn
<1>1. Init => SeenFits /\ Unasked
  BY DEF Init, T!Init, SeenFits, Unasked, IsDiscovery
<1>2. TaskInv /\ HomeTyped /\ SeenFits /\ Unasked /\ [Next]_vars => SeenFits' /\ Unasked'
  BY SeenStep, UnaskedStep
<1>3. Unasked => KnownIfPassedOn
  BY DEF Unasked, KnownIfPassedOn
<1>4. Spec => []TaskInv
  BY TaskHolds, PTL DEF TaskInv
<1> QED  BY <1>1, <1>2, <1>3, <1>4, HomeHolds, PTL DEF Spec

(***************************************************************************)
(* An application that announces itself on Connected forgets nobody.       *)
(***************************************************************************)

\* Every step keeps Home Assistant from being forgotten.
LEMMA NotForgottenStep ==
  ASSUME TaskInv, HomeTyped, SeenFits, UnseenAnnounced, NotForgotten, [Next]_vars,
         "Connected" \in AnnounceOn
  PROVE  NotForgotten'
<1> SUFFICES ASSUME broker' = "accepted", home' = "online"
             PROVE  known' \/ WillPublish' \/ DiscoveryUnderWay'
  BY DEF NotForgotten
<1>1. ConnectedToTell \/ Reminded => WillPublish
  BY DEF ConnectedToTell, Reminded, WillPublish, Announces, TP!Tell
<1>2. CASE broker # "accepted"
  <2>1. ConnectedToTell'
    BY <1>2, Accepted
  <2> QED  BY <2>1 DEF ConnectedToTell, WillPublish, Announces, TP!Tell
<1>3. CASE broker = "accepted" /\ HomeOnline
  <2>1. home # "offline"
    BY <1>3 DEF HomeOnline
  <2>2. CASE ~Subscribed
    <3>1. Behind => DiscoveryUnderWay
      <4>1. ASSUME NEW i \in DOMAIN written, written[i] = Subscription
            PROVE  i > seen
        <5>1. i \in Nat \ {0} /\ seen \in Nat
          BY <4>1, Typed DEF SeenFits
        <5>2. i \notin 1 .. seen
          BY <2>2, <4>1 DEF Subscribed, Subscription, T!Packet, TP!Packet
        <5> QED  BY <5>1, <5>2
      <4> QED  BY <4>1, Typed DEF Behind, DiscoveryUnderWay, IsDiscovery, SeenFits
    <3> QED  BY <1>1, <1>3, <2>1, <2>2, <3>1, OnItsWay DEF UnseenAnnounced
  <2> QED  BY <1>3, <2>2, BirthReminds
<1>4. CASE broker = "accepted" /\ ~HomeOnline
  BY <1>4, KnownKeeps, OnItsWay DEF NotForgotten
<1> QED  BY <1>2, <1>3, <1>4

\* If the application publishes discovery on Connected as well: whenever the device and
\* Home Assistant meet, and whatever was lost before, Home Assistant knows the entity, or
\* discovery or what makes the application publish it is on its way.
THEOREM AnnouncedOnConnected ==
  ASSUME "Connected" \in AnnounceOn
  PROVE  Spec => []NotForgotten
<1>1. Init => NotForgottenInv
  <2>1. Init => broker = "none" /\ written = << >> /\ seen = 0
    BY DEF Init, T!Init
  <2> QED
    BY <2>1 DEF NotForgottenInv, SeenFits, ToldSubscribed, UnseenAnnounced, NotForgotten
<1>2. TaskInv /\ HomeTyped /\ NotForgottenInv /\ [Next]_vars => NotForgottenInv'
  BY SeenStep, ToldSubscribedStep, UnseenAnnouncedStep, NotForgottenStep DEF NotForgottenInv
<1>3. Spec => []TaskInv
  BY TaskHolds, PTL DEF TaskInv
<1> QED  BY <1>1, <1>2, <1>3, HomeHolds, PTL DEF Spec, NotForgottenInv

=============================================================================
