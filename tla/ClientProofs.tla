---------------------------- MODULE ClientProofs -----------------------------
(***************************************************************************)
(* Proofs about Client: the whole is its parts.  Every step of the client  *)
(* is a step of McutieTask and a step of Confirmation, or none of them,    *)
(* so that what is proved of the parts alone holds of them together, and   *)
(* no request is lost between them.                                        *)
(***************************************************************************)
EXTENDS Client, FiniteSetTheorems, SequenceTheorems, TLAPS

\* The parts with their theorems.
TP == INSTANCE McutieTaskProofs

CP == INSTANCE ConfirmationProofs WITH
        Subscriptions <- Len(Topics), MaxConnections <- MaxSessions

\* The range of a sequence is the same in every instance.
LEMMA RangeSame == \A f : Range(f) = T!Range(f) /\ Range(f) = TP!Range(f)
BY DEF Range, T!Range, TP!Range

\* So are the packets of the client.
LEMMA ToBrokerSame == T!ToBroker = TP!ToBroker
BY RangeSame DEF T!ToBroker, TP!ToBroker, T!Packet, TP!Packet

\* The requests that callers make.
LEMMA KindsAre ==
  \A kind \in Kinds : kind.request \in {"qos0", "qos1", "qos2", "subscribe", "unsubscribe"}
<1> SUFFICES ASSUME NEW kind \in C!AllKinds
             PROVE  kind.request \in {"qos0", "qos1", "qos2", "subscribe", "unsubscribe"}
  BY ConstantsAssumption
<1>1. CASE kind \in [request : {"subscribe", "unsubscribe"}, wait : BOOLEAN]
  BY <1>1
<1>2. \/ kind = [request |-> "qos0", wait |-> FALSE]
      \/ kind = [request |-> "qos1", wait |-> TRUE]
      \/ kind = [request |-> "qos2", wait |-> TRUE]
      \/ kind \in [request : {"subscribe", "unsubscribe"}, wait : BOOLEAN]
  BY Zenon DEF C!AllKinds
<1>3. ASSUME NEW r, NEW w, kind = [request |-> r, wait |-> w]
      PROVE  kind.request = r
  BY <1>3, Zenon
<1> QED  BY <1>1, <1>2, <1>3

\* The requests of the packets that the task pushes for callers.
LEMMA RequestsTyped ==
  \A a \in Others : a[3] \in {"qos0", "qos1", "qos2", "subscribe", "unsubscribe"}
BY KindsAre DEF Others

\* What the broker replies to the requests is what the task asks of Reply.
LEMMA ReplyTyped ==
  Reply \in [Others \cup Range(Topics) ->
               {"PUBACK", "PUBREC", "SUBACK", "UNSUBACK", "PINGRESP", None}]
<1>1. \A a \in Others :
        ReplyTo(a[3]) \in {"PUBACK", "PUBREC", "SUBACK", "UNSUBACK", "PINGRESP", None}
  BY RequestsTyped DEF ReplyTo
<1> QED  BY <1>1 DEF Reply

\* The constants are as the task assumes.
LEMMA TaskAssumptions == TP!ConstantsAssumption /\ TP!NoneIsNoPacket
BY ConstantsAssumption, ReplyTyped, RangeSame, ToBrokerSame

\* The constants are as the operations assume.
LEMMA OperationsAssumptions == CP!ConstantsAssumption
BY ConstantsAssumption DEF C!AllKinds, CP!AllKinds, CP!IsFiniteSet, IsFiniteSet

(***************************************************************************)
(* The client implements the confirmed operations.                         *)
(***************************************************************************)

\* Every step of the client is a step of the operations, or none.
LEMMA OperationsStep ==
  ASSUME [Next]_vars
  PROVE  [C!Next]_C!vars
<1>0. UNCHANGED operations => UNCHANGED C!vars
  BY DEF operations, C!vars, C!channel, C!network
<1>1. CASE UNCHANGED operations
  BY <1>0, <1>1
<1>2. CASE TaskAlone \/ ReadMessage \/ AppReceive
  BY <1>1, <1>2 DEF TaskAlone, ReadMessage, AppReceive
<1>3. CASE WriteConnect \/ ReadConnack \/ SubscribeNext
  BY <1>3 DEF WriteConnect, ReadConnack, SubscribeNext, C!Next
<1>4. CASE SessionEnds
  BY <1>1, <1>4 DEF SessionEnds, C!Next
<1>5. CASE ReadAnswer
  BY <1>5 DEF ReadAnswer, C!Next
<1>6. CASE HandlerPushes
  BY <1>1, <1>6 DEF HandlerPushes, C!Next, C!Step, C!Clients
<1>7. CASE \E c \in Callers : Push(c) \/ Proceed(c)
  BY <1>7 DEF Push, Proceed, C!Next, C!Step, C!Clients
<1>8. CASE \E c \in Callers : StartOrEnd(c)
  BY <1>8 DEF StartOrEnd, C!Next, C!Step, C!Clients
<1>9. CASE Subscribing
  BY <1>9 DEF Subscribing, C!Next, C!Step, C!Clients
<1>10. CASE UNCHANGED vars
  BY <1>1, <1>10 DEF vars
<1> QED  BY <1>2, <1>3, <1>4, <1>5, <1>6, <1>7, <1>8, <1>9, <1>10 DEF Next

\* Whatever the task does, the operations see no more than what Confirmation allows:
\* every packet that the receive loop reads and every push that resolves is an
\* answer, a connection or a send of theirs, or nothing to them.
THEOREM ImplementsConfirmation == Spec => C!Spec
<1>1. Init => C!Init
  BY DEF Init
<1>2. [Next]_vars => [C!Next]_C!vars
  BY OperationsStep
<1> QED  BY <1>1, <1>2, PTL DEF Spec, C!Spec

\* Confirmation and its theorems are instantiated apart; they are the same.
LEMMA OperationsSame ==
  /\ C!Init <=> CP!Init
  /\ C!Next <=> CP!Next
  /\ C!vars = CP!vars
<1>1. /\ C!Clients = CP!Clients /\ C!NotStarted = CP!NotStarted
      /\ C!channel = CP!channel /\ C!network = CP!network
  BY DEF C!Clients, CP!Clients, C!NotStarted, CP!NotStarted, C!channel, CP!channel,
         C!network, CP!network
<1>2. C!Init <=> CP!Init
  BY <1>1 DEF C!Init, CP!Init
<1>3. C!vars = CP!vars
  BY <1>1 DEF C!vars, CP!vars
<1>4. C!SlotFree <=> CP!SlotFree
  BY DEF C!SlotFree, CP!SlotFree, C!Cardinality, CP!Cardinality
<1> USE DEF C!channel, CP!channel, C!network, CP!network
<1>5. ASSUME NEW c, NEW kind
      PROVE  C!Start(c, kind) <=> CP!Start(c, kind)
  BY DEF C!Start, CP!Start, C!Begin, CP!Begin
<1>6. ASSUME NEW c
      PROVE  C!Join(c) <=> CP!Join(c)
  BY <1>4 DEF C!Join, CP!Join, C!AssignPid, CP!AssignPid, C!PidOf, CP!PidOf
<1>7. ASSUME NEW c
      PROVE  C!Send(c) <=> CP!Send(c)
  BY DEF C!Send, CP!Send, C!PacketOf, CP!PacketOf, C!Confirmed, CP!Confirmed,
         C!Return, CP!Return, C!Release, CP!Release
<1>8. ASSUME NEW c
      PROVE  /\ C!TopicTooLarge(c) <=> CP!TopicTooLarge(c)
             /\ C!PacketTooLarge(c) <=> CP!PacketTooLarge(c)
             /\ C!ReadMessage(c) <=> CP!ReadMessage(c)
             /\ C!TimeOut(c) <=> CP!TimeOut(c)
             /\ C!Cancel(c) <=> CP!Cancel(c)
  <2> USE DEF C!Return, CP!Return, C!Release, CP!Release
  <2>1. C!TopicTooLarge(c) <=> CP!TopicTooLarge(c)
    BY <1>4 DEF C!TopicTooLarge, CP!TopicTooLarge
  <2>2. C!ReadMessage(c) <=> CP!ReadMessage(c)
    BY DEF C!ReadMessage, CP!ReadMessage, C!Confirms, CP!Confirms, C!Variant, CP!Variant
  <2>3. /\ C!PacketTooLarge(c) <=> CP!PacketTooLarge(c)
        /\ C!TimeOut(c) <=> CP!TimeOut(c)
        /\ C!Cancel(c) <=> CP!Cancel(c)
    BY DEF C!PacketTooLarge, CP!PacketTooLarge, C!TimeOut, CP!TimeOut, C!Cancel, CP!Cancel
  <2> QED  BY <2>1, <2>2, <2>3
<1>9. /\ C!Open <=> CP!Open
      /\ C!Connack <=> CP!Connack
      /\ C!Resubscribe <=> CP!Resubscribe
      /\ C!Disconnect <=> CP!Disconnect
  BY DEF C!Open, CP!Open, C!Connack, CP!Connack, C!Resubscribe, CP!Resubscribe,
         C!Disconnect, CP!Disconnect, C!Begin, CP!Begin, C!Return, CP!Return,
         C!Release, CP!Release
<1>10. ASSUME NEW p, NEW success
       PROVE  C!Answer(p, success) <=> CP!Answer(p, success)
  BY <1>1 DEF C!Answer, CP!Answer, C!Reading, CP!Reading, C!Variant, CP!Variant,
     C!PublishImmediate, CP!PublishImmediate, C!Newest, CP!Newest
<1>11. ASSUME NEW c
       PROVE  C!Step(c) <=> CP!Step(c)
  BY <1>6, <1>7, <1>8 DEF C!Step, CP!Step
<1> HIDE DEF C!channel, CP!channel, C!network, CP!network
<1>12. C!Next <=> CP!Next
  BY <1>1, <1>5, <1>8, <1>9, <1>10, <1>11 DEF C!Next, CP!Next
<1> QED  BY <1>2, <1>3, <1>12

\* A behaviour of the client is one of the operations.
LEMMA OperationsSpec == Spec => CP!Spec
<1>1. Init => CP!Init
  BY OperationsSame DEF Init
<1>2. [Next]_vars => [CP!Next]_CP!vars
  <2>1. UNCHANGED C!vars => UNCHANGED CP!vars
    BY DEF C!vars, CP!vars, C!channel, CP!channel, C!network, CP!network
  <2> QED  BY <2>1, OperationsStep, OperationsSame
<1> QED  BY <1>1, <1>2, PTL DEF Spec, CP!Spec

\* What Confirmation's theorems need of the operations.
LEMMA OperationsTyped ==
  Spec => [](/\ op \in [C!Clients -> C!Operations]
             /\ started \in [C!Clients -> Nat])
<1>1. CP!TypeOK => /\ op \in [C!Clients -> C!Operations]
                   /\ started \in [C!Clients -> Nat]
  BY OperationsSame DEF CP!TypeOK, CP!OperationsTyped, CP!Operations, C!Operations,
     C!Clients, CP!Clients
<1> QED  BY <1>1, OperationsSpec, CP!TypeCorrect, OperationsAssumptions, PTL

(***************************************************************************)
(* The client implements the task.                                         *)
(***************************************************************************)

\* The packets of the application are its operations', each its own.
Named ==
  \A c \in Callers :
    op[c].stage # "idle" => <<c, started[c], op[c].request>> \in Others

Typed ==
  /\ op \in [C!Clients -> C!Operations]
  /\ started \in [C!Clients -> Nat]

\* An operation has one number and one request from its start to its end.
LEMMA Identity ==
  ASSUME Typed, [Next]_vars, NEW c \in Callers
  PROVE  \/ started'[c] = started[c] /\ op'[c].request = op[c].request
                                     /\ op'[c].wait = op[c].wait
                                     /\ (op[c].stage = "idle" => op'[c] = op[c])
         \/ \E kind \in Kinds : C!Start(c, kind)
<1>0. c \in C!Clients /\ RecvLoop \in C!Clients /\ c # RecvLoop /\ op[c] \in C!Operations
  BY ConstantsAssumption DEF C!Clients, Typed
<1>1. CASE UNCHANGED op /\ UNCHANGED started
  BY <1>1
<1>2. ASSUME NEW d \in C!Clients, NEW outcome, C!Return(d, outcome)
      PROVE  /\ op'[c].request = op[c].request /\ op'[c].wait = op[c].wait
             /\ d # c => op'[c] = op[c]
  BY <1>0, <1>2 DEF C!Return, Typed, C!Operations
<1>3. ASSUME NEW d \in C!Clients, NEW e, op' = [op EXCEPT ![d] = e], d # c
      PROVE  op'[c] = op[c]
  BY <1>0, <1>3 DEF Typed
<1>4. ASSUME NEW d \in C!Clients, C!Join(d)
      PROVE  /\ op'[c].request = op[c].request /\ op'[c].wait = op[c].wait
             /\ op[c].stage = "idle" => op'[c] = op[c]
             /\ UNCHANGED started
  BY <1>0, <1>4 DEF C!Join, Typed, C!Operations
<1>5. ASSUME NEW d \in C!Clients, C!Send(d)
      PROVE  /\ op'[c].request = op[c].request /\ op'[c].wait = op[c].wait
             /\ op[c].stage = "idle" => op'[c] = op[c]
             /\ UNCHANGED started
  <2>1. CASE op[d].wait
    BY <1>0, <1>5, <2>1 DEF C!Send, Typed, C!Operations
  <2>2. CASE ~op[d].wait
    BY <1>0, <1>2, <1>5, <2>2 DEF C!Send
  <2> QED  BY <2>1, <2>2
<1>6. ASSUME NEW d \in C!Clients,
             \/ C!ReadMessage(d) \/ C!TimeOut(d) \/ C!TopicTooLarge(d)
             \/ C!PacketTooLarge(d) \/ C!Cancel(d)
      PROVE  /\ op'[c].request = op[c].request /\ op'[c].wait = op[c].wait
             /\ op[c].stage = "idle" => op'[c] = op[c]
             /\ UNCHANGED started
  <2>1. UNCHANGED started /\ op[d].stage # "idle"
    BY <1>6 DEF C!ReadMessage, C!TimeOut, C!TopicTooLarge, C!PacketTooLarge, C!Cancel
  <2>2. UNCHANGED op \/ \E outcome : C!Return(d, outcome)
    BY <1>6 DEF C!ReadMessage, C!TimeOut, C!TopicTooLarge, C!PacketTooLarge, C!Cancel
  <2> QED  BY <1>2, <2>1, <2>2
<1>7. CASE C!Disconnect
  BY <1>0, <1>2, <1>7 DEF C!Disconnect
<1>8. CASE C!Resubscribe
  <2>1. started'[c] = started[c] /\ op'[c] = op[c]
    BY <1>0, <1>8 DEF C!Resubscribe, C!Begin, Typed
  <2> QED  BY <2>1
<1>9. ASSUME NEW p, NEW success, C!Answer(p, success)
      PROVE  UNCHANGED started /\ op'[c] = op[c]
  BY <1>0, <1>9 DEF C!Answer, Typed
<1>10. ASSUME NEW d \in Callers, NEW kind \in Kinds, C!Start(d, kind), d # c
       PROVE  started'[c] = started[c] /\ op'[c] = op[c]
  BY <1>0, <1>10 DEF C!Start, C!Begin, Typed
<1>11. CASE C!Open \/ C!Connack
  BY <1>1, <1>11 DEF C!Open, C!Connack
<1>12. CASE UNCHANGED C!vars
  BY <1>1, <1>12 DEF C!vars
<1>13. [C!Next]_C!vars
  BY OperationsStep
<1>14. CASE C!Next
  <2>1. CASE \E d \in Callers, kind \in Kinds : C!Start(d, kind)
    BY <1>10, <2>1
  <2>2. CASE \E d \in C!Clients : C!Step(d) \/ C!Cancel(d)
    BY <1>4, <1>5, <1>6, <2>2 DEF C!Step
  <2>3. CASE \E p \in wire, success \in BOOLEAN : C!Answer(p, success)
    BY <1>9, <2>3
  <2>4. CASE C!Open \/ C!Connack \/ C!Resubscribe \/ C!Disconnect
    BY <1>7, <1>8, <1>11, <2>4
  <2> QED  BY <1>14, <2>1, <2>2, <2>3, <2>4 DEF C!Next, C!Clients
<1> QED  BY <1>12, <1>13, <1>14

\* Operations keep to the names that the task knows.
LEMMA NamedStep ==
  ASSUME Typed, Named, [Next]_vars
  PROVE  Named'
<1> SUFFICES ASSUME NEW c \in Callers, op'[c].stage # "idle"
             PROVE  <<c, started'[c], op'[c].request>> \in Others
  BY DEF Named
<1>1. CASE \E kind \in Kinds : C!Start(c, kind)
  <2>1. PICK kind \in Kinds : C!Start(c, kind)
    BY <1>1
  <2>2. /\ started'[c] = started[c] + 1 /\ op'[c].request = kind.request
        /\ started[c] < MaxOps /\ started[c] \in Nat
    BY <2>1 DEF C!Start, C!Begin, Typed, C!Clients
  <2>3. started'[c] \in 1 .. MaxOps
    BY <2>2, ConstantsAssumption
  <2> QED  BY <2>2, <2>3 DEF Others
<1>2. CASE /\ started'[c] = started[c] /\ op'[c].request = op[c].request
           /\ op[c].stage = "idle" => op'[c] = op[c]
  BY <1>2 DEF Named
<1> QED  BY <1>1, <1>2, Identity

\* Every step of the client is a step of the task, or none.
LEMMA TaskStep ==
  ASSUME Typed, Named, [Next]_vars
  PROVE  [T!Next]_T!vars
<1>0. UNCHANGED task => UNCHANGED T!vars
  BY DEF task, T!vars, T!attempt, T!connection, T!channel, T!bounds
<1>1. CASE UNCHANGED task
  BY <1>0, <1>1
<1>2. CASE TaskAlone
  BY <1>2 DEF TaskAlone, T!Next
<1>3. CASE WriteConnect \/ SessionEnds
  BY <1>3 DEF WriteConnect, SessionEnds, T!Next
<1>4. CASE ReadConnack \/ ReadAnswer \/ ReadMessage
  BY <1>4 DEF ReadConnack, ReadAnswer, ReadMessage, T!Next
<1>5. CASE HandlerPushes \/ AppReceive
  BY <1>5 DEF HandlerPushes, AppReceive, T!Next
<1>6. CASE \E c \in Callers : Push(c)
  <2>1. PICK c \in Callers : Push(c)
    BY <1>6
  <2>2. op[c].stage = "sending"
    BY <2>1 DEF Push, C!Send
  <2>3. <<c, started[c], op[c].request>> \in Others
    BY <2>2 DEF Named
  <2> QED  BY <2>1, <2>3 DEF Push, T!Next
<1>7. CASE \E c \in Callers : Proceed(c) \/ StartOrEnd(c)
  BY <1>1, <1>7 DEF Proceed, StartOrEnd
<1>8. CASE SubscribeNext \/ Subscribing
  BY <1>1, <1>8 DEF SubscribeNext, Subscribing
<1>9. CASE UNCHANGED vars
  BY <1>1, <1>9 DEF vars
<1> QED  BY <1>2, <1>3, <1>4, <1>5, <1>6, <1>7, <1>8, <1>9 DEF Next

\* No operation has begun at first.
LEMMA NamedInit == Init => Named
BY DEF Init, C!Init, C!NotStarted, Named, C!Clients

\* The task goes through nothing with the operations that it could not go through
\* alone: what they push is what McutieTask's application pushes, and no more.
THEOREM ImplementsTask == Spec => T!Spec
<1>1. Init => T!Init
  BY DEF Init
<1>2. Typed /\ Named /\ [Next]_vars => Named' /\ [T!Next]_T!vars
  BY NamedStep, TaskStep
<1>3. Spec => []Typed
  BY OperationsTyped DEF Typed
<1> QED  BY <1>1, <1>2, <1>3, NamedInit, PTL DEF Spec, T!Spec

\* McutieTask and its theorems are instantiated apart; they are the same.
LEMMA TaskSame ==
  /\ T!Init <=> TP!Init
  /\ T!Next <=> TP!Next
  /\ UNCHANGED T!vars <=> UNCHANGED TP!vars
<1> USE DEF T!attempt, TP!attempt, T!connection, TP!connection, T!channel, TP!channel,
            T!bounds, TP!bounds, T!Packet, TP!Packet
<1>1. T!Init <=> TP!Init
  BY DEF T!Init, TP!Init
<1>2. UNCHANGED T!vars <=> UNCHANGED TP!vars
  BY DEF T!vars, TP!vars
<1>3. /\ T!BackOff <=> TP!BackOff
      /\ T!ConnectFails <=> TP!ConnectFails
      /\ T!Connect <=> TP!Connect
      /\ T!Report <=> TP!Report
  BY DEF T!BackOff, TP!BackOff, T!ConnectFails, TP!ConnectFails, T!Connect, TP!Connect,
         T!Report, TP!Report, T!SendData, TP!SendData
<1>4. /\ T!Dropped <=> TP!Dropped
      /\ T!ReadRefusal <=> TP!ReadRefusal
  BY DEF T!Dropped, TP!Dropped, T!ReadRefusal, TP!ReadRefusal, T!EndSession, TP!EndSession,
      T!Lost, TP!Lost
<1>5. /\ T!WriteConnect <=> TP!WriteConnect
      /\ T!WriterReceive <=> TP!WriterReceive
      /\ T!WriterDone <=> TP!WriterDone
  BY DEF T!WriteConnect, TP!WriteConnect, T!WriterReceive, TP!WriterReceive,
         T!WriterDone, TP!WriterDone
<1>6. /\ \A a : T!OtherPush(a) <=> TP!OtherPush(a)
      /\ T!HandlerPushes <=> TP!HandlerPushes
  BY DEF T!OtherPush, TP!OtherPush, T!HandlerPushes, TP!HandlerPushes, T!Pushed, TP!Pushed,
         T!Connected, TP!Connected
<1>7. T!HandlerSends <=> TP!HandlerSends
  BY DEF T!HandlerSends, TP!HandlerSends, T!SendData, TP!SendData
<1>8. T!Read <=> TP!Read
  BY DEF T!Read, TP!Read, T!Handler, TP!Handler, T!Subscribing, TP!Subscribing,
         T!Publishing, TP!Publishing, T!Push, TP!Push, T!Tell, TP!Tell, T!Delivery,
         TP!Delivery, T!Acknowledgement, TP!Acknowledgement
<1>9. \A type, arg : T!Wrote(type, arg) <=> TP!Wrote(type, arg)
  BY DEF T!Wrote, TP!Wrote
<1>10. /\ \A accepts : T!BrokerAnswersConnect(accepts) <=> TP!BrokerAnswersConnect(accepts)
       /\ \A packet : T!BrokerSends(packet) <=> TP!BrokerSends(packet)
       /\ T!BrokerPackets = TP!BrokerPackets
  BY <1>9 DEF T!BrokerAnswersConnect, TP!BrokerAnswersConnect, T!BrokerSends, TP!BrokerSends,
         T!BrokerPackets, TP!BrokerPackets
<1>11. T!AppReceive <=> TP!AppReceive
  BY DEF T!AppReceive, TP!AppReceive
<1> HIDE DEF T!attempt, TP!attempt, T!connection, TP!connection, T!channel, TP!channel,
             T!bounds, TP!bounds, T!Packet, TP!Packet
<1>12. T!Next <=> TP!Next
  BY <1>3, <1>4, <1>5, <1>6, <1>7, <1>8, <1>10, <1>11 DEF T!Next, TP!Next
<1> QED  BY <1>1, <1>2, <1>12

\* A behaviour of the client is one of the task.
LEMMA TaskSpec == Spec => TP!Spec
<1>1. T!Init => TP!Init
  BY TaskSame
<1>2. [T!Next]_T!vars => [TP!Next]_TP!vars
  BY TaskSame
<1> QED  BY <1>1, <1>2, ImplementsTask, PTL DEF T!Spec, TP!Spec

(***************************************************************************)
(* Ok means answered: the broker sent the acknowledgement of the request.  *)
(***************************************************************************)

Request(c) == <<c, started[c], op[c].request>>

Answered(request) == \E o \in offered : o[1] = T!Packet(Reply[request], request)

\* What a caller has on the wire is a packet of the application, and if it is its
\* present operation's it asks for what that operation wants.
WireNamed ==
  \A p \in wire : p.by[1] \in Callers => <<p.by[1], p.by[2], p.request>> \in Others

WireOwn ==
  \A c \in Callers : \A p \in wire : p.by = <<c, started[c]>> => p.request = op[c].request

\* Whoever has been answered has been answered by the broker.
AnswersOffered ==
  \A c \in Callers, b \in BOOLEAN :
    <<<<c, started[c]>>, b>> \in answered => Answered(Request(c))

AnswersInv == WireNamed /\ WireOwn /\ AnswersOffered

\* What the proofs of the parts know of them.
PartsInv == Typed /\ Named /\ CP!HeardInv /\ TP!TypeOK /\ TP!FreshInv

\* What was proved of the parts holds of the client.
LEMMA PartsHold == Spec => []PartsInv
<1>1. Spec => []Typed
  BY OperationsTyped DEF Typed
<1>2. Spec => []Named
  BY <1>1, NamedInit, NamedStep, PTL DEF Spec
<1>3. Spec => []CP!HeardInv
  <2>1. CP!Init => CP!HeardInv
    BY CP!HeardInit, OperationsAssumptions
  <2>2. CP!HeardInv /\ [CP!Next]_CP!vars => CP!HeardInv'
    BY CP!HeardStep, OperationsAssumptions
  <2> QED  BY <2>1, <2>2, OperationsSpec, PTL DEF CP!Spec
<1>4. Spec => []TP!TypeOK /\ []TP!FreshInv
  BY TaskSpec, TP!TypeCorrect, TP!FreshHolds, TaskAssumptions, PTL
<1> QED  BY <1>1, <1>2, <1>3, <1>4, PTL DEF PartsInv

\* What the broker has offered it has offered for good.
LEMMA OfferedStays ==
  ASSUME PartsInv, [Next]_vars
  PROVE  offered \subseteq offered'
<1>1. [T!Next]_T!vars
  BY TaskStep DEF PartsInv
<1> QED  BY <1>1 DEF T!Next, T!BackOff, T!ConnectFails, T!Connect, T!Report, T!Dropped,
            T!ReadRefusal, T!EndSession, T!WriteConnect, T!WriterReceive, T!WriterDone,
            T!OtherPush, T!Read, T!HandlerSends, T!HandlerPushes, T!BrokerAnswersConnect,
            T!BrokerSends, T!AppReceive, T!vars, T!bounds

\* Only reading an acknowledgement makes an operation answered.
LEMMA OnlyReadAnswer ==
  ASSUME [Next]_vars, ~ReadAnswer
  PROVE  answered' = answered
<1> USE DEF C!network, operations
<1>1. CASE TaskAlone \/ WriteConnect \/ SessionEnds \/ ReadConnack \/ ReadMessage
  BY <1>1 DEF TaskAlone, WriteConnect, SessionEnds, ReadConnack, ReadMessage, C!Open,
              C!Disconnect, C!Connack
<1>2. CASE SubscribeNext \/ HandlerPushes \/ Subscribing \/ AppReceive
  BY <1>2 DEF SubscribeNext, HandlerPushes, Subscribing, AppReceive, C!Resubscribe, C!Send,
              C!Join
<1>3. CASE \E c \in Callers : Push(c) \/ Proceed(c)
  BY <1>3 DEF Push, Proceed, C!Send, C!Join, C!ReadMessage, C!TimeOut
<1>4. CASE \E c \in Callers : StartOrEnd(c)
  BY <1>4 DEF StartOrEnd, C!Start, C!TopicTooLarge, C!PacketTooLarge, C!Cancel
<1>5. CASE UNCHANGED vars
  BY <1>5 DEF vars
<1> QED  BY <1>1, <1>2, <1>3, <1>4, <1>5 DEF Next

\* What comes on the wire is a running operation's packet.
LEMMA OnlySenders ==
  ASSUME [Next]_vars, NEW p \in wire', p \notin wire
  PROVE  \E c \in C!Clients : op[c].stage = "sending" /\ C!Send(c) /\ p = C!PacketOf(c)
<1>1. [CP!Next]_CP!vars
  BY OperationsStep, OperationsSame DEF C!vars, CP!vars, C!channel, CP!channel, C!network,
     CP!network
<1>2. \E c \in CP!Clients : CP!Send(c) /\ p = CP!PacketOf(c)
  BY <1>1, CP!Traffic, OperationsAssumptions
<1> QED  BY <1>2 DEF CP!Clients, C!Clients, CP!Send, C!Send, CP!PacketOf, C!PacketOf,
            C!Confirmed, CP!Confirmed, C!Return, CP!Return, C!Release, CP!Release,
            C!channel, CP!channel

\* What is on the wire has the name of the operation it is of.
LEMMA WireStep ==
  ASSUME PartsInv, AnswersInv, [Next]_vars
  PROVE  WireNamed' /\ WireOwn'
<1>0. /\ Typed /\ Named /\ CP!Numbered
      /\ \A p \in wire : p.by \in C!Clients \X Nat
      /\ \A d \in Callers : d \in C!Clients /\ started[d] \in Nat
  BY OperationsAssumptions DEF PartsInv, CP!HeardInv, CP!TypeInv, CP!TypeOK, CP!NetworkTyped,
     C!Clients, CP!Clients, Typed
<1>1. ASSUME NEW p \in wire', p \notin wire, p.by[1] \in Callers
      PROVE  LET c == p.by[1]
             IN  /\ p.by = <<c, started[c]>> /\ p.request = op[c].request
                 /\ op[c].stage # "idle"
  <2>1. PICK c \in C!Clients : op[c].stage = "sending" /\ C!Send(c) /\ p = C!PacketOf(c)
    BY <1>1, OnlySenders
  <2>2. p.by = <<c, started[c]>> /\ p.request = op[c].request /\ p.by[1] = c
    BY <2>1 DEF C!PacketOf
  <2> QED  BY <2>1, <2>2
<1>2. WireNamed'
  <2> SUFFICES ASSUME NEW p \in wire', p.by[1] \in Callers
               PROVE  <<p.by[1], p.by[2], p.request>> \in Others
    BY DEF WireNamed
  <2>1. CASE p \in wire
    BY <2>1 DEF AnswersInv, WireNamed
  <2>2. CASE p \notin wire
    <3>1. /\ p.by = <<p.by[1], started[p.by[1]]>> /\ p.request = op[p.by[1]].request
          /\ op[p.by[1]].stage # "idle"
      BY <1>1, <2>2
    <3>2. p.by[2] = started[p.by[1]]
      BY <3>1
    <3> QED  BY <1>0, <3>1, <3>2 DEF Named
  <2> QED  BY <2>1, <2>2
<1>3. WireOwn'
  <2> SUFFICES ASSUME NEW c \in Callers, NEW p \in wire', p.by = <<c, started'[c]>>
               PROVE  p.request = op'[c].request
    BY DEF WireOwn
  <2>0. p.by[1] = c /\ p.by[2] = started'[c]
    OBVIOUS
  <2>1. CASE \E kind \in Kinds : C!Start(c, kind)
    <3>1. started'[c] = started[c] + 1 /\ UNCHANGED wire
      BY <1>0, <2>1 DEF C!Start, C!Begin, Typed, C!network
    <3>2. p.by[2] <= started[c]
      BY <2>0, <3>1, <1>0 DEF CP!Numbered
    <3> QED  BY <1>0, <2>0, <3>1, <3>2
  <2>2. CASE started'[c] = started[c] /\ op'[c].request = op[c].request
    <3>1. CASE p \in wire
      BY <2>2, <3>1 DEF AnswersInv, WireOwn
    <3>2. CASE p \notin wire
      BY <1>1, <2>0, <2>2, <3>2
    <3> QED  BY <3>1, <3>2
  <2> QED  BY <1>0, <2>1, <2>2, Identity
<1> QED  BY <1>2, <1>3

\* Every step keeps the answers those of the broker.
LEMMA AnswersStep ==
  ASSUME PartsInv, AnswersInv, [Next]_vars
  PROVE  AnswersInv'
<1>0. /\ Typed /\ Named /\ CP!Numbered /\ TP!TypeOK /\ TP!FreshInv
      /\ \A p \in wire : p.by \in C!Clients \X Nat /\ C!Confirmed(p.request)
      /\ \A d \in Callers : d \in C!Clients /\ started[d] \in Nat /\ d # RecvLoop
  BY OperationsAssumptions DEF PartsInv, CP!HeardInv, CP!TypeInv, CP!TypeOK, CP!NetworkTyped,
     C!Clients, CP!Clients, Typed, CP!Confirmed, C!Confirmed, CP!ConstantsAssumption
<1>1. \A a : Answered(a) => Answered(a)'
  BY OfferedStays DEF Answered
<1>2. ASSUME NEW c \in Callers, NEW b \in BOOLEAN, <<<<c, started'[c]>>, b>> \in answered'
      PROVE  Answered(Request(c))'
  <2>1. CASE \E kind \in Kinds : C!Start(c, kind)
    <3>1. started'[c] = started[c] + 1 /\ UNCHANGED answered
      BY <1>0, <2>1 DEF C!Start, C!Begin, Typed, C!network
    <3>2. started'[c] <= started[c]
      BY <1>2, <3>1, <1>0 DEF CP!Numbered
    <3> QED  BY <1>0, <3>1, <3>2
  <2>2. CASE started'[c] = started[c] /\ op'[c].request = op[c].request
    <3>0. Request(c)' = Request(c)
      BY <2>2 DEF Request
    <3>1. CASE <<<<c, started[c]>>, b>> \in answered
      <4>1. Answered(Request(c))
        BY <3>1 DEF AnswersInv, AnswersOffered
      <4> QED  BY <1>1, <3>0, <4>1
    <3>2. CASE <<<<c, started[c]>>, b>> \notin answered
      <4>1. ReadAnswer
        BY <1>2, <2>2, <3>2, OnlyReadAnswer
      <4>2. PICK p \in wire, success \in BOOLEAN :
              Acknowledges(Head(inbox), p) /\ C!Answer(p, success)
        BY <4>1 DEF ReadAnswer
      <4>3. p.by = <<c, started[c]>>
        BY <1>2, <2>2, <3>2, <4>2 DEF C!Answer
      <4>4. /\ p.by[1] = c /\ p.by[2] = started[c] /\ p.request = op[c].request
            /\ <<c, started[c], op[c].request>> \in Others
        BY <4>3 DEF AnswersInv, WireOwn, WireNamed
      <4>5. TaskPacket(p) = T!Packet("OTHER", Request(c))
        BY <1>0, <4>4 DEF TaskPacket, Request
      <4>6. Head(inbox) = T!Packet(Reply[Request(c)], Request(c))
        BY <4>2, <4>5 DEF Acknowledges, T!Packet
      <4>7. Head(inbox)[1] \notin {"CONNACK", "REFUSED"}
        <5>1. C!Confirmed(op[c].request)
          BY <1>0, <4>2, <4>4
        <5>2. ReplyTo(op[c].request) \in {"PUBACK", "PUBREC", "SUBACK", "UNSUBACK"}
          BY <5>1 DEF C!Confirmed, ReplyTo
        <5>3. Reply[Request(c)] \in {"PUBACK", "PUBREC", "SUBACK", "UNSUBACK"}
          BY <4>4, <5>2 DEF Reply, Request
        <5> QED  BY <4>6, <5>3 DEF T!Packet
      <4>8. <<Head(inbox), sessions>> \in offered
        <5>1. inbox # << >> /\ inbox \in Seq(TP!FromBroker)
          BY <1>0, <4>1 DEF ReadAnswer, TP!TypeOK, TP!ConnectionTyped
        <5>2. 1 \in DOMAIN inbox /\ Head(inbox) = inbox[1]
          BY <5>1
        <5> QED  BY <1>0, <4>7, <5>2 DEF TP!FreshInv, TP!OnRequest
      <4>9. Answered(Request(c))
        BY <4>6, <4>8 DEF Answered
      <4> QED  BY <1>1, <3>0, <4>9
    <3> QED  BY <3>1, <3>2
  <2> QED  BY <1>0, <2>1, <2>2, Identity
<1> QED  BY <1>2, WireStep DEF AnswersInv, AnswersOffered

\* Nothing is answered at first.
LEMMA AnswersInit == Init => AnswersInv
BY DEF Init, C!Init, AnswersInv, WireNamed, WireOwn, AnswersOffered

\* An operation that was answered was answered by the broker.
LEMMA AnswersHold == Spec => []AnswersInv
BY AnswersInit, AnswersStep, PartsHold, PTL DEF Spec

\* An operation that reports success and waited for it was answered.
LEMMA ConfirmedAnswered ==
  ASSUME AnswersInv, CP!OkMeansConfirmed
  PROVE  OkMeansAnswered
BY DEF AnswersInv, AnswersOffered, CP!OkMeansConfirmed, OkMeansAnswered, Answered, Request

\* In the whole client, an operation that waits and returns Ok was acknowledged by the
\* broker: the packet was sent by it, for this request, and came through the receive
\* loop and CONTROL_CHANNEL to the operation.  It takes that identifiers are free
\* when they are given...
THEOREM OkIfPidsFree == Spec /\ [][CP!TakesFreePid]_vars => []OkMeansAnswered
<1>1. [CP!TakesFreePid]_vars => [CP!TakesFreePid]_CP!vars
  BY DEF vars, operations, CP!vars, CP!channel, CP!network
<1>2. AnswersInv /\ CP!OkMeansConfirmed => OkMeansAnswered
  BY ConfirmedAnswered
<1> QED  BY <1>1, <1>2, AnswersHold, OperationsSpec, CP!OkIfPidsFree, OperationsAssumptions,
            PTL

\* ...as they are for as long as the counter has not wrapped.
THEOREM OkUntilWrap == Spec /\ [][counter' >= counter]_vars => []OkMeansAnswered
<1>1. [counter' >= counter]_vars => [counter' >= counter]_CP!vars
  BY DEF vars, operations, CP!vars, CP!channel, CP!network
<1>2. AnswersInv /\ CP!OkMeansConfirmed => OkMeansAnswered
  BY ConfirmedAnswered
<1> QED  BY <1>1, <1>2, AnswersHold, OperationsSpec, CP!OkUntilWrap, OperationsAssumptions,
            PTL

\* What a device can rely on: if its operations, with the subscriptions of every
\* connection, are no more than there are identifiers, Ok is the broker's answer.
THEOREM OkWhileIdentifiersLast ==
  Cardinality(Callers) * MaxOps + MaxSessions * Len(Topics) <= MaxPid
    => (Spec => []OkMeansAnswered)
<1> SUFFICES ASSUME Cardinality(Callers) * MaxOps + MaxSessions * Len(Topics) <= MaxPid
             PROVE  Spec => []OkMeansAnswered
  OBVIOUS
<1>1. CP!IdentifiersLast
  BY DEF CP!IdentifiersLast, CP!Cardinality, Cardinality
<1>2. AnswersInv /\ CP!OkMeansConfirmed => OkMeansAnswered
  BY ConfirmedAnswered
<1> QED  BY <1>1, <1>2, AnswersHold, OperationsSpec, CP!OkWhileIdentifiersLast,
            OperationsAssumptions, PTL

(***************************************************************************)
(* What is proved of the parts holds of the whole.                         *)
(***************************************************************************)

\* The application is told what happens in order, no acknowledgement comes before the
\* message is with the application, nothing of an earlier connection is written and
\* the back-off fits, also while operations use the same queue.
THEOREM TaskProperties ==
  Spec => [](/\ T!BackOffFits /\ T!AcknowledgedMeansDelivered
             /\ T!NothingStaleWritten /\ T!EventsInOrder)
<1>1. TP!BackOffFits => T!BackOffFits
  BY DEF TP!BackOffFits, T!BackOffFits
<1>2. TP!AcknowledgedMeansDelivered => T!AcknowledgedMeansDelivered
  BY DEF TP!AcknowledgedMeansDelivered, T!AcknowledgedMeansDelivered, TP!Wrote, T!Wrote,
         TP!Packet, T!Packet
<1>3. TP!NothingStaleWritten => T!NothingStaleWritten
  BY DEF TP!NothingStaleWritten, T!NothingStaleWritten, TP!Packet, T!Packet
<1>4. TP!EventsInOrder => T!EventsInOrder
  BY DEF TP!EventsInOrder, T!EventsInOrder
<1> QED  BY <1>1, <1>2, <1>3, <1>4, TaskSpec, TaskAssumptions, TP!RightBackOff,
            TP!AcknowledgedDelivered, TP!NeverStale, TP!EventsMakeSense, PTL

\* Also while operations push as well, Connected is told only when the subscriptions
\* are on their way, so that what the application sends in response comes after them.
THEOREM SubscribedFirst == Spec => T!SubscribedBeforeConnected
<1> DEFINE PartAhead(i) ==
      \/ TP!Wrote("SUBSCRIBE", Topics[i])
      \/ TP!Packet("SUBSCRIBE", Topics[i]) \in {slot, outgoing}
    Ahead(i) ==
      \/ T!Wrote("SUBSCRIBE", Topics[i])
      \/ T!Packet("SUBSCRIBE", Topics[i]) \in {slot, outgoing}
    Told == log' # log /\ log'[Len(log')][1] = "Connected"
              => \A i \in DOMAIN Topics : Ahead(i)
    PartTold == log' # log /\ log'[Len(log')][1] = "Connected"
              => \A i \in DOMAIN Topics : PartAhead(i)
<1>1. [PartTold]_TP!vars => [Told]_T!vars
  BY DEF TP!vars, T!vars, TP!attempt, T!attempt, TP!connection, T!connection, TP!channel,
         T!channel, TP!bounds, T!bounds, TP!Wrote, T!Wrote, TP!Packet, T!Packet
<1> HIDE DEF PartTold, Told
<1>2. Spec => [][PartTold]_TP!vars
  BY TaskSpec, TP!SubscribedFirst, TaskAssumptions, PTL
     DEF TP!SubscribedBeforeConnected, PartTold
<1> QED  BY <1>1, <1>2, PTL DEF T!SubscribedBeforeConnected, Told

\* The slot is SEND_QUEUE's, which ConnectedPipe implements, also while operations push
\* into it as well.
THEOREM SlotIsSendQueue == Spec => T!UsesSendQueue
<1>1. TP!Queue!Init => T!Queue!Init
  BY DEF TP!Queue!Init, T!Queue!Init, TP!Connected, T!Connected
<1>2. [TP!Queue!Next]_TP!Queue!queue => [T!Queue!Next]_T!Queue!queue
  BY ToBrokerSame
  DEF TP!Queue!Next, T!Queue!Next, TP!Queue!queue, T!Queue!queue, TP!Queue!Open,
      T!Queue!Open, TP!Queue!Put, T!Queue!Put, TP!Queue!Take, T!Queue!Take,
      TP!Queue!Close, T!Queue!Close, TP!Connected, T!Connected
<1> QED  BY <1>1, <1>2, TaskSpec, TP!SlotIsSendQueue, TaskAssumptions, PTL
         DEF T!UsesSendQueue, TP!UsesSendQueue, T!Queue!Spec, TP!Queue!Spec

\* An operation times out only if it was not answered, also when its packets go
\* through the task's queue and its answers through recv_loop's handlers.
THEOREM OperationsTimeOutRight == Spec => C!TimedOutMeansUnanswered
<1> DEFINE Unanswered(c) ==
      op[c].stage = "waiting" /\ op'[c].outcome = "TimedOut"
        => c \in lagged \/ \A b \in BOOLEAN : <<<<c, started[c]>>, b>> \notin answered
<1>1. [\A c \in CP!Clients : Unanswered(c)]_CP!vars => [\A c \in C!Clients : Unanswered(c)]_C!vars
  BY DEF CP!Clients, C!Clients, CP!vars, C!vars, CP!channel, C!channel, CP!network, C!network
<1> HIDE DEF Unanswered
<1>2. Spec => [][\A c \in CP!Clients : Unanswered(c)]_CP!vars
  BY OperationsSpec, CP!TimedOutRight, OperationsAssumptions, PTL
     DEF CP!TimedOutMeansUnanswered, Unanswered
<1> QED  BY <1>1, <1>2, PTL DEF C!TimedOutMeansUnanswered, Unanswered

-----------------------------------------------------------------------------
(***************************************************************************)
(* Every request whose answer is to come is in one place.  It takes all    *)
(* parts together: the queue and the write loop, the broker, recv_loop     *)
(* with its subscriptions, and the operations.                             *)
(***************************************************************************)

\* The packets that the broker answers, and its answers.
Requests ==
  {T!Packet("OTHER", a) : a \in {b \in Others : Reply[b] # None}}
  \cup {T!Packet("SUBSCRIBE", t) : t \in Range(Topics)}

AnswerTo(q) == T!Packet(Reply[q[2]], q[2])

InFlight(q) == q \in {slot, outgoing} \/ q \in Range(written)

UnderWay(q) ==
  \/ q \in {slot, outgoing}
  \/ /\ q \in Range(written)
     /\ <<AnswerTo(q), sessions>> \in offered => AnswerTo(q) \in Range(inbox)

\* recv_loop is in the middle of one of its subscriptions, and how many of
\* them it has still to push.
Subscribes == op[RecvLoop].stage # "idle" /\ op[RecvLoop].request = "subscribe"

Left == resubscribe + (IF Subscribes THEN 1 ELSE 0)

\* The number of operations recv_loop had run before it was connected.
Before == started[RecvLoop] - (Len(Topics) - resubscribe)

\* Operations and task agree on whether there is a connection, and recv_loop runs
\* operations only on one that is accepted.
LinkFits ==
  /\ link = "down" <=> ~T!Connected
  /\ link # "up" => resubscribe = 0 /\ op[RecvLoop].stage = "idle"

\* recv_loop runs nothing but its subscriptions and the push of a PUBREL.
RunsFit ==
  op[RecvLoop].stage # "idle" =>
    op[RecvLoop].request \in (IF resubscribe > 0 THEN {"subscribe"} ELSE {"subscribe", "pubrel"})

\* The subscriptions that are left are what the handler awaits first, and it pushes
\* no other request.
AwaitsFit ==
  /\ Left \in 0 .. Len(Topics) /\ Left <= Len(steps)
  /\ \A i \in DOMAIN steps :
       IF i <= Left THEN steps[i] = T!Push("SUBSCRIBE", Topics[Len(Topics) - Left + i])
       ELSE steps[i][2][1] \notin {"SUBSCRIBE", "OTHER"}

\* What is yet to be pushed has not been pushed on this connection.
NotYetPushed ==
  /\ \A i \in DOMAIN Topics :
       InFlight(T!Packet("SUBSCRIBE", Topics[i])) => link = "up" /\ i <= Len(Topics) - Left
  /\ \A a \in Others :
       T!Packet("OTHER", a) \in Requests /\ InFlight(T!Packet("OTHER", a)) => a \in others

\* A request is in the slot, with the write loop or written, and only one of them.
PushedOnce ==
  \A q \in Requests :
    /\ slot = q => outgoing # q /\ q \notin Range(written)
    /\ outgoing = q => q \notin Range(written)

\* The broker answers what was written, on this connection.
AnswersWritten ==
  /\ writer # "none"
       => \A q \in Requests : <<AnswerTo(q), sessions>> \in offered => q \in Range(written)
  /\ \A o \in offered : o[2] <= sessions

\* An answer comes once.
AnsweredOnce ==
  \A i, j \in DOMAIN inbox : TP!OnRequest(inbox[i]) /\ inbox[i] = inbox[j] => i = j

\* An operation has one packet on the wire, recv_loop's are its first topics'.
WireOnce == \A p, p2 \in wire : p.by = p2.by => p = p2

WireInOrder ==
  \A p \in wire :
    p.by[1] = RecvLoop => p.request = "subscribe" /\ p.by[2] - Before \in 1 .. Len(Topics) - Left

WireIsUnderWay == {TaskPacket(p) : p \in wire} = {q \in Requests : UnderWay(q)}

RequestsInv ==
  /\ LinkFits /\ RunsFit /\ AwaitsFit /\ NotYetPushed /\ PushedOnce /\ AnswersWritten /\ AnsweredOnce
  /\ WireOnce /\ WireInOrder /\ WireIsUnderWay

(***************************************************************************)
(* Shapes.                                                                 *)
(***************************************************************************)

\* What the types say of the queues.
LEMMA Shapes ==
  ASSUME PartsInv
  PROVE  /\ steps \in Seq(TP!Awaits) /\ inbox \in Seq(TP!FromBroker)
         /\ written \in Seq(TP!ToBroker) /\ DOMAIN written = 1 .. Len(written)
         /\ slot \in TP!ToBroker \cup {None} /\ outgoing \in TP!ToBroker \cup {None}
         /\ writer \in {"none", "connect", "receive", "write"}
         /\ sessions \in Nat
         /\ ~T!Connected => slot = None /\ outgoing = None /\ written = << >>
         /\ steps # << >> \/ inbox # << >> => T!Connected
         /\ writer = "write" <=> outgoing # None
         /\ None \notin TP!ToBroker
<1>1. TP!TypeOK
  BY DEF PartsInv
<1>2. /\ steps \in Seq(TP!Awaits) /\ inbox \in Seq(TP!FromBroker)
      /\ written \in Seq(TP!ToBroker)
      /\ slot \in TP!ToBroker \cup {None} /\ outgoing \in TP!ToBroker \cup {None}
      /\ writer \in {"none", "connect", "receive", "write"}
  BY <1>1 DEF TP!TypeOK, TP!ConnectionTyped
<1>3. sessions \in Nat
  BY <1>1, ConstantsAssumption DEF TP!TypeOK, TP!BoundsTyped
<1>4. /\ ~T!Connected => slot = None /\ outgoing = None /\ written = << >>
      /\ steps # << >> \/ inbox # << >> => T!Connected
      /\ writer = "write" <=> outgoing # None
  BY <1>1 DEF TP!TypeOK, TP!OnlyInSession, TP!Connected, T!Connected
<1> QED  BY <1>2, <1>3, <1>4, TaskAssumptions DEF TP!NoneIsNoPacket

\* The topics are different, and no request of an operation is a topic.
LEMMA TopicsDiffer ==
  /\ Len(Topics) \in Nat /\ DOMAIN Topics = 1 .. Len(Topics)
  /\ \A i \in DOMAIN Topics : Topics[i] \in Range(Topics)
  /\ \A t \in Range(Topics) : t \notin Others /\ \E i \in DOMAIN Topics : t = Topics[i]
  /\ \A i, j \in DOMAIN Topics : Topics[i] = Topics[j] => i = j
BY ConstantsAssumption, NamesDiffer DEF Range

\* A request is of a caller or subscribes to a topic.
LEMMA RequestParts ==
  ASSUME NEW q \in Requests
  PROVE  /\ q \in TP!ToBroker /\ q # None
         /\ \/ /\ q[2] \in Others /\ q = T!Packet("OTHER", q[2]) /\ Reply[q[2]] # None
               /\ q[1] = "OTHER"
            \/ /\ q[2] \in Range(Topics) /\ q = T!Packet("SUBSCRIBE", q[2])
               /\ q[1] = "SUBSCRIBE"
         /\ q[2] \in Others \cup Range(Topics)
         /\ AnswerTo(q)[1] \in {"PUBACK", "PUBREC", "SUBACK", "UNSUBACK", "PINGRESP"}
         /\ AnswerTo(q)[2] = q[2]
         /\ Reply[q[2]] # None
<1>1. \/ \E a \in Others : q = T!Packet("OTHER", a) /\ Reply[a] # None
      \/ \E t \in Range(Topics) : q = T!Packet("SUBSCRIBE", t)
  BY DEF Requests
<1>2. q[2] \in Others \cup Range(Topics)
  BY <1>1 DEF T!Packet
<1>3. \/ /\ q[2] \in Others /\ q = T!Packet("OTHER", q[2]) /\ Reply[q[2]] # None
         /\ q[1] = "OTHER"
      \/ /\ q[2] \in Range(Topics) /\ q = T!Packet("SUBSCRIBE", q[2])
         /\ q[1] = "SUBSCRIBE"
  BY <1>1 DEF T!Packet
<1>4. q \in TP!ToBroker
  BY <1>3, RangeSame DEF TP!ToBroker, TP!Packet, T!Packet
<1>5. \A t \in Range(Topics) : Reply[t] = "SUBACK"
  BY DEF Reply
<1>6. Reply[q[2]] # None
  BY <1>3, <1>5, NamesDiffer
<1>7. Reply[q[2]] \in {"PUBACK", "PUBREC", "SUBACK", "UNSUBACK", "PINGRESP"}
  BY <1>2, <1>6, ReplyTyped
<1> QED  BY <1>2, <1>3, <1>4, <1>6, <1>7, TaskAssumptions DEF TP!NoneIsNoPacket, AnswerTo, T!Packet

\* Two requests with one name are one.
LEMMA AnswersDiffer ==
  ASSUME NEW q \in Requests, NEW r \in Requests, q[2] = r[2]
  PROVE  q = r
BY RequestParts, TopicsDiffer DEF T!Packet

\* Which packets are requests.
LEMMA RequestsAre ==
  /\ \A t \in Range(Topics) : T!Packet("SUBSCRIBE", t) \in Requests
  /\ \A a \in Others : Reply[a] # None => T!Packet("OTHER", a) \in Requests
  /\ \A packet : packet[1] \notin {"OTHER", "SUBSCRIBE"} => packet \notin Requests
BY RequestParts DEF Requests

(***************************************************************************)
(* The task's part.                                                        *)
(***************************************************************************)

\* How the steps of the writer change what is written.
LEMMA WrittenSteps ==
  ASSUME PartsInv, NEW q \in Requests
  PROVE  /\ T!WriterDone => (q \in Range(written') <=> q \in Range(written) \/ q = outgoing)
         /\ T!WriteConnect => q \notin Range(written) /\ q \notin Range(written')
         /\ \A how : T!EndSession(how) => q \notin Range(written')
<1> USE DEF Range
<1>1. ASSUME T!WriterDone
      PROVE  q \in Range(written') <=> q \in Range(written) \/ q = outgoing
  <2>1. outgoing \in TP!ToBroker /\ written \in Seq(TP!ToBroker)
    BY <1>1, Shapes DEF T!WriterDone
  <2>2. (\E i \in DOMAIN written' : written'[i] = q)
          <=> q = outgoing \/ \E i \in DOMAIN written : written[i] = q
    <3>1. /\ Len(written) \in Nat /\ written' = Append(written, outgoing)
          /\ DOMAIN written = 1 .. Len(written) /\ DOMAIN written' = 1 .. Len(written) + 1
          /\ written'[Len(written) + 1] = outgoing
          /\ \A i \in DOMAIN written : written'[i] = written[i]
      BY <1>1, <2>1, AppendProperties DEF T!WriterDone
    <3>2. \A i \in DOMAIN written' : i \in DOMAIN written \/ i = Len(written) + 1
      BY <3>1
    <3> QED  BY <3>1, <3>2
  <2> QED  BY <2>2
<1>2. ASSUME T!WriteConnect
      PROVE  q \notin Range(written) /\ q \notin Range(written')
  <2>1. written = << >>
    BY <1>2, Shapes DEF T!WriteConnect, T!Connected
  <2>2. DOMAIN written = {} /\ DOMAIN written' = {1} /\ written'[1] = T!Packet("CONNECT", None)
    BY <1>2, <2>1 DEF T!WriteConnect
  <2>3. q # T!Packet("CONNECT", None)
    BY RequestParts DEF T!Packet
  <2> QED  BY <2>2, <2>3
<1>3. \A how : T!EndSession(how) => q \notin Range(written')
  BY DEF T!EndSession
<1> QED  BY <1>1, <1>2, <1>3

\* What is pushed where, while the write loop takes a packet from the slot and
\* writes it, and when a session ends.
LEMMA InFlightSteps ==
  ASSUME PartsInv, NEW q \in Requests
  PROVE  /\ UNCHANGED <<slot, outgoing, written>> => (InFlight(q)' <=> InFlight(q))
         /\ T!WriteConnect \/ T!WriterReceive \/ T!WriterDone => (InFlight(q)' <=> InFlight(q))
         /\ \A how : T!EndSession(how) => ~InFlight(q)'
         /\ \A packet : T!Pushed(packet) /\ UNCHANGED <<outgoing, written>> =>
              (InFlight(q)' <=> InFlight(q) \/ (T!Connected /\ q = packet))
         /\ ~T!Connected => ~InFlight(q)
<1>0. q # None
  BY RequestParts
<1>1. UNCHANGED <<slot, outgoing, written>> => (InFlight(q)' <=> InFlight(q))
  BY DEF InFlight
<1>2. T!WriteConnect => (InFlight(q)' <=> InFlight(q))
  BY WrittenSteps DEF T!WriteConnect, InFlight
<1>3. T!WriterReceive => (InFlight(q)' <=> InFlight(q))
  BY <1>0, Shapes DEF T!WriterReceive, InFlight
<1>4. T!WriterDone => (InFlight(q)' <=> InFlight(q))
  BY <1>0, WrittenSteps DEF T!WriterDone, InFlight
<1>5. \A how : T!EndSession(how) => ~InFlight(q)'
  BY <1>0, WrittenSteps DEF T!EndSession, InFlight
<1>6. ASSUME NEW packet, T!Pushed(packet), UNCHANGED <<outgoing, written>>
      PROVE  InFlight(q)' <=> InFlight(q) \/ (T!Connected /\ q = packet)
  <2>1. CASE T!Connected
    BY <1>0, <1>6, <2>1 DEF T!Pushed, InFlight
  <2>2. CASE ~T!Connected
    BY <1>0, <1>6, <2>2 DEF T!Pushed, InFlight
  <2> QED  BY <2>1, <2>2
<1>7. ~T!Connected => ~InFlight(q)
  BY <1>0, Shapes DEF InFlight, Range
<1> QED  BY <1>1, <1>2, <1>3, <1>4, <1>5, <1>6, <1>7

\* What a handler pushes is on the queue for the first time.
PushesNew ==
  /\ \A a \in Others : T!OtherPush(a) /\ T!Packet("OTHER", a) \in Requests
                       => ~InFlight(T!Packet("OTHER", a))
  /\ \A q \in Requests : T!HandlerPushes /\ q = Head(steps)[2] => ~InFlight(q)

\* A request is in one place of the write path at most.
LEMMA PushedOnceStep ==
  ASSUME PartsInv, PushedOnce, PushesNew, [Next]_vars
  PROVE  PushedOnce'
<1>0. /\ None \notin Requests /\ (writer = "write" <=> outgoing # None)
      /\ T!Packet("CONNECT", None) \notin Requests
  BY RequestParts, Shapes, RequestsAre DEF T!Packet
<1>1. CASE UNCHANGED <<slot, outgoing, written>>
  BY <1>1 DEF PushedOnce
<1>2. CASE T!WriteConnect
  BY <1>2, WrittenSteps DEF T!WriteConnect, PushedOnce
<1>3. CASE T!WriterReceive
  BY <1>0, <1>3 DEF T!WriterReceive, PushedOnce
<1>4. CASE T!WriterDone
  BY <1>0, <1>4, WrittenSteps DEF T!WriterDone, PushedOnce
<1>5. ASSUME NEW packet, T!Pushed(packet), UNCHANGED <<outgoing, written>>,
             packet \in Requests => ~InFlight(packet)
      PROVE  PushedOnce'
  <2>1. slot' = slot \/ slot' = packet
    BY <1>5 DEF T!Pushed
  <2> QED  BY <1>5, <2>1 DEF PushedOnce, InFlight
<1>6. ASSUME NEW a \in Others, T!OtherPush(a) PROVE PushedOnce'
  BY <1>5, <1>6 DEF T!OtherPush, PushesNew
<1>7. CASE T!HandlerPushes
  BY <1>5, <1>7 DEF T!HandlerPushes, PushesNew
<1>8. ASSUME NEW how, T!EndSession(how) PROVE PushedOnce'
  BY <1>0, <1>8, WrittenSteps DEF T!EndSession, PushedOnce
<1>9. [T!Next]_T!vars
  BY TaskStep DEF PartsInv
<1> QED
  BY <1>1, <1>2, <1>3, <1>4, <1>6, <1>7, <1>8, <1>9
     DEF T!Next, T!BackOff, T!ConnectFails, T!Connect, T!Report, T!Dropped, T!ReadRefusal,
         T!Read, T!HandlerSends, T!BrokerAnswersConnect, T!BrokerSends, T!AppReceive,
         T!vars, T!connection

\* What the broker sends, and on what grounds.
LEMMA BrokerSendsAnswer ==
  ASSUME PartsInv, NEW packet \in T!BrokerPackets, T!BrokerSends(packet)
  PROVE  /\ packet \in TP!FromBroker /\ TP!OnRequest(packet)
         /\ \A q \in Requests : packet = AnswerTo(q) => q \in Range(written)
<1>1. packet \in TP!BrokerPackets
  BY DEF T!BrokerPackets, TP!BrokerPackets, T!Wrote, TP!Wrote, T!Packet, TP!Packet
<1>2. packet \in TP!FromBroker
  BY <1>1, TP!BrokerPacketsTyped, TaskAssumptions
<1>3. \/ packet[1] \in {"PUBLISH", "PUBREL"}
      \/ \E a \in DOMAIN Reply : /\ packet = T!Packet(Reply[a], a) /\ Reply[a] # None
                                 /\ T!Wrote("OTHER", a) \/ T!Wrote("SUBSCRIBE", a)
  BY DEF T!BrokerPackets, T!Packet
<1>4. TP!OnRequest(packet)
  <2>1. \A a \in DOMAIN Reply :
          Reply[a] # None => Reply[a] \in {"PUBACK", "PUBREC", "SUBACK", "UNSUBACK", "PINGRESP"}
    BY ReplyTyped
  <2> QED  BY <1>3, <2>1 DEF TP!OnRequest, T!Packet
<1>5. ASSUME NEW q \in Requests, packet = AnswerTo(q)
      PROVE  q \in Range(written)
  <2>1. PICK a \in DOMAIN Reply : /\ packet = T!Packet(Reply[a], a)
                                  /\ T!Wrote("OTHER", a) \/ T!Wrote("SUBSCRIBE", a)
    BY <1>3, <1>5, RequestParts
  <2>0. a = q[2]
    <3>1. packet[2] = a
      BY <2>1 DEF T!Packet
    <3>2. AnswerTo(q)[2] = q[2]
      BY RequestParts
    <3> QED  BY <1>5, <3>1, <3>2
  <2>2. T!Wrote("OTHER", q[2]) \/ T!Wrote("SUBSCRIBE", q[2])
    BY <2>0, <2>1
  <2>3. T!Packet("OTHER", q[2]) \in Range(written) \/ T!Packet("SUBSCRIBE", q[2]) \in Range(written)
    BY <2>2 DEF T!Wrote, Range
  <2>4. Range(written) \subseteq TP!ToBroker
    BY Shapes DEF Range
  <2>5. /\ \A b : T!Packet("OTHER", b) \in TP!ToBroker => b \in Others
        /\ \A t : T!Packet("SUBSCRIBE", t) \in TP!ToBroker => t \in Range(Topics)
    BY RangeSame DEF TP!ToBroker, TP!Packet, T!Packet
  <2> QED  BY <2>3, <2>4, <2>5, RequestParts, TopicsDiffer
<1> QED  BY <1>2, <1>4, <1>5

\* The broker answers only what was written to it.
LEMMA AnswersWrittenStep ==
  ASSUME PartsInv, AnswersWritten, [Next]_vars
  PROVE  AnswersWritten'
<1>0. sessions \in Nat
  BY Shapes
<1>1. CASE UNCHANGED <<writer, written, offered, sessions>>
  BY <1>1 DEF AnswersWritten
<1>2. CASE T!Connect
  <2>1. writer' # "none" /\ sessions' = sessions + 1 /\ UNCHANGED offered
    BY <1>2 DEF T!Connect
  <2>2. \A o \in offered : o[2] <= sessions /\ o[2] \in Nat
    BY DEF AnswersWritten, PartsInv, TP!TypeOK, TP!BoundsTyped
  <2>3. \A x : <<x, sessions + 1>> \notin offered
    BY <1>0, <2>2
  <2>4. \A o \in offered' : o[2] <= sessions'
    BY <1>0, <2>1, <2>2
  <2> QED  BY <2>1, <2>3, <2>4 DEF AnswersWritten
<1>3. CASE T!WriteConnect
  <2>1. \A q \in Requests : q \notin Range(written)
    BY <1>3, WrittenSteps
  <2> QED  BY <1>3, <2>1 DEF T!WriteConnect, T!bounds, AnswersWritten
<1>4. CASE T!WriterReceive
  BY <1>4 DEF T!WriterReceive, T!bounds, AnswersWritten
<1>5. CASE T!WriterDone
  <2>1. \A q \in Requests : q \in Range(written) => q \in Range(written')
    BY <1>5, WrittenSteps
  <2> QED  BY <1>5, <2>1 DEF T!WriterDone, T!bounds, AnswersWritten
<1>6. ASSUME NEW how, T!EndSession(how)
      PROVE  AnswersWritten'
  BY <1>6 DEF T!EndSession, T!bounds, AnswersWritten
<1>7. ASSUME NEW packet \in T!BrokerPackets, T!BrokerSends(packet)
      PROVE  AnswersWritten'
  <2>1. /\ UNCHANGED <<writer, written, sessions>>
        /\ offered' = offered \cup {<<packet, sessions>>}
    BY <1>7 DEF T!BrokerSends
  <2>2. \A o \in offered' : o[2] <= sessions
    BY <1>0, <2>1 DEF AnswersWritten
  <2>3. \A q \in Requests : packet = AnswerTo(q) => q \in Range(written)
    BY <1>7, BrokerSendsAnswer
  <2> QED  BY <2>1, <2>2, <2>3 DEF AnswersWritten, AnswerTo
<1>8. [T!Next]_T!vars
  BY TaskStep DEF PartsInv
<1> QED
  BY <1>1, <1>2, <1>3, <1>4, <1>5, <1>6, <1>7, <1>8
     DEF T!Next, T!BackOff, T!ConnectFails, T!Report, T!Dropped, T!ReadRefusal, T!OtherPush,
         T!Read, T!HandlerSends, T!HandlerPushes, T!BrokerAnswersConnect, T!AppReceive,
         T!vars, T!connection, T!bounds

\* Adding to the inbox and taking from it.
LEMMA InboxAdds ==
  ASSUME PartsInv, NEW packet \in TP!FromBroker, inbox' = Append(inbox, packet)
  PROVE  /\ Len(inbox) \in Nat /\ DOMAIN inbox = 1 .. Len(inbox)
         /\ DOMAIN inbox' = 1 .. Len(inbox) + 1
         /\ \A i \in DOMAIN inbox : i \in DOMAIN inbox' /\ inbox'[i] = inbox[i]
         /\ inbox'[Len(inbox) + 1] = packet
         /\ \A i \in DOMAIN inbox' : i \in DOMAIN inbox \/ i = Len(inbox) + 1
<1>1. inbox \in Seq(TP!FromBroker)
  BY Shapes
<1>2. /\ Len(inbox) \in Nat /\ DOMAIN inbox = 1 .. Len(inbox)
      /\ DOMAIN inbox' = 1 .. Len(inbox) + 1
      /\ inbox'[Len(inbox) + 1] = packet
      /\ \A i \in DOMAIN inbox : inbox'[i] = inbox[i]
  BY <1>1, AppendProperties
<1> QED  BY <1>2

\* What reading does to the packets to be read.
LEMMA InboxTakes ==
  ASSUME PartsInv, inbox # << >>, inbox' = Tail(inbox)
  PROVE  /\ Len(inbox) \in Nat \ {0} /\ DOMAIN inbox = 1 .. Len(inbox)
         /\ 1 \in DOMAIN inbox /\ Head(inbox) = inbox[1] /\ Head(inbox) \in TP!FromBroker
         /\ DOMAIN inbox' = 1 .. Len(inbox) - 1
         /\ \A i \in DOMAIN inbox' : i + 1 \in DOMAIN inbox /\ inbox'[i] = inbox[i + 1]
         /\ \A i \in DOMAIN inbox : i = 1 \/ (i - 1 \in DOMAIN inbox' /\ inbox'[i - 1] = inbox[i])
<1>1. inbox \in Seq(TP!FromBroker)
  BY Shapes
<1>2. Len(inbox) \in Nat \ {0} /\ DOMAIN inbox = 1 .. Len(inbox) /\ Head(inbox) = inbox[1]
  BY <1>1
<1>3. /\ inbox' \in Seq(TP!FromBroker) /\ Len(inbox') = Len(inbox) - 1
      /\ \A i \in 1 .. Len(inbox') : inbox'[i] = inbox[i + 1]
  BY <1>1, HeadTailProperties
<1>4. DOMAIN inbox' = 1 .. Len(inbox) - 1
  BY <1>3
<1>5. 1 \in DOMAIN inbox /\ inbox[1] \in TP!FromBroker
  BY <1>1, <1>2
<1>6. \A i \in DOMAIN inbox' : i + 1 \in DOMAIN inbox /\ inbox'[i] = inbox[i + 1]
  BY <1>2, <1>3, <1>4
<1>7. ASSUME NEW i \in DOMAIN inbox, i # 1
      PROVE  i - 1 \in DOMAIN inbox' /\ inbox'[i - 1] = inbox[i]
  <2>1. i - 1 \in DOMAIN inbox' /\ (i - 1) + 1 = i
    BY <1>2, <1>4, <1>7
  <2> QED  BY <1>6, <2>1
<1> QED  BY <1>2, <1>4, <1>5, <1>6, <1>7

\* How the inbox changes.
LEMMA InboxSteps ==
  ASSUME PartsInv, [Next]_vars
  PROVE  \/ UNCHANGED inbox
         \/ inbox' = << >>
         \/ inbox # << >> /\ inbox' = Tail(inbox)
         \/ \E packet \in TP!FromBroker : /\ ~TP!OnRequest(packet)
                                          /\ inbox' = Append(inbox, packet)
         \/ \E packet \in T!BrokerPackets : T!BrokerSends(packet)
<1>1. ASSUME NEW accepts \in BOOLEAN, T!BrokerAnswersConnect(accepts)
      PROVE  \E packet \in TP!FromBroker :
               ~TP!OnRequest(packet) /\ inbox' = Append(inbox, packet)
  <2>1. PICK type \in {"CONNACK", "REFUSED"} : inbox' = Append(inbox, T!Packet(type, None))
    BY <1>1 DEF T!BrokerAnswersConnect
  <2>2. T!Packet(type, None) \in TP!FromBroker
    BY DEF TP!FromBroker, T!Packet, TP!Packet
  <2>3. ~TP!OnRequest(T!Packet(type, None))
    BY DEF TP!OnRequest, T!Packet
  <2> QED  BY <2>1, <2>2, <2>3
<1>2. [T!Next]_T!vars
  BY TaskStep DEF PartsInv
<1> QED
  BY <1>1, <1>2
     DEF T!Next, T!BackOff, T!ConnectFails, T!Connect, T!Report, T!Dropped, T!ReadRefusal,
         T!EndSession, T!WriteConnect, T!WriterReceive, T!WriterDone, T!OtherPush, T!Read,
         T!HandlerSends, T!HandlerPushes, T!AppReceive, T!vars, T!connection

\* A request has one answer to be read at most.
LEMMA AnsweredOnceStep ==
  ASSUME PartsInv, AnsweredOnce, [Next]_vars
  PROVE  AnsweredOnce'
<1> USE DEF AnsweredOnce
<1>1. CASE UNCHANGED inbox \/ inbox' = << >>
  BY <1>1
<1>2. CASE inbox # << >> /\ inbox' = Tail(inbox)
  <2> SUFFICES ASSUME NEW i \in DOMAIN inbox', NEW j \in DOMAIN inbox',
                      TP!OnRequest(inbox'[i]), inbox'[i] = inbox'[j]
               PROVE  i = j
    OBVIOUS
  <2>1. /\ i \in Int /\ j \in Int /\ i + 1 \in DOMAIN inbox /\ j + 1 \in DOMAIN inbox
        /\ inbox'[i] = inbox[i + 1] /\ inbox'[j] = inbox[j + 1]
    BY <1>2, InboxTakes
  <2>2. i + 1 = j + 1
    BY <2>1
  <2> QED  BY <2>1, <2>2
<1>3. ASSUME NEW packet \in TP!FromBroker, inbox' = Append(inbox, packet),
             TP!OnRequest(packet) => \A i \in DOMAIN inbox : inbox[i] # packet
      PROVE  AnsweredOnce'
  <2> SUFFICES ASSUME NEW i \in DOMAIN inbox', NEW j \in DOMAIN inbox',
                      TP!OnRequest(inbox'[i]), inbox'[i] = inbox'[j]
               PROVE  i = j
    OBVIOUS
  <2>1. CASE i \in DOMAIN inbox /\ j \in DOMAIN inbox
    BY <1>3, <2>1, InboxAdds
  <2>2. CASE i = Len(inbox) + 1 \/ j = Len(inbox) + 1
    <3>1. inbox'[i] = packet
      BY <1>3, <2>2, InboxAdds
    <3>2. \A k \in DOMAIN inbox : inbox'[k] # inbox'[i]
      BY <1>3, <3>1, InboxAdds
    <3>3. i \notin DOMAIN inbox /\ j \notin DOMAIN inbox
      BY <3>2
    <3> QED  BY <1>3, <3>3, InboxAdds
  <2> QED  BY <1>3, <2>1, <2>2, InboxAdds
<1>4. ASSUME NEW packet \in T!BrokerPackets, T!BrokerSends(packet)
      PROVE  AnsweredOnce'
  <2>1. packet \in TP!FromBroker /\ inbox' = Append(inbox, packet)
    BY <1>4, BrokerSendsAnswer DEF T!BrokerSends
  <2>2. <<packet, sessions>> \notin offered
    BY <1>4 DEF T!BrokerSends
  <2>3. TP!OnRequest(packet) => \A i \in DOMAIN inbox : inbox[i] # packet
    BY <2>2 DEF PartsInv, TP!FreshInv
  <2> QED  BY <1>3, <2>1, <2>3
<1> QED  BY <1>1, <1>2, <1>3, <1>4, InboxSteps

\* The answer to a request is not given yet, or is there to be read.
Owed(q) == <<AnswerTo(q), sessions>> \in offered => AnswerTo(q) \in Range(inbox)

OwedIfUnderWay == \A q \in Requests : UnderWay(q) <=> InFlight(q) /\ Owed(q)

\* A request is under way if it is in flight and its answer is owed.
LEMMA UnderWayIs == PartsInv /\ PushedOnce /\ AnswersWritten => OwedIfUnderWay
<1> SUFFICES ASSUME PartsInv, PushedOnce, AnswersWritten, NEW q \in Requests
             PROVE  UnderWay(q) <=> InFlight(q) /\ Owed(q)
  BY DEF OwedIfUnderWay
<1>1. CASE q \in Range(written)
  <2>1. q \notin {slot, outgoing}
    BY <1>1 DEF PushedOnce
  <2> QED  BY <1>1, <2>1 DEF UnderWay, InFlight, Owed
<1>2. CASE q \notin Range(written) /\ q \in {slot, outgoing}
  <2>1. writer # "none"
    BY <1>2, InFlightSteps DEF T!Connected, InFlight
  <2>2. Owed(q)
    BY <1>2, <2>1 DEF AnswersWritten, Owed
  <2> QED  BY <1>2, <2>2 DEF UnderWay, InFlight
<1>3. CASE q \notin Range(written) /\ q \notin {slot, outgoing}
  BY <1>3 DEF UnderWay, InFlight
<1> QED  BY <1>1, <1>2, <1>3

\* Which steps change that an answer is owed.
LEMMA OwedSteps ==
  ASSUME PartsInv, AnsweredOnce, [Next]_vars, NEW q \in Requests
  PROVE  /\ UNCHANGED <<inbox, offered, sessions>> => (Owed(q)' <=> Owed(q))
         /\ T!Read => (Owed(q)' <=> Owed(q) /\ Head(inbox) # AnswerTo(q))
         /\ \A accepts \in BOOLEAN :
              T!BrokerAnswersConnect(accepts) => (Owed(q)' <=> Owed(q))
         /\ \A packet \in T!BrokerPackets :
              T!BrokerSends(packet) => (Owed(q)' <=> Owed(q))
<1>0. TP!OnRequest(AnswerTo(q)) /\ AnswerTo(q)' = AnswerTo(q)
  BY RequestParts DEF TP!OnRequest, AnswerTo
<1>1. UNCHANGED <<inbox, offered, sessions>> => (Owed(q)' <=> Owed(q))
  BY DEF Owed
<1>2. ASSUME NEW packet \in TP!FromBroker, inbox' = Append(inbox, packet)
      PROVE  \A x : x \in Range(inbox') <=> x \in Range(inbox) \/ x = packet
  BY <1>2, InboxAdds DEF Range
<1>3. ASSUME NEW accepts \in BOOLEAN, T!BrokerAnswersConnect(accepts)
      PROVE  Owed(q)' <=> Owed(q)
  <2>1. PICK type \in {"CONNACK", "REFUSED"} : inbox' = Append(inbox, T!Packet(type, None))
    BY <1>3 DEF T!BrokerAnswersConnect
  <2>2. T!Packet(type, None) \in TP!FromBroker
    BY DEF TP!FromBroker, T!Packet, TP!Packet
  <2>3. AnswerTo(q) # T!Packet(type, None)
    <3>1. T!Packet(type, None)[1] = type
      BY DEF T!Packet
    <3> QED  BY <1>0, <3>1 DEF TP!OnRequest
  <2>4. UNCHANGED <<offered, sessions>>
    BY <1>3 DEF T!BrokerAnswersConnect, T!bounds
  <2> QED  BY <1>0, <1>2, <2>1, <2>2, <2>3, <2>4 DEF Owed
<1>4. ASSUME NEW packet \in T!BrokerPackets, T!BrokerSends(packet)
      PROVE  Owed(q)' <=> Owed(q)
  <2>1. /\ packet \in TP!FromBroker /\ inbox' = Append(inbox, packet)
        /\ UNCHANGED sessions /\ offered' = offered \cup {<<packet, sessions>>}
        /\ <<packet, sessions>> \notin offered
    BY <1>4, BrokerSendsAnswer DEF T!BrokerSends
  <2>2. CASE packet = AnswerTo(q)
    BY <1>0, <1>2, <2>1, <2>2 DEF Owed
  <2>3. CASE packet # AnswerTo(q)
    <3>1. <<AnswerTo(q), sessions>> \in offered' <=> <<AnswerTo(q), sessions>> \in offered
      BY <2>1, <2>3
    <3>2. AnswerTo(q) \in Range(inbox') <=> AnswerTo(q) \in Range(inbox)
      BY <1>2, <2>1, <2>3
    <3> QED  BY <1>0, <2>1, <3>1, <3>2 DEF Owed
  <2> QED  BY <2>2, <2>3
<1>5. ASSUME T!Read
      PROVE  Owed(q)' <=> Owed(q) /\ Head(inbox) # AnswerTo(q)
  <2>1. inbox # << >> /\ inbox' = Tail(inbox) /\ UNCHANGED <<offered, sessions>>
    BY <1>5 DEF T!Read, T!bounds
  <2>2. CASE Head(inbox) = AnswerTo(q)
    <3>1. 1 \in DOMAIN inbox /\ inbox[1] = AnswerTo(q)
      BY <2>1, <2>2, InboxTakes
    <3>2. <<AnswerTo(q), sessions>> \in offered
      BY <1>0, <3>1 DEF PartsInv, TP!FreshInv
    <3>3. ASSUME NEW i \in DOMAIN inbox', inbox'[i] = AnswerTo(q)
          PROVE  FALSE
      <4>1. i \in Nat \ {0} /\ i + 1 \in DOMAIN inbox /\ inbox[i + 1] = AnswerTo(q)
        BY <2>1, <3>3, InboxTakes
      <4>2. i + 1 = 1
        BY <1>0, <3>1, <4>1 DEF AnsweredOnce
      <4> QED  BY <4>1, <4>2
    <3>4. AnswerTo(q) \notin Range(inbox')
      BY <3>3 DEF Range
    <3> QED  BY <1>0, <2>1, <2>2, <3>2, <3>4 DEF Owed
  <2>3. CASE Head(inbox) # AnswerTo(q)
    <3>0. (\E i \in DOMAIN inbox' : inbox'[i] = AnswerTo(q))
            <=> \E i \in DOMAIN inbox : inbox[i] = AnswerTo(q)
      <4>1. ASSUME NEW i \in DOMAIN inbox', inbox'[i] = AnswerTo(q)
            PROVE  \E j \in DOMAIN inbox : inbox[j] = AnswerTo(q)
        BY <2>1, <4>1, InboxTakes
      <4>2. ASSUME NEW i \in DOMAIN inbox, inbox[i] = AnswerTo(q)
            PROVE  \E j \in DOMAIN inbox' : inbox'[j] = AnswerTo(q)
        <5>1. i # 1
          BY <2>1, <2>3, <4>2, InboxTakes
        <5>2. i - 1 \in DOMAIN inbox' /\ inbox'[i - 1] = inbox[i]
          BY <2>1, <5>1, InboxTakes
        <5> QED  BY <4>2, <5>2
      <4> QED  BY <4>1, <4>2
    <3>1. AnswerTo(q) \in Range(inbox') <=> AnswerTo(q) \in Range(inbox)
      BY <3>0 DEF Range
    <3> QED  BY <1>0, <2>1, <2>3, <3>1 DEF Owed
  <2> QED  BY <2>2, <2>3
<1> QED  BY <1>1, <1>3, <1>4, <1>5

\* What a step does to the requests under way: a push adds one, reading an
\* answer ends the one it is for, the end of the session all.
LEMMA UnderWaySteps ==
  ASSUME PartsInv, PartsInv', PushedOnce, PushedOnce', AnswersWritten, AnswersWritten',
         AnsweredOnce, [Next]_vars, NEW q \in Requests
  PROVE  /\ TaskAlone \/ WriteConnect \/ AppReceive \/ UNCHANGED task
              => (UnderWay(q)' <=> UnderWay(q))
         /\ T!Read => (UnderWay(q)' <=> UnderWay(q) /\ Head(inbox) # AnswerTo(q))
         /\ \A how : T!EndSession(how) => ~UnderWay(q)'
         /\ \A packet :
              T!Pushed(packet) /\ UNCHANGED <<outgoing, written, inbox, offered, sessions>>
                => (UnderWay(q)' <=> UnderWay(q) \/ (T!Connected /\ q = packet))
<1>a. OwedIfUnderWay /\ OwedIfUnderWay'
  BY UnderWayIs, PTL
<1>0. /\ UnderWay(q) <=> InFlight(q) /\ Owed(q)
      /\ UnderWay(q)' <=> InFlight(q)' /\ Owed(q)'
  BY <1>a DEF OwedIfUnderWay
<1>b. (InFlight(q)' <=> InFlight(q)) /\ (Owed(q)' <=> Owed(q))
        => (UnderWay(q)' <=> UnderWay(q))
  BY <1>0
<1>1. ASSUME UNCHANGED <<slot, outgoing, written, inbox, offered, sessions>>
      PROVE  UnderWay(q)' <=> UnderWay(q)
  <2>1. InFlight(q)' <=> InFlight(q)
    BY <1>1, InFlightSteps
  <2>2. Owed(q)' <=> Owed(q)
    BY <1>1, OwedSteps
  <2> QED  BY <1>b, <2>1, <2>2
<1>2. ASSUME T!Connect
      PROVE  UnderWay(q)' <=> UnderWay(q)
  <2>1. ~T!Connected /\ UNCHANGED <<slot, outgoing, written>>
    BY <1>2 DEF T!Connect, T!Connected, PartsInv, TP!TypeOK, TP!OnlyInSession
  <2> QED  BY <1>0, <2>1, InFlightSteps
<1>3. ASSUME T!WriteConnect \/ T!WriterReceive \/ T!WriterDone
      PROVE  UnderWay(q)' <=> UnderWay(q)
  <2>1. UNCHANGED <<inbox, offered, sessions>>
    BY <1>3 DEF T!WriteConnect, T!WriterReceive, T!WriterDone, T!bounds
  <2>2. InFlight(q)' <=> InFlight(q)
    BY <1>3, InFlightSteps
  <2>3. Owed(q)' <=> Owed(q)
    BY <2>1, OwedSteps
  <2> QED  BY <1>b, <2>2, <2>3
<1>4. ASSUME \/ \E accepts \in BOOLEAN : T!BrokerAnswersConnect(accepts)
             \/ \E packet \in T!BrokerPackets : T!BrokerSends(packet)
      PROVE  UnderWay(q)' <=> UnderWay(q)
  <2>1. UNCHANGED <<slot, outgoing, written>>
    BY <1>4 DEF T!BrokerAnswersConnect, T!BrokerSends
  <2>2. InFlight(q)' <=> InFlight(q)
    BY <2>1, InFlightSteps
  <2>3. Owed(q)' <=> Owed(q)
    BY <1>4, OwedSteps
  <2> QED  BY <1>b, <2>2, <2>3
<1>5. TaskAlone \/ WriteConnect \/ AppReceive \/ UNCHANGED task
        => (UnderWay(q)' <=> UnderWay(q))
  BY <1>1, <1>2, <1>3, <1>4
     DEF TaskAlone, WriteConnect, AppReceive, T!BackOff, T!ConnectFails, T!Report,
         T!HandlerSends, T!AppReceive, T!connection, T!bounds, task
<1>6. ASSUME T!Read
      PROVE  UnderWay(q)' <=> UnderWay(q) /\ Head(inbox) # AnswerTo(q)
  <2>1. UNCHANGED <<slot, outgoing, written>>
    BY <1>6 DEF T!Read
  <2> QED  BY <1>0, <1>6, <2>1, InFlightSteps, OwedSteps
<1>7. \A how : T!EndSession(how) => ~UnderWay(q)'
  BY <1>0, InFlightSteps
<1>8. ASSUME NEW packet, T!Pushed(packet),
             UNCHANGED <<outgoing, written, inbox, offered, sessions>>
      PROVE  UnderWay(q)' <=> UnderWay(q) \/ (T!Connected /\ q = packet)
  <2>1. Owed(q)' <=> Owed(q)
    BY <1>8, OwedSteps
  <2>2. InFlight(q)' <=> InFlight(q) \/ (T!Connected /\ q = packet)
    BY <1>8, InFlightSteps
  <2>3. T!Connected /\ q = packet => UnderWay(q)'
    BY <1>8 DEF T!Pushed, UnderWay
  <2> QED  BY <1>0, <2>1, <2>2, <2>3
<1> QED  BY <1>5, <1>6, <1>7, <1>8

(***************************************************************************)
(* recv_loop's part.                                                       *)
(***************************************************************************)

LoopSame ==
  /\ op'[RecvLoop] = op[RecvLoop] /\ started'[RecvLoop] = started[RecvLoop]
  /\ UNCHANGED <<resubscribe, link>>

\* What the types say of the receive loop's own operations.
LEMMA LoopTyped ==
  ASSUME PartsInv
  PROVE  /\ RecvLoop \in C!Clients /\ RecvLoop \notin Callers /\ Callers \subseteq C!Clients
         /\ op \in [C!Clients -> C!Operations] /\ op[RecvLoop] \in C!Operations
         /\ started \in [C!Clients -> Nat] /\ started[RecvLoop] \in Nat
         /\ resubscribe \in Nat /\ resubscribe <= Len(Topics) /\ Len(Topics) \in Nat
         /\ Left \in {resubscribe, resubscribe + 1} /\ Left \in Nat
         /\ ~op[RecvLoop].wait
<1>1. /\ RecvLoop \in C!Clients /\ RecvLoop \notin Callers /\ Callers \subseteq C!Clients
      /\ op \in [C!Clients -> C!Operations] /\ started \in [C!Clients -> Nat]
  BY ConstantsAssumption DEF PartsInv, Typed, C!Clients
<1>2. CP!NetworkTyped /\ CP!NeverWaits
  BY DEF PartsInv, CP!HeardInv, CP!TypeInv, CP!TypeOK
<1>3. resubscribe \in 0 .. Len(Topics) /\ Len(Topics) \in Nat
  BY <1>2, TopicsDiffer DEF CP!NetworkTyped
<1>4. ~op[RecvLoop].wait
  BY <1>2 DEF CP!NeverWaits
<1> QED  BY <1>1, <1>3, <1>4 DEF Left

\* The callers, the application and the task on its own leave recv_loop's operation
\* and the connection alone.
LEMMA OthersLeaveLoop ==
  ASSUME PartsInv,
         \/ TaskAlone \/ AppReceive \/ ReadMessage \/ UNCHANGED vars
         \/ \E c \in Callers : Push(c) \/ Proceed(c) \/ StartOrEnd(c)
  PROVE  LoopSame
<1> USE DEF LoopSame, operations, C!network
<1>0. /\ RecvLoop \in C!Clients /\ RecvLoop \notin Callers
      /\ op \in [C!Clients -> C!Operations] /\ started \in [C!Clients -> Nat]
  BY LoopTyped
<1>1. CASE TaskAlone \/ AppReceive \/ ReadMessage \/ UNCHANGED vars
  BY <1>1 DEF TaskAlone, AppReceive, ReadMessage, vars
<1>2. ASSUME NEW c \in Callers, Push(c) \/ Proceed(c) \/ StartOrEnd(c)
      PROVE  LoopSame
  <2>0. c # RecvLoop
    BY <1>0
  <2>1. CASE Push(c)
    BY <1>0, <2>0, <2>1 DEF Push, C!Send, C!Return
  <2>2. CASE Proceed(c)
    BY <1>0, <2>0, <2>2 DEF Proceed, C!Join, C!ReadMessage, C!TimeOut, C!Return
  <2>3. CASE StartOrEnd(c)
    BY <1>0, <2>0, <2>3 DEF StartOrEnd, C!Start, C!Begin, C!TopicTooLarge, C!PacketTooLarge,
                            C!Cancel, C!Return
  <2> QED  BY <1>2, <2>1, <2>2, <2>3
<1> QED  BY <1>1, <1>2

\* What the other steps do to it.
LEMMA LoopMoves ==
  ASSUME PartsInv
  PROVE  /\ SubscribeNext =>
              /\ resubscribe > 0 /\ resubscribe' = resubscribe - 1 /\ UNCHANGED <<link, wire>>
              /\ op[RecvLoop].stage = "idle" /\ op'[RecvLoop].stage = "joining"
              /\ op'[RecvLoop].request = "subscribe"
              /\ started'[RecvLoop] = started[RecvLoop] + 1
         /\ Subscribing =>
              /\ UNCHANGED <<resubscribe, link, wire>>
              /\ op[RecvLoop].stage = "joining" /\ op'[RecvLoop].stage = "sending"
              /\ op'[RecvLoop].request = op[RecvLoop].request
              /\ started'[RecvLoop] = started[RecvLoop]
         /\ C!Send(RecvLoop) =>
              /\ UNCHANGED <<resubscribe, link>>
              /\ op[RecvLoop].stage = "sending" /\ op'[RecvLoop].stage = "idle"
              /\ started'[RecvLoop] = started[RecvLoop]
         /\ C!Disconnect =>
              /\ link # "down" /\ link' = "down" /\ resubscribe' = 0 /\ wire' = {}
              /\ op'[RecvLoop].stage = "idle"
<1>0. /\ RecvLoop \in C!Clients /\ ~op[RecvLoop].wait
      /\ op \in [C!Clients -> C!Operations] /\ started \in [C!Clients -> Nat]
      /\ op[RecvLoop] \in C!Operations
  BY LoopTyped
<1>1. ASSUME SubscribeNext
      PROVE  /\ resubscribe > 0 /\ resubscribe' = resubscribe - 1 /\ UNCHANGED <<link, wire>>
             /\ op[RecvLoop].stage = "idle" /\ op'[RecvLoop].stage = "joining"
             /\ op'[RecvLoop].request = "subscribe"
             /\ started'[RecvLoop] = started[RecvLoop] + 1
  BY <1>0, <1>1 DEF SubscribeNext, C!Resubscribe, C!Begin
<1>2. ASSUME Subscribing
      PROVE  /\ UNCHANGED <<resubscribe, link, wire>>
             /\ op[RecvLoop].stage = "joining" /\ op'[RecvLoop].stage = "sending"
             /\ op'[RecvLoop].request = op[RecvLoop].request
             /\ started'[RecvLoop] = started[RecvLoop]
  BY <1>0, <1>2 DEF Subscribing, C!Join, C!network, C!Operations
<1>3. ASSUME C!Send(RecvLoop)
      PROVE  /\ UNCHANGED <<resubscribe, link>>
             /\ op[RecvLoop].stage = "sending" /\ op'[RecvLoop].stage = "idle"
             /\ started'[RecvLoop] = started[RecvLoop]
  BY <1>0, <1>3 DEF C!Send, C!Return, C!Operations
<1>4. ASSUME C!Disconnect
      PROVE  /\ link # "down" /\ link' = "down" /\ resubscribe' = 0 /\ wire' = {}
             /\ op'[RecvLoop].stage = "idle"
  BY <1>0, <1>4 DEF C!Disconnect, C!Return, C!Operations
<1> QED  BY <1>1, <1>2, <1>3, <1>4

\* Which steps connect and disconnect.
LEMMA ConnectedSteps ==
  ASSUME PartsInv, [Next]_vars
  PROVE  /\ WriteConnect => ~T!Connected /\ T!Connected'
         /\ SessionEnds => ~T!Connected'
         /\ ~WriteConnect /\ ~SessionEnds => (T!Connected' <=> T!Connected)
<1> USE DEF T!Connected
<1>1. WriteConnect => ~T!Connected /\ T!Connected'
  BY DEF WriteConnect, T!WriteConnect
<1>2. SessionEnds => ~T!Connected'
  BY DEF SessionEnds, T!Dropped, T!ReadRefusal, T!EndSession
<1>3. ASSUME UNCHANGED writer PROVE T!Connected' <=> T!Connected
  BY <1>3
<1>4. T!Connect => (T!Connected' <=> T!Connected)
  BY DEF T!Connect, PartsInv, TP!TypeOK, TP!OnlyInSession
<1>5. TaskAlone => (T!Connected' <=> T!Connected)
  BY <1>3, <1>4 DEF TaskAlone, T!BackOff, T!ConnectFails, T!Report, T!WriterReceive,
     T!WriterDone, T!HandlerSends, T!BrokerAnswersConnect, T!BrokerSends, T!connection
<1>6. ReadConnack \/ ReadAnswer \/ ReadMessage \/ SubscribeNext \/ HandlerPushes
        \/ Subscribing \/ AppReceive \/ UNCHANGED vars => UNCHANGED writer
  BY DEF ReadConnack, ReadAnswer, ReadMessage, T!Read, SubscribeNext, HandlerPushes,
     T!HandlerPushes, Subscribing, AppReceive, T!AppReceive, T!connection, task, vars
<1>7. ASSUME NEW c \in Callers, Push(c) \/ Proceed(c) \/ StartOrEnd(c)
      PROVE  UNCHANGED writer
  BY <1>7 DEF Push, T!OtherPush, Proceed, StartOrEnd, task
<1> QED  BY <1>1, <1>2, <1>3, <1>5, <1>6, <1>7 DEF Next

\* The link of the operations is that of the task.
LEMMA LinkStep ==
  ASSUME PartsInv, LinkFits, [Next]_vars
  PROVE  LinkFits'
<1>1. CASE /\ TaskAlone \/ AppReceive \/ ReadMessage \/ UNCHANGED vars
                \/ \E c \in Callers : Push(c) \/ Proceed(c) \/ StartOrEnd(c)
           /\ ~WriteConnect /\ ~SessionEnds
  BY <1>1, OthersLeaveLoop, ConnectedSteps DEF LinkFits, LoopSame
<1>2. CASE WriteConnect
  BY <1>2, ConnectedSteps DEF WriteConnect, C!Open, LinkFits
<1>3. CASE SessionEnds
  <2>1. CASE link = "down"
    BY <1>3, <2>1, ConnectedSteps DEF SessionEnds, operations, C!network, LinkFits
  <2>2. CASE link # "down"
    BY <1>3, <2>2, ConnectedSteps, LoopMoves DEF SessionEnds, LinkFits
  <2> QED  BY <2>1, <2>2
<1>4. CASE (ReadConnack \/ ReadAnswer) /\ ~WriteConnect /\ ~SessionEnds
  BY <1>4, ConnectedSteps DEF ReadConnack, C!Connack, ReadAnswer, C!Answer, C!Reading, LinkFits
<1>5. CASE (SubscribeNext \/ Subscribing) /\ ~WriteConnect /\ ~SessionEnds
  BY <1>5, ConnectedSteps, LoopMoves DEF LinkFits
<1>6. CASE HandlerPushes /\ ~WriteConnect /\ ~SessionEnds
  <2>1. CASE op[RecvLoop].stage = "sending"
    BY <1>6, <2>1, ConnectedSteps, LoopMoves DEF HandlerPushes, LinkFits
  <2>2. CASE op[RecvLoop].stage # "sending"
    BY <1>6, <2>2, ConnectedSteps DEF HandlerPushes, operations, C!network, LinkFits
  <2> QED  BY <2>1, <2>2
<1> QED  BY <1>1, <1>2, <1>3, <1>4, <1>5, <1>6 DEF Next

\* A packet of an operation is one of the broker's requests.
LEMMA TaskPacketIs ==
  ASSUME PartsInv, AnswersInv, AwaitsFit, WireInOrder, NEW p \in wire
  PROVE  /\ TaskPacket(p) \in Requests
         /\ p.by = <<p.by[1], p.by[2]>> /\ p.by[2] \in Nat
         /\ \/ /\ p.by[1] = RecvLoop /\ p.by[2] - Before \in DOMAIN Topics
               /\ TaskPacket(p) = T!Packet("SUBSCRIBE", Topics[p.by[2] - Before])
            \/ /\ p.by[1] \in Callers /\ p.by[1] # RecvLoop
               /\ TaskPacket(p) = T!Packet("OTHER", <<p.by[1], p.by[2], p.request>>)
<1>1. p.by \in C!Clients \X Nat /\ C!Confirmed(p.request)
  BY DEF PartsInv, CP!HeardInv, CP!TypeInv, CP!TypeOK, CP!NetworkTyped, C!Clients, CP!Clients,
     CP!Confirmed, C!Confirmed
<1>2. p.by = <<p.by[1], p.by[2]>> /\ p.by[2] \in Nat /\ p.by[1] \in C!Clients
  BY <1>1
<1>3. CASE p.by[1] = RecvLoop
  <2>1. p.by[2] - Before \in 1 .. Len(Topics) - Left
    BY <1>3 DEF WireInOrder
  <2>2. p.by[2] - Before \in DOMAIN Topics
    BY <2>1, LoopTyped, TopicsDiffer
  <2>3. TaskPacket(p) = T!Packet("SUBSCRIBE", Topics[p.by[2] - Before])
    BY <1>3 DEF TaskPacket, Before
  <2>4. TaskPacket(p) \in Requests
    BY <2>2, <2>3, TopicsDiffer, RequestsAre
  <2> QED  BY <1>2, <1>3, <2>2, <2>3, <2>4
<1>4. CASE p.by[1] # RecvLoop
  <2>1. p.by[1] \in Callers
    BY <1>2, <1>4 DEF C!Clients
  <2> DEFINE a == <<p.by[1], p.by[2], p.request>>
  <2>2. a \in Others /\ a[3] = p.request
    BY <2>1 DEF AnswersInv, WireNamed
  <2>3. ReplyTo(p.request) \in {"PUBACK", "PUBREC", "SUBACK", "UNSUBACK"}
    BY <1>1 DEF C!Confirmed, ReplyTo
  <2>4. Reply[a] # None
    BY <2>2, <2>3, NamesDiffer DEF Reply
  <2>5. TaskPacket(p) = T!Packet("OTHER", a)
    BY <1>4 DEF TaskPacket
  <2>6. TaskPacket(p) \in Requests
    BY <2>2, <2>4, <2>5, RequestsAre
  <2> QED  BY <1>2, <1>4, <2>1, <2>5, <2>6
<1> QED  BY <1>3, <1>4

\* A handler's steps one by one.
LEMMA StepsTake ==
  ASSUME PartsInv, steps # << >>
  PROVE  /\ Len(steps) \in Nat \ {0} /\ DOMAIN steps = 1 .. Len(steps)
         /\ 1 \in DOMAIN steps /\ Head(steps) = steps[1] /\ Head(steps) \in TP!Awaits
         /\ Len(Tail(steps)) = Len(steps) - 1 /\ DOMAIN Tail(steps) = 1 .. Len(steps) - 1
         /\ \A i \in DOMAIN Tail(steps) : i + 1 \in DOMAIN steps /\ Tail(steps)[i] = steps[i + 1]
<1>1. steps \in Seq(TP!Awaits)
  BY Shapes
<1>2. Len(steps) \in Nat \ {0} /\ DOMAIN steps = 1 .. Len(steps) /\ Head(steps) = steps[1]
  BY <1>1
<1>3. /\ Tail(steps) \in Seq(TP!Awaits) /\ Len(Tail(steps)) = Len(steps) - 1
      /\ \A i \in 1 .. Len(Tail(steps)) : Tail(steps)[i] = steps[i + 1]
  BY <1>1, HeadTailProperties
<1>4. DOMAIN Tail(steps) = 1 .. Len(steps) - 1
  BY <1>3
<1>5. 1 \in DOMAIN steps /\ steps[1] \in TP!Awaits
  BY <1>1, <1>2
<1> QED  BY <1>2, <1>3, <1>4, <1>5

\* What the handler awaits next tells how many subscriptions are left.
LEMMA NextAwait ==
  ASSUME PartsInv, AwaitsFit, steps # << >>
  PROVE  /\ Left > 0 => Head(steps) = T!Push("SUBSCRIBE", Topics[Len(Topics) - Left + 1])
         /\ Left = 0 => Head(steps)[2][1] \notin {"SUBSCRIBE", "OTHER"}
<1>1. 1 \in DOMAIN steps /\ Head(steps) = steps[1] /\ Left \in Nat
  BY StepsTake, LoopTyped
<1>2. Left > 0 => 1 <= Left
  BY <1>1
<1> QED  BY <1>1, <1>2 DEF AwaitsFit

\* The handlers of what the broker sends, as far as they push requests.
LEMMA HandlersAre ==
  ASSUME PartsInv, T!Read
  PROVE  /\ Head(inbox)[1] = "CONNACK" => steps' = TP!Subscribing(Topics)
         /\ Head(inbox)[1] # "CONNACK"
              => \A i \in DOMAIN steps' : steps'[i][2][1] \notin {"SUBSCRIBE", "OTHER"}
         /\ steps = << >> /\ steps' \in Seq(TP!Awaits)
<1>1. inbox # << >> /\ inbox' = Tail(inbox) /\ Head(inbox)[1] # "REFUSED" /\ steps = << >>
  BY DEF T!Read
<1>2. Head(inbox) \in TP!FromBroker
  BY <1>1, InboxTakes
<1>3. steps' = TP!Handler(Head(inbox))
  BY DEF T!Read, T!Handler, TP!Handler, T!Subscribing, TP!Subscribing,
         T!Publishing, TP!Publishing, T!Push, TP!Push, T!Tell, TP!Tell, T!Delivery,
         TP!Delivery, T!Acknowledgement, TP!Acknowledgement, T!Packet, TP!Packet
<1>4. ASSUME NEW m \in Inbound, steps' = TP!Publishing(m), NEW i \in DOMAIN steps'
      PROVE  steps'[i][2][1] \notin {"SUBSCRIBE", "OTHER"}
  <2>1. steps'[i] \in {TP!Tell("Publish", m), TP!Tell("HomeAssistantOnline", m),
                       TP!Push("PUBACK", m), TP!Push("PUBREC", m)}
    BY <1>4, TP!PublishingParts, TaskAssumptions
  <2> QED  BY <2>1 DEF TP!Tell, TP!Push, TP!Packet
<1>5. ASSUME NEW i \in DOMAIN steps', NEW a, steps'[i] = TP!Push("PUBREL", a)
      PROVE  steps'[i][2][1] \notin {"SUBSCRIBE", "OTHER"}
  BY <1>5 DEF TP!Push, TP!Packet
<1>6. \/ Head(inbox)[1] # "CONNACK" /\ \E m \in Inbound : steps' = TP!Publishing(m)
      \/ Head(inbox)[1] = "CONNACK" /\ steps' = TP!Subscribing(Topics)
      \/ /\ Head(inbox)[1] # "CONNACK"
         /\ \A i \in DOMAIN steps' : \E a : steps'[i] = TP!Push("PUBREL", a)
  BY <1>1, <1>2, <1>3, TP!HandlerParts, TaskAssumptions
<1>7. steps' \in Seq(TP!Awaits)
  BY <1>1, <1>2, <1>3, TP!HandlerTyped, TaskAssumptions
<1> QED  BY <1>1, <1>4, <1>5, <1>6, <1>7

\* An answer is read: it is for a request on the wire.
LEMMA AnswerIs ==
  ASSUME PartsInv, AnswersInv, AwaitsFit, WireInOrder, NEW p \in wire,
         Acknowledges(Head(inbox), p)
  PROVE  /\ Head(inbox) = AnswerTo(TaskPacket(p))
         /\ Head(inbox)[1] \notin {"CONNACK", "PUBLISH"}
<1>1. TaskPacket(p) \in Requests
  BY TaskPacketIs
<1>2. Head(inbox) = AnswerTo(TaskPacket(p))
  BY DEF Acknowledges, AnswerTo
<1> QED  BY <1>1, <1>2, RequestParts

\* The steps of a handler go on while recv_loop's subscriptions do.
LEMMA AwaitsKept ==
  ASSUME PartsInv, AwaitsFit, Left' = Left, UNCHANGED steps
  PROVE  AwaitsFit'
BY DEF AwaitsFit

\* Going on with a handler leaves the subscriptions that are left.
LEMMA AwaitsTaken ==
  ASSUME PartsInv, AwaitsFit, steps # << >>, steps' = Tail(steps),
         Left' = IF Left > 0 THEN Left - 1 ELSE 0
  PROVE  AwaitsFit'
<1>1. /\ Len(steps) \in Nat \ {0} /\ DOMAIN steps = 1 .. Len(steps)
      /\ Len(steps') = Len(steps) - 1 /\ DOMAIN steps' = 1 .. Len(steps) - 1
      /\ \A i \in DOMAIN steps' : i + 1 \in DOMAIN steps /\ steps'[i] = steps[i + 1]
      /\ Left \in Nat /\ Len(Topics) \in Nat
  BY StepsTake, LoopTyped
<1>2. Left' \in 0 .. Len(Topics) /\ Left' <= Len(steps')
  BY <1>1 DEF AwaitsFit
<1>3. ASSUME NEW i \in DOMAIN steps'
      PROVE  IF i <= Left' THEN steps'[i] = T!Push("SUBSCRIBE", Topics[Len(Topics) - Left' + i])
             ELSE steps'[i][2][1] \notin {"SUBSCRIBE", "OTHER"}
  <2>1. /\ i \in Nat /\ i + 1 \in DOMAIN steps /\ steps'[i] = steps[i + 1]
        /\ i <= Left' <=> i + 1 <= Left
    BY <1>1
  <2>2. i <= Left' => Len(Topics) - Left' + i = Len(Topics) - Left + (i + 1)
    BY <1>1, <2>1
  <2> QED  BY <2>1, <2>2 DEF AwaitsFit
<1> QED  BY <1>2, <1>3 DEF AwaitsFit

\* The subscriptions that are left are the same in both parts.
LEMMA AwaitsStep ==
  ASSUME PartsInv, AnswersInv, LinkFits, RunsFit, AwaitsFit, WireInOrder, [Next]_vars
  PROVE  RunsFit' /\ AwaitsFit' /\ (~ReadConnack => Left' <= Left)
<1>0. /\ Left \in Nat /\ Len(Topics) \in Nat /\ resubscribe \in Nat
      /\ Left \in {resubscribe, resubscribe + 1} /\ resubscribe <= Len(Topics)
  BY LoopTyped
<1>1. ASSUME op'[RecvLoop] = op[RecvLoop], UNCHANGED resubscribe
      PROVE  RunsFit' /\ Left' = Left
  BY <1>1 DEF RunsFit, Left, Subscribes
<1>2. CASE op'[RecvLoop] = op[RecvLoop] /\ UNCHANGED <<resubscribe, steps>>
  BY <1>0, <1>1, <1>2, AwaitsKept
<1>3. CASE TaskAlone
  <2>1. op'[RecvLoop] = op[RecvLoop] /\ UNCHANGED resubscribe
    BY <1>3, OthersLeaveLoop DEF LoopSame
  <2>2. CASE T!HandlerSends
    <3>1. steps # << >> /\ steps' = Tail(steps) /\ Head(steps)[1] = "data"
      BY <2>2 DEF T!HandlerSends
    <3>2. Left = 0
      BY <1>0, <3>1, NextAwait DEF T!Push
    <3> QED  BY <1>0, <1>1, <2>1, <3>1, <3>2, AwaitsTaken
  <2>3. CASE ~T!HandlerSends
    <3>1. UNCHANGED steps
      BY <1>3, <2>3 DEF TaskAlone, T!BackOff, T!ConnectFails, T!Connect, T!Report,
         T!WriterReceive, T!WriterDone, T!BrokerAnswersConnect, T!BrokerSends, T!connection
    <3> QED  BY <1>2, <2>1, <3>1
  <2> QED  BY <2>2, <2>3
<1>4. CASE WriteConnect
  BY <1>2, <1>4 DEF WriteConnect, T!WriteConnect, C!Open
<1>5. CASE SessionEnds
  <2>1. steps' = << >>
    BY <1>5 DEF SessionEnds, T!Dropped, T!ReadRefusal, T!EndSession
  <2>2. resubscribe' = 0 /\ op'[RecvLoop].stage = "idle"
    <3>1. CASE link = "down"
      BY <1>5, <3>1 DEF SessionEnds, operations, C!network, LinkFits
    <3>2. CASE link # "down"
      BY <1>5, <3>2, LoopMoves DEF SessionEnds
    <3> QED  BY <3>1, <3>2
  <2>3. Left' = 0
    BY <2>2 DEF Left, Subscribes
  <2> QED  BY <1>0, <2>1, <2>2, <2>3 DEF RunsFit, AwaitsFit
<1>6. CASE ReadConnack
  <2>1. steps' = TP!Subscribing(Topics)
    BY <1>6, HandlersAre DEF ReadConnack
  <2>2. resubscribe' = Len(Topics) /\ op'[RecvLoop].stage = "idle"
    BY <1>6 DEF ReadConnack, C!Connack, LinkFits
  <2>3. Left' = Len(Topics)
    BY <1>0, <2>2 DEF Left, Subscribes
  <2>4. RunsFit'
    BY <2>2 DEF RunsFit
  <2> DEFINE n == Len(Topics)
  <2>5. /\ DOMAIN steps' = 1 .. n + 1 /\ Len(steps') = n + 1
        /\ \A i \in 1 .. n : steps'[i] = T!Push("SUBSCRIBE", Topics[i])
        /\ steps'[n + 1][2][1] = "Connected"
    <3>1. /\ TP!Subscribing(Topics) \in Seq(TP!Awaits) /\ Len(TP!Subscribing(Topics)) = n + 1
          /\ \A i \in 1 .. n : TP!Subscribing(Topics)[i] = TP!Push("SUBSCRIBE", Topics[i])
          /\ TP!Subscribing(Topics)[n + 1] = TP!Tell("Connected", None)
      BY TP!SubscribingParts, TaskAssumptions
    <3> QED  BY <2>1, <3>1 DEF TP!Push, T!Push, TP!Packet, T!Packet, TP!Tell
  <2>6. ASSUME NEW i \in DOMAIN steps'
        PROVE  IF i <= n THEN steps'[i] = T!Push("SUBSCRIBE", Topics[n - n + i])
               ELSE steps'[i][2][1] \notin {"SUBSCRIBE", "OTHER"}
    <3>1. CASE i <= n
      <4>1. n - n + i = i /\ i \in 1 .. n
        BY <1>0, <2>5, <3>1
      <4> QED  BY <2>5, <3>1, <4>1
    <3>2. CASE ~(i <= n)
      <4>1. i = n + 1
        BY <1>0, <2>5, <3>2
      <4> QED  BY <2>5, <3>2, <4>1
    <3> QED  BY <3>1, <3>2
  <2>7. AwaitsFit'
    BY <1>0, <2>3, <2>5, <2>6 DEF AwaitsFit
  <2> QED  BY <1>6, <2>4, <2>7
<1>7. ASSUME T!Read, Head(inbox)[1] # "CONNACK", Left' = 0
      PROVE  AwaitsFit'
  <2>1. \A i \in DOMAIN steps' : steps'[i][2][1] \notin {"SUBSCRIBE", "OTHER"}
    BY <1>7, HandlersAre
  <2>2. steps' \in Seq(TP!Awaits)
    BY <1>7, HandlersAre
  <2>3. Len(steps') \in Nat /\ DOMAIN steps' = 1 .. Len(steps')
    BY <2>2
  <2> QED  BY <1>0, <1>7, <2>1, <2>3 DEF AwaitsFit
<1>8. CASE ReadMessage
  <2>1. Left = 0
    BY <1>0, <1>8, HandlersAre DEF ReadMessage, AwaitsFit
  <2> QED  BY <1>0, <1>1, <1>7, <1>8, <2>1, OthersLeaveLoop DEF LoopSame, ReadMessage
<1>9. CASE ReadAnswer
  <2>1. PICK p \in wire, success \in BOOLEAN :
          Acknowledges(Head(inbox), p) /\ C!Answer(p, success)
    BY <1>9 DEF ReadAnswer
  <2>2. resubscribe = 0 /\ UNCHANGED resubscribe /\ op[RecvLoop].stage = "idle"
    BY <2>1 DEF C!Answer, C!Reading
  <2>3. op'[RecvLoop].stage = "idle" \/ op'[RecvLoop].request = "pubrel"
    BY <2>1, <2>2, LoopTyped DEF C!Answer
  <2>4. Left' = 0 /\ RunsFit'
    BY <2>2, <2>3 DEF Left, Subscribes, RunsFit
  <2> QED  BY <1>0, <1>7, <1>9, <2>1, <2>4, AnswerIs DEF ReadAnswer
<1>10. CASE SubscribeNext
  <2>1. Left' = Left /\ RunsFit'
    BY <1>0, <1>10, LoopMoves DEF Left, Subscribes, RunsFit
  <2> QED  BY <1>0, <1>10, <2>1, AwaitsKept DEF SubscribeNext, task
<1>11. CASE Subscribing
  <2>1. Left' = Left /\ RunsFit'
    BY <1>0, <1>11, LoopMoves DEF Left, Subscribes, RunsFit
  <2> QED  BY <1>0, <1>11, <2>1, AwaitsKept DEF Subscribing, task
<1>12. CASE HandlerPushes
  <2>1. steps # << >> /\ steps' = Tail(steps)
    BY <1>12 DEF HandlerPushes, T!HandlerPushes
  <2>2. CASE op[RecvLoop].stage = "sending"
    <3>1. UNCHANGED resubscribe /\ op'[RecvLoop].stage = "idle"
      BY <1>12, <2>2, LoopMoves DEF HandlerPushes
    <3>2. RunsFit'
      BY <3>1 DEF RunsFit
    <3>3. Left' = resubscribe
      BY <1>0, <3>1 DEF Left, Subscribes
    <3>4. CASE op[RecvLoop].request = "subscribe"
      <4>1. Left = resubscribe + 1
        BY <2>2, <3>4 DEF Left, Subscribes
      <4> QED  BY <1>0, <1>12, <2>1, <3>2, <3>3, <4>1, AwaitsTaken
    <3>5. CASE op[RecvLoop].request # "subscribe"
      <4>1. Left = 0 /\ resubscribe = 0
        BY <1>0, <2>2, <3>5 DEF Left, Subscribes, RunsFit
      <4> QED  BY <1>0, <1>12, <2>1, <3>2, <3>3, <4>1, AwaitsTaken
    <3> QED  BY <3>4, <3>5
  <2>3. CASE op[RecvLoop].stage # "sending"
    <3>1. Head(steps)[2][1] # "SUBSCRIBE" /\ UNCHANGED operations
      BY <1>12, <2>3 DEF HandlerPushes
    <3>2. Left = 0
      <4>1. \A t : T!Push("SUBSCRIBE", t)[2][1] = "SUBSCRIBE"
        BY DEF T!Push, T!Packet
      <4> QED  BY <1>0, <2>1, <3>1, <4>1, NextAwait
    <3> QED  BY <1>0, <1>1, <2>1, <3>1, <3>2, AwaitsTaken DEF operations, C!network
  <2> QED  BY <2>2, <2>3
<1>13. CASE AppReceive \/ UNCHANGED vars
  BY <1>2, <1>13, OthersLeaveLoop DEF LoopSame, AppReceive, T!AppReceive, T!connection, vars, task
<1>14. ASSUME NEW c \in Callers, Push(c) \/ Proceed(c) \/ StartOrEnd(c)
       PROVE  RunsFit' /\ AwaitsFit' /\ (~ReadConnack => Left' <= Left)
  <2>1. UNCHANGED steps
    BY <1>14 DEF Push, T!OtherPush, Proceed, StartOrEnd, task
  <2>2. op'[RecvLoop] = op[RecvLoop] /\ UNCHANGED resubscribe
    BY <1>14, OthersLeaveLoop DEF LoopSame
  <2> QED  BY <1>2, <2>1, <2>2
<1> QED  BY <1>3, <1>4, <1>5, <1>6, <1>8, <1>9, <1>10, <1>11, <1>12, <1>13, <1>14 DEF Next

(***************************************************************************)
(* Requests are pushed once.                                               *)
(***************************************************************************)

\* What is pushed is not in flight already.
LEMMA PushedIsNew ==
  ASSUME PartsInv, AwaitsFit, NotYetPushed
  PROVE  PushesNew
<1>1. ASSUME NEW a \in Others, T!OtherPush(a), T!Packet("OTHER", a) \in Requests
      PROVE  ~InFlight(T!Packet("OTHER", a))
  BY <1>1 DEF T!OtherPush, NotYetPushed
<1>2. ASSUME NEW q \in Requests, T!HandlerPushes, q = Head(steps)[2]
      PROVE  ~InFlight(q)
  <2>1. steps # << >> /\ Left \in Nat /\ Len(Topics) \in Nat /\ Left <= Len(Topics)
    BY <1>2, LoopTyped DEF T!HandlerPushes, AwaitsFit
  <2>2. Left > 0
    BY <1>2, <2>1, NextAwait, RequestParts
  <2> DEFINE i == Len(Topics) - Left + 1
  <2>3. q = T!Packet("SUBSCRIBE", Topics[i])
    BY <1>2, <2>1, <2>2, NextAwait DEF T!Push
  <2>4. i \in DOMAIN Topics /\ ~(i <= Len(Topics) - Left)
    BY <2>1, <2>2, TopicsDiffer
  <2> QED  BY <2>3, <2>4 DEF NotYetPushed
<1> QED  BY <1>1, <1>2 DEF PushesNew

\* Only a push adds to the queue.
LEMMA OnlyPushed ==
  ASSUME PartsInv, [Next]_vars, NEW q \in Requests, InFlight(q)'
  PROVE  \/ InFlight(q)
         \/ HandlerPushes /\ T!Connected /\ q = Head(steps)[2]
         \/ \E c \in Callers : /\ Push(c) /\ T!Connected
                               /\ q = T!Packet("OTHER", Request(c)) /\ Request(c) \in others'
<1>1. CASE UNCHANGED <<slot, outgoing, written>>
  BY <1>1, InFlightSteps
<1>2. CASE T!WriteConnect \/ T!WriterReceive \/ T!WriterDone
  BY <1>2, InFlightSteps
<1>3. CASE SessionEnds
  BY <1>3, InFlightSteps DEF SessionEnds, T!Dropped, T!ReadRefusal
<1>4. CASE HandlerPushes
  BY <1>4, InFlightSteps DEF HandlerPushes, T!HandlerPushes
<1>5. ASSUME NEW c \in Callers, Push(c)
      PROVE  \/ InFlight(q)
             \/ /\ Push(c) /\ T!Connected
                /\ q = T!Packet("OTHER", Request(c)) /\ Request(c) \in others'
  BY <1>5, InFlightSteps DEF Push, T!OtherPush, Request
<1>6. CASE TaskAlone
  BY <1>1, <1>2, <1>6
     DEF TaskAlone, T!BackOff, T!ConnectFails, T!Connect, T!Report, T!HandlerSends,
         T!BrokerAnswersConnect, T!BrokerSends, T!connection
<1>7. CASE ReadConnack \/ ReadAnswer \/ ReadMessage
  BY <1>1, <1>7 DEF ReadConnack, ReadAnswer, ReadMessage, T!Read
<1>8. CASE SubscribeNext \/ Subscribing \/ AppReceive \/ UNCHANGED vars
  BY <1>1, <1>8 DEF SubscribeNext, Subscribing, AppReceive, T!AppReceive, T!connection, vars,
     task
<1>9. CASE \E c \in Callers : Proceed(c) \/ StartOrEnd(c)
  BY <1>1, <1>9 DEF Proceed, StartOrEnd, task
<1> QED  BY <1>2, <1>3, <1>4, <1>5, <1>6, <1>7, <1>8, <1>9 DEF Next, WriteConnect

\* Who has pushed a packet has pushed it for good.
LEMMA OthersStay ==
  ASSUME PartsInv, [Next]_vars
  PROVE  others \subseteq others'
<1>1. [T!Next]_T!vars
  BY TaskStep DEF PartsInv
<1> QED  BY <1>1 DEF T!Next, T!BackOff, T!ConnectFails, T!Connect, T!Report, T!Dropped,
            T!ReadRefusal, T!EndSession, T!WriteConnect, T!WriterReceive, T!WriterDone,
            T!OtherPush, T!Read, T!HandlerSends, T!HandlerPushes, T!BrokerAnswersConnect,
            T!BrokerSends, T!AppReceive, T!vars, T!bounds

\* An accepted connection stays accepted until it ends.
LEMMA LinkUp ==
  ASSUME PartsInv, [Next]_vars
  PROVE  /\ ReadConnack => link = "open"
         /\ ~WriteConnect /\ ~ReadConnack /\ ~SessionEnds => UNCHANGED link
         /\ WriteConnect => link = "down"
<1>1. ReadConnack => link = "open"
  BY DEF ReadConnack, C!Connack
<1>2. WriteConnect => link = "down"
  BY DEF WriteConnect, C!Open
<1>3. TaskAlone \/ AppReceive \/ ReadMessage \/ UNCHANGED vars => UNCHANGED link
  BY DEF TaskAlone, AppReceive, ReadMessage, vars, operations, C!network
<1>4. ASSUME NEW c \in Callers, Push(c) \/ Proceed(c) \/ StartOrEnd(c)
      PROVE  UNCHANGED link
  BY <1>4, OthersLeaveLoop DEF LoopSame
<1>5. ReadAnswer \/ SubscribeNext \/ Subscribing => UNCHANGED link
  BY LoopMoves DEF ReadAnswer, C!Answer
<1>6. HandlerPushes => UNCHANGED link
  BY LoopMoves DEF HandlerPushes, operations, C!network
<1> QED  BY <1>1, <1>2, <1>3, <1>4, <1>5, <1>6 DEF Next

\* The subscriptions that are left were not pushed yet.
LEMMA NotYetPushedStep ==
  ASSUME PartsInv, AnswersInv, LinkFits, RunsFit, AwaitsFit, WireInOrder, NotYetPushed,
         [Next]_vars
  PROVE  NotYetPushed'
<1>0. /\ Left \in Nat /\ Len(Topics) \in Nat /\ Left <= Len(Topics)
      /\ Left \in {resubscribe, resubscribe + 1} /\ resubscribe \in Nat
  BY LoopTyped DEF AwaitsFit
<1>1. ASSUME NEW i \in DOMAIN Topics, InFlight(T!Packet("SUBSCRIBE", Topics[i]))'
      PROVE  link' = "up" /\ i <= Len(Topics) - Left'
  <2> DEFINE q == T!Packet("SUBSCRIBE", Topics[i])
  <2>0. /\ q \in Requests /\ q' = q /\ i \in Nat
        /\ q[1] = "SUBSCRIBE" /\ q[2] = Topics[i]
    BY TopicsDiffer, RequestsAre DEF T!Packet
  <2>1. CASE InFlight(q)
    <3>1. link = "up" /\ i <= Len(Topics) - Left
      BY <2>1 DEF NotYetPushed
    <3>2. ~ReadConnack /\ ~WriteConnect
      BY <3>1, LinkUp
    <3>3. ~SessionEnds
      <4>1. ASSUME NEW how, T!EndSession(how) PROVE FALSE
        BY <1>1, <2>0, <4>1, InFlightSteps
      <4> QED  BY <4>1 DEF SessionEnds, T!Dropped, T!ReadRefusal
    <3>4. Left' <= Left /\ link' = "up"
      BY <3>1, <3>2, <3>3, LinkUp, AwaitsStep
    <3>5. Left' \in Nat
      <4>1. AwaitsFit'
        BY AwaitsStep
      <4> QED  BY <1>0, <4>1 DEF AwaitsFit
    <3> QED  BY <1>0, <2>0, <3>1, <3>4, <3>5
  <2>2. CASE ~InFlight(q)
    <3>1. CASE \E c \in Callers : q = T!Packet("OTHER", Request(c))
      BY <2>0, <3>1 DEF T!Packet
    <3>2. CASE HandlerPushes /\ T!Connected /\ q = Head(steps)[2]
      <4>1. steps # << >>
        BY <3>2 DEF HandlerPushes, T!HandlerPushes
      <4>2. Left > 0
        BY <1>0, <2>0, <3>2, <4>1, NextAwait
      <4>3. Topics[Len(Topics) - Left + 1] = Topics[i]
        BY <2>0, <3>2, <4>1, <4>2, NextAwait DEF T!Push, T!Packet
      <4>4. Len(Topics) - Left + 1 \in DOMAIN Topics
        BY <1>0, <4>2, TopicsDiffer
      <4>5. i = Len(Topics) - Left + 1
        BY <4>3, <4>4, TopicsDiffer
      <4>6. op[RecvLoop].stage = "sending"
        BY <2>0, <3>2 DEF HandlerPushes
      <4>7. C!Send(RecvLoop)
        BY <3>2, <4>6 DEF HandlerPushes
      <4>8. UNCHANGED <<resubscribe, link>> /\ op'[RecvLoop].stage = "idle"
        BY <4>7, LoopMoves
      <4>9. Left' = resubscribe
        BY <1>0, <4>8 DEF Left, Subscribes
      <4>10. Left = resubscribe + 1
        BY <1>0, <4>2, <4>6 DEF Left, Subscribes, RunsFit
      <4>11. link = "up"
        BY <4>6 DEF LinkFits
      <4> QED  BY <1>0, <4>5, <4>8, <4>9, <4>10, <4>11
    <3> QED  BY <1>1, <2>0, <2>2, <3>1, <3>2, OnlyPushed
  <2> QED  BY <2>1, <2>2
<1>2. ASSUME NEW a \in Others, T!Packet("OTHER", a) \in Requests,
             InFlight(T!Packet("OTHER", a))'
      PROVE  a \in others'
  <2> DEFINE q == T!Packet("OTHER", a)
  <2>0. q' = q /\ q[1] = "OTHER" /\ q[2] = a
    BY DEF T!Packet
  <2>1. CASE InFlight(q)
    BY <1>2, <2>1, OthersStay DEF NotYetPushed
  <2>2. CASE \E c \in Callers : q = T!Packet("OTHER", Request(c)) /\ Request(c) \in others'
    BY <2>0, <2>2 DEF T!Packet
  <2>3. CASE HandlerPushes /\ q = Head(steps)[2]
    <3>1. \A t : T!Push("SUBSCRIBE", t)[2][1] = "SUBSCRIBE"
      BY DEF T!Push, T!Packet
    <3>2. steps # << >>
      BY <2>3 DEF HandlerPushes, T!HandlerPushes
    <3> QED  BY <1>0, <2>0, <2>3, <3>1, <3>2, NextAwait
  <2> QED  BY <1>2, <2>0, <2>1, <2>2, <2>3, OnlyPushed
<1>3. Requests' = Requests
  BY DEF Requests
<1> QED  BY <1>1, <1>2, <1>3 DEF NotYetPushed

(***************************************************************************)
(* The wire.                                                               *)
(***************************************************************************)

\* Without an accepted connection recv_loop has nothing on the wire, and without any
\* nobody has.
LEMMA WireWithoutLink ==
  ASSUME PartsInv, AnswersInv, LinkFits, AwaitsFit, NotYetPushed, PushedOnce, AnswersWritten,
         WireInOrder, WireIsUnderWay
  PROVE  /\ link # "up" => \A p \in wire : p.by[1] # RecvLoop
         /\ link = "down" => wire = {}
<1>1. ASSUME NEW p \in wire
      PROVE  InFlight(TaskPacket(p)) /\ TaskPacket(p) \in Requests
  BY UnderWayIs DEF WireIsUnderWay, OwedIfUnderWay
<1>2. ASSUME NEW p \in wire, p.by[1] = RecvLoop
      PROVE  link = "up"
  <2>1. /\ p.by[2] - Before \in DOMAIN Topics
        /\ TaskPacket(p) = T!Packet("SUBSCRIBE", Topics[p.by[2] - Before])
    BY <1>2, TaskPacketIs, LoopTyped
  <2> QED  BY <1>1, <2>1 DEF NotYetPushed
<1>3. ASSUME NEW p \in wire
      PROVE  link # "down"
  BY <1>1, InFlightSteps DEF LinkFits
<1> QED  BY <1>2, <1>3

\* Only an operation that sends adds to the wire.
LEMMA WireSame ==
  ASSUME PartsInv,
         \/ TaskAlone \/ WriteConnect \/ AppReceive \/ ReadMessage \/ ReadConnack
         \/ SubscribeNext \/ Subscribing \/ UNCHANGED vars
         \/ \E c \in Callers : Proceed(c) \/ StartOrEnd(c)
  PROVE  UNCHANGED wire
<1> USE DEF operations, C!network
<1>1. CASE TaskAlone \/ AppReceive \/ ReadMessage \/ UNCHANGED vars
  BY <1>1 DEF TaskAlone, AppReceive, ReadMessage, vars
<1>2. CASE WriteConnect \/ ReadConnack \/ SubscribeNext \/ Subscribing
  BY <1>2, LoopMoves DEF WriteConnect, C!Open, ReadConnack, C!Connack
<1>3. ASSUME NEW c \in Callers, Proceed(c) \/ StartOrEnd(c)
      PROVE  UNCHANGED wire
  BY <1>3 DEF Proceed, StartOrEnd, C!Join, C!ReadMessage, C!TimeOut, C!Start, C!TopicTooLarge,
              C!PacketTooLarge, C!Cancel
<1> QED  BY <1>1, <1>2, <1>3

\* What recv_loop had run before it was connected stays until the next connection.
LEMMA BeforeStep ==
  ASSUME PartsInv, LinkFits, [Next]_vars, ~ReadConnack, link' # "down"
  PROVE  Before' = Before
<1>0. /\ Len(Topics) \in Nat /\ resubscribe \in Nat /\ started[RecvLoop] \in Nat
  BY LoopTyped
<1>1. CASE started'[RecvLoop] = started[RecvLoop] /\ UNCHANGED resubscribe
  BY <1>1 DEF Before
<1>2. CASE \/ TaskAlone \/ AppReceive \/ ReadMessage \/ UNCHANGED vars
           \/ \E c \in Callers : Push(c) \/ Proceed(c) \/ StartOrEnd(c)
  BY <1>1, <1>2, OthersLeaveLoop DEF LoopSame
<1>3. CASE WriteConnect \/ ReadAnswer \/ Subscribing
  BY <1>1, <1>3, LoopMoves DEF WriteConnect, C!Open, ReadAnswer, C!Answer
<1>4. CASE SubscribeNext
  <2>1. /\ resubscribe' = resubscribe - 1
        /\ started'[RecvLoop] = started[RecvLoop] + 1
    BY <1>4, LoopMoves
  <2> QED  BY <1>0, <2>1 DEF Before
<1>5. CASE HandlerPushes
  BY <1>1, <1>5, LoopMoves DEF HandlerPushes, operations, C!network
<1>6. CASE SessionEnds
  BY <1>1, <1>6, LoopMoves DEF SessionEnds, operations, C!network
<1> QED  BY <1>2, <1>3, <1>4, <1>5, <1>6 DEF Next

\* What a sending operation puts on the wire.
LEMMA SenderIs ==
  ASSUME PartsInv, PartsInv', LinkFits, RunsFit, AwaitsFit, [Next]_vars,
         NEW p \in wire', p \notin wire
  PROVE  \E c \in C!Clients :
           /\ op[c].stage = "sending" /\ C!Send(c)
           /\ p = C!PacketOf(c) /\ p.by = <<c, started[c]>>
           /\ link' = link /\ link # "down" /\ UNCHANGED <<started, resubscribe>>
           /\ c = RecvLoop => /\ p.request = "subscribe" /\ Left = resubscribe + 1
                              /\ Left' = resubscribe
<1>1. PICK c \in C!Clients : op[c].stage = "sending" /\ C!Send(c) /\ p = C!PacketOf(c)
  BY OnlySenders
<1>2. /\ p.by = <<c, started[c]>> /\ p.request = op[c].request
      /\ UNCHANGED <<link, started, resubscribe>>
  BY <1>1 DEF C!PacketOf, C!Send
<1>3. link # "down"
  BY <1>1 DEF C!Send
<1>4. ASSUME c = RecvLoop
      PROVE  p.request = "subscribe" /\ Left = resubscribe + 1 /\ Left' = resubscribe
  <2>1. op[RecvLoop].request \in {"subscribe", "pubrel"}
    BY <1>1, <1>4 DEF RunsFit
  <2>2. C!Confirmed(p.request)
    BY DEF PartsInv, CP!HeardInv, CP!TypeInv, CP!TypeOK, CP!NetworkTyped, CP!Confirmed,
       C!Confirmed
  <2>3. op[RecvLoop].request = "subscribe"
    BY <1>2, <1>4, <2>1, <2>2 DEF C!Confirmed
  <2>4. op'[RecvLoop].stage = "idle" /\ resubscribe \in Nat
    BY <1>1, <1>4, LoopMoves, LoopTyped
  <2> QED  BY <1>1, <1>2, <1>4, <2>3, <2>4 DEF Left, Subscribes
<1> QED  BY <1>1, <1>2, <1>3, <1>4

\* The receive loop's operations are the topics in their order.
LEMMA WireInOrderStep ==
  ASSUME PartsInv, PartsInv', AnswersInv, LinkFits, RunsFit, AwaitsFit, NotYetPushed, PushedOnce,
         AnswersWritten, WireOnce, WireInOrder, WireIsUnderWay, [Next]_vars
  PROVE  WireOnce' /\ WireInOrder'
<1>0. /\ Left \in Nat /\ Len(Topics) \in Nat /\ Left <= Len(Topics)
      /\ resubscribe \in Nat /\ started[RecvLoop] \in Nat
      /\ Left' \in Nat /\ (~ReadConnack => Left' <= Left)
  <2>1. AwaitsFit' /\ (~ReadConnack => Left' <= Left)
    BY AwaitsStep
  <2> QED  BY <2>1, LoopTyped DEF AwaitsFit
<1>1. ASSUME NEW p \in wire', p \notin wire, NEW p2 \in wire
      PROVE  p.by # p2.by
  <2> SUFFICES ASSUME p.by = p2.by PROVE FALSE
    OBVIOUS
  <2>1. PICK c \in C!Clients : /\ op[c].stage = "sending" /\ p.by = <<c, started[c]>>
                               /\ c = RecvLoop => Left = resubscribe + 1
    BY <1>1, SenderIs
  <2>2. CASE c = RecvLoop
    <3>1. p2.by[1] = RecvLoop /\ p2.by[2] = started[RecvLoop]
      BY <2>1, <2>2
    <3>2. started[RecvLoop] - Before <= Len(Topics) - Left
      BY <3>1 DEF WireInOrder
    <3>3. started[RecvLoop] - Before = Len(Topics) - resubscribe
      BY <1>0 DEF Before
    <3> QED  BY <1>0, <2>1, <2>2, <3>2, <3>3
  <2>3. CASE c # RecvLoop
    <3>1. c \in Callers
      BY <2>3 DEF C!Clients
    <3>2. CP!Unsent(c)
      BY <3>1 DEF PartsInv, CP!HeardInv, CP!Heard
    <3> QED  BY <2>1, <3>2 DEF CP!Unsent, CP!Current
  <2> QED  BY <2>2, <2>3
<1>2. ASSUME NEW p \in wire', p \notin wire, NEW p2 \in wire', p2 \notin wire, p.by = p2.by
      PROVE  p = p2
  <2>1. PICK c \in C!Clients : p = C!PacketOf(c) /\ p.by = <<c, started[c]>>
    BY <1>2, SenderIs
  <2>2. PICK d \in C!Clients : p2 = C!PacketOf(d) /\ p2.by = <<d, started[d]>>
    BY <1>2, SenderIs
  <2> QED  BY <1>2, <2>1, <2>2
<1>3. WireOnce'
  <2> SUFFICES ASSUME NEW p \in wire', NEW p2 \in wire', p.by = p2.by
               PROVE  p = p2
    BY DEF WireOnce
  <2> QED  BY <1>1, <1>2 DEF WireOnce
<1>4. ASSUME NEW p \in wire', p.by[1] = RecvLoop
      PROVE  p.request = "subscribe" /\ p.by[2] - Before' \in 1 .. Len(Topics) - Left'
  <2>1. CASE p \notin wire
    <3>1. /\ link' # "down" /\ UNCHANGED <<started, resubscribe>>
          /\ p.request = "subscribe" /\ Left = resubscribe + 1 /\ Left' = resubscribe
          /\ p.by[2] = started[RecvLoop]
      BY <1>4, <2>1, SenderIs
    <3>2. Before' = started[RecvLoop] - (Len(Topics) - resubscribe)
      BY <3>1 DEF Before
    <3>3. p.by[2] - Before' = Len(Topics) - resubscribe
      BY <1>0, <3>1, <3>2
    <3> QED  BY <1>0, <3>1, <3>3
  <2>2. CASE p \in wire
    <3>1. link = "up"
      BY <1>4, <2>2, WireWithoutLink
    <3>2. ~ReadConnack /\ ~WriteConnect
      BY <3>1, LinkUp
    <3>3. link' # "down"
      <4>1. CASE SessionEnds
        <5>1. wire' = {}
          BY <3>1, <4>1, LoopMoves DEF SessionEnds
        <5> QED  BY <5>1
      <4> QED  BY <3>1, <3>2, <4>1, LinkUp
    <3>4. Before' = Before
      BY <3>2, <3>3, BeforeStep
    <3>5. p.request = "subscribe" /\ p.by[2] - Before \in 1 .. Len(Topics) - Left
      BY <1>4, <2>2 DEF WireInOrder
    <3> QED  BY <1>0, <3>2, <3>4, <3>5
  <2> QED  BY <2>1, <2>2
<1> QED  BY <1>3, <1>4 DEF WireInOrder

\* Different requests on the wire are different packets of the task, and a request
\* stays the same packet while it is there.
LEMMA TaskPacketsDiffer ==
  ASSUME PartsInv, AnswersInv, AwaitsFit, WireOnce, WireInOrder,
         NEW p \in wire, NEW p2 \in wire, TaskPacket(p) = TaskPacket(p2)
  PROVE  p = p2
<1>0. Before \in Int
  BY LoopTyped DEF Before
<1>1. p.by[1] = p2.by[1] /\ p.by[2] = p2.by[2]
  <2>1. CASE p.by[1] = RecvLoop /\ p2.by[1] = RecvLoop
    <3>1. /\ p.by[2] - Before \in DOMAIN Topics /\ p2.by[2] - Before \in DOMAIN Topics
          /\ Topics[p.by[2] - Before] = Topics[p2.by[2] - Before]
      BY <2>1, TaskPacketIs, LoopTyped DEF T!Packet
    <3>2. p.by[2] - Before = p2.by[2] - Before
      BY <3>1, TopicsDiffer
    <3>3. p.by[2] \in Nat /\ p2.by[2] \in Nat
      BY TaskPacketIs
    <3>4. p.by[2] = p2.by[2]
      BY <1>0, <3>2, <3>3
    <3> QED  BY <2>1, <3>4
  <2>2. CASE p.by[1] # RecvLoop /\ p2.by[1] # RecvLoop
    BY <2>2, TaskPacketIs DEF T!Packet
  <2>3. CASE ~(p.by[1] = RecvLoop <=> p2.by[1] = RecvLoop)
    BY <2>3, TaskPacketIs DEF T!Packet
  <2> QED  BY <2>1, <2>2, <2>3
<1>2. p.by = p2.by
  BY <1>1, TaskPacketIs
<1> QED  BY <1>2 DEF WireOnce

\* A request keeps its packet while it is on the wire.
LEMMA TaskPacketStays ==
  ASSUME PartsInv, AnswersInv, LinkFits, AwaitsFit, NotYetPushed, PushedOnce, AnswersWritten,
         WireInOrder, WireIsUnderWay, [Next]_vars, NEW p \in wire, p \in wire'
  PROVE  TaskPacket(p)' = TaskPacket(p)
<1>1. CASE p.by[1] # RecvLoop
  BY <1>1 DEF TaskPacket
<1>2. CASE p.by[1] = RecvLoop
  <2>1. link = "up"
    BY <1>2, WireWithoutLink
  <2>2. ~ReadConnack /\ ~WriteConnect
    BY <2>1, LinkUp
  <2>3. ~SessionEnds
    BY <2>1, LoopMoves DEF SessionEnds
  <2>4. Before' = Before
    BY <2>1, <2>2, <2>3, LinkUp, BeforeStep
  <2> QED  BY <1>2, <2>4 DEF TaskPacket, Before
<1> QED  BY <1>1, <1>2

\* What an operation pushes is a packet of the task, and the broker answers it if the
\* operation has its packet on the wire.
LEMMA SentPacket ==
  ASSUME PartsInv, LinkFits, RunsFit, AwaitsFit, NEW c \in C!Clients, C!Send(c),
         c = RecvLoop => steps # << >>,
         NEW packet,
         packet = IF c = RecvLoop THEN Head(steps)[2] ELSE T!Packet("OTHER", Request(c)),
         NEW p, p = C!PacketOf(c)
  PROVE  /\ wire' = IF T!Connected /\ packet \in Requests THEN wire \cup {p} ELSE wire
         /\ packet \in Requests => TaskPacket(p)' = packet
<1>0. /\ wire' = IF link # "down" /\ C!Confirmed(op[c].request) THEN wire \cup {p} ELSE wire
      /\ UNCHANGED <<started, resubscribe>> /\ op[c].stage = "sending"
      /\ link # "down" <=> T!Connected
      /\ p.by[1] = c /\ p.by[2] = started[c] /\ p.request = op[c].request
  BY DEF C!Send, C!PacketOf, LinkFits
<1>1. CASE c # RecvLoop
  <2>1. c \in Callers
    BY <1>1 DEF C!Clients
  <2>2. Request(c) \in Others /\ Request(c)[3] = op[c].request
    BY <1>0, <2>1 DEF PartsInv, Named, Request
  <2>3. op[c].request \in {"qos0", "qos1", "qos2", "subscribe", "unsubscribe"}
    BY <2>2, RequestsTyped
  <2>4. Reply[Request(c)] = ReplyTo(op[c].request)
    BY <2>2, NamesDiffer DEF Reply
  <2>5. Reply[Request(c)] # None <=> C!Confirmed(op[c].request)
    BY <2>3, <2>4, NamesDiffer DEF ReplyTo, C!Confirmed
  <2>6. packet[1] = "OTHER" /\ packet[2] = Request(c) /\ packet = T!Packet("OTHER", Request(c))
    BY <1>1 DEF T!Packet
  <2>7. packet \in Requests <=> C!Confirmed(op[c].request)
    <3>1. packet \in Requests => Reply[packet[2]] # None
      BY RequestParts
    <3> QED  BY <2>2, <2>5, <2>6, <3>1, RequestsAre
  <2>8. TaskPacket(p)' = packet
    BY <1>0, <1>1, <2>6 DEF TaskPacket, Request
  <2> QED  BY <1>0, <2>7, <2>8
<1>2. CASE c = RecvLoop
  <2>0. /\ Left \in Nat /\ Len(Topics) \in Nat /\ Left <= Len(Topics)
        /\ resubscribe \in Nat /\ started[RecvLoop] \in Nat
    BY LoopTyped DEF AwaitsFit
  <2>1. CASE op[RecvLoop].request = "subscribe"
    <3>1. Left = resubscribe + 1
      BY <1>0, <1>2, <2>1 DEF Left, Subscribes
    <3> DEFINE i == Len(Topics) - Left + 1
    <3>2. packet = T!Packet("SUBSCRIBE", Topics[i]) /\ i \in DOMAIN Topics
      BY <1>2, <2>0, <3>1, NextAwait, TopicsDiffer DEF T!Push
    <3>3. packet \in Requests
      BY <3>2, TopicsDiffer, RequestsAre
    <3>4. C!Confirmed(op[c].request)
      BY <1>2, <2>1 DEF C!Confirmed
    <3>5. TaskPacket(p)' = packet
      <4>1. started[RecvLoop] - (started[RecvLoop] - (Len(Topics) - resubscribe)) = i
        BY <2>0, <3>1
      <4> QED  BY <1>0, <1>2, <3>2, <4>1 DEF TaskPacket
    <3> QED  BY <1>0, <3>3, <3>4, <3>5
  <2>2. CASE op[RecvLoop].request # "subscribe"
    <3>1. op[RecvLoop].request = "pubrel" /\ Left = 0
      BY <1>0, <1>2, <2>0, <2>2 DEF RunsFit, Left, Subscribes
    <3>2. packet \notin Requests
      BY <1>2, <3>1, NextAwait, RequestsAre
    <3>3. ~C!Confirmed(op[c].request)
      BY <1>2, <3>1 DEF C!Confirmed
    <3> QED  BY <1>0, <3>2, <3>3
  <2> QED  BY <2>1, <2>2
<1> QED  BY <1>1, <1>2

\* What is on the wire of the operations is under way in the task.
LEMMA WireUnderWayStep ==
  ASSUME PartsInv, PartsInv', AnswersInv, RequestsInv, PushedOnce', AnswersWritten', [Next]_vars
  PROVE  WireIsUnderWay'
<1> USE DEF RequestsInv
<1>0. {TaskPacket(p) : p \in wire} = {q \in Requests : UnderWay(q)} /\ Requests' = Requests
  BY DEF WireIsUnderWay, Requests
<1>1. \A p \in wire : p \in wire' => TaskPacket(p)' = TaskPacket(p)
  BY TaskPacketStays
<1>2. ASSUME UNCHANGED wire, \A q \in Requests : UnderWay(q)' <=> UnderWay(q)
      PROVE  WireIsUnderWay'
  <2>1. {TaskPacket(p) : p \in wire}' = {TaskPacket(p) : p \in wire}
    BY <1>1, <1>2
  <2>2. {q \in Requests : UnderWay(q)}' = {q \in Requests : UnderWay(q)}
    BY <1>0, <1>2
  <2> QED  BY <1>0, <2>1, <2>2 DEF WireIsUnderWay
<1>3. CASE \/ TaskAlone \/ WriteConnect \/ AppReceive \/ SubscribeNext \/ Subscribing
           \/ UNCHANGED vars \/ \E c \in Callers : Proceed(c) \/ StartOrEnd(c)
  <2>1. TaskAlone \/ WriteConnect \/ AppReceive \/ UNCHANGED task
    BY <1>3 DEF SubscribeNext, Subscribing, vars, Proceed, StartOrEnd
  <2>2. \A q \in Requests : UnderWay(q)' <=> UnderWay(q)
    BY <2>1, UnderWaySteps
  <2>3. UNCHANGED wire
    BY <1>3, WireSame
  <2> QED  BY <1>2, <2>2, <2>3
<1>4. CASE ReadMessage \/ ReadConnack
  <2>1. T!Read /\ Head(inbox)[1] \in {"PUBLISH", "PUBREL", "CONNACK"}
    BY <1>4 DEF ReadMessage, ReadConnack
  <2>2. \A q \in Requests : UnderWay(q)' <=> UnderWay(q)
    BY <2>1, UnderWaySteps, RequestParts
  <2>3. UNCHANGED wire
    BY <1>4, WireSame
  <2> QED  BY <1>2, <2>2, <2>3
<1>5. CASE SessionEnds
  <2>1. \A q \in Requests : ~UnderWay(q)'
    BY <1>5, UnderWaySteps DEF SessionEnds, T!Dropped, T!ReadRefusal
  <2>2. wire' = {}
    <3>1. CASE link = "down"
      BY <1>5, <3>1, WireWithoutLink DEF SessionEnds, operations, C!network
    <3>2. CASE link # "down"
      BY <1>5, <3>2, LoopMoves DEF SessionEnds
    <3> QED  BY <3>1, <3>2
  <2> QED  BY <1>0, <2>1, <2>2 DEF WireIsUnderWay
<1>6. CASE ReadAnswer
  <2>1. PICK p \in wire, success \in BOOLEAN :
          Acknowledges(Head(inbox), p) /\ C!Answer(p, success)
    BY <1>6 DEF ReadAnswer
  <2>2. /\ TaskPacket(p) \in Requests
        /\ Head(inbox) = AnswerTo(TaskPacket(p))
    BY <2>1, AnswerIs, TaskPacketIs
  <2>3. ASSUME NEW q \in Requests
        PROVE  UnderWay(q)' <=> UnderWay(q) /\ q # TaskPacket(p)
    <3>1. Head(inbox) = AnswerTo(q) <=> q = TaskPacket(p)
      <4>1. AnswerTo(q) = AnswerTo(TaskPacket(p)) => q[2] = TaskPacket(p)[2]
        BY <2>2, RequestParts
      <4> QED  BY <2>2, <4>1, AnswersDiffer
    <3> QED  BY <1>6, <3>1, UnderWaySteps DEF ReadAnswer
  <2>4. wire' = wire \ {p}
    BY <2>1 DEF C!Answer
  <2>5. \A p2 \in wire : TaskPacket(p2) = TaskPacket(p) => p2 = p
    BY TaskPacketsDiffer
  <2>6. {TaskPacket(p2) : p2 \in wire}' = {TaskPacket(p2) : p2 \in wire} \ {TaskPacket(p)}
    BY <1>1, <2>4, <2>5
  <2>7. {q \in Requests : UnderWay(q)}' = {q \in Requests : UnderWay(q)} \ {TaskPacket(p)}
    BY <1>0, <2>3
  <2> QED  BY <1>0, <2>6, <2>7 DEF WireIsUnderWay
<1>7. ASSUME NEW c \in C!Clients, C!Send(c), c = RecvLoop => steps # << >>, NEW packet,
             packet = IF c = RecvLoop THEN Head(steps)[2] ELSE T!Packet("OTHER", Request(c)),
             T!Pushed(packet), UNCHANGED <<outgoing, written, inbox, offered, sessions>>
      PROVE  WireIsUnderWay'
  <2>1. PICK p : p = C!PacketOf(c)
    OBVIOUS
  <2>2. /\ wire' = IF T!Connected /\ packet \in Requests THEN wire \cup {p} ELSE wire
        /\ packet \in Requests => TaskPacket(p)' = packet
    BY <1>7, <2>1, SentPacket
  <2>3. \A q \in Requests : UnderWay(q)' <=> UnderWay(q) \/ (T!Connected /\ q = packet)
    BY <1>7, UnderWaySteps
  <2>4. CASE T!Connected /\ packet \in Requests
    <3>1. {TaskPacket(p2) : p2 \in wire}' = {TaskPacket(p2) : p2 \in wire} \cup {packet}
      BY <1>1, <2>2, <2>4
    <3>2. {q \in Requests : UnderWay(q)}' = {q \in Requests : UnderWay(q)} \cup {packet}
      BY <1>0, <2>3, <2>4
    <3> QED  BY <1>0, <3>1, <3>2 DEF WireIsUnderWay
  <2>5. CASE ~(T!Connected /\ packet \in Requests)
    BY <1>2, <2>2, <2>3, <2>5
  <2> QED  BY <2>4, <2>5
<1>8. ASSUME NEW c \in Callers, Push(c)
      PROVE  WireIsUnderWay'
  <2>1. c \in C!Clients /\ c # RecvLoop
    BY LoopTyped
  <2>2. /\ C!Send(c) /\ T!Pushed(T!Packet("OTHER", Request(c)))
        /\ UNCHANGED <<outgoing, written, inbox, offered, sessions>>
    BY <1>8 DEF Push, T!OtherPush, Request
  <2> QED  BY <1>7, <2>1, <2>2
<1>9. CASE HandlerPushes
  <2>1. /\ steps # << >> /\ T!Pushed(Head(steps)[2])
        /\ UNCHANGED <<outgoing, written, inbox, offered, sessions>>
    BY <1>9 DEF HandlerPushes, T!HandlerPushes, T!bounds
  <2>2. CASE op[RecvLoop].stage = "sending"
    <3>1. C!Send(RecvLoop)
      BY <1>9, <2>2 DEF HandlerPushes
    <3> QED  BY <1>7, <2>1, <3>1, LoopTyped
  <2>3. CASE op[RecvLoop].stage # "sending"
    <3>1. Head(steps)[2][1] # "SUBSCRIBE" /\ UNCHANGED operations
      BY <1>9, <2>3 DEF HandlerPushes
    <3>2. Left = 0
      <4>1. \A t : T!Push("SUBSCRIBE", t)[2][1] = "SUBSCRIBE"
        BY DEF T!Push, T!Packet
      <4> QED  BY <2>1, <3>1, <4>1, NextAwait, LoopTyped
    <3>3. Head(steps)[2] \notin Requests
      BY <2>1, <3>2, NextAwait, RequestsAre
    <3>4. \A q \in Requests : UnderWay(q)' <=> UnderWay(q)
      BY <2>1, <3>3, UnderWaySteps
    <3> QED  BY <1>2, <3>1, <3>4 DEF operations, C!network
  <2> QED  BY <2>2, <2>3
<1> QED  BY <1>3, <1>4, <1>5, <1>6, <1>8, <1>9 DEF Next

\* Every step keeps the requests of both parts the same.
LEMMA RequestsStep ==
  ASSUME PartsInv, PartsInv', AnswersInv, RequestsInv, [Next]_vars
  PROVE  RequestsInv'
<1>1. /\ LinkFits /\ RunsFit /\ AwaitsFit /\ NotYetPushed /\ PushedOnce /\ AnswersWritten
      /\ AnsweredOnce /\ WireOnce /\ WireInOrder /\ WireIsUnderWay
  BY DEF RequestsInv
<1>2. LinkFits'
  BY <1>1, LinkStep
<1>3. RunsFit' /\ AwaitsFit'
  BY <1>1, AwaitsStep
<1>4. NotYetPushed'
  BY <1>1, NotYetPushedStep
<1>5. PushedOnce'
  BY <1>1, PushedIsNew, PushedOnceStep
<1>6. AnswersWritten'
  BY <1>1, AnswersWrittenStep
<1>7. AnsweredOnce'
  BY <1>1, AnsweredOnceStep
<1>8. WireOnce' /\ WireInOrder'
  BY <1>1, WireInOrderStep
<1>9. WireIsUnderWay'
  BY <1>5, <1>6, WireUnderWayStep
<1> QED  BY <1>2, <1>3, <1>4, <1>5, <1>6, <1>7, <1>8, <1>9 DEF RequestsInv

\* There are no requests at first.
LEMMA RequestsInit == Init => RequestsInv
<1> SUFFICES ASSUME Init PROVE RequestsInv
  OBVIOUS
<1>1. /\ writer = "none" /\ slot = None /\ outgoing = None /\ steps = << >> /\ inbox = << >>
      /\ written = << >> /\ offered = {} /\ link = "down" /\ resubscribe = 0 /\ wire = {}
  BY DEF Init, T!Init, C!Init
<1>2. op[RecvLoop].stage = "idle"
  BY DEF Init, C!Init, C!NotStarted, C!Clients
<1>3. Left = 0 /\ Len(Topics) \in Nat
  BY <1>1, <1>2, TopicsDiffer DEF Left, Subscribes
<1>4. \A q \in Requests : ~InFlight(q) /\ ~UnderWay(q)
  BY <1>1, RequestParts DEF InFlight, UnderWay, Range
<1>5. LinkFits /\ RunsFit
  BY <1>1, <1>2 DEF LinkFits, RunsFit, T!Connected
<1>6. AwaitsFit
  BY <1>1, <1>3 DEF AwaitsFit
<1>7. NotYetPushed
  BY <1>4, TopicsDiffer, RequestsAre DEF NotYetPushed
<1>8. PushedOnce
  BY <1>4 DEF PushedOnce, InFlight
<1>9. AnswersWritten /\ AnsweredOnce /\ WireOnce /\ WireInOrder
  BY <1>1 DEF AnswersWritten, AnsweredOnce, WireOnce, WireInOrder
<1>10. WireIsUnderWay
  BY <1>1, <1>4 DEF WireIsUnderWay
<1> QED  BY <1>5, <1>6, <1>7, <1>8, <1>9, <1>10 DEF RequestsInv

\* Within a connection no request and no answer is lost or doubled between an operation
\* and the receive loop, and nothing outlives the connection: a request the operations
\* count as unanswered is in SEND_QUEUE's slot, with the write loop, or written with its
\* answer still to be sent or read; and no other packet is in one of these places.
THEOREM NothingLostBetween == Spec => []RequestsInOnePlace
<1>1. RequestsInv => RequestsInOnePlace
  <2> SUFFICES ASSUME RequestsInv PROVE RequestsInOnePlace
    OBVIOUS
  <2>1. \A q : UnderWay(q) <=>
          \/ q \in {slot, outgoing}
          \/ /\ q \in Range(written)
             /\ <<T!Packet(Reply[q[2]], q[2]), sessions>> \in offered
                  => T!Packet(Reply[q[2]], q[2]) \in Range(inbox)
    BY DEF UnderWay, AnswerTo
  <2>2. (link = "down") = ~T!Connected
    BY DEF RequestsInv, LinkFits, T!Connected
  <2> QED  BY <2>1, <2>2 DEF RequestsInv, WireIsUnderWay, RequestsInOnePlace, Requests
<1>2. PartsInv /\ PartsInv' /\ AnswersInv /\ RequestsInv /\ [Next]_vars => RequestsInv'
  BY RequestsStep
<1> QED  BY <1>1, <1>2, RequestsInit, PartsHold, AnswersHold, PTL DEF Spec

(***************************************************************************)
(* Not everybody waits.                                                    *)
(***************************************************************************)

\* A step of the client is one for what was proved of the operations.
LEMMA OperationsNext ==
  ASSUME [Next]_vars
  PROVE  [CP!Next]_CP!vars
BY OperationsStep, OperationsSame DEF C!vars, CP!vars, C!channel, CP!channel, C!network,
   CP!network

\* What has been pushed is of operations that are past their push.
Past ==
  \A a \in others :
    /\ a[1] \in Callers /\ a[2] \in Nat /\ a[2] <= started[a[1]]
    /\ a[2] = started[a[1]] => op[a[1]].stage \in {"idle", "waiting"}

\* An operation pushes once, and the next has another number.
LEMMA PastStep ==
  ASSUME PartsInv, Past, [Next]_vars
  PROVE  Past'
<1>0. /\ CP!TypeInv /\ [CP!Next]_CP!vars
      /\ \A c \in Callers : /\ started[c] \in Nat /\ op[c].stage \in {"idle", "joining", "sending", "waiting"}
                            /\ c \in CP!Clients
  BY OperationsNext, LoopTyped DEF PartsInv, CP!HeardInv, CP!Clients, C!Operations, C!Clients
<1>1. ASSUME NEW c \in Callers, NEW n \in Nat, n <= started[c],
             n = started[c] => op[c].stage \in {"idle", "waiting"}
      PROVE  /\ n <= started'[c]
             /\ n = started'[c] => op'[c].stage \in {"idle", "waiting"}
  <2>1. started[c] \in Nat /\ c \in CP!Clients
    BY <1>0
  <2>2. \/ /\ started'[c] = started[c]
           /\ op'[c].stage = "joining" => op[c].stage = "joining"
        \/ started'[c] = started[c] + 1
    BY <1>0, CP!Begins, OperationsAssumptions
  <2>3. op'[c].stage = "sending" => op[c].stage \in {"joining", "sending"}
    BY <1>0, CP!SendsAfterJoin, OperationsAssumptions
  <2>4. op'[c].stage \in {"idle", "joining", "sending", "waiting"}
    <3>1. CP!TypeInv'
      BY <1>0, CP!TypeStep, OperationsAssumptions
    <3> QED  BY <2>1, <3>1 DEF CP!TypeInv, CP!TypeOK, CP!OperationsTyped, CP!Operations
  <2>5. CASE started'[c] = started[c] + 1
    BY <1>1, <2>1, <2>5
  <2>6. CASE started'[c] = started[c]
    <3>1. ~(op'[c].stage = "joining" /\ op[c].stage # "joining")
      BY <2>1, <2>2, <2>6
    <3> QED  BY <1>1, <2>3, <2>4, <2>6, <3>1
  <2> QED  BY <2>2, <2>5, <2>6
<1>2. ASSUME NEW c \in Callers, Push(c)
      PROVE  /\ others' = others \cup {<<c, started[c], op[c].request>>}
             /\ started'[c] = started[c] /\ op'[c].stage \in {"idle", "waiting"}
  <2>1. /\ op \in [C!Clients -> C!Operations] /\ c \in C!Clients
        /\ op[c] \in C!Operations
    BY LoopTyped
  <2>2. op'[c].stage \in {"idle", "waiting"}
    BY <1>2, <2>1 DEF Push, C!Send, C!Return, C!Operations
  <2> QED  BY <1>2, <2>2 DEF Push, T!OtherPush, C!Send
<1>3. CASE \E c \in Callers : Push(c)
  <2>1. PICK c \in Callers : Push(c)
    BY <1>3
  <2>2. ASSUME NEW a, a = <<c, started[c], op[c].request>>
        PROVE  /\ a[1] \in Callers /\ a[2] \in Nat /\ a[2] <= started'[a[1]]
               /\ a[2] = started'[a[1]] => op'[a[1]].stage \in {"idle", "waiting"}
    BY <1>0, <1>2, <2>1, <2>2
  <2>3. ASSUME NEW a \in others
        PROVE  /\ a[1] \in Callers /\ a[2] \in Nat /\ a[2] <= started'[a[1]]
               /\ a[2] = started'[a[1]] => op'[a[1]].stage \in {"idle", "waiting"}
    BY <1>1 DEF Past
  <2> QED  BY <1>2, <2>1, <2>2, <2>3 DEF Past
<1>4. CASE UNCHANGED others
  <2>1. ASSUME NEW a \in others
        PROVE  /\ a[1] \in Callers /\ a[2] \in Nat /\ a[2] <= started'[a[1]]
               /\ a[2] = started'[a[1]] => op'[a[1]].stage \in {"idle", "waiting"}
    BY <1>1 DEF Past
  <2> QED  BY <1>4, <2>1 DEF Past
<1>5. TaskAlone \/ WriteConnect \/ SessionEnds => UNCHANGED others
  BY DEF TaskAlone, WriteConnect, SessionEnds, T!BackOff, T!ConnectFails, T!Connect, T!Report,
     T!WriterReceive, T!WriterDone, T!HandlerSends, T!BrokerAnswersConnect, T!BrokerSends,
     T!WriteConnect, T!Dropped, T!ReadRefusal, T!EndSession, T!bounds
<1>6. ReadConnack \/ ReadAnswer \/ ReadMessage \/ SubscribeNext \/ HandlerPushes \/ Subscribing
        \/ AppReceive \/ UNCHANGED vars => UNCHANGED others
  BY DEF ReadConnack, ReadAnswer, ReadMessage, T!Read, SubscribeNext, HandlerPushes,
     T!HandlerPushes, Subscribing, AppReceive, T!AppReceive, T!bounds, task, vars
<1>7. \A c \in Callers : Proceed(c) \/ StartOrEnd(c) => UNCHANGED others
  BY DEF Proceed, StartOrEnd, task
<1> QED  BY <1>3, <1>4, <1>5, <1>6, <1>7 DEF Next

\* While somebody has all the subscribers, one of those who have them can go on.
LEMMA SubscribersGoOn ==
  ASSUME PartsInv, RequestsInv, CP!SubscribersInUse, Past, ~C!SlotFree, slot = None
  PROVE  LoopsGoOn \/ \E c \in Callers : OperationGoesOn(c)
<1>1. PICK d \in subscribers : TRUE
  <2>1. subscribers # {}
    <3> SUFFICES ASSUME subscribers = {} PROVE FALSE
      OBVIOUS
    <3>1. C!Cardinality({}) = Cardinality({})
      BY DEF C!Cardinality, Cardinality
    <3>2. Cardinality({}) = 0
      BY FS_EmptySet
    <3> QED  BY <3>1, <3>2, ConstantsAssumption DEF C!SlotFree
  <2> QED  BY <2>1
<1>2. /\ d \in CP!Clients /\ op[d].stage \in {"sending", "waiting"}
      /\ op[d].request # "pubrel"
  BY <1>1 DEF CP!SubscribersInUse
<1>3. CASE d \in Callers
  <2>1. <<d, started[d], op[d].request>> \notin others \/ op[d].stage = "waiting"
    BY <1>2 DEF Past
  <2> QED  BY <1>2, <1>3, <2>1 DEF OperationGoesOn
<1>4. CASE d = RecvLoop
  <2>1. op[RecvLoop].stage = "sending"
    BY <1>2, <1>4 DEF PartsInv, CP!HeardInv, CP!NeverWaits
  <2>2. op[RecvLoop].request = "subscribe"
    BY <1>2, <1>4, <2>1 DEF RequestsInv, RunsFit
  <2>3. Left > 0
    BY <2>1, <2>2, LoopTyped DEF Left, Subscribes
  <2>4. steps # << >>
    <3>1. Left <= Len(steps)
      BY DEF RequestsInv, AwaitsFit
    <3> QED  BY <2>3, <3>1, LoopTyped
  <2>5. Head(steps)[1] = "push"
    <3>1. AwaitsFit
      BY DEF RequestsInv
    <3> QED  BY <2>3, <2>4, <3>1, NextAwait DEF T!Push
  <2> QED  BY <2>1, <2>4, <2>5 DEF LoopsGoOn
<1> QED  BY <1>2, <1>3, <1>4 DEF CP!Clients

\* Whoever waits waits for somebody who does not wait for him.
LEMMA SomebodyGoesOn ==
  ASSUME PartsInv, RequestsInv, CP!SubscribersInUse, Past
  PROVE  NoStandstill
<1> DEFINE Goal == LoopsGoOn \/ ApplicationGoesOn \/ \E c \in Callers : OperationGoesOn(c)
<1>0. /\ steps \in Seq(TP!Awaits) /\ writer \in {"none", "connect", "receive", "write"}
      /\ ~T!Connected => slot = None
      /\ steps # << >> => T!Connected
  BY Shapes
<1>1. CASE slot # None
  BY <1>0, <1>1 DEF LoopsGoOn, NoStandstill, T!Connected
<1>2. CASE slot = None
  <2>1. ASSUME NEW c \in Callers, op[c].stage # "idle"
        PROVE  Goal
    <3>1. op[c].stage \in {"joining", "sending", "waiting"}
      BY <2>1, LoopTyped DEF C!Operations
    <3>2. CASE op[c].stage = "joining"
      BY <1>2, <3>2, SubscribersGoOn DEF OperationGoesOn
    <3>3. CASE op[c].stage = "sending"
      BY <1>2, <3>3 DEF OperationGoesOn, Past
    <3>4. CASE op[c].stage = "waiting"
      BY <3>4 DEF OperationGoesOn
    <3> QED  BY <3>1, <3>2, <3>3, <3>4
  <2>2. ASSUME phase = "report" \/ (steps # << >> /\ Head(steps)[1] = "data")
        PROVE  Goal
    <3>1. CASE Len(data) < DataCapacity
      BY <2>2, <3>1 DEF LoopsGoOn
    <3>2. CASE ~(Len(data) < DataCapacity)
      <4>1. data # << >>
        BY <3>2, ConstantsAssumption
      <4>2. CASE op[App].stage = "idle"
        BY <4>1, <4>2 DEF ApplicationGoesOn
      <4>3. CASE op[App].stage # "idle"
        BY <2>1, <4>3, ConstantsAssumption
      <4> QED  BY <4>2, <4>3
    <3> QED  BY <3>1, <3>2
  <2>3. ASSUME steps # << >>, Head(steps)[1] = "push"
        PROVE  Goal
    <3>1. CASE op[RecvLoop].stage = "sending" \/ Head(steps)[2][1] # "SUBSCRIBE"
      BY <1>2, <2>3, <3>1 DEF LoopsGoOn
    <3>2. CASE op[RecvLoop].stage # "sending" /\ Head(steps)[2][1] = "SUBSCRIBE"
      <4>1. Left > 0
        BY <2>3, <3>2, NextAwait, LoopTyped DEF RequestsInv
      <4>2. op[RecvLoop].stage \in {"idle", "joining"}
        BY <3>2, LoopTyped DEF C!Operations, PartsInv, CP!HeardInv, CP!NeverWaits
      <4>3. CASE op[RecvLoop].stage = "joining"
        BY <1>2, <4>3, SubscribersGoOn DEF LoopsGoOn
      <4>4. CASE op[RecvLoop].stage = "idle"
        <5>1. resubscribe > 0
          BY <4>1, <4>4, LoopTyped DEF Left, Subscribes
        <5> QED  BY <4>4, <5>1 DEF LoopsGoOn
      <4> QED  BY <4>2, <4>3, <4>4
    <3> QED  BY <3>1, <3>2
  <2>4. steps # << >> => Head(steps)[1] \in {"push", "data"}
    <3>1. ASSUME NEW a \in TP!Awaits PROVE a[1] \in {"push", "data"}
      BY <3>1 DEF TP!Awaits
    <3> QED  BY <1>0, <3>1
  <2> QED  BY <2>1, <2>2, <2>3, <2>4 DEF NoStandstill
<1> QED  BY <1>1, <1>2

\* Whatever the application does from within its receive loop, whatever the broker sends
\* or does not send: as long as something is under way one of the device's own steps is
\* possible.  An operation that waits has its timer, one that sends has the write loop, one
\* that looks for a subscriber has those who send or wait, and a handler that has
\* something to tell has the application, or the operation that keeps it from receiving.
THEOREM NeverStandsStill == Spec => []NoStandstill
<1>1. Spec => []CP!SubscribersInUse
  BY OperationsSpec, CP!NoSubscriberLost, OperationsAssumptions, PTL
<1>2. Init => Past
  BY DEF Init, T!Init, Past
<1>3. PartsInv /\ Past /\ [Next]_vars => Past'
  BY PastStep
<1>4. PartsInv /\ PartsInv' /\ AnswersInv /\ RequestsInv /\ [Next]_vars => RequestsInv'
  BY RequestsStep
<1>5. PartsInv /\ RequestsInv /\ CP!SubscribersInUse /\ Past => NoStandstill
  BY SomebodyGoesOn
<1> QED
  BY <1>1, <1>2, <1>3, <1>4, <1>5, RequestsInit, PartsHold, AnswersHold, PTL DEF Spec
=============================================================================
