------------------------------- MODULE Client -------------------------------
(***************************************************************************)
(* The whole client: McutieTask's connection and loops together with the   *)
(* confirmed operations.  Both modules are instantiated with the variables *)
(* of this one, and every step below is a step of one of them or of both   *)
(* at once:                                                                *)
(*   - what an operation pushes goes through SEND_QUEUE and the write loop *)
(*     (Confirmation's `wire' is in McutieTask slot, outgoing, the broker  *)
(*     and inbox);                                                         *)
(*   - the receive loop publishes the acknowledgements it reads to the     *)
(*     operations, and subscribes as one of the clients;                   *)
(*   - the application's task that receives messages runs operations too,  *)
(*     and receives nothing while it waits for one.                        *)
(***************************************************************************)
EXTENDS Naturals, FiniteSets, Sequences, Functions

CONSTANTS
  App,             \* the caller that also receives the messages
  Callers, RecvLoop, Kinds, MaxSubscribers, QueueLength, MaxPid, MaxOps,
  Topics, Inbound, Qos, Target, DataCapacity, MaxSessions, None


VARIABLES
  phase, timeout, waited, ended, writer, slot, outgoing, steps, broker, inbox,
  written, data, log, offered, others, sessions,
  counter, op, started, subscribers, unread, lagged, connections, link,
  resubscribe, wire, answered

task ==
  <<phase, timeout, waited, ended, writer, slot, outgoing, steps, broker, inbox,
    written, data, log, offered, others, sessions>>
operations ==
  <<counter, op, started, subscribers, unread, lagged, connections, link,
    resubscribe, wire, answered>>
vars == <<task, operations>>

\* A packet of an operation: its caller, its number and what it asks for.
Others == Callers \X (1 .. MaxOps) \X {kind.request : kind \in Kinds}

\* What the broker answers a request with.
ReplyTo(request) ==
  CASE request = "qos0"        -> None
    [] request = "qos1"        -> "PUBACK"
    [] request = "qos2"        -> "PUBREC"
    [] request = "subscribe"   -> "SUBACK"
    [] request = "unsubscribe" -> "UNSUBACK"

Reply == [a \in Others \cup Range(Topics) |->
            IF a \in Range(Topics) THEN "SUBACK" ELSE ReplyTo(a[3])]

T == INSTANCE McutieTask

C == INSTANCE Confirmation WITH
       Subscriptions <- Len(Topics), MaxConnections <- MaxSessions

ASSUME ConstantsAssumption ==
  /\ App \in Callers /\ RecvLoop \notin Callers /\ IsFiniteSet(Callers)
  /\ Kinds \subseteq C!AllKinds /\ Topics \in Seq(Range(Topics))
  /\ Qos \in [Inbound -> 0 .. 2]
  /\ Target \in [Inbound -> {"application", "online", "other", "oversized"}]
  /\ {MaxSubscribers, QueueLength, MaxPid, DataCapacity, MaxSessions} \subseteq Nat \ {0}
  /\ MaxOps \in Nat
  /\ None \notin T!ToBroker

\* A packet is known by its topic or its operation.  Two subscriptions to one topic,
\* which the code tells apart by identifier, would be one here.
ASSUME NamesDiffer ==
  /\ \A i, j \in DOMAIN Topics : Topics[i] = Topics[j] => i = j
  /\ Range(Topics) \cap Others = {}
  /\ None \notin {"PUBACK", "PUBREC", "SUBACK", "UNSUBACK"}

Init == T!Init /\ C!Init

-----------------------------------------------------------------------------
(* Steps of the task that no operation notices *)

TaskAlone ==
  /\ \/ T!BackOff \/ T!ConnectFails \/ T!Connect \/ T!Report
     \/ T!WriterReceive \/ T!WriterDone \/ T!HandlerSends
     \/ \E accepts \in BOOLEAN : T!BrokerAnswersConnect(accepts)
     \/ \E packet \in T!BrokerPackets : T!BrokerSends(packet)
  /\ UNCHANGED operations

\* CONNECT is written and the queue has its reader.
WriteConnect == T!WriteConnect /\ C!Open

\* The session ends, before or after there was a reader.
SessionEnds ==
  /\ T!Dropped \/ T!ReadRefusal
  /\ IF link = "down" THEN UNCHANGED operations ELSE C!Disconnect

-----------------------------------------------------------------------------
(* The receive loop *)

\* The packet of McutieTask that carries a request of Confirmation; recv_loop's
\* subscriptions are counted on from those it made on earlier connections.
TaskPacket(p) ==
  IF p.by[1] = RecvLoop
  THEN LET before == started[RecvLoop] - (Len(Topics) - resubscribe)
       IN  T!Packet("SUBSCRIBE", Topics[p.by[2] - before])
  ELSE T!Packet("OTHER", <<p.by[1], p.by[2], p.request>>)

Acknowledges(packet, p) ==
  LET request == TaskPacket(p)[2] IN packet = T!Packet(Reply[request], request)

\* The connection is accepted: the subscriptions are next.
ReadConnack ==
  /\ inbox # << >> /\ Head(inbox)[1] = "CONNACK" /\ T!Read
  /\ C!Connack

\* An acknowledgement goes to the operations.
ReadAnswer ==
  /\ inbox # << >> /\ T!Read
  /\ \E p \in wire, success \in BOOLEAN :
       Acknowledges(Head(inbox), p) /\ C!Answer(p, success)

\* A message, or the broker's part of receiving one with QoS 2.
ReadMessage ==
  /\ inbox # << >> /\ Head(inbox)[1] \in {"PUBLISH", "PUBREL"} /\ T!Read
  /\ UNCHANGED operations

\* topic.subscribe(false) begins.
SubscribeNext == C!Resubscribe /\ UNCHANGED task

\* What recv_loop pushes is its own operation's - a subscription, the PUBREL
\* for a publish - or the answer to a message.
HandlerPushes ==
  /\ T!HandlerPushes
  /\ IF op[RecvLoop].stage = "sending" THEN C!Send(RecvLoop)
     ELSE Head(steps)[2][1] # "SUBSCRIBE" /\ UNCHANGED operations

-----------------------------------------------------------------------------
(* The operations and the application *)

Push(c) ==
  /\ T!OtherPush(<<c, started[c], op[c].request>>)
  /\ C!Send(c)

\* Mutant of Proceed: an operation waits for ever.
ProceedUntimed(c) == (C!Join(c) \/ C!ReadMessage(c)) /\ UNCHANGED task

\* What an operation does by itself when it is polled.
Proceed(c) ==
  (C!Join(c) \/ C!ReadMessage(c) \/ C!TimeOut(c)) /\ UNCHANGED task

\* An operation is started, fails, or is dropped.
StartOrEnd(c) ==
  /\ \/ \E kind \in Kinds : C!Start(c, kind)
     \/ C!TopicTooLarge(c) \/ C!PacketTooLarge(c) \/ C!Cancel(c)
  /\ UNCHANGED task

\* recv_loop's own operations: it subscribes to topics that fit.
Subscribing == C!Join(RecvLoop) /\ UNCHANGED task

\* The application's loop is at receive() only when it runs no operation.
AppReceive ==
  /\ op[App].stage = "idle"
  /\ T!AppReceive
  /\ UNCHANGED operations

-----------------------------------------------------------------------------
Next ==
  \/ TaskAlone \/ WriteConnect \/ SessionEnds
  \/ ReadConnack \/ ReadAnswer \/ ReadMessage \/ SubscribeNext \/ HandlerPushes
  \/ \E c \in Callers : Push(c) \/ Proceed(c) \/ StartOrEnd(c)
  \/ Subscribing \/ AppReceive

Spec == Init /\ [][Next]_vars

\* The tasks are polled, the socket takes what is written, timers fire.  The
\* application comes back to receive() whenever it can, and nothing more is
\* asked of it; nothing is asked of the broker and the network.
Fairness ==
  /\ WF_vars(T!BackOff /\ UNCHANGED operations) /\ WF_vars(T!Report /\ UNCHANGED operations)
  /\ WF_vars(T!WriterReceive /\ UNCHANGED operations)
  /\ WF_vars(T!WriterDone /\ UNCHANGED operations)
  /\ WF_vars(T!HandlerSends /\ UNCHANGED operations)
  /\ WF_vars(HandlerPushes) /\ WF_vars(SubscribeNext) /\ WF_vars(Subscribing)
  /\ \A c \in Callers : WF_vars(Push(c)) /\ WF_vars(Proceed(c))
  /\ WF_vars(AppReceive)

LiveSpec == Spec /\ Fairness

-----------------------------------------------------------------------------
(* Properties *)

\* A request whose answer is still to come is in the queue, being written, with
\* the broker, or its answer is on the way: within a connection nothing is lost
\* between an operation and the receive loop, and nothing outlives it.
RequestsInOnePlace ==
  LET underWay(packet, request) ==
        \/ packet \in {slot, outgoing}
        \/ /\ packet \in Range(written)
           /\ LET reply == T!Packet(Reply[request], request)
              IN  <<reply, sessions>> \in offered => reply \in Range(inbox)
      asked == {a \in Others : Reply[a] # None}
  IN  /\ {TaskPacket(p) : p \in wire} =
           {packet \in {T!Packet("OTHER", a) : a \in asked}
                         \cup {T!Packet("SUBSCRIBE", t) : t \in Range(Topics)} :
              underWay(packet, packet[2])}
      /\ (link = "down") = ~T!Connected

\* An operation that returns Ok was answered by the broker, on a connection of
\* its time: not just some acknowledgement with a matching identifier.
OkMeansAnswered ==
  \A c \in Callers :
    op[c].stage = "idle" /\ op[c].wait /\ op[c].outcome = "Ok"
      => LET request == <<c, started[c], op[c].request>>
         IN  \E o \in offered : o[1] = T!Packet(Reply[request], request)

\* What an operation, mcutie's task and the application can do next by themselves.
OperationGoesOn(c) ==
  \/ op[c].stage = "joining" /\ C!SlotFree
  \/ /\ op[c].stage = "sending" /\ <<c, started[c], op[c].request>> \notin others
     /\ T!Connected => slot = None
  \/ op[c].stage = "waiting"

LoopsGoOn ==
  \/ writer = "write" \/ (writer = "receive" /\ slot # None)
  \/ /\ phase = "report" \/ (steps # << >> /\ Head(steps)[1] = "data")
     /\ Len(data) < DataCapacity
  \/ /\ steps # << >> /\ Head(steps)[1] = "push" /\ slot = None
     /\ op[RecvLoop].stage = "sending" \/ Head(steps)[2][1] # "SUBSCRIBE"
  \/ op[RecvLoop].stage = "joining" /\ C!SlotFree
  \/ op[RecvLoop].stage = "idle" /\ resubscribe > 0

ApplicationGoesOn == op[App].stage = "idle" /\ data # << >>

\* While an operation is under way, a handler is, or the application has still to be
\* told of the end of a connection, somebody can go on: the queues, the slot, the
\* subscribers and the application are never all waiting for one another.
NoStandstill ==
  steps # << >> \/ phase = "report" \/ (\E c \in Callers : op[c].stage # "idle")
    => LoopsGoOn \/ ApplicationGoesOn \/ \E c \in Callers : OperationGoesOn(c)

\* An application that publishes from its own receive loop stops receiving
\* while it waits for an acknowledgement that sits behind a message it should
\* receive.  All the same mcutie's task does not hang: it gets back to reading,
\* and after a connection to the next attempt.
TaskGoesOn == steps # << >> \/ phase = "report" ~> steps = << >> /\ phase # "report"
=============================================================================
