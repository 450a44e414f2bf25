---------------------------- MODULE Confirmation ----------------------------
(***************************************************************************)
(* Operations that the broker confirms: publish() of src/src/io.rs and     *)
(* Topic::subscribe / unsubscribe of src/src/topic.rs, the packet          *)
(* identifiers they take, the control channel on which the receive loop    *)
(* tells them what the broker acknowledged, and their time-outs.           *)
(*                                                                         *)
(* The receive loop is itself a client: after a CONNACK it subscribes to   *)
(* the configured topics, and meanwhile it reads no acknowledgement.       *)
(* Handing a packet to the write loop is one step, which the pipe's        *)
(* specification (DroppingPipe) justifies: it is accepted if a connection  *)
(* is there and lost otherwise.                                            *)
(***************************************************************************)
EXTENDS Naturals, FiniteSets, Sequences

CONSTANTS
  Callers,         \* the application's tasks, one operation at a time each
  RecvLoop,        \* McutieTask::recv_loop
  Kinds,           \* the operations that callers start
  Subscriptions,   \* how many topics recv_loop subscribes to
  MaxSubscribers,  \* subscribers of CONTROL_CHANNEL (5 in the code)
  QueueLength,     \* messages CONTROL_CHANNEL keeps (2 in the code)
  MaxPid,          \* largest packet identifier (65535 in the code)
  MaxOps,          \* how many operations each caller starts (bound)
  MaxConnections   \* how many times the broker is connected to (bound)

\* QoS 0 publishes are not confirmed, QoS 1 and 2 are always waited for, the
\* others if the caller asks for it.
AllKinds ==
  {[request |-> "qos0", wait |-> FALSE], [request |-> "qos1", wait |-> TRUE],
   [request |-> "qos2", wait |-> TRUE]}
  \cup [request : {"subscribe", "unsubscribe"}, wait : BOOLEAN]

ASSUME ConstantsAssumption ==
  /\ RecvLoop \notin Callers /\ IsFiniteSet(Callers)
  /\ Kinds \subseteq AllKinds
  /\ {MaxSubscribers, QueueLength, MaxPid} \subseteq Nat \ {0}
  /\ {Subscriptions, MaxOps, MaxConnections} \subseteq Nat

Clients == Callers \cup {RecvLoop}

VARIABLES
  counter,      \* PID
  op,           \* op[c]: the operation c runs, or how the last one ended
  started,      \* started[c]: how many operations c has started
  subscribers,  \* the clients that have a Subscriber of CONTROL_CHANNEL
  unread,       \* unread[c]: the control messages c has not read yet
  lagged,       \* the subscribers that lost a message of the channel
  connections,  \* how many connections there have been
  link,         \* the connection: "down", "open" (CONNECT sent) or "up"
  resubscribe,  \* how many topics recv_loop has still to subscribe to
  wire,         \* requests on their way to the broker or not yet answered
  answered      \* history: the operations <<c, n>> the broker has answered,
                \* with its verdict

channel == <<subscribers, unread, lagged>>
network == <<connections, link, resubscribe, wire, answered>>
vars == <<counter, op, started, channel, network>>

\* Pid::new() + v: identifiers start at 1, and an overflow skips 0.
PidOf(v) == IF v = MaxPid THEN 1 ELSE v + 1

\* The variant of ControlMessage that confirms a request.
Variant(request) ==
  CASE request = "subscribe"   -> "Subscribed"
    [] request = "unsubscribe" -> "Unsubscribed"
    [] OTHER                   -> "Published"

ControlMessages ==
  [variant : {"Published", "Subscribed", "Unsubscribed"},
   pid : 1 .. MaxPid, success : BOOLEAN]

NotStarted ==
  [stage |-> "idle", request |-> "qos0", wait |-> FALSE, pid |-> 0,
   outcome |-> "none"]

Init ==
  /\ counter = 0
  /\ op = [c \in Clients |-> NotStarted]
  /\ started = [c \in Clients |-> 0]
  /\ subscribers = {} /\ lagged = {}
  /\ unread = [c \in Clients |-> << >>]
  /\ connections = 0 /\ link = "down" /\ resubscribe = 0
  /\ wire = {} /\ answered = {}

-----------------------------------------------------------------------------
(* The operations *)

Begin(c, kind) ==
  /\ op[c].stage = "idle"
  /\ op' = [op EXCEPT ![c] = [stage |-> "joining", request |-> kind.request,
                              wait |-> kind.wait, pid |-> 0, outcome |-> "none"]]
  /\ started' = [started EXCEPT ![c] = @ + 1]

\* A caller starts publish(), subscribe(wait) or unsubscribe(wait).
Start(c, kind) ==
  /\ started[c] < MaxOps
  /\ Begin(c, kind)
  /\ UNCHANGED <<counter, channel, network>>

\* Mutant of Release: the subscriber is not unregistered.
ReleaseNothing(c) == UNCHANGED channel

\* The Subscriber of c is dropped, with what it has not read.
Release(c) ==
  /\ subscribers' = subscribers \ {c}
  /\ unread' = [unread EXCEPT ![c] = << >>]
  /\ lagged' = lagged \ {c}

Return(c, outcome) ==
  /\ op' = [op EXCEPT ![c].stage = "idle", ![c].outcome = outcome]
  /\ Release(c)

\* Mutant of AssignPid: the identifier is read and not taken.
ReadPid(c) == UNCHANGED counter

\* PID.fetch_add(1), which wraps; a QoS 0 publish needs no identifier.
AssignPid(c) ==
  counter' = IF op[c].request = "qos0" THEN counter
             ELSE (counter + 1) % (MaxPid + 1)

\* Mutant of SlotFree: one too many.
SlotFreeOffByOne == Cardinality(subscribers) <= MaxSubscribers

\* CONTROL_CHANNEL.subscriber() is not an Err.
SlotFree == Cardinality(subscribers) < MaxSubscribers

\* subscribe() got one of the channel's subscribers - it looks for one every
\* 50 ms - and the operation goes on to its push without another wait.
Join(c) ==
  /\ op[c].stage = "joining" /\ SlotFree
  /\ subscribers' = subscribers \cup {c}
  /\ AssignPid(c)
  /\ op' = [op EXCEPT ![c].stage = "sending",
                      ![c].pid = IF op[c].request = "qos0" THEN 0
                                 ELSE PidOf(counter)]
  /\ UNCHANGED <<started, unread, lagged, network>>

\* The topic does not fit a TopicString: the operation ends before it takes an
\* identifier.
TopicTooLarge(c) ==
  /\ op[c].stage = "joining" /\ SlotFree
  /\ op[c].request \in {"subscribe", "unsubscribe"}
  /\ Return(c, "TooLarge")
  /\ UNCHANGED <<counter, started, network>>

\* send_packet cannot encode the packet.
PacketTooLarge(c) ==
  /\ op[c].stage = "sending"
  /\ Return(c, "PacketError")
  /\ UNCHANGED <<counter, started, network>>

\* The packet of c's operation, as the broker sees it, and whose it is.
PacketOf(c) ==
  [request |-> op[c].request, pid |-> op[c].pid, by |-> <<c, started[c]>>]

\* Only these make the broker answer with a packet that recv_loop passes on.
Confirmed(request) == request \in {"qos1", "qos2", "subscribe", "unsubscribe"}

\* SEND_QUEUE.push(..).await is over: the packet is with the connection, or
\* dropped because there is none.  Who waits for no answer returns.
Send(c) ==
  /\ op[c].stage = "sending"
  /\ wire' = IF link # "down" /\ Confirmed(op[c].request)
             THEN wire \cup {PacketOf(c)} ELSE wire
  /\ IF op[c].wait
     THEN op' = [op EXCEPT ![c].stage = "waiting"] /\ UNCHANGED channel
     ELSE Return(c, "Ok")
  /\ UNCHANGED <<counter, started, connections, link, resubscribe, answered>>

\* Mutant of Confirms: the identifier is not compared.
ConfirmsAnyPid(message, o) == message.variant = Variant(o.request)

Confirms(message, o) ==
  message.variant = Variant(o.request) /\ message.pid = o.pid

\* Mutant of ReadMessage: a message read by one subscriber is gone for all.
ReadSharedMessage(c) ==
  /\ op[c].stage = "waiting" /\ unread[c] # << >>
  /\ LET message == Head(unread[c])
         rest == [d \in Clients |->
                    IF unread[d] # << >> /\ Head(unread[d]) = message
                    THEN Tail(unread[d]) ELSE unread[d]]
     IN  IF Confirms(message, op[c])
         THEN /\ op' = [op EXCEPT ![c].stage = "idle", ![c].outcome =
                          IF message.success THEN "Ok" ELSE "IOError"]
              /\ subscribers' = subscribers \ {c}
              /\ lagged' = lagged \ {c}
              /\ unread' = [rest EXCEPT ![c] = << >>]
         ELSE unread' = rest /\ UNCHANGED <<op, subscribers, lagged>>
  /\ UNCHANGED <<counter, started, network>>

\* next_message() of the waiting loop: a message that confirms the operation
\* ends it, any other is skipped.
ReadMessage(c) ==
  /\ op[c].stage = "waiting" /\ unread[c] # << >>
  /\ LET message == Head(unread[c])
     IN  IF Confirms(message, op[c])
         THEN Return(c, IF message.success THEN "Ok" ELSE "IOError")
         ELSE /\ unread' = [unread EXCEPT ![c] = Tail(@)]
              /\ UNCHANGED <<op, subscribers, lagged>>
  /\ UNCHANGED <<counter, started, network>>

\* CONFIRMATION_TIMEOUT is over.  select() looks at the messages first, so the
\* timer ends the wait only when all of them have been read.
TimeOut(c) ==
  /\ op[c].stage = "waiting" /\ unread[c] = << >>
  /\ Return(c, "TimedOut")
  /\ UNCHANGED <<counter, started, network>>

\* The caller drops the operation's future.
Cancel(c) ==
  /\ op[c].stage # "idle"
  /\ Return(c, "cancelled")
  /\ UNCHANGED <<counter, started, network>>

-----------------------------------------------------------------------------
(* The connection and the receive loop *)

\* write_loop has sent CONNECT and reads the queue.
Open ==
  /\ link = "down" /\ connections < MaxConnections
  /\ connections' = connections + 1
  /\ link' = "open"
  /\ UNCHANGED <<counter, op, started, channel, resubscribe, wire, answered>>

\* recv_loop reads an accepting CONNACK.
Connack ==
  /\ link = "open"
  /\ link' = "up"
  /\ resubscribe' = Subscriptions
  /\ UNCHANGED <<counter, op, started, channel, connections, wire, answered>>

\* recv_loop turns to the next of its subscriptions, waiting for no answer.
Resubscribe ==
  /\ resubscribe > 0
  /\ Begin(RecvLoop, [request |-> "subscribe", wait |-> FALSE])
  /\ resubscribe' = resubscribe - 1
  /\ UNCHANGED <<counter, channel, connections, link, wire, answered>>

\* recv_loop is back at reader.read(..).
Reading == link = "up" /\ resubscribe = 0 /\ op[RecvLoop].stage = "idle"

\* The newest QueueLength messages.
Newest(messages) ==
  IF Len(messages) > QueueLength THEN Tail(messages) ELSE messages

\* publish_immediate: nobody waits, whoever has too many unread loses one.
PublishImmediate(message) ==
  /\ unread' = [c \in Clients |-> IF c \in subscribers
                                  THEN Newest(Append(unread[c], message))
                                  ELSE unread[c]]
  /\ lagged' = lagged \cup {c \in subscribers : Len(unread[c]) = QueueLength}
  /\ UNCHANGED subscribers

\* recv_loop reads the PUBACK, PUBREC, SUBACK or UNSUBACK for p.  A SUBACK may
\* refuse.  A PUBREC is answered by a PUBREL: recv_loop waits for that push.
Answer(p, success) ==
  /\ Reading /\ p \in wire
  /\ p.request # "subscribe" => success
  /\ PublishImmediate([variant |-> Variant(p.request), pid |-> p.pid,
                       success |-> success])
  /\ wire' = wire \ {p}
  /\ answered' = answered \cup {<<p.by, success>>}
  /\ op' = IF p.request # "qos2" THEN op
           ELSE [op EXCEPT ![RecvLoop] =
                   [stage |-> "sending", request |-> "pubrel", wait |-> FALSE,
                    pid |-> p.pid, outcome |-> "none"]]
  /\ UNCHANGED <<counter, started, connections, link, resubscribe>>

\* The select4 of run() ends: recv_loop is dropped wherever it is, requests and
\* answers under way are lost (clean_session: the broker forgets them as well).
Disconnect ==
  /\ link # "down"
  /\ link' = "down" /\ wire' = {} /\ resubscribe' = 0
  /\ Return(RecvLoop, "cancelled")
  /\ UNCHANGED <<counter, started, connections, answered>>

-----------------------------------------------------------------------------
Step(c) ==
  \/ Join(c) \/ TopicTooLarge(c) \/ PacketTooLarge(c) \/ Send(c)
  \/ ReadMessage(c) \/ TimeOut(c)

Next ==
  \/ \E c \in Callers, kind \in Kinds : Start(c, kind)
  \/ \E c \in Callers : Cancel(c)
  \/ \E c \in Clients : Step(c)
  \/ \E p \in wire, success \in BOOLEAN : Answer(p, success)
  \/ Open \/ Connack \/ Resubscribe \/ Disconnect

Spec == Init /\ [][Next]_vars

\* Callers are polled, timers fire and a push ends (ConnectedPipe!PushResolves).
\* Nothing is assumed of the broker or of the network.
Fairness ==
  /\ \A c \in Clients : /\ WF_vars(Join(c)) /\ WF_vars(Send(c))
                        /\ WF_vars(ReadMessage(c)) /\ WF_vars(TimeOut(c))
  /\ WF_vars(Resubscribe)

LiveSpec == Spec /\ Fairness

-----------------------------------------------------------------------------
(* Properties *)

Operations ==
  [stage : {"idle", "joining", "sending", "waiting"},
   request : {"qos0", "qos1", "qos2", "subscribe", "unsubscribe", "pubrel"},
   wait : BOOLEAN, pid : 0 .. MaxPid,
   outcome : {"none", "Ok", "IOError", "TimedOut", "TooLarge", "PacketError",
              "cancelled"}]

OperationsTyped ==
  /\ counter \in 0 .. MaxPid
  /\ op \in [Clients -> Operations]
  /\ started \in [Clients -> Nat]

ChannelTyped ==
  /\ subscribers \in SUBSET Clients /\ lagged \in SUBSET subscribers
  /\ Cardinality(subscribers) <= MaxSubscribers
  /\ unread \in [Clients -> Seq(ControlMessages)]
  /\ \A c \in Clients : Len(unread[c]) <= QueueLength

NetworkTyped ==
  /\ connections \in 0 .. MaxConnections /\ link \in {"down", "open", "up"}
  /\ resubscribe \in 0 .. Subscriptions
  /\ \A p \in wire : /\ p.pid \in 1 .. MaxPid /\ Confirmed(p.request)
                     /\ p.by \in Clients \X Nat

TypeOK == OperationsTyped /\ ChannelTyped /\ NetworkTyped

\* The channel's few subscribers are with the operations under way: none stays with
\* an operation that is over, however that ended, and none is shared.
SubscribersInUse ==
  subscribers = {c \in Clients : /\ op[c].stage \in {"sending", "waiting"}
                                 /\ op[c].request # "pubrel"}

\* An operation that waits for the broker and returns Ok was carried out by the
\* broker: this very operation, not an earlier one with the same identifier.
OkMeansConfirmed ==
  \A c \in Callers :
    op[c].stage = "idle" /\ op[c].wait /\ op[c].outcome = "Ok"
      => <<<<c, started[c]>>, TRUE>> \in answered

\* An operation that times out was not answered - unless its subscriber lagged,
\* because more than QueueLength acknowledgements came in before it was polled.
\* In particular no answer is missed between the send and the wait.
TimedOutMeansUnanswered ==
  [][\A c \in Clients :
       op[c].stage = "waiting" /\ op'[c].outcome = "TimedOut"
         => c \in lagged \/ \A b \in BOOLEAN : <<<<c, started[c]>>, b>> \notin answered
    ]_vars

\* Every operation ends: with a confirmation, an error or a time-out.
OperationEnds ==
  \A c \in Clients : op[c].stage # "idle" ~> op[c].stage = "idle"

\* After a CONNACK recv_loop gets back to reading, even when all subscribers of
\* the channel are taken by operations whose answers only recv_loop could read.
ReceiveLoopResumes == link = "up" ~> Reading \/ link = "down"
=============================================================================
