------------------------- MODULE ConfirmationProofs --------------------------
(***************************************************************************)
(* Proofs about Confirmation, for any callers, any kinds of operations and *)
(* any capacity of the control channel.                                    *)
(***************************************************************************)
EXTENDS Confirmation, FiniteSetTheorems, SequenceTheorems, TLAPS

(***************************************************************************)
(* Type correctness.                                                       *)
(***************************************************************************)

\* An identifier was given to whatever is sent and confirmed.
PidGiven ==
  \A c \in Clients :
    op[c].stage \in {"sending", "waiting"} /\ Confirmed(op[c].request)
      => op[c].pid \in 1 .. MaxPid

\* The channel without a subscriber is still a channel.
LEMMA ReleaseTyped ==
  ASSUME ChannelTyped, NEW c \in Clients, Release(c)
  PROVE  ChannelTyped'
<1>1. IsFiniteSet(subscribers)
  <2>1. IsFiniteSet(Clients)
    BY ConstantsAssumption, FS_AddElement DEF Clients
  <2> QED  BY <2>1, FS_Subset DEF ChannelTyped
<1>2. Cardinality(subscribers') <= MaxSubscribers
  <2>1. /\ Cardinality(subscribers') \in Nat /\ Cardinality(subscribers) \in Nat
        /\ Cardinality(subscribers') <= Cardinality(subscribers)
    BY <1>1, FS_Subset, FS_CardinalityType DEF Release
  <2>2. MaxSubscribers \in Nat
    BY ConstantsAssumption
  <2> QED  BY <2>1, <2>2 DEF ChannelTyped
<1>3. << >> \in Seq(ControlMessages) /\ Len(<< >>) = 0 /\ QueueLength \in Nat
  BY ConstantsAssumption
<1>4. unread' \in [Clients -> Seq(ControlMessages)]
  BY <1>3 DEF Release, ChannelTyped
<1>5. \A d \in Clients : Len(unread'[d]) <= QueueLength
  BY <1>3 DEF Release, ChannelTyped
<1> QED  BY <1>2, <1>4, <1>5 DEF Release, ChannelTyped

\* A published message: nobody has more of them than the channel keeps.
LEMMA PublishTyped ==
  ASSUME ChannelTyped, NEW message \in ControlMessages, PublishImmediate(message)
  PROVE  ChannelTyped'
<1>0. QueueLength \in Nat \ {0}
  BY ConstantsAssumption
<1>1. ASSUME NEW q \in Seq(ControlMessages), Len(q) <= QueueLength
      PROVE  /\ Newest(Append(q, message)) \in Seq(ControlMessages)
             /\ Len(Newest(Append(q, message))) <= QueueLength
  <2>1. /\ Append(q, message) \in Seq(ControlMessages)
        /\ Len(Append(q, message)) = Len(q) + 1 /\ Len(q) \in Nat
        /\ Append(q, message) # << >>
    BY <1>1
  <2>2. /\ Tail(Append(q, message)) \in Seq(ControlMessages)
        /\ Len(Tail(Append(q, message))) = Len(q)
    BY <2>1, HeadTailProperties
  <2> QED  BY <1>0, <1>1, <2>1, <2>2 DEF Newest
<1>2. unread' \in [Clients -> Seq(ControlMessages)]
  BY <1>1 DEF PublishImmediate, ChannelTyped
<1>3. \A d \in Clients : Len(unread'[d]) <= QueueLength
  BY <1>1 DEF PublishImmediate, ChannelTyped
<1> QED  BY <1>2, <1>3 DEF PublishImmediate, ChannelTyped

\* A client that returns leaves the rest as it was.
LEMMA ReturnTyped ==
  ASSUME OperationsTyped, PidGiven, NEW c \in Clients,
         NEW outcome \in {"none", "Ok", "IOError", "TimedOut", "TooLarge", "PacketError",
                          "cancelled"},
         op' = [op EXCEPT ![c].stage = "idle", ![c].outcome = outcome],
         UNCHANGED <<counter, started>>
  PROVE  OperationsTyped' /\ PidGiven'
<1>1. op[c] \in Operations
  BY DEF OperationsTyped
<1>2. op'[c] \in Operations /\ op'[c].stage = "idle"
  BY <1>1 DEF OperationsTyped, Operations
<1>3. op' \in [Clients -> Operations]
  BY <1>2 DEF OperationsTyped
<1>4. \A d \in Clients : d # c => op'[d] = op[d]
  BY DEF OperationsTyped
<1> QED  BY <1>2, <1>3, <1>4 DEF OperationsTyped, PidGiven

\* An operation that begins has no identifier yet.
LEMMA BeginTyped ==
  ASSUME OperationsTyped, PidGiven, NEW c \in Clients, NEW kind \in AllKinds,
         Begin(c, kind), UNCHANGED counter
  PROVE  OperationsTyped' /\ PidGiven'
<1>1. kind.request \in {"qos0", "qos1", "qos2", "subscribe", "unsubscribe"}
      /\ kind.wait \in BOOLEAN
  <2>1. CASE kind \in [request : {"subscribe", "unsubscribe"}, wait : BOOLEAN]
    BY <2>1
  <2>2. \/ kind = [request |-> "qos0", wait |-> FALSE]
        \/ kind = [request |-> "qos1", wait |-> TRUE]
        \/ kind = [request |-> "qos2", wait |-> TRUE]
        \/ kind \in [request : {"subscribe", "unsubscribe"}, wait : BOOLEAN]
    BY Zenon DEF AllKinds
  <2>3. ASSUME NEW r \in {"qos0", "qos1", "qos2"}, NEW w \in BOOLEAN,
               kind = [request |-> r, wait |-> w]
        PROVE  kind.request = r /\ kind.wait \in BOOLEAN
    BY <2>3, Zenon
  <2> QED  BY <2>1, <2>2, <2>3
<1>2. op'[c] \in Operations /\ op'[c].stage = "joining"
  <2>1. op'[c] = [stage |-> "joining", request |-> kind.request, wait |-> kind.wait,
                  pid |-> 0, outcome |-> "none"]
    BY DEF Begin, OperationsTyped
  <2>2. 0 \in 0 .. MaxPid
    BY ConstantsAssumption
  <2> QED  BY <1>1, <2>1, <2>2 DEF Operations
<1>3. /\ op' \in [Clients -> Operations]
      /\ \A d \in Clients : d # c => op'[d] = op[d]
  BY <1>2 DEF Begin, OperationsTyped
<1>4. started' \in [Clients -> Nat]
  BY DEF Begin, OperationsTyped
<1> QED  BY <1>2, <1>3, <1>4 DEF OperationsTyped, PidGiven

\* An identifier is taken with the subscriber.
LEMMA JoinTyped ==
  ASSUME OperationsTyped, ChannelTyped, PidGiven, NEW c \in Clients, Join(c)
  PROVE  OperationsTyped' /\ ChannelTyped' /\ PidGiven'
<1>0. MaxPid \in Nat \ {0} /\ MaxSubscribers \in Nat
  BY ConstantsAssumption
<1>1. counter' \in 0 .. MaxPid
  BY <1>0 DEF Join, AssignPid, OperationsTyped
<1>2. PidOf(counter) \in 1 .. MaxPid
  BY <1>0 DEF PidOf, OperationsTyped
<1>3. /\ op'[c].stage = "sending" /\ op'[c].request = op[c].request
      /\ op'[c].request # "qos0" => op'[c].pid \in 1 .. MaxPid
      /\ op'[c] \in Operations
  <2>1. op[c] \in Operations
    BY DEF OperationsTyped
  <2>2. op'[c] = [op[c] EXCEPT !.stage = "sending",
                               !.pid = IF op[c].request = "qos0" THEN 0
                                       ELSE PidOf(counter)]
    BY DEF Join, OperationsTyped
  <2>3. 0 \in 0 .. MaxPid /\ PidOf(counter) \in 0 .. MaxPid
    BY <1>0, <1>2
  <2> QED  BY <1>2, <2>1, <2>2, <2>3 DEF Operations
<1>4. /\ op' \in [Clients -> Operations]
      /\ \A d \in Clients : d # c => op'[d] = op[d]
  BY <1>3 DEF Join, OperationsTyped
<1>5. OperationsTyped' /\ PidGiven'
  BY <1>1, <1>3, <1>4 DEF OperationsTyped, PidGiven, Join, Confirmed
<1>6. Cardinality(subscribers') <= MaxSubscribers
  <2>1. IsFiniteSet(subscribers)
    <3>1. IsFiniteSet(Clients)
      BY ConstantsAssumption, FS_AddElement DEF Clients
    <3> QED  BY <3>1, FS_Subset DEF ChannelTyped
  <2>2. /\ Cardinality(subscribers) \in Nat
        /\ Cardinality(subscribers \cup {c}) \in {Cardinality(subscribers),
                                                  Cardinality(subscribers) + 1}
    BY <2>1, FS_AddElement, FS_CardinalityType
  <2> QED  BY <1>0, <2>2 DEF Join, SlotFree
<1>7. ChannelTyped'
  BY <1>6 DEF Join, ChannelTyped
<1> QED  BY <1>5, <1>7

TypeInv == TypeOK /\ PidGiven

\* A step of an operation keeps the types.
LEMMA CallerSteps ==
  ASSUME TypeInv, NEW c \in Clients, Step(c) \/ Cancel(c)
  PROVE  TypeInv'
<1> USE DEF TypeInv
<1>0. OperationsTyped /\ ChannelTyped /\ NetworkTyped /\ PidGiven
  BY DEF TypeOK
<1>1. CASE \E outcome \in {"none", "Ok", "IOError", "TimedOut", "TooLarge",
                           "PacketError", "cancelled"} :
             Return(c, outcome) /\ UNCHANGED <<counter, started, network>>
  <2>1. NetworkTyped'
    BY <1>0, <1>1 DEF NetworkTyped, network
  <2>2. OperationsTyped' /\ PidGiven'
    BY <1>0, <1>1, ReturnTyped DEF Return
  <2>3. ChannelTyped'
    BY <1>0, <1>1, ReleaseTyped DEF Return
  <2> QED  BY <2>1, <2>2, <2>3 DEF TypeOK
<1>2. CASE Join(c)
  <2>1. NetworkTyped'
    BY <1>0, <1>2 DEF NetworkTyped, network, Join
  <2>2. OperationsTyped' /\ ChannelTyped' /\ PidGiven'
    BY <1>0, <1>2, JoinTyped
  <2> QED  BY <2>1, <2>2 DEF TypeOK
<1>3. CASE Send(c)
  <2>1. NetworkTyped'
    <3>1. Confirmed(op[c].request) => PacketOf(c).pid \in 1 .. MaxPid
      BY <1>0, <1>3 DEF Send, PacketOf, PidGiven
    <3>2. PacketOf(c).by \in Clients \X Nat /\ PacketOf(c).request = op[c].request
      BY <1>0 DEF PacketOf, OperationsTyped
    <3> QED  BY <1>0, <1>3, <3>1, <3>2 DEF NetworkTyped, Send
  <2>2. CASE op[c].wait
    <3>1. op' = [op EXCEPT ![c].stage = "waiting"] /\ UNCHANGED channel
      BY <1>3, <2>2 DEF Send
    <3>2. ChannelTyped'
      BY <1>0, <3>1 DEF channel, ChannelTyped
    <3>3. /\ op'[c] \in Operations /\ op'[c].request = op[c].request
          /\ op'[c].pid = op[c].pid /\ op[c].stage = "sending"
      BY <1>0, <1>3, <3>1 DEF OperationsTyped, Operations, Send
    <3>4. /\ op' \in [Clients -> Operations]
          /\ \A d \in Clients : d # c => op'[d] = op[d]
      BY <1>0, <3>1, <3>3 DEF OperationsTyped
    <3>5. OperationsTyped' /\ PidGiven'
      BY <1>0, <1>3, <3>3, <3>4 DEF OperationsTyped, PidGiven, Send
    <3> QED  BY <2>1, <3>2, <3>5 DEF TypeOK
  <2>3. CASE ~op[c].wait
    <3>1. Return(c, "Ok") /\ UNCHANGED <<counter, started>>
      BY <1>3, <2>3 DEF Send
    <3>2. OperationsTyped' /\ PidGiven'
      BY <1>0, <3>1, ReturnTyped DEF Return
    <3>3. ChannelTyped'
      BY <1>0, <3>1, ReleaseTyped DEF Return
    <3> QED  BY <2>1, <3>2, <3>3 DEF TypeOK
  <2> QED  BY <2>2, <2>3
<1>4. CASE ReadMessage(c) /\ ~Confirms(Head(unread[c]), op[c])
  <2>1. /\ unread' = [unread EXCEPT ![c] = Tail(@)] /\ unread[c] # << >>
        /\ UNCHANGED <<op, subscribers, lagged, counter, started, network>>
    BY <1>4 DEF ReadMessage
  <2>2. NetworkTyped' /\ OperationsTyped' /\ PidGiven'
    BY <1>0, <2>1 DEF NetworkTyped, network, OperationsTyped, PidGiven
  <2>3. /\ Tail(unread[c]) \in Seq(ControlMessages)
        /\ Len(Tail(unread[c])) <= QueueLength
    <3>1. unread[c] \in Seq(ControlMessages) /\ Len(unread[c]) <= QueueLength
      BY <1>0 DEF ChannelTyped
    <3>2. QueueLength \in Nat
      BY ConstantsAssumption
    <3> QED  BY <2>1, <3>1, <3>2, HeadTailProperties
  <2>4. /\ unread' \in [Clients -> Seq(ControlMessages)]
        /\ \A d \in Clients : Len(unread'[d]) <= QueueLength
    BY <1>0, <2>1, <2>3 DEF ChannelTyped
  <2>5. ChannelTyped'
    BY <1>0, <2>1, <2>4 DEF ChannelTyped
  <2> QED  BY <2>2, <2>5 DEF TypeOK
<1>5. CASE ReadMessage(c) /\ Confirms(Head(unread[c]), op[c])
  BY <1>1, <1>5 DEF ReadMessage
<1>6. CASE TopicTooLarge(c) \/ PacketTooLarge(c) \/ TimeOut(c) \/ Cancel(c)
  BY <1>1, <1>6 DEF TopicTooLarge, PacketTooLarge, TimeOut, Cancel
<1> QED  BY <1>2, <1>3, <1>4, <1>5, <1>6 DEF Step

\* recv_loop's own steps and those of the network.
LEMMA LoopSteps ==
  ASSUME TypeInv, Open \/ Connack \/ Resubscribe \/ Disconnect
  PROVE  TypeInv'
<1> USE DEF TypeInv
<1>0. /\ OperationsTyped /\ ChannelTyped /\ NetworkTyped /\ PidGiven
      /\ RecvLoop \in Clients /\ {Subscriptions, MaxConnections} \subseteq Nat
  BY ConstantsAssumption DEF TypeOK, Clients
<1>1. CASE Open \/ Connack
  <2>1. OperationsTyped' /\ ChannelTyped' /\ PidGiven'
    BY <1>0, <1>1 DEF Open, Connack, channel, OperationsTyped, ChannelTyped, PidGiven
  <2>2. NetworkTyped'
    BY <1>0, <1>1 DEF Open, Connack, NetworkTyped
  <2> QED  BY <2>1, <2>2 DEF TypeOK
<1>2. CASE Resubscribe
  <2>1. [request |-> "subscribe", wait |-> FALSE] \in AllKinds
    BY DEF AllKinds
  <2>2. OperationsTyped' /\ PidGiven'
    BY <1>0, <1>2, <2>1, BeginTyped DEF Resubscribe
  <2>3. ChannelTyped' /\ NetworkTyped'
    BY <1>0, <1>2 DEF Resubscribe, channel, ChannelTyped, NetworkTyped
  <2> QED  BY <2>2, <2>3 DEF TypeOK
<1>3. CASE Disconnect
  <2>1. Return(RecvLoop, "cancelled") /\ UNCHANGED <<counter, started>>
    BY <1>3 DEF Disconnect
  <2>2. OperationsTyped' /\ PidGiven'
    BY <1>0, <2>1, ReturnTyped DEF Return
  <2>3. ChannelTyped'
    BY <1>0, <2>1, ReleaseTyped DEF Return
  <2>4. NetworkTyped'
    BY <1>0, <1>3 DEF Disconnect, NetworkTyped
  <2> QED  BY <2>2, <2>3, <2>4 DEF TypeOK
<1> QED  BY <1>1, <1>2, <1>3

\* An acknowledgement that is read keeps the types.
LEMMA AnswerTyped ==
  ASSUME TypeInv, NEW p \in wire, NEW success \in BOOLEAN, Answer(p, success)
  PROVE  TypeInv'
<1> USE DEF TypeInv
<1>0. /\ OperationsTyped /\ ChannelTyped /\ NetworkTyped /\ PidGiven
      /\ RecvLoop \in Clients
  BY ConstantsAssumption DEF TypeOK, Clients
<1>1. p.pid \in 1 .. MaxPid
  BY <1>0 DEF NetworkTyped
<1>2. ChannelTyped'
  <2>1. [variant |-> Variant(p.request), pid |-> p.pid, success |-> success]
          \in ControlMessages
    BY <1>1 DEF ControlMessages, Variant
  <2> QED  BY <1>0, <2>1, PublishTyped DEF Answer
<1>3. NetworkTyped'
  BY <1>0 DEF NetworkTyped, Answer
<1>4. OperationsTyped' /\ PidGiven'
  <2>1. CASE p.request # "qos2"
    BY <1>0, <2>1 DEF Answer, OperationsTyped, PidGiven
  <2>2. CASE p.request = "qos2"
    <3>1. op' = [op EXCEPT ![RecvLoop] =
                   [stage |-> "sending", request |-> "pubrel", wait |-> FALSE,
                    pid |-> p.pid, outcome |-> "none"]]
      BY <2>2 DEF Answer
    <3>2. p.pid \in 0 .. MaxPid
      BY <1>1, ConstantsAssumption
    <3>3. op'[RecvLoop] \in Operations /\ op'[RecvLoop].request = "pubrel"
      BY <1>0, <3>1, <3>2 DEF OperationsTyped, Operations
    <3>4. /\ op' \in [Clients -> Operations]
          /\ \A d \in Clients : d # RecvLoop => op'[d] = op[d]
      BY <1>0, <3>1, <3>3 DEF OperationsTyped
    <3>5. UNCHANGED <<counter, started>> /\ ~Confirmed("pubrel")
      BY DEF Answer, Confirmed
    <3> QED  BY <1>0, <3>3, <3>4, <3>5 DEF OperationsTyped, PidGiven
  <2> QED  BY <2>1, <2>2
<1> QED  BY <1>2, <1>3, <1>4 DEF TypeOK

\* Every step keeps the types.
LEMMA TypeStep ==
  ASSUME TypeInv, [Next]_vars
  PROVE  TypeInv'
<1>1. CASE \E c \in Callers, kind \in Kinds : Start(c, kind)
  <2>1. PICK c \in Callers, kind \in Kinds : Start(c, kind)
    BY <1>1
  <2>2. c \in Clients /\ kind \in AllKinds
    BY ConstantsAssumption DEF Clients
  <2>3. OperationsTyped' /\ PidGiven'
    BY <2>1, <2>2, BeginTyped DEF Start, TypeInv, TypeOK
  <2>4. ChannelTyped' /\ NetworkTyped'
    BY <2>1 DEF Start, TypeInv, TypeOK, channel, network, ChannelTyped, NetworkTyped
  <2> QED  BY <2>3, <2>4 DEF TypeInv, TypeOK
<1>2. CASE UNCHANGED vars
  BY <1>2 DEF vars, channel, network, TypeInv, TypeOK, OperationsTyped, ChannelTyped,
              NetworkTyped, PidGiven
<1> QED  BY <1>1, <1>2, CallerSteps, LoopSteps, AnswerTyped DEF Next, Clients

\* The types are right at first.
LEMMA TypeInit == Init => TypeInv
<1> SUFFICES ASSUME Init PROVE TypeInv
  OBVIOUS
<1>0. /\ {MaxPid, MaxSubscribers, QueueLength, Subscriptions, MaxConnections}
           \subseteq Nat
      /\ Cardinality({}) = 0
  BY ConstantsAssumption, FS_EmptySet
<1>1. NotStarted \in Operations
  BY <1>0 DEF NotStarted, Operations
<1>2. OperationsTyped
  BY <1>0, <1>1 DEF Init, OperationsTyped
<1>3. ChannelTyped
  BY <1>0 DEF Init, ChannelTyped
<1>4. NetworkTyped /\ PidGiven
  BY <1>0 DEF Init, NetworkTyped, PidGiven, NotStarted
<1> QED  BY <1>2, <1>3, <1>4 DEF TypeInv, TypeOK

\* Identifiers stay in 1 .. 65535 however often the counter wraps, no more than
\* five clients listen to the control channel, and none of them is kept more
\* messages than the channel has room for.
THEOREM TypeCorrect == Spec => []TypeOK
<1>1. Init => TypeInv
  BY TypeInit
<1>2. TypeInv /\ [Next]_vars => TypeInv'
  BY TypeStep
<1> QED  BY <1>1, <1>2, PTL DEF Spec, TypeInv

(***************************************************************************)
(* An answer is not missed between the send and the wait.                  *)
(***************************************************************************)

Current(c) == <<c, started[c]>>

\* recv_loop takes part in the channel and never waits on it: it would wait for
\* a packet that only it can read.
NeverWaits == ~op[RecvLoop].wait /\ op[RecvLoop].stage # "waiting"

\* Requests and answers are those of operations that have been started.
Numbered ==
  /\ \A p \in wire : p.by[2] <= started[p.by[1]]
  /\ \A a \in answered : /\ a \in (Clients \X Nat) \X BOOLEAN
                         /\ a[1][2] <= started[a[1][1]]

\* A running operation has no outcome, and listens from before its push on.
Listens(c) ==
  /\ op[c].stage # "idle" => op[c].outcome = "none"
  /\ op[c].stage = "waiting" => op[c].wait
  /\ op[c].stage \in {"sending", "waiting"} => c \in subscribers

\* What is not sent has no answer.
Unsent(c) ==
  op[c].stage \in {"joining", "sending"}
    => /\ \A p \in wire : p.by # Current(c)
       /\ \A b \in BOOLEAN : <<Current(c), b>> \notin answered

\* The request on the wire is the one that is waited for.
OnTheWire(c) ==
  op[c].stage = "waiting"
    => \A p \in wire : p.by = Current(c)
                         => p.request = op[c].request /\ p.pid = op[c].pid

\* An answer that came is still there to be read.
AnswerKept(c) ==
  op[c].stage = "waiting" /\ c \notin lagged
    /\ (\E b \in BOOLEAN : <<Current(c), b>> \in answered)
    => \E i \in DOMAIN unread[c] : Confirms(unread[c][i], op[c])

Heard(c) == Listens(c) /\ Unsent(c) /\ OnTheWire(c) /\ AnswerKept(c)

HeardInv == TypeInv /\ NeverWaits /\ Numbered /\ \A c \in Callers : Heard(c)

\* The requests that take an identifier.
Identified(c) ==
  op[c].stage \in {"sending", "waiting"} /\ Confirmed(op[c].request)

\* A step that c has no part in.
Unaffected(c) ==
  /\ op'[c] = op[c] /\ started'[c] = started[c] /\ unread'[c] = unread[c]
  /\ c \in subscribers' <=> c \in subscribers
  /\ c \in lagged' <=> c \in lagged

\* A client returns: everything of the others stays.
LEMMA ReturnAlone ==
  ASSUME OperationsTyped, ChannelTyped, NEW d \in Clients, NEW outcome,
         Return(d, outcome)
  PROVE  /\ op'[d] = [op[d] EXCEPT !.stage = "idle", !.outcome = outcome]
         /\ unread'[d] = << >> /\ d \notin subscribers' /\ d \notin lagged'
         /\ \A c \in Clients \ {d} : started'[c] = started[c] => Unaffected(c)
BY DEF Return, Release, OperationsTyped, ChannelTyped, Unaffected

\* A step of one operation does not concern another, but for the channel.
LEMMA OthersStep ==
  ASSUME OperationsTyped, ChannelTyped, NEW d \in Clients, Step(d) \/ Cancel(d),
         NEW c \in Clients, c # d
  PROVE  Unaffected(c)
<1>1. CASE \E outcome : Return(d, outcome) /\ UNCHANGED started
  BY <1>1, ReturnAlone
<1>2. CASE Join(d)
  BY <1>2 DEF Join, OperationsTyped, ChannelTyped, Unaffected, network
<1>3. CASE Send(d)
  <2>1. CASE op[d].wait
    BY <1>3, <2>1 DEF Send, OperationsTyped, ChannelTyped, Unaffected, channel
  <2>2. CASE ~op[d].wait
    BY <1>1, <1>3, <2>2 DEF Send
  <2> QED  BY <2>1, <2>2
<1>4. CASE ReadMessage(d)
  <2>1. CASE Confirms(Head(unread[d]), op[d])
    BY <1>1, <1>4, <2>1 DEF ReadMessage
  <2>2. CASE ~Confirms(Head(unread[d]), op[d])
    BY <1>4, <2>2 DEF ReadMessage, OperationsTyped, ChannelTyped, Unaffected
  <2> QED  BY <2>1, <2>2
<1>5. CASE TopicTooLarge(d) \/ PacketTooLarge(d) \/ TimeOut(d) \/ Cancel(d)
  BY <1>1, <1>5 DEF TopicTooLarge, PacketTooLarge, TimeOut, Cancel
<1> QED  BY <1>2, <1>3, <1>4, <1>5 DEF Step

\* The receive loop and the network have no part in what callers wait for, but
\* for the answers.
LEMMA Elsewhere ==
  ASSUME OperationsTyped, ChannelTyped, NEW c \in Callers,
         \/ Open \/ Connack \/ Resubscribe \/ Disconnect
         \/ \E d \in Callers \ {c}, kind \in Kinds : Start(d, kind)
  PROVE  Unaffected(c)
<1>0. c \in Clients /\ RecvLoop \in Clients /\ c # RecvLoop
  BY ConstantsAssumption DEF Clients
<1>1. CASE Open \/ Connack
  BY <1>0, <1>1 DEF Open, Connack, channel, Unaffected
<1>2. CASE Resubscribe
  BY <1>0, <1>2 DEF Resubscribe, Begin, channel, Unaffected, OperationsTyped
<1>3. CASE Disconnect
  BY <1>0, <1>3, ReturnAlone DEF Disconnect
<1>4. CASE \E d \in Callers \ {c}, kind \in Kinds : Start(d, kind)
  BY <1>0, <1>4 DEF Start, Begin, channel, Unaffected, OperationsTyped, Clients
<1> QED  BY <1>1, <1>2, <1>3, <1>4

\* Where the requests on the wire come from, and when answers come.
LEMMA Traffic ==
  ASSUME [Next]_vars
  PROVE  /\ \A p \in wire' : \/ p \in wire
                             \/ \E d \in Clients : /\ Send(d) /\ Identified(d)
                                                   /\ p = PacketOf(d)
         /\ \/ answered' = answered
            \/ \E p \in wire, success \in BOOLEAN : Answer(p, success)
<1>1. CASE \E d \in Clients : Send(d)
  BY <1>1 DEF Send, Identified
<1>2. CASE \E c \in Callers, kind \in Kinds : Start(c, kind)
  BY <1>2 DEF Start, network
<1>3. CASE \E c \in Callers : Cancel(c)
  BY <1>3 DEF Cancel, network
<1>4. CASE \E c \in Clients : \/ Join(c) \/ TopicTooLarge(c) \/ PacketTooLarge(c)
                              \/ ReadMessage(c) \/ TimeOut(c)
  BY <1>4 DEF Join, TopicTooLarge, PacketTooLarge, ReadMessage, TimeOut, network
<1>5. CASE \E p \in wire, success \in BOOLEAN : Answer(p, success)
  BY <1>5 DEF Answer
<1>6. CASE Open \/ Connack \/ Resubscribe \/ Disconnect
  BY <1>6 DEF Open, Connack, Resubscribe, Disconnect
<1>7. CASE UNCHANGED vars
  BY <1>7 DEF vars, network
<1> QED  BY <1>1, <1>2, <1>3, <1>4, <1>5, <1>6, <1>7 DEF Next, Step

\* Operations are counted when they begin, and only then.
LEMMA Counted ==
  ASSUME OperationsTyped, [Next]_vars
  PROVE  \A d \in Clients : started'[d] \in {started[d], started[d] + 1}
<1>1. ASSUME NEW c \in Clients, NEW kind, Begin(c, kind)
      PROVE  \A d \in Clients : started'[d] \in {started[d], started[d] + 1}
  BY <1>1 DEF Begin, OperationsTyped
<1>2. CASE \E c \in Callers, kind \in Kinds : Start(c, kind)
  BY <1>1, <1>2 DEF Start, Clients
<1>3. CASE Resubscribe
  BY <1>1, <1>3 DEF Resubscribe, Clients
<1>4. CASE UNCHANGED started
  BY <1>4
<1> QED  BY <1>2, <1>3, <1>4 DEF Next, Step, Cancel, Join, TopicTooLarge, PacketTooLarge,
            Send, ReadMessage, TimeOut, Answer, Open, Connack, Disconnect, vars

\* No packet is of an operation that is still to come.
LEMMA NumberedStep ==
  ASSUME TypeInv, Numbered, [Next]_vars
  PROVE  Numbered'
<1>0. OperationsTyped /\ NetworkTyped /\ \A d \in Clients : started[d] \in Nat
  BY DEF TypeInv, TypeOK, OperationsTyped
<1>1. \A d \in Clients : started'[d] \in Nat /\ started[d] <= started'[d]
  BY <1>0, Counted
<1>2. ASSUME NEW p \in wire'
      PROVE  p.by[2] <= started'[p.by[1]]
  <2>1. CASE p \in wire
    <3>1. p.by[2] <= started[p.by[1]] /\ p.by[1] \in Clients /\ p.by[2] \in Nat
      BY <1>0, <2>1 DEF Numbered, NetworkTyped
    <3> QED  BY <1>0, <1>1, <3>1
  <2>2. CASE \E d \in Clients : p = PacketOf(d)
    <3>1. PICK d \in Clients : p = PacketOf(d)
      BY <2>2
    <3>2. p.by[1] = d /\ p.by[2] = started[d]
      BY <3>1 DEF PacketOf
    <3> QED  BY <1>0, <1>1, <3>2
  <2> QED  BY <2>1, <2>2, Traffic
<1>3. ASSUME NEW a \in answered'
      PROVE  /\ a \in (Clients \X Nat) \X BOOLEAN
             /\ a[1][2] <= started'[a[1][1]]
  <2>1. CASE a \in answered
    <3>1. /\ a[1][2] <= started[a[1][1]] /\ a[1][1] \in Clients /\ a[1][2] \in Nat
          /\ a \in (Clients \X Nat) \X BOOLEAN
      BY <2>1 DEF Numbered
    <3> QED  BY <1>0, <1>1, <3>1
  <2>2. CASE \E p \in wire, success \in BOOLEAN : a = <<p.by, success>>
    <3>1. PICK p \in wire, success \in BOOLEAN : a = <<p.by, success>>
      BY <2>2
    <3>2. p.by \in Clients \X Nat /\ p.by[2] <= started[p.by[1]]
      BY <1>0, <3>1 DEF Numbered, NetworkTyped
    <3>3. a \in (Clients \X Nat) \X BOOLEAN /\ a[1] = p.by
      BY <3>1, <3>2
    <3> QED  BY <1>0, <1>1, <3>2, <3>3
  <2> QED  BY <2>1, <2>2, Traffic DEF Answer
<1> QED  BY <1>2, <1>3 DEF Numbered

\* The receive loop never waits for an acknowledgement.
LEMMA NeverWaitsStep ==
  ASSUME TypeInv, NeverWaits, [Next]_vars
  PROVE  NeverWaits'
<1>0. OperationsTyped /\ ChannelTyped /\ RecvLoop \in Clients /\ RecvLoop \notin Callers
  BY ConstantsAssumption DEF TypeInv, TypeOK, Clients
<1>1. CASE op'[RecvLoop] = op[RecvLoop]
  BY <1>1 DEF NeverWaits
<1>2. CASE \E outcome : Return(RecvLoop, outcome)
  <2>1. PICK outcome : Return(RecvLoop, outcome)
    BY <1>2
  <2>2. /\ op'[RecvLoop] = [op[RecvLoop] EXCEPT !.stage = "idle", !.outcome = outcome]
        /\ op[RecvLoop] \in Operations
    BY <1>0, <2>1, ReturnAlone DEF OperationsTyped
  <2> QED  BY <2>2 DEF NeverWaits, Operations
<1>3. CASE Resubscribe
  BY <1>0, <1>3 DEF Resubscribe, Begin, NeverWaits, OperationsTyped
<1>4. CASE \E p \in wire, success \in BOOLEAN : Answer(p, success)
  BY <1>0, <1>1, <1>4 DEF Answer, NeverWaits, OperationsTyped
<1>5. CASE Join(RecvLoop)
  BY <1>0, <1>5 DEF Join, NeverWaits, OperationsTyped, Operations
<1>6. CASE Send(RecvLoop)
  BY <1>2, <1>6 DEF Send, NeverWaits
<1>7. CASE TopicTooLarge(RecvLoop) \/ PacketTooLarge(RecvLoop) \/ Disconnect
  BY <1>2, <1>7 DEF TopicTooLarge, PacketTooLarge, Disconnect
<1>8. CASE ReadMessage(RecvLoop) \/ TimeOut(RecvLoop)
  BY <1>8 DEF ReadMessage, TimeOut, NeverWaits
<1>9. CASE \E d \in Callers : Step(d) \/ Cancel(d)
  BY <1>0, <1>1, <1>9, OthersStep DEF Clients, Unaffected
<1>10. CASE \E d \in Callers, kind \in Kinds : Start(d, kind)
  BY <1>0, <1>1, <1>10 DEF Start, Begin, OperationsTyped
<1>11. CASE Open \/ Connack \/ UNCHANGED vars
  BY <1>1, <1>11 DEF Open, Connack, vars
<1> QED  BY <1>3, <1>4, <1>5, <1>6, <1>7, <1>8, <1>9, <1>10, <1>11
            DEF Next, Step, Clients

\* What does not concern an operation leaves it with what it heard.
LEMMA Unconcerned ==
  ASSUME NEW c \in Callers, Heard(c), Unaffected(c), answered' = answered,
         \A p \in wire' : p \in wire \/ \E d \in Clients \ {c} : p = PacketOf(d)
  PROVE  Heard(c)'
<1>1. Current(c)' = Current(c)
  BY DEF Current, Unaffected
<1>2. \A p \in wire' : p.by = Current(c) => p \in wire
  BY DEF PacketOf, Current
<1>3. Listens(c)'
  BY DEF Heard, Listens, Unaffected
<1>4. Unsent(c)'
  BY <1>1, <1>2 DEF Heard, Unsent, Unaffected
<1>5. OnTheWire(c)'
  BY <1>1, <1>2 DEF Heard, OnTheWire, Unaffected
<1>6. AnswerKept(c)'
  <2>1. \A message : Confirms(message, op[c])' <=> Confirms(message, op[c])
    BY DEF Unaffected, Confirms, Variant
  <2> QED  BY <1>1, <2>1 DEF Heard, AnswerKept, Unaffected, Confirms, Variant
<1> QED  BY <1>3, <1>4, <1>5, <1>6 DEF Heard

\* An operation that has returned is done with.
LEMMA Returned ==
  ASSUME OperationsTyped, ChannelTyped, NEW c \in Callers, NEW outcome,
         Return(c, outcome)
  PROVE  Heard(c)'
<1>1. /\ op'[c] = [op[c] EXCEPT !.stage = "idle", !.outcome = outcome]
      /\ op[c] \in Operations
  BY ReturnAlone DEF OperationsTyped, Clients
<1>2. op'[c].stage = "idle"
  BY <1>1 DEF Operations
<1> QED  BY <1>2 DEF Heard, Listens, Unsent, OnTheWire, AnswerKept

\* An operation that starts has nothing to hear yet.
LEMMA StartHeard ==
  ASSUME TypeInv, Numbered, NEW c \in Callers, NEW kind, Start(c, kind)
  PROVE  Heard(c)'
<1>0. OperationsTyped /\ NetworkTyped /\ c \in Clients /\ started[c] \in Nat
  BY DEF TypeInv, TypeOK, OperationsTyped, Clients
<1>1. op'[c].stage = "joining" /\ op'[c].outcome = "none" /\ started'[c] = started[c] + 1
  BY <1>0 DEF Start, Begin, OperationsTyped
<1>2. UNCHANGED <<wire, answered>> /\ Current(c)' = <<c, started[c] + 1>>
  BY <1>1 DEF Start, network, Current
<1>3. \A p \in wire : p.by # <<c, started[c] + 1>>
  <2>1. \A p \in wire : p.by \in Clients \X Nat /\ p.by[2] <= started[p.by[1]]
    BY <1>0 DEF Numbered, NetworkTyped
  <2> QED  BY <1>0, <2>1
<1>4. \A b \in BOOLEAN : <<<<c, started[c] + 1>>, b>> \notin answered
  <2> SUFFICES ASSUME NEW b \in BOOLEAN, <<<<c, started[c] + 1>>, b>> \in answered
               PROVE  FALSE
    OBVIOUS
  <2>1. started[c] + 1 <= started[c]
    BY DEF Numbered
  <2> QED  BY <1>0, <2>1
<1> QED  BY <1>1, <1>2, <1>3, <1>4 DEF Heard, Listens, Unsent, OnTheWire, AnswerKept

\* The steps of an operation keep what it heard.
LEMMA OwnStep ==
  ASSUME TypeInv, NEW c \in Callers, Heard(c), Step(c) \/ Cancel(c)
  PROVE  Heard(c)'
<1>0. OperationsTyped /\ ChannelTyped /\ c \in Clients
  BY DEF TypeInv, TypeOK, Clients
<1>1. CASE \E outcome : Return(c, outcome)
  BY <1>0, <1>1, Returned
<1>2. CASE Join(c)
  <2>1. /\ op'[c].stage = "sending" /\ op'[c].outcome = op[c].outcome
        /\ op[c].stage = "joining" /\ UNCHANGED <<started, wire, answered>>
        /\ c \in subscribers'
    BY <1>0, <1>2 DEF Join, OperationsTyped, Operations, network
  <2>2. Current(c)' = Current(c)
    BY <2>1 DEF Current
  <2> QED  BY <2>1, <2>2 DEF Heard, Listens, Unsent, OnTheWire, AnswerKept
<1>3. CASE Send(c)
  <2>1. CASE ~op[c].wait
    BY <1>1, <1>3, <2>1 DEF Send
  <2>2. CASE op[c].wait
    <3>1. /\ op[c].stage = "sending" /\ UNCHANGED <<started, answered, channel>>
          /\ op'[c] = [op[c] EXCEPT !.stage = "waiting"] /\ op[c] \in Operations
          /\ wire' \in {wire, wire \cup {PacketOf(c)}}
      BY <1>0, <1>3, <2>2 DEF Send, OperationsTyped
    <3>2. /\ op'[c].stage = "waiting" /\ op'[c].wait /\ op'[c].outcome = op[c].outcome
          /\ op'[c].request = op[c].request /\ op'[c].pid = op[c].pid
      BY <2>2, <3>1 DEF Operations
    <3>3. Current(c)' = Current(c)
      BY <3>1 DEF Current
    <3>4. OnTheWire(c)'
      BY <3>1, <3>2, <3>3 DEF OnTheWire, Heard, Unsent, PacketOf
    <3>5. AnswerKept(c)' /\ Unsent(c)'
      BY <3>1, <3>2, <3>3 DEF AnswerKept, Heard, Unsent
    <3>6. Listens(c)'
      BY <3>1, <3>2 DEF Listens, Heard, channel
    <3> QED  BY <3>4, <3>5, <3>6 DEF Heard
  <2> QED  BY <2>1, <2>2
<1>4. CASE ReadMessage(c)
  <2>1. CASE Confirms(Head(unread[c]), op[c])
    BY <1>1, <1>4, <2>1 DEF ReadMessage
  <2>2. CASE ~Confirms(Head(unread[c]), op[c])
    <3>1. /\ unread'[c] = Tail(unread[c]) /\ unread[c] # << >>
          /\ unread[c] \in Seq(ControlMessages)
          /\ UNCHANGED <<op, subscribers, lagged, started, wire, answered>>
      BY <1>0, <1>4, <2>2 DEF ReadMessage, ChannelTyped, network
    <3>2. Current(c)' = Current(c)
      BY <3>1 DEF Current
    <3>3. ASSUME NEW i \in DOMAIN unread[c], Confirms(unread[c][i], op[c])
          PROVE  \E k \in DOMAIN unread'[c] : Confirms(unread'[c][k], op'[c])
      <4>1. unread[c][1] = Head(unread[c]) /\ i \in 1 .. Len(unread[c]) /\ i # 1
        BY <2>2, <3>1, <3>3
      <4>2. /\ i - 1 \in DOMAIN unread'[c]
            /\ unread'[c][i - 1] = unread[c][i]
        BY <3>1, <4>1, HeadTailProperties
      <4> QED  BY <3>1, <3>3, <4>2
    <3>4. AnswerKept(c)'
      BY <3>1, <3>2, <3>3 DEF Heard, AnswerKept, Confirms, Variant
    <3>5. Listens(c)' /\ Unsent(c)' /\ OnTheWire(c)'
      BY <3>1, <3>2 DEF Heard, Listens, Unsent, OnTheWire
    <3> QED  BY <3>4, <3>5 DEF Heard
  <2> QED  BY <2>1, <2>2
<1>5. CASE TopicTooLarge(c) \/ PacketTooLarge(c) \/ TimeOut(c) \/ Cancel(c)
  BY <1>1, <1>5 DEF TopicTooLarge, PacketTooLarge, TimeOut, Cancel
<1> QED  BY <1>2, <1>3, <1>4, <1>5 DEF Step

\* An answer reaches every caller that is waiting and does not lag.
LEMMA AnswerHeard ==
  ASSUME HeardInv, NEW c \in Callers,
         NEW p \in wire, NEW success \in BOOLEAN, Answer(p, success)
  PROVE  Heard(c)'
<1> DEFINE message == [variant |-> Variant(p.request), pid |-> p.pid,
                       success |-> success]
<1>0. /\ OperationsTyped /\ ChannelTyped /\ c \in Clients /\ c # RecvLoop
      /\ Heard(c) /\ QueueLength \in Nat
  BY ConstantsAssumption DEF HeardInv, TypeInv, TypeOK, Clients
<1>1. /\ op'[c] = op[c] /\ UNCHANGED <<started, subscribers>>
      /\ wire' = wire \ {p} /\ answered' = answered \cup {<<p.by, success>>}
      /\ PublishImmediate(message)
  BY <1>0 DEF Answer, OperationsTyped, PublishImmediate
<1>2. Current(c)' = Current(c)
  BY <1>1 DEF Current
<1>3. Listens(c)' /\ OnTheWire(c)'
  BY <1>0, <1>1, <1>2 DEF Heard, Listens, OnTheWire
<1>4. Unsent(c)'
  <2> SUFFICES ASSUME op[c].stage \in {"joining", "sending"}
               PROVE  /\ \A q \in wire : q.by # Current(c)
                      /\ \A b \in BOOLEAN : <<Current(c), b>> \notin answered'
    BY <1>1, <1>2 DEF Unsent
  <2>1. /\ \A q \in wire : q.by # Current(c)
        /\ \A b \in BOOLEAN : <<Current(c), b>> \notin answered
    BY <1>0 DEF Heard, Unsent
  <2> QED  BY <1>1, <2>1
<1>5. AnswerKept(c)'
  <2> SUFFICES ASSUME op[c].stage = "waiting", c \notin lagged',
                      NEW b \in BOOLEAN, <<Current(c), b>> \in answered'
               PROVE  \E i \in DOMAIN unread'[c] : Confirms(unread'[c][i], op[c])
    BY <1>1, <1>2 DEF AnswerKept, Confirms, Variant
  <2>1. c \in subscribers /\ c \notin lagged /\ Len(unread[c]) # QueueLength
    BY <1>0, <1>1 DEF Heard, Listens, PublishImmediate
  <2>2. /\ unread[c] \in Seq(ControlMessages) /\ Len(unread[c]) < QueueLength
        /\ Len(unread[c]) \in Nat
    BY <1>0, <2>1 DEF ChannelTyped
  <2>3. unread'[c] = Append(unread[c], message)
    <3>1. unread'[c] = Newest(Append(unread[c], message))
      BY <1>0, <1>1, <2>1 DEF PublishImmediate, ChannelTyped
    <3>2. Len(Append(unread[c], message)) = Len(unread[c]) + 1
      BY <2>2, AppendProperties
    <3> QED  BY <1>0, <2>2, <3>1, <3>2 DEF Newest
  <2>4. /\ DOMAIN unread'[c] = 1 .. Len(unread[c]) + 1
        /\ DOMAIN unread[c] = 1 .. Len(unread[c])
        /\ \A i \in 1 .. Len(unread[c]) : unread'[c][i] = unread[c][i]
        /\ unread'[c][Len(unread[c]) + 1] = message
    BY <2>2, <2>3, AppendProperties
  <2>5. CASE <<Current(c), b>> \in answered
    <3>1. PICK i \in DOMAIN unread[c] : Confirms(unread[c][i], op[c])
      BY <1>0, <2>1, <2>5 DEF Heard, AnswerKept
    <3> QED  BY <2>2, <2>4, <3>1
  <2>6. CASE <<Current(c), b>> = <<p.by, success>>
    <3>1. p.request = op[c].request /\ p.pid = op[c].pid
      BY <1>0, <2>6 DEF Heard, OnTheWire
    <3>2. Confirms(message, op[c])
      BY <3>1 DEF Confirms
    <3> QED  BY <2>2, <2>4, <3>2
  <2> QED  BY <1>1, <2>5, <2>6
<1> QED  BY <1>3, <1>4, <1>5 DEF Heard

\* Every step keeps what every operation heard.
LEMMA HeardStep ==
  ASSUME HeardInv, [Next]_vars
  PROVE  HeardInv'
<1>0. /\ TypeInv /\ NeverWaits /\ Numbered /\ OperationsTyped /\ ChannelTyped
      /\ \A d \in Callers : d \in Clients /\ d # RecvLoop
  BY ConstantsAssumption DEF HeardInv, TypeInv, TypeOK, Clients
<1>1. ASSUME NEW c \in Callers
      PROVE  Heard(c)'
  <2>0. Heard(c)
    BY DEF HeardInv
  <2>1. CASE Step(c) \/ Cancel(c)
    BY <1>0, <2>0, <2>1, OwnStep
  <2>2. CASE \E kind \in Kinds : Start(c, kind)
    BY <1>0, <2>2, StartHeard
  <2>3. CASE \E p \in wire, success \in BOOLEAN : Answer(p, success)
    BY <2>3, AnswerHeard
  <2>4. ASSUME Unaffected(c), answered' = answered, ~Send(c)
        PROVE  Heard(c)'
    BY <2>0, <2>4, Traffic, Unconcerned
  <2>5. CASE UNCHANGED vars
    BY <2>0, <2>5 DEF vars, channel, network, Heard, Listens, Unsent, OnTheWire,
                      AnswerKept, Current, Confirms, Variant
  <2>6. CASE /\ ~(Step(c) \/ Cancel(c)) /\ ~(\E kind \in Kinds : Start(c, kind))
             /\ ~(\E p \in wire, success \in BOOLEAN : Answer(p, success))
             /\ Next
    <3>1. answered' = answered /\ ~Send(c)
      BY <2>6, Traffic DEF Step
    <3>2. Unaffected(c)
      <4>1. CASE \E d \in Clients \ {c} : Step(d) \/ Cancel(d)
        BY <1>0, <4>1, OthersStep
      <4>2. CASE \/ Open \/ Connack \/ Resubscribe \/ Disconnect
                 \/ \E d \in Callers \ {c}, kind \in Kinds : Start(d, kind)
        BY <1>0, <4>2, Elsewhere
      <4> QED  BY <1>0, <2>6, <4>1, <4>2 DEF Next
    <3> QED  BY <2>4, <3>1, <3>2
  <2> QED  BY <2>1, <2>2, <2>3, <2>5, <2>6
<1>2. TypeInv' /\ NeverWaits' /\ Numbered'
  BY <1>0, TypeStep, NeverWaitsStep, NumberedStep
<1> QED  BY <1>1, <1>2 DEF HeardInv

\* There is nothing to hear at first.
LEMMA HeardInit == Init => HeardInv
BY TypeInit, ConstantsAssumption DEF Init, HeardInv, NeverWaits, Numbered, Heard, Listens,
   Unsent, OnTheWire, AnswerKept, NotStarted, Clients

\* An operation that times out was not answered, in whatever order callers, timers,
\* acknowledgements and connections come, unless the channel dropped a message
\* that it had not read.
THEOREM TimedOutRight == Spec => TimedOutMeansUnanswered
<1> DEFINE
      Unanswered(c) ==
        op[c].stage = "waiting" /\ op'[c].outcome = "TimedOut"
          => c \in lagged \/ \A b \in BOOLEAN : <<<<c, started[c]>>, b>> \notin answered
<1>1. ASSUME HeardInv, [Next]_vars, NEW c \in Clients
      PROVE  Unanswered(c)
  <2> SUFFICES ASSUME op[c].stage = "waiting", op'[c].outcome = "TimedOut",
                      c \notin lagged, NEW b \in BOOLEAN,
                      <<<<c, started[c]>>, b>> \in answered
               PROVE  FALSE
    BY Zenon
  <2>1. c \in Callers /\ Heard(c) /\ op[c].outcome # "TimedOut"
    BY <1>1 DEF HeardInv, NeverWaits, Clients, Heard, Listens
  <2>2. unread[c] # << >>
    <3>1. PICK i \in DOMAIN unread[c] : Confirms(unread[c][i], op[c])
      BY <2>1 DEF Heard, AnswerKept, Current
    <3> QED  BY <3>1
  <2>3. /\ OperationsTyped /\ ChannelTyped /\ op[c] \in Operations /\ c # RecvLoop
        /\ c \in Clients
    BY <1>1, <2>1, ConstantsAssumption DEF HeardInv, TypeInv, TypeOK, OperationsTyped
  <2>4. ASSUME NEW outcome, Return(c, outcome)
        PROVE  outcome = "TimedOut"
    <3>1. op'[c] = [op[c] EXCEPT !.stage = "idle", !.outcome = outcome]
      BY <2>3, <2>4, ReturnAlone
    <3> QED  BY <2>3, <3>1 DEF Operations
  <2>5. op'[c] # op[c]
    BY <2>1
  <2>6. ~(Step(c) \/ Cancel(c))
    <3>1. ~TimeOut(c)
      BY <2>2 DEF TimeOut
    <3>2. ~ReadMessage(c)
      BY <2>4, <2>5 DEF ReadMessage
    <3>3. ~Cancel(c)
      BY <2>4 DEF Cancel
    <3>4. ~(Join(c) \/ TopicTooLarge(c) \/ PacketTooLarge(c) \/ Send(c))
      BY DEF Join, TopicTooLarge, PacketTooLarge, Send
    <3> QED  BY <3>1, <3>2, <3>3, <3>4 DEF Step
  <2>7. ~(\E d \in Clients \ {c} : Step(d) \/ Cancel(d))
    BY <2>3, <2>5, OthersStep DEF Unaffected
  <2>8. ~(\/ Open \/ Connack \/ Resubscribe \/ Disconnect
          \/ \E d \in Callers \ {c}, kind \in Kinds : Start(d, kind))
    BY <2>1, <2>3, <2>5, Elsewhere DEF Unaffected
  <2>9. ~(\E kind \in Kinds : Start(c, kind))
    BY DEF Start, Begin
  <2>10. ~(\E p \in wire, success \in BOOLEAN : Answer(p, success))
    BY <2>3, <2>5 DEF Answer, OperationsTyped
  <2>11. op' # op
    BY <2>5
  <2> QED  BY <1>1, <2>6, <2>7, <2>8, <2>9, <2>10, <2>11 DEF Next, vars, Clients
<1>2. HeardInv /\ [Next]_vars => HeardInv'
  BY HeardStep
<1>3. HeardInv /\ [Next]_vars => \A c \in Clients : Unanswered(c)
  BY <1>1
<1> QED  BY <1>2, <1>3, HeardInit, PTL DEF Spec, TimedOutMeansUnanswered

(***************************************************************************)
(* Ok means confirmed, for as long as identifiers are not reused too early.*)
(***************************************************************************)

\* No operation under way has the identifier, and no request on the wire.
PidFree(pid) ==
  /\ \A p \in wire : p.pid # pid
  /\ \A d \in Clients : Identified(d) => op[d].pid # pid

\* The identifier that an operation takes is free.
TakesFreePid ==
  \A c \in Clients : Join(c) /\ op[c].request # "qos0" => PidFree(PidOf(counter))

\* Two operations under way have two identifiers.
Distinct ==
  \A c, d \in Clients :
    Identified(c) /\ Identified(d) /\ op[c].pid = op[d].pid => c = d

\* What is on the wire with the identifier of an operation is its request.
OwnRequest(c) ==
  Identified(c) => \A p \in wire : p.pid = op[c].pid => p.by = Current(c)

\* Whoever is not a subscriber has nothing to read.
Unsubscribed(c) ==
  /\ op[c].stage \in {"idle", "joining"} => c \notin subscribers
  /\ c \notin subscribers => unread[c] = << >>

\* Only what is confirmed is waited for.
Waits(c) == op[c].wait => Confirmed(op[c].request)

\* A message that will end the operation with Ok is the broker's answer to it.
TrueAnswer(c) ==
  Identified(c)
    => \A i \in DOMAIN unread[c] :
         Confirms(unread[c][i], op[c]) /\ unread[c][i].success
           => <<Current(c), TRUE>> \in answered

ConfirmedOk(c) ==
  op[c].stage = "idle" /\ op[c].wait /\ op[c].outcome = "Ok"
    => <<Current(c), TRUE>> \in answered

Truthful(c) == Unsubscribed(c) /\ Waits(c) /\ TrueAnswer(c) /\ ConfirmedOk(c)

TrueInv ==
  HeardInv /\ Distinct /\ \A c \in Callers : OwnRequest(c) /\ Truthful(c)

\* Identifiers up to the counter's have been given, and no others.
Given ==
  /\ \A p \in wire : p.pid <= counter
  /\ \A c \in Clients : Identified(c) => op[c].pid <= counter

\* An identifier comes from the counter and stays with its operation.
LEMMA Identity ==
  ASSUME TypeInv, [Next]_vars, NEW c \in Clients, Identified(c)'
  PROVE  /\ started'[c] = started[c]
         /\ \/ Identified(c) /\ op'[c].pid = op[c].pid
            \/ /\ Join(c) /\ op[c].request # "qos0"
               /\ op'[c].pid = PidOf(counter)
<1>0. /\ OperationsTyped /\ ChannelTyped /\ op[c] \in Operations
      /\ RecvLoop \in Clients /\ RecvLoop \notin Callers
  BY ConstantsAssumption DEF TypeInv, TypeOK, OperationsTyped, Clients
<1>1. CASE op'[c] = op[c] /\ started'[c] = started[c]
  BY <1>1 DEF Identified
<1>2. ~(\E outcome : Return(c, outcome))
  <2> SUFFICES ASSUME NEW outcome, Return(c, outcome) PROVE FALSE
    OBVIOUS
  <2>1. op'[c] = [op[c] EXCEPT !.stage = "idle", !.outcome = outcome]
    BY <1>0, ReturnAlone
  <2> QED  BY <1>0, <2>1 DEF Operations, Identified
<1>3. CASE Join(c)
  <2>1. /\ op'[c] = [op[c] EXCEPT !.stage = "sending",
                               !.pid = IF op[c].request = "qos0" THEN 0
                                       ELSE PidOf(counter)]
        /\ UNCHANGED started
    BY <1>0, <1>3 DEF Join, OperationsTyped
  <2>2. /\ op'[c].request = op[c].request
        /\ op'[c].pid = IF op[c].request = "qos0" THEN 0 ELSE PidOf(counter)
    BY <1>0, <2>1 DEF Operations
  <2>3. op[c].request # "qos0"
    BY <2>2 DEF Identified, Confirmed
  <2> QED  BY <1>3, <2>1, <2>2, <2>3
<1>4. CASE Send(c)
  <2>1. /\ op[c].stage = "sending" /\ UNCHANGED started
        /\ op'[c] = [op[c] EXCEPT !.stage = "waiting"]
    BY <1>0, <1>2, <1>4 DEF Send, OperationsTyped
  <2>2. op'[c].request = op[c].request /\ op'[c].pid = op[c].pid
    BY <1>0, <2>1 DEF Operations
  <2> QED  BY <2>1, <2>2 DEF Identified
<1>5. CASE \/ TopicTooLarge(c) \/ PacketTooLarge(c) \/ ReadMessage(c) \/ TimeOut(c)
           \/ Cancel(c)
  <2>1. ReadMessage(c) /\ UNCHANGED <<op, started>>
    BY <1>2, <1>5 DEF TopicTooLarge, PacketTooLarge, TimeOut, Cancel, ReadMessage
  <2> QED  BY <1>1, <2>1
<1>6. CASE \E d \in Clients \ {c} : Step(d) \/ Cancel(d)
  BY <1>0, <1>1, <1>6, OthersStep DEF Unaffected
<1>7. ASSUME NEW d \in Clients, NEW kind, Begin(d, kind)
      PROVE  op'[c] = op[c] /\ started'[c] = started[c]
  <2>1. d # c
    <3> SUFFICES ASSUME d = c PROVE FALSE
      OBVIOUS
    <3>1. op'[c].stage = "joining"
      BY <1>0, <1>7 DEF Begin, OperationsTyped
    <3> QED  BY <3>1 DEF Identified
  <2> QED  BY <1>0, <1>7, <2>1 DEF Begin, OperationsTyped
<1>8. CASE Resubscribe \/ \E d \in Callers, kind \in Kinds : Start(d, kind)
  BY <1>0, <1>1, <1>7, <1>8 DEF Resubscribe, Start, Clients
<1>9. CASE \E p \in wire, success \in BOOLEAN : Answer(p, success)
  <2>1. UNCHANGED started /\ (op'[c] = op[c] \/ op'[c].request = "pubrel")
    BY <1>0, <1>9 DEF Answer, OperationsTyped
  <2> QED  BY <1>1, <2>1 DEF Identified, Confirmed
<1>10. CASE Disconnect
  BY <1>0, <1>1, <1>2, <1>10, ReturnAlone DEF Disconnect, Unaffected
<1>11. CASE Open \/ Connack \/ UNCHANGED vars
  BY <1>1, <1>11 DEF Open, Connack, vars
<1> QED  BY <1>3, <1>4, <1>5, <1>6, <1>8, <1>9, <1>10, <1>11 DEF Next, Step, Clients

\* Only one client takes an identifier at a time.
LEMMA JoinsAlone ==
  ASSUME TypeInv, NEW d \in Clients, NEW c \in Clients, c # d, Join(d) \/ Send(d)
  PROVE  ~Join(c) /\ op'[c] = op[c]
<1>1. op'[c] = op[c]
  BY OthersStep DEF Step, Unaffected, TypeInv, TypeOK
<1>2. Join(c) => op'[c].stage = "sending" /\ op[c].stage = "joining"
  BY DEF Join, TypeInv, TypeOK, OperationsTyped, Operations
<1> QED  BY <1>1, <1>2

\* Identifiers stay distinct if only free ones are taken.
LEMMA DistinctStep ==
  ASSUME TypeInv, Distinct, [Next]_vars, TakesFreePid
  PROVE  Distinct'
<1> SUFFICES ASSUME NEW c \in Clients, NEW d \in Clients,
                    Identified(c)', Identified(d)', op'[c].pid = op'[d].pid,
                    c # d
             PROVE  FALSE
  BY DEF Distinct
<1>1. ASSUME NEW a \in Clients, NEW b \in Clients, a # b, Join(a),
             op[a].request # "qos0", op'[a].pid = PidOf(counter), Identified(b)'
      PROVE  op'[b].pid # op'[a].pid
  <2>1. op'[b] = op[b] /\ Identified(b)
    BY <1>1, JoinsAlone DEF Identified
  <2> QED  BY <1>1, <2>1 DEF TakesFreePid, PidFree
<1>2. /\ Identified(c) /\ op'[c].pid = op[c].pid
      /\ Identified(d) /\ op'[d].pid = op[d].pid
  BY <1>1, Identity
<1> QED  BY <1>2 DEF Distinct

\* The packets with an operation's identifier stay its own.
LEMMA OwnRequestStep ==
  ASSUME TypeInv, Distinct, [Next]_vars, TakesFreePid, NEW c \in Clients, OwnRequest(c)
  PROVE  OwnRequest(c)'
<1> SUFFICES ASSUME Identified(c)', NEW p \in wire', p.pid = op'[c].pid
             PROVE  p.by = Current(c)'
  BY DEF OwnRequest
<1>1. Current(c)' = Current(c)
  BY Identity DEF Current
<1>2. CASE p \in wire
  <2>1. CASE Identified(c) /\ op'[c].pid = op[c].pid
    BY <1>1, <1>2, <2>1 DEF OwnRequest
  <2>2. CASE Join(c) /\ op[c].request # "qos0" /\ op'[c].pid = PidOf(counter)
    BY <1>2, <2>2 DEF TakesFreePid, PidFree
  <2> QED  BY <2>1, <2>2, Identity
<1>3. CASE \E d \in Clients : Send(d) /\ Identified(d) /\ p = PacketOf(d)
  <2>1. PICK d \in Clients : Send(d) /\ Identified(d) /\ p = PacketOf(d)
    BY <1>3
  <2>2. CASE d = c
    BY <1>1, <2>1, <2>2 DEF PacketOf, Current
  <2>3. CASE d # c
    <3>1. op'[c] = op[c] /\ Identified(c)
      BY <2>1, <2>3, JoinsAlone DEF Identified
    <3>2. op[d].pid = op[c].pid
      BY <2>1, <3>1 DEF PacketOf
    <3> QED  BY <2>1, <2>3, <3>1, <3>2 DEF Distinct
  <2> QED  BY <2>2, <2>3
<1> QED  BY <1>2, <1>3, Traffic

\* What does not concern an operation leaves true what it was told.
LEMMA UnconcernedTruth ==
  ASSUME NEW c \in Callers, Truthful(c), Unaffected(c), answered \subseteq answered'
  PROVE  Truthful(c)'
<1>1. Current(c)' = Current(c)
  BY DEF Current, Unaffected
<1>2. Unsubscribed(c)' /\ Waits(c)'
  BY DEF Truthful, Unsubscribed, Waits, Unaffected
<1>3. TrueAnswer(c)'
  BY <1>1 DEF Truthful, TrueAnswer, Unaffected, Identified, Confirms, Variant
<1>4. ConfirmedOk(c)'
  BY <1>1 DEF Truthful, ConfirmedOk, Unaffected
<1> QED  BY <1>2, <1>3, <1>4 DEF Truthful

\* Who returns has nothing left to read, and what it returns is the question.
LEMMA ReturnTruth ==
  ASSUME TypeInv, NEW c \in Callers, Truthful(c), NEW outcome, Return(c, outcome),
         UNCHANGED <<started, answered>>,
         op[c].wait /\ outcome = "Ok" => <<Current(c), TRUE>> \in answered
  PROVE  Truthful(c)'
<1>0. OperationsTyped /\ ChannelTyped /\ c \in Clients /\ op[c] \in Operations
  BY DEF TypeInv, TypeOK, Clients, OperationsTyped
<1>1. /\ op'[c] = [op[c] EXCEPT !.stage = "idle", !.outcome = outcome]
      /\ unread'[c] = << >> /\ c \notin subscribers'
  BY <1>0, ReturnAlone
<1>2. /\ op'[c].stage = "idle" /\ op'[c].outcome = outcome
      /\ op'[c].wait = op[c].wait /\ op'[c].request = op[c].request
  BY <1>0, <1>1 DEF Operations
<1>3. Current(c)' = Current(c)
  BY DEF Current
<1>4. Unsubscribed(c)' /\ TrueAnswer(c)'
  BY <1>1, <1>2 DEF Unsubscribed, TrueAnswer, Identified
<1>5. Waits(c)'
  BY <1>2 DEF Waits, Truthful
<1>6. ConfirmedOk(c)'
  BY <1>2, <1>3 DEF ConfirmedOk
<1> QED  BY <1>4, <1>5, <1>6 DEF Truthful

\* The steps of an operation keep true what it was told.
LEMMA OwnTruth ==
  ASSUME TypeInv, NEW c \in Callers, Heard(c), Truthful(c), Step(c) \/ Cancel(c)
  PROVE  Truthful(c)'
<1>0. OperationsTyped /\ ChannelTyped /\ c \in Clients /\ op[c] \in Operations
  BY DEF TypeInv, TypeOK, Clients, OperationsTyped
<1>1. ASSUME NEW outcome, outcome # "Ok", Return(c, outcome),
             UNCHANGED <<started, answered>>
      PROVE  Truthful(c)'
  BY <1>1, ReturnTruth
<1>2. CASE Join(c)
  <2>1. /\ op[c].stage = "joining" /\ UNCHANGED <<unread, started, answered>>
        /\ c \in subscribers'
        /\ op'[c].stage = "sending" /\ op'[c].request = op[c].request
        /\ op'[c].wait = op[c].wait
    BY <1>0, <1>2 DEF Join, OperationsTyped, Operations, network
  <2>2. unread[c] = << >>
    BY <2>1 DEF Truthful, Unsubscribed
  <2> QED  BY <2>1, <2>2 DEF Truthful, Unsubscribed, Waits, TrueAnswer, ConfirmedOk
<1>3. CASE Send(c)
  <2>1. CASE ~op[c].wait
    BY <1>3, <2>1, ReturnTruth DEF Send
  <2>2. CASE op[c].wait
    <3>1. /\ op[c].stage = "sending" /\ UNCHANGED <<started, answered, channel>>
          /\ op'[c] = [op[c] EXCEPT !.stage = "waiting"]
      BY <1>0, <1>3, <2>2 DEF Send, OperationsTyped
    <3>2. /\ op'[c].stage = "waiting" /\ op'[c].wait = op[c].wait
          /\ op'[c].request = op[c].request /\ op'[c].pid = op[c].pid
      BY <1>0, <3>1 DEF Operations
    <3>3. Current(c)' = Current(c)
      BY <3>1 DEF Current
    <3>4. TrueAnswer(c)'
      BY <3>1, <3>2, <3>3 DEF Truthful, TrueAnswer, Identified, Confirms, Variant, channel
    <3> QED  BY <3>1, <3>2, <3>4 DEF Truthful, Unsubscribed, Waits, ConfirmedOk, channel
  <2> QED  BY <2>1, <2>2
<1>4. CASE ReadMessage(c) /\ Confirms(Head(unread[c]), op[c])
  <2>1. /\ op[c].stage = "waiting" /\ unread[c] # << >>
        /\ Return(c, IF Head(unread[c]).success THEN "Ok" ELSE "IOError")
        /\ UNCHANGED <<started, answered>>
    BY <1>4 DEF ReadMessage, network
  <2>2. op[c].wait /\ Head(unread[c]).success => <<Current(c), TRUE>> \in answered
    <3>1. 1 \in DOMAIN unread[c] /\ unread[c][1] = Head(unread[c])
      BY <1>0, <2>1 DEF ChannelTyped
    <3>2. op[c].wait => Identified(c)
      BY <2>1 DEF Identified, Truthful, Waits
    <3> QED  BY <1>4, <3>1, <3>2 DEF Truthful, TrueAnswer
  <2> QED  BY <2>1, <2>2, ReturnTruth
<1>5. CASE ReadMessage(c) /\ ~Confirms(Head(unread[c]), op[c])
  <2>1. /\ op[c].stage = "waiting" /\ unread[c] # << >>
        /\ unread'[c] = Tail(unread[c]) /\ unread[c] \in Seq(ControlMessages)
        /\ UNCHANGED <<op, subscribers, started, answered>>
    BY <1>0, <1>5 DEF ReadMessage, ChannelTyped, network
  <2>2. Current(c)' = Current(c)
    BY <2>1 DEF Current
  <2>3. \A i \in DOMAIN unread'[c] : /\ i + 1 \in DOMAIN unread[c]
                                     /\ unread'[c][i] = unread[c][i + 1]
    BY <2>1, HeadTailProperties
  <2>4. TrueAnswer(c)'
    BY <2>1, <2>2, <2>3 DEF Truthful, TrueAnswer, Identified, Confirms, Variant
  <2>5. Unsubscribed(c)'
    BY <2>1 DEF Unsubscribed, Heard, Listens
  <2> QED  BY <2>1, <2>2, <2>4, <2>5 DEF Truthful, Waits, ConfirmedOk
<1>6. CASE TopicTooLarge(c) \/ PacketTooLarge(c) \/ TimeOut(c) \/ Cancel(c)
  BY <1>1, <1>6 DEF TopicTooLarge, PacketTooLarge, TimeOut, Cancel, network
<1> QED  BY <1>2, <1>3, <1>4, <1>5, <1>6 DEF Step

\* An operation that starts has been told nothing.
LEMMA StartTruth ==
  ASSUME TypeInv, NEW c \in Callers, Truthful(c), NEW kind \in Kinds, Start(c, kind)
  PROVE  Truthful(c)'
<1>0. OperationsTyped /\ c \in Clients /\ kind \in AllKinds
  BY ConstantsAssumption DEF TypeInv, TypeOK, Clients
<1>1. /\ op[c].stage = "idle" /\ UNCHANGED <<unread, subscribers>>
      /\ op'[c].stage = "joining" /\ op'[c].wait = kind.wait
      /\ op'[c].request = kind.request
  BY <1>0 DEF Start, Begin, OperationsTyped, channel
<1>2. kind.wait => Confirmed(kind.request)
  <2>1. CASE kind \in [request : {"subscribe", "unsubscribe"}, wait : BOOLEAN]
    BY <2>1 DEF Confirmed
  <2>2. \/ kind = [request |-> "qos0", wait |-> FALSE]
        \/ kind = [request |-> "qos1", wait |-> TRUE]
        \/ kind = [request |-> "qos2", wait |-> TRUE]
        \/ kind \in [request : {"subscribe", "unsubscribe"}, wait : BOOLEAN]
    BY <1>0, Zenon DEF AllKinds
  <2>3. ASSUME NEW r, NEW w, kind = [request |-> r, wait |-> w]
        PROVE  kind.request = r /\ (kind.wait <=> w)
    BY <2>3, Zenon
  <2> QED  BY <2>1, <2>2, <2>3 DEF Confirmed
<1> QED  BY <1>1, <1>2 DEF Truthful, Unsubscribed, Waits, TrueAnswer, ConfirmedOk, Identified

\* What comes with an answer is that answer.
LEMMA AnswerTruth ==
  ASSUME TypeInv, NEW c \in Callers, OwnRequest(c), Truthful(c),
         NEW p \in wire, NEW success \in BOOLEAN, Answer(p, success)
  PROVE  Truthful(c)'
<1> DEFINE message == [variant |-> Variant(p.request), pid |-> p.pid,
                       success |-> success]
<1>0. /\ OperationsTyped /\ ChannelTyped /\ c \in Clients /\ c # RecvLoop
      /\ QueueLength \in Nat
  BY ConstantsAssumption DEF TypeInv, TypeOK, Clients
<1>1. /\ op'[c] = op[c] /\ UNCHANGED <<started, subscribers>>
      /\ answered' = answered \cup {<<p.by, success>>}
      /\ unread'[c] = IF c \in subscribers THEN Newest(Append(unread[c], message))
                      ELSE unread[c]
  BY <1>0 DEF Answer, OperationsTyped, PublishImmediate
<1>2. Current(c)' = Current(c)
  BY <1>1 DEF Current
<1>3. \A i \in DOMAIN unread'[c] :
        \/ unread'[c][i] = message
        \/ \E k \in DOMAIN unread[c] : unread'[c][i] = unread[c][k]
  <2>0. unread[c] \in Seq(ControlMessages)
    BY <1>0 DEF ChannelTyped
  <2>1. CASE c \in subscribers
    <3> DEFINE all == Append(unread[c], message)
    <3> SUFFICES ASSUME NEW i \in DOMAIN Newest(all)
                 PROVE  \/ Newest(all)[i] = message
                        \/ \E k \in DOMAIN unread[c] : Newest(all)[i] = unread[c][k]
      BY <1>1, <2>1
    <3>1. /\ p.pid \in 1 .. MaxPid /\ message \in ControlMessages
      BY DEF TypeInv, TypeOK, NetworkTyped, ControlMessages, Variant
    <3>2. /\ all \in Seq(ControlMessages) /\ all # << >>
          /\ \A k \in DOMAIN all : \/ all[k] = message
                                   \/ k \in DOMAIN unread[c] /\ all[k] = unread[c][k]
      <4>1. /\ all \in Seq(ControlMessages) /\ Len(all) = Len(unread[c]) + 1
            /\ Len(unread[c]) \in Nat /\ all[Len(unread[c]) + 1] = message
            /\ \A k \in 1 .. Len(unread[c]) : all[k] = unread[c][k]
        BY <2>0, <3>1, AppendProperties
      <4>2. /\ DOMAIN all = 1 .. Len(unread[c]) + 1
            /\ DOMAIN unread[c] = 1 .. Len(unread[c])
        BY <2>0, <4>1
      <4>3. all # << >>
        <5>1. Len(all) # 0 /\ Len(<< >>) = 0
          BY <4>1
        <5> HIDE DEF all
        <5> QED  BY <5>1
      <4>4. ASSUME NEW k \in DOMAIN all
            PROVE  \/ all[k] = message
                   \/ k \in DOMAIN unread[c] /\ all[k] = unread[c][k]
        <5>1. k \in 1 .. Len(unread[c]) \/ k = Len(unread[c]) + 1
          BY <4>1, <4>2
        <5> QED  BY <4>1, <4>2, <5>1
      <4>5. all \in Seq(ControlMessages)
        BY <4>1
      <4> QED  BY <4>3, <4>4, <4>5
    <3>3. CASE Newest(all) = all
      BY <3>2, <3>3
    <3>4. CASE Newest(all) = Tail(all)
      <4>1. i + 1 \in DOMAIN all /\ Tail(all)[i] = all[i + 1]
        BY <3>2, <3>4, HeadTailProperties
      <4> QED  BY <3>2, <3>4, <4>1
    <3> QED  BY <3>3, <3>4 DEF Newest
  <2>2. CASE c \notin subscribers
    BY <1>1, <2>2
  <2> QED  BY <2>1, <2>2
<1>4. TrueAnswer(c)'
  <2> SUFFICES ASSUME Identified(c), NEW i \in DOMAIN unread'[c],
                      Confirms(unread'[c][i], op[c]), unread'[c][i].success
               PROVE  <<Current(c), TRUE>> \in answered'
    BY <1>1, <1>2 DEF TrueAnswer, Identified, Confirms, Variant
  <2>1. CASE unread'[c][i] = message
    <3>1. p.by = Current(c)
      BY <2>1 DEF OwnRequest, Confirms
    <3>2. success = TRUE
      BY <2>1
    <3> QED  BY <1>1, <3>1, <3>2
  <2>2. CASE \E k \in DOMAIN unread[c] : unread'[c][i] = unread[c][k]
    BY <1>1, <2>2 DEF Truthful, TrueAnswer
  <2> QED  BY <1>3, <2>1, <2>2
<1>5. Unsubscribed(c)'
  BY <1>1 DEF Truthful, Unsubscribed
<1>6. Waits(c)' /\ ConfirmedOk(c)'
  BY <1>1, <1>2 DEF Truthful, Waits, ConfirmedOk
<1> QED  BY <1>4, <1>5, <1>6 DEF Truthful

\* Every step keeps true what every operation was told.
LEMMA TrueStep ==
  ASSUME TrueInv, [Next]_vars, TakesFreePid
  PROVE  TrueInv'
<1>0. /\ HeardInv /\ TypeInv /\ Distinct /\ OperationsTyped /\ ChannelTyped
      /\ \A d \in Callers : d \in Clients /\ d # RecvLoop
  BY ConstantsAssumption DEF TrueInv, HeardInv, TypeInv, TypeOK, Clients
<1>1. ASSUME NEW c \in Callers
      PROVE  Truthful(c)'
  <2>0. Heard(c) /\ Truthful(c) /\ OwnRequest(c)
    BY <1>0 DEF HeardInv, TrueInv
  <2>1. CASE Step(c) \/ Cancel(c)
    BY <1>0, <2>0, <2>1, OwnTruth
  <2>2. CASE \E kind \in Kinds : Start(c, kind)
    BY <1>0, <2>0, <2>2, StartTruth
  <2>3. CASE \E p \in wire, success \in BOOLEAN : Answer(p, success)
    BY <1>0, <2>0, <2>3, AnswerTruth
  <2>4. CASE UNCHANGED vars
    BY <2>0, <2>4, UnconcernedTruth DEF vars, channel, network, Unaffected
  <2>5. CASE /\ ~(Step(c) \/ Cancel(c)) /\ ~(\E kind \in Kinds : Start(c, kind))
             /\ ~(\E p \in wire, success \in BOOLEAN : Answer(p, success))
             /\ Next
    <3>1. answered' = answered
      BY <2>5, Traffic
    <3>2. Unaffected(c)
      <4>1. CASE \E d \in Clients \ {c} : Step(d) \/ Cancel(d)
        BY <1>0, <4>1, OthersStep
      <4>2. CASE \/ Open \/ Connack \/ Resubscribe \/ Disconnect
                 \/ \E d \in Callers \ {c}, kind \in Kinds : Start(d, kind)
        BY <1>0, <4>2, Elsewhere
      <4> QED  BY <1>0, <2>5, <4>1, <4>2 DEF Next
    <3> QED  BY <2>0, <3>1, <3>2, UnconcernedTruth
  <2> QED  BY <2>1, <2>2, <2>3, <2>4, <2>5
<1>2. HeardInv' /\ Distinct'
  BY <1>0, HeardStep, DistinctStep
<1>3. ASSUME NEW c \in Callers
      PROVE  OwnRequest(c)'
  BY <1>0, OwnRequestStep DEF TrueInv
<1> QED  BY <1>1, <1>2, <1>3 DEF TrueInv

\* Nobody has been told anything at first.
LEMMA TrueInit == Init => TrueInv
<1> SUFFICES ASSUME Init PROVE TrueInv
  OBVIOUS
<1>1. \A c \in Clients : /\ op[c] = NotStarted /\ unread[c] = << >>
                         /\ c \notin subscribers
  BY DEF Init
<1>2. \A c \in Clients : /\ op[c].stage = "idle" /\ ~op[c].wait
                         /\ op[c].outcome = "none"
  BY <1>1 DEF NotStarted
<1>3. \A c \in Clients : ~Identified(c)
  BY <1>2 DEF Identified
<1>4. Distinct /\ \A c \in Callers : OwnRequest(c)
  BY <1>3 DEF Distinct, OwnRequest, Clients
<1>5. ASSUME NEW c \in Callers
      PROVE  Truthful(c)
  <2>1. /\ c \in Clients /\ c \notin subscribers /\ unread[c] = << >>
        /\ ~op[c].wait /\ ~Identified(c)
    BY <1>1, <1>2, <1>3 DEF Clients
  <2> QED  BY <2>1 DEF Truthful, Unsubscribed, Waits, TrueAnswer, ConfirmedOk
<1> QED  BY <1>4, <1>5, HeardInit DEF TrueInv

\* As long as no operation is given an identifier that another one under way, or a
\* request on the wire, still has, Ok means that the broker carried out the very
\* operation that returns it.  confirm_wrap shows what happens otherwise.
THEOREM OkIfPidsFree == Spec /\ [][TakesFreePid]_vars => []OkMeansConfirmed
<1>1. TrueInv => OkMeansConfirmed
  BY DEF TrueInv, Truthful, ConfirmedOk, OkMeansConfirmed, Current
<1>2. TrueInv /\ [Next]_vars /\ [TakesFreePid]_vars => TrueInv'
  <2>1. CASE UNCHANGED vars
    <3>1. ~(\E c \in Clients : TrueInv /\ Join(c))
      BY <2>1 DEF vars, TrueInv, HeardInv, TypeInv, TypeOK, OperationsTyped, Operations, Join
    <3> QED  BY <3>1, TrueStep DEF TakesFreePid
  <2> QED  BY <2>1, TrueStep
<1> QED  BY <1>1, <1>2, TrueInit, PTL DEF Spec

\* An identifier that is given is free until the counter wraps.
LEMMA GivenStep ==
  ASSUME TypeInv, Given, [Next]_vars, counter' >= counter
  PROVE  Given' /\ TakesFreePid
<1>0. /\ counter \in Nat /\ counter' \in Nat /\ counter <= counter'
      /\ MaxPid \in Nat \ {0} /\ counter \in 0 .. MaxPid
      /\ \A c \in Clients : op[c].pid \in Nat
      /\ \A p \in wire : p.pid \in Nat
  <2>1. TypeInv'
    BY TypeStep
  <2>2. MaxPid \in Nat \ {0}
    BY ConstantsAssumption
  <2>3. counter \in 0 .. MaxPid /\ counter' \in 0 .. MaxPid
    BY <2>1 DEF TypeInv, TypeOK, OperationsTyped
  <2>4. \A c \in Clients : op[c].pid \in 0 .. MaxPid
    BY DEF TypeInv, TypeOK, OperationsTyped, Operations
  <2>5. \A p \in wire : p.pid \in 1 .. MaxPid
    BY DEF TypeInv, TypeOK, NetworkTyped
  <2> QED  BY <2>2, <2>3, <2>4, <2>5
<1>1. ASSUME NEW c \in Clients, Join(c), op[c].request # "qos0"
      PROVE  counter' = counter + 1 /\ PidOf(counter) = counter + 1
  <2>1. counter' = (counter + 1) % (MaxPid + 1)
    BY <1>1 DEF Join, AssignPid
  <2>2. counter # MaxPid
    BY <1>0, <2>1
  <2> QED  BY <1>0, <2>1, <2>2 DEF PidOf
<1>2. TakesFreePid
  <2> SUFFICES ASSUME NEW c \in Clients, Join(c), op[c].request # "qos0"
               PROVE  PidFree(PidOf(counter))
    BY DEF TakesFreePid
  <2>1. PidOf(counter) = counter + 1
    BY <1>1
  <2>2. \A p \in wire : p.pid # counter + 1
    BY <1>0 DEF Given
  <2>3. \A d \in Clients : Identified(d) => op[d].pid # counter + 1
    BY <1>0 DEF Given
  <2> QED  BY <2>1, <2>2, <2>3 DEF PidFree
<1>3. ASSUME NEW p \in wire'
      PROVE  p.pid <= counter'
  <2>1. CASE p \in wire
    BY <1>0, <2>1 DEF Given
  <2>2. CASE \E d \in Clients : Identified(d) /\ p = PacketOf(d)
    BY <1>0, <2>2 DEF Given, PacketOf
  <2> QED  BY <2>1, <2>2, Traffic
<1>4. ASSUME NEW c \in Clients, Identified(c)'
      PROVE  op'[c].pid <= counter'
  <2>1. CASE Identified(c) /\ op'[c].pid = op[c].pid
    BY <1>0, <2>1 DEF Given
  <2>2. CASE Join(c) /\ op[c].request # "qos0" /\ op'[c].pid = PidOf(counter)
    BY <1>0, <1>1, <2>2
  <2> QED  BY <1>4, <2>1, <2>2, Identity
<1> QED  BY <1>2, <1>3, <1>4 DEF Given

\* Up to the wrap of the 16 bit counter, that is for 65535 operations from the start
\* on, Ok means confirmed: the wrap is the only thing that can go wrong.
THEOREM OkUntilWrap == Spec /\ [][counter' >= counter]_vars => []OkMeansConfirmed
<1>1. Init => TypeInv /\ Given
  BY TypeInit DEF Init, Given, Identified, NotStarted
<1>2. TypeInv /\ Given /\ [Next]_vars /\ [counter' >= counter]_vars
        => TypeInv' /\ Given' /\ [TakesFreePid]_vars
  <2> SUFFICES ASSUME TypeInv, Given, [Next]_vars, [counter' >= counter]_vars
               PROVE  TypeInv' /\ Given' /\ [TakesFreePid]_vars
    OBVIOUS
  <2>1. counter' >= counter
    BY ConstantsAssumption DEF vars, TypeInv, TypeOK, OperationsTyped
  <2> QED  BY <2>1, TypeStep, GivenStep
<1>3. Spec /\ [][counter' >= counter]_vars => [][TakesFreePid]_vars
  BY <1>1, <1>2, PTL DEF Spec
<1> QED  BY <1>3, OkIfPidsFree, PTL

(***************************************************************************)
(* How many operations identifiers last for.                               *)
(***************************************************************************)

\* What a device does from one start to the next: the operations of its callers, and
\* for each connection the subscriptions of recv_loop.
IdentifiersLast ==
  Cardinality(Callers) * MaxOps + MaxConnections * Subscriptions <= MaxPid

\* The operations that there may be.
MayBe ==
  (Callers \X (1 .. MaxOps)) \cup ({RecvLoop} \X (1 .. MaxConnections * Subscriptions))

\* The operations that are past the point where they take an identifier.
Served ==
  {q \in Clients \X Nat :
     /\ q[2] \in 1 .. started[q[1]]
     /\ ~(q[2] = started[q[1]] /\ op[q[1]].stage = "joining")}

\* An operation that looks for a subscriber has been counted.
Begun == \A c \in Clients : op[c].stage = "joining" => started[c] > 0

\* No caller starts more than it may, and recv_loop subscribes to each topic once on a
\* connection, or less if that ends before.
InBounds ==
  /\ \A c \in Callers : started[c] <= MaxOps
  /\ link \in {"down", "open"} => resubscribe = 0
  /\ link = "open" => connections > 0
  /\ started[RecvLoop] + resubscribe
       <= (IF link = "open" THEN connections - 1 ELSE connections) * Subscriptions

\* Every identifier went to another operation.
TakenOnce == counter <= Cardinality(Served)

\* No more operations than that.
LEMMA HowMany ==
  /\ IsFiniteSet(MayBe)
  /\ Cardinality(MayBe) <= Cardinality(Callers) * MaxOps + MaxConnections * Subscriptions
<1> DEFINE n == MaxConnections * Subscriptions
           S == Callers \X (1 .. MaxOps)
           L == {RecvLoop} \X (1 .. n)
<1>0. MaxOps \in Nat /\ n \in Nat /\ IsFiniteSet(Callers)
  BY ConstantsAssumption
<1> HIDE DEF n
<1>1. IsFiniteSet(1 .. MaxOps) /\ Cardinality(1 .. MaxOps) = MaxOps
  BY <1>0, FS_Interval
<1>2. IsFiniteSet(1 .. n) /\ Cardinality(1 .. n) = n
  BY <1>0, FS_Interval
<1>3. IsFiniteSet({RecvLoop}) /\ Cardinality({RecvLoop}) = 1
  BY FS_Singleton
<1>4. IsFiniteSet(S) /\ Cardinality(S) = Cardinality(Callers) * MaxOps
  BY <1>0, <1>1, FS_Product
<1>5. IsFiniteSet(L) /\ Cardinality(L) = 1 * n
  BY <1>2, <1>3, FS_Product
<1> HIDE DEF S, L
<1>6. /\ IsFiniteSet(S \cup L)
      /\ Cardinality(S \cup L) = Cardinality(S) + Cardinality(L) - Cardinality(S \cap L)
  BY <1>4, <1>5, FS_Union
<1>7. Cardinality(S \cap L) \in Nat
  BY <1>4, FS_Subset, FS_CardinalityType
<1>8. Cardinality(S) \in Nat /\ Cardinality(L) \in Nat
  BY <1>4, <1>5, FS_CardinalityType
<1>9. Cardinality(S \cup L) <= Cardinality(S) + Cardinality(L)
  BY <1>6, <1>7, <1>8
<1>10. MayBe = S \cup L
  BY DEF MayBe, S, L, n
<1>11. Cardinality(L) = n
  BY <1>0, <1>5
<1> QED  BY <1>4, <1>6, <1>9, <1>10, <1>11 DEF n

\* An operation begins by being counted and looking for a subscriber; nothing else
\* makes it do either.
LEMMA Begins ==
  ASSUME TypeInv, [Next]_vars, NEW c \in Clients
  PROVE  \/ /\ started'[c] = started[c]
            /\ op'[c].stage = "joining" => op[c].stage = "joining"
         \/ /\ started'[c] = started[c] + 1
            /\ op'[c].stage = "joining" /\ op[c].stage = "idle"
<1>0. OperationsTyped /\ ChannelTyped /\ op[c] \in Operations /\ started[c] \in Nat
  BY DEF TypeInv, TypeOK, OperationsTyped
<1> DEFINE Same == started'[c] = started[c]
                   /\ (op'[c].stage = "joining" => op[c].stage = "joining")
           Starts == /\ started'[c] = started[c] + 1
                     /\ op'[c].stage = "joining" /\ op[c].stage = "idle"
<1>1. ASSUME NEW d \in Clients, NEW kind, Begin(d, kind) PROVE Same \/ Starts
  BY <1>0, <1>1 DEF Begin, OperationsTyped
<1>2. ASSUME NEW d \in Clients, NEW outcome, Return(d, outcome), UNCHANGED started
      PROVE  Same
  <2>1. CASE c = d
    <3>1. op'[c] = [op[c] EXCEPT !.stage = "idle", !.outcome = outcome]
      BY <1>0, <1>2, <2>1, ReturnAlone
    <3> QED  BY <1>0, <1>2, <3>1 DEF Operations
  <2>2. CASE c # d
    BY <1>0, <1>2, <2>2, ReturnAlone DEF Unaffected
  <2> QED  BY <2>1, <2>2
<1>3. CASE \E d \in Callers, kind \in Kinds : Start(d, kind)
  BY <1>1, <1>3 DEF Start, Clients
<1>4. CASE Resubscribe
  BY <1>1, <1>4 DEF Resubscribe, Clients
<1>5. CASE \E d \in Callers : Cancel(d)
  BY <1>2, <1>5 DEF Cancel, Clients
<1>6. ASSUME NEW d \in Clients, Step(d) PROVE Same
  <2>1. CASE Join(d)
    BY <1>0, <2>1 DEF Join, OperationsTyped, Operations
  <2>2. CASE TopicTooLarge(d) \/ PacketTooLarge(d) \/ TimeOut(d)
    BY <1>2, <2>2 DEF TopicTooLarge, PacketTooLarge, TimeOut
  <2>3. CASE Send(d)
    <3>1. CASE op[d].wait
      BY <1>0, <2>3, <3>1 DEF Send, OperationsTyped, Operations
    <3>2. CASE ~op[d].wait
      BY <1>2, <2>3, <3>2 DEF Send
    <3> QED  BY <3>1, <3>2
  <2>4. CASE ReadMessage(d)
    <3>1. CASE Confirms(Head(unread[d]), op[d])
      BY <1>2, <2>4, <3>1 DEF ReadMessage
    <3>2. CASE ~Confirms(Head(unread[d]), op[d])
      BY <1>0, <2>4, <3>2 DEF ReadMessage
    <3> QED  BY <3>1, <3>2
  <2> QED  BY <1>6, <2>1, <2>2, <2>3, <2>4 DEF Step
<1>7. CASE \E p \in wire, success \in BOOLEAN : Answer(p, success)
  BY <1>0, <1>7 DEF Answer, OperationsTyped, Operations
<1>8. CASE Disconnect
  BY <1>2, <1>8 DEF Disconnect, Clients
<1>9. CASE Open \/ Connack \/ UNCHANGED vars
  BY <1>9 DEF Open, Connack, vars
<1> QED  BY <1>3, <1>4, <1>5, <1>6, <1>7, <1>8, <1>9 DEF Next

\* Callers keep to their bound, and recv_loop to one subscription for each topic.
LEMMA InBoundsStep ==
  ASSUME TypeInv, InBounds, [Next]_vars
  PROVE  InBounds'
<1>0. /\ OperationsTyped /\ ChannelTyped /\ RecvLoop \in Clients /\ RecvLoop \notin Callers
      /\ \A c \in Clients : started[c] \in Nat
      /\ connections \in Nat /\ resubscribe \in Nat /\ Subscriptions \in Nat
      /\ MaxOps \in Nat /\ link \in {"down", "open", "up"}
  BY ConstantsAssumption DEF TypeInv, TypeOK, OperationsTyped, NetworkTyped, Clients
<1>1. CASE UNCHANGED <<started, link, connections, resubscribe>>
  BY <1>1 DEF InBounds
<1>2. CASE \E d \in Callers, kind \in Kinds : Start(d, kind)
  <2>1. PICK d \in Callers, kind \in Kinds : Start(d, kind)
    BY <1>2
  <2>2. /\ started' = [started EXCEPT ![d] = @ + 1] /\ started[d] < MaxOps
        /\ UNCHANGED <<link, connections, resubscribe>>
    BY <2>1 DEF Start, Begin, network
  <2>3. \A c \in Callers : started'[c] <= MaxOps
    BY <1>0, <2>2 DEF InBounds, OperationsTyped, Clients
  <2>4. started'[RecvLoop] = started[RecvLoop]
    BY <1>0, <2>2 DEF OperationsTyped
  <2> QED  BY <2>2, <2>3, <2>4 DEF InBounds
<1>3. CASE Resubscribe
  <2>1. /\ started' = [started EXCEPT ![RecvLoop] = @ + 1]
        /\ resubscribe > 0 /\ resubscribe' = resubscribe - 1
        /\ UNCHANGED <<link, connections>>
    BY <1>3 DEF Resubscribe, Begin
  <2>2. \A c \in Callers : started'[c] = started[c]
    BY <1>0, <2>1 DEF OperationsTyped, Clients
  <2>3. started'[RecvLoop] = started[RecvLoop] + 1
    BY <1>0, <2>1 DEF OperationsTyped
  <2>4. started'[RecvLoop] + resubscribe' = started[RecvLoop] + resubscribe
    BY <1>0, <2>1, <2>3
  <2>5. link = "up"
    BY <1>0, <2>1 DEF InBounds
  <2> QED  BY <2>1, <2>2, <2>4, <2>5 DEF InBounds
<1>4. CASE Open
  <2>1. /\ link = "down" /\ link' = "open" /\ connections' = connections + 1
        /\ UNCHANGED <<started, resubscribe>>
    BY <1>4 DEF Open
  <2>2. connections' > 0 /\ connections' - 1 = connections
    BY <1>0, <2>1
  <2> QED  BY <2>1, <2>2 DEF InBounds
<1>5. CASE Connack
  <2>1. /\ link = "open" /\ link' = "up" /\ resubscribe' = Subscriptions
        /\ UNCHANGED <<started, connections>>
    BY <1>5 DEF Connack
  <2>2. resubscribe = 0 /\ connections > 0
    BY <2>1 DEF InBounds
  <2>3. started[RecvLoop] <= (connections - 1) * Subscriptions
    BY <1>0, <2>1, <2>2 DEF InBounds
  <2>4. (connections - 1) * Subscriptions + Subscriptions = connections * Subscriptions
    BY <1>0
  <2>5. (connections - 1) * Subscriptions \in Int
    BY <1>0
  <2>6. started[RecvLoop] + Subscriptions <= connections * Subscriptions
    BY <1>0, <2>3, <2>4, <2>5
  <2> QED  BY <2>1, <2>6 DEF InBounds
<1>6. CASE Disconnect
  <2>1. link' = "down" /\ resubscribe' = 0 /\ UNCHANGED <<started, connections>>
    BY <1>6 DEF Disconnect
  <2> DEFINE k == IF link = "open" THEN connections - 1 ELSE connections
  <2>2. k \in Int /\ k <= connections
    BY <1>0
  <2>3. k * Subscriptions <= connections * Subscriptions
    <3>1. k = connections \/ k = connections - 1
      OBVIOUS
    <3>2. (connections - 1) * Subscriptions + Subscriptions = connections * Subscriptions
      BY <1>0
    <3>3. (connections - 1) * Subscriptions \in Int /\ connections * Subscriptions \in Int
      BY <1>0
    <3> QED  BY <1>0, <3>1, <3>2, <3>3
  <2>4. started[RecvLoop] + resubscribe <= k * Subscriptions
    BY DEF InBounds
  <2>5. k * Subscriptions \in Int /\ connections * Subscriptions \in Int
    BY <1>0, <2>2
  <2> HIDE DEF k
  <2>6. started[RecvLoop] + 0 <= connections * Subscriptions
    BY <1>0, <2>3, <2>4, <2>5
  <2> QED  BY <2>1, <2>6 DEF InBounds
<1> QED
  BY <1>1, <1>2, <1>3, <1>4, <1>5, <1>6
  DEF Next, Step, Cancel, Join, TopicTooLarge, PacketTooLarge, Send, ReadMessage, TimeOut,
      Answer, vars, network

\* Whoever is past its identifier stays so, and an operation that takes one was not.
LEMMA ServedStep ==
  ASSUME TypeInv, Begun, [Next]_vars
  PROVE  /\ Begun'
         /\ Served \subseteq Served'
         /\ \A c \in Clients : Join(c) => Current(c) \in Served' \ Served
<1>0. OperationsTyped /\ \A c \in Clients : started[c] \in Nat
  BY DEF TypeInv, TypeOK, OperationsTyped
<1>1. Begun'
  BY <1>0, Begins DEF Begun
<1>2. ASSUME NEW q \in Served PROVE q \in Served'
  <2>1. /\ q \in Clients \X Nat /\ q[1] \in Clients /\ q[2] \in Nat
        /\ q[2] \in 1 .. started[q[1]]
        /\ ~(q[2] = started[q[1]] /\ op[q[1]].stage = "joining")
    BY DEF Served
  <2>2. /\ q[2] \in 1 .. started'[q[1]]
        /\ ~(q[2] = started'[q[1]] /\ op'[q[1]].stage = "joining")
    BY <1>0, <2>1, Begins
  <2> QED  BY <2>1, <2>2 DEF Served
<1>3. ASSUME NEW c \in Clients, Join(c) PROVE Current(c) \in Served' \ Served
  <2>1. /\ op[c].stage = "joining" /\ started'[c] = started[c]
        /\ op'[c].stage = "sending"
    BY <1>0, <1>3 DEF Join, OperationsTyped, Operations
  <2>2. Current(c) \in Clients \X Nat /\ Current(c)[1] = c /\ Current(c)[2] = started[c]
    BY <1>0 DEF Current
  <2>3. started[c] \in 1 .. started[c]
    BY <1>0, <2>1 DEF Begun
  <2> QED  BY <2>1, <2>2, <2>3 DEF Served
<1> QED  BY <1>1, <1>2, <1>3

\* All of them are operations that there may be.
LEMMA ServedMayBe == TypeInv /\ InBounds => Served \subseteq MayBe
<1> SUFFICES ASSUME TypeInv, InBounds, NEW q \in Served PROVE q \in MayBe
  OBVIOUS
<1>0. /\ RecvLoop \in Clients /\ \A c \in Clients : started[c] \in Nat
      /\ connections \in Nat /\ MaxConnections \in Nat /\ connections <= MaxConnections
      /\ Subscriptions \in Nat /\ MaxOps \in Nat /\ resubscribe \in Nat
      /\ link = "open" => connections > 0
  BY ConstantsAssumption DEF TypeInv, TypeOK, OperationsTyped, NetworkTyped, Clients, InBounds
<1>1. q = <<q[1], q[2]>> /\ q[1] \in Clients /\ q[2] \in 1 .. started[q[1]]
  BY DEF Served
<1>2. CASE q[1] \in Callers
  <2>1. started[q[1]] <= MaxOps
    BY <1>2 DEF InBounds
  <2>2. q[2] \in 1 .. MaxOps
    BY <1>0, <1>1, <2>1
  <2> QED  BY <1>1, <1>2, <2>2 DEF MayBe
<1>3. CASE q[1] = RecvLoop
  <2> DEFINE k == IF link = "open" THEN connections - 1 ELSE connections
  <2>1. k \in Nat /\ k <= MaxConnections
    BY <1>0
  <2>2. started[RecvLoop] + resubscribe <= k * Subscriptions
    BY DEF InBounds
  <2> HIDE DEF k
  <2>3. k * Subscriptions <= MaxConnections * Subscriptions
    <3>1. PICK d \in Nat : MaxConnections = k + d
      <4>1. MaxConnections - k \in Nat /\ MaxConnections = k + (MaxConnections - k)
        BY <1>0, <2>1
      <4> QED  BY <4>1
    <3>2. MaxConnections * Subscriptions = k * Subscriptions + d * Subscriptions
      BY <1>0, <2>1, <3>1
    <3>3. d * Subscriptions \in Nat /\ k * Subscriptions \in Nat
      BY <1>0, <2>1
    <3> QED  BY <3>2, <3>3
  <2>4. k * Subscriptions \in Nat /\ MaxConnections * Subscriptions \in Nat
    BY <1>0, <2>1
  <2>5. started[RecvLoop] <= MaxConnections * Subscriptions
    BY <1>0, <2>2, <2>3, <2>4
  <2>6. q[2] \in 1 .. MaxConnections * Subscriptions
    BY <1>0, <1>1, <1>3, <2>4, <2>5
  <2> QED  BY <1>1, <1>3, <2>6 DEF MayBe
<1> QED  BY <1>1, <1>2, <1>3 DEF Clients

\* As long as identifiers last the counter only grows: every Join is of another
\* operation, and there are not enough of them to reach the wrap.
LEMMA TakenOnceStep ==
  ASSUME IdentifiersLast, TypeInv, Begun, InBounds, TakenOnce, [Next]_vars
  PROVE  TakenOnce' /\ counter' >= counter
<1>0. counter \in Nat /\ counter <= MaxPid /\ MaxPid \in Nat \ {0}
  BY ConstantsAssumption DEF TypeInv, TypeOK, OperationsTyped
<1>1. TypeInv' /\ InBounds' /\ Served \subseteq Served'
  BY TypeStep, InBoundsStep, ServedStep
<1>2. Served' \subseteq MayBe
  <2>1. (TypeInv /\ InBounds => Served \subseteq MayBe)'
    BY ServedMayBe, PTL
  <2> QED  BY <1>1, <2>1 DEF MayBe
<1>3. IsFiniteSet(Served') /\ IsFiniteSet(Served)
  BY <1>1, <1>2, HowMany, FS_Subset
<1>4. /\ Cardinality(Served) \in Nat /\ Cardinality(Served') \in Nat
      /\ Cardinality(Served) <= Cardinality(Served')
  BY <1>1, <1>3, FS_Subset, FS_CardinalityType
<1>5. CASE \E c \in Clients : Join(c)
  <2>1. PICK c \in Clients : Join(c)
    BY <1>5
  <2>2. Current(c) \in Served' /\ Current(c) \notin Served
    BY <2>1, ServedStep
  <2>3. Cardinality(Served \cup {Current(c)}) = Cardinality(Served) + 1
    BY <1>3, <2>2, FS_AddElement
  <2>4. Served \cup {Current(c)} \subseteq Served'
    BY <1>1, <2>2
  <2>5. Cardinality(Served) + 1 <= Cardinality(Served')
    BY <1>3, <2>3, <2>4, FS_Subset
  <2>6. Cardinality(Served') <= MaxPid
    <3>1. Cardinality(Served') <= Cardinality(MayBe) /\ Cardinality(MayBe) \in Nat
      BY <1>2, HowMany, FS_Subset, FS_CardinalityType
    <3>2. Cardinality(Callers) * MaxOps + MaxConnections * Subscriptions \in Nat
      <4>1. Cardinality(Callers) \in Nat
        BY ConstantsAssumption, FS_CardinalityType
      <4> QED  BY <4>1, ConstantsAssumption
    <3> QED  BY <1>0, <1>4, <3>1, <3>2, HowMany DEF IdentifiersLast
  <2>7. counter < MaxPid
    BY <1>0, <1>4, <2>5, <2>6 DEF TakenOnce
  <2>8. counter' \in {counter, (counter + 1) % (MaxPid + 1)}
    BY <2>1 DEF Join, AssignPid
  <2>9. (counter + 1) % (MaxPid + 1) = counter + 1
    BY <1>0, <2>7
  <2> QED  BY <1>0, <1>4, <2>5, <2>8, <2>9 DEF TakenOnce
<1>6. CASE counter' = counter
  BY <1>0, <1>4, <1>6 DEF TakenOnce
<1> QED
  BY <1>5, <1>6
  DEF Next, Step, Start, Cancel, TopicTooLarge, PacketTooLarge, Send, ReadMessage, TimeOut,
      Answer, Open, Connack, Resubscribe, Disconnect, vars

\* Nothing has been taken, counted or subscribed to at first.
LEMMA LastingInit == Init => Begun /\ InBounds /\ TakenOnce
<1> SUFFICES ASSUME Init PROVE Begun /\ InBounds /\ TakenOnce
  OBVIOUS
<1>1. Begun
  BY DEF Init, Begun, NotStarted
<1>2. \A c \in Clients : started[c] = 0
  BY DEF Init
<1>3. InBounds
  <2>1. RecvLoop \in Clients /\ Callers \subseteq Clients
    BY DEF Clients
  <2>2. MaxOps \in Nat /\ 0 * Subscriptions = 0
    BY ConstantsAssumption
  <2> QED  BY <1>2, <2>1, <2>2 DEF Init, InBounds
<1>4. Served = {}
  BY <1>2 DEF Served
<1> QED  BY <1>1, <1>3, <1>4, FS_EmptySet DEF TakenOnce, Init

\* What a client can rely on whatever happens: if all the operations of its callers and
\* all the subscriptions of recv_loop are at most 65535 together, on any number of
\* connections, an operation that returns Ok was carried out by the broker.
THEOREM OkWhileIdentifiersLast == IdentifiersLast => (Spec => []OkMeansConfirmed)
<1> SUFFICES ASSUME IdentifiersLast PROVE Spec => []OkMeansConfirmed
  OBVIOUS
<1> DEFINE Lasting == TypeInv /\ Begun /\ InBounds /\ TakenOnce
<1>1. Init => Lasting
  BY TypeInit, LastingInit
<1>2. Lasting /\ [Next]_vars => Lasting' /\ [counter' >= counter]_vars
  BY TypeStep, ServedStep, InBoundsStep, TakenOnceStep
<1>3. Spec => [][counter' >= counter]_vars
  BY <1>1, <1>2, PTL DEF Spec
<1> QED  BY <1>3, OkUntilWrap, PTL

\* A caller's operation sends only once it has a subscriber.
LEMMA SendsAfterJoin ==
  ASSUME TypeInv, [Next]_vars, NEW c \in Callers, op'[c].stage = "sending"
  PROVE  op[c].stage \in {"joining", "sending"}
<1>0. /\ OperationsTyped /\ ChannelTyped /\ c \in Clients /\ op[c] \in Operations
      /\ c # RecvLoop /\ RecvLoop \in Clients
  BY ConstantsAssumption DEF TypeInv, TypeOK, OperationsTyped, Clients
<1>1. CASE op'[c] = op[c]
  BY <1>1
<1>2. ASSUME NEW outcome, Return(c, outcome) PROVE FALSE
  BY <1>0, <1>2, ReturnAlone DEF Operations
<1>3. CASE Join(c)
  BY <1>3 DEF Join
<1>4. CASE Send(c)
  BY <1>4 DEF Send
<1>5. CASE TopicTooLarge(c) \/ PacketTooLarge(c) \/ TimeOut(c) \/ Cancel(c)
  BY <1>2, <1>5 DEF TopicTooLarge, PacketTooLarge, TimeOut, Cancel
<1>6. CASE ReadMessage(c)
  BY <1>1, <1>2, <1>6 DEF ReadMessage
<1>7. CASE \E d \in Clients : d # c /\ (Step(d) \/ Cancel(d))
  BY <1>0, <1>1, <1>7, OthersStep DEF Unaffected
<1>8. CASE \E kind \in Kinds : Start(c, kind)
  BY <1>0, <1>8 DEF Start, Begin, OperationsTyped
<1>9. CASE \/ Open \/ Connack \/ Resubscribe \/ Disconnect
           \/ \E d \in Callers \ {c}, kind \in Kinds : Start(d, kind)
  BY <1>0, <1>1, <1>9, Elsewhere DEF Unaffected
<1>10. CASE \E p \in wire, success \in BOOLEAN : Answer(p, success)
  BY <1>0, <1>1, <1>10 DEF Answer, OperationsTyped
<1>11. CASE UNCHANGED vars
  BY <1>1, <1>11 DEF vars
<1> QED  BY <1>3, <1>4, <1>5, <1>6, <1>7, <1>8, <1>9, <1>10, <1>11 DEF Next, Step, Clients

(***************************************************************************)
(* No subscriber is lost.                                                  *)
(***************************************************************************)

\* The push of a PUBREL begins with the push: it needs no subscriber.
Plain == \A c \in Clients : op[c].stage = "joining" => op[c].request # "pubrel"

InUse(c) ==
  c \in subscribers <=> op[c].stage \in {"sending", "waiting"} /\ op[c].request # "pubrel"

\* Subscribers come and go with the operations that have them.
LEMMA InUseStep ==
  ASSUME TypeInv, NeverWaits, Plain, \A c \in Clients : InUse(c), [Next]_vars
  PROVE  Plain' /\ \A c \in Clients : InUse(c)'
<1> SUFFICES ASSUME NEW c \in Clients
             PROVE  (op'[c].stage = "joining" => op'[c].request # "pubrel") /\ InUse(c)'
  BY DEF Plain
<1> DEFINE Goal == (op'[c].stage = "joining" => op'[c].request # "pubrel") /\ InUse(c)'
<1>0. /\ OperationsTyped /\ ChannelTyped /\ op[c] \in Operations
      /\ op[c].stage = "joining" => op[c].request # "pubrel"
      /\ InUse(c) /\ RecvLoop \in Clients /\ RecvLoop \notin Callers
      /\ Callers \subseteq Clients
  BY ConstantsAssumption DEF TypeInv, TypeOK, OperationsTyped, Plain, Clients
<1>1. ASSUME op'[c] = op[c], c \in subscribers' <=> c \in subscribers PROVE Goal
  BY <1>0, <1>1 DEF InUse
<1>2. ASSUME NEW d \in Clients, NEW outcome, Return(d, outcome), UNCHANGED started
      PROVE  Goal
  <2>1. CASE c = d
    <3>1. op'[c] = [op[c] EXCEPT !.stage = "idle", !.outcome = outcome]
      BY <1>0, <1>2, <2>1, ReturnAlone
    <3>2. op'[c].stage = "idle" /\ c \notin subscribers'
      BY <1>0, <1>2, <2>1, <3>1, ReturnAlone DEF Operations
    <3> QED  BY <3>2 DEF InUse
  <2>2. CASE c # d
    BY <1>0, <1>1, <1>2, <2>2, ReturnAlone DEF Unaffected
  <2> QED  BY <2>1, <2>2
<1>3. ASSUME NEW d \in Clients, NEW kind, Begin(d, kind), kind.request # "pubrel",
             UNCHANGED subscribers
      PROVE  Goal
  <2>1. CASE c = d
    <3>1. /\ op[c].stage = "idle" /\ op'[c].stage = "joining"
          /\ op'[c].request # "pubrel"
      BY <1>0, <1>3, <2>1 DEF Begin, OperationsTyped
    <3> QED  BY <1>0, <1>3, <3>1 DEF InUse
  <2>2. CASE c # d
    BY <1>0, <1>1, <1>3, <2>2 DEF Begin, OperationsTyped
  <2> QED  BY <2>1, <2>2
<1>4. CASE \E d \in Callers, kind \in Kinds : Start(d, kind)
  <2>1. PICK d \in Callers, kind \in Kinds : Start(d, kind)
    BY <1>4
  <2>2. kind.request # "pubrel"
    BY ConstantsAssumption DEF AllKinds
  <2> QED  BY <1>0, <1>3, <2>1, <2>2 DEF Start, channel
<1>5. CASE Resubscribe
  BY <1>0, <1>3, <1>5 DEF Resubscribe, channel
<1>6. CASE \E d \in Callers : Cancel(d)
  BY <1>0, <1>2, <1>6 DEF Cancel
<1>7. ASSUME NEW d \in Clients, Step(d) PROVE Goal
  <2>1. CASE c # d
    BY <1>0, <1>1, <1>7, <2>1, OthersStep DEF Unaffected
  <2>2. CASE c = d /\ Join(c)
    <3>1. /\ op[c].stage = "joining" /\ op'[c].stage = "sending"
          /\ op'[c].request = op[c].request /\ c \in subscribers'
      BY <1>0, <2>2 DEF Join, OperationsTyped, Operations
    <3> QED  BY <1>0, <3>1 DEF InUse
  <2>3. CASE TopicTooLarge(d) \/ PacketTooLarge(d) \/ TimeOut(d)
    BY <1>2, <2>3 DEF TopicTooLarge, PacketTooLarge, TimeOut
  <2>4. CASE c = d /\ Send(c)
    <3>1. CASE op[c].wait
      <4>1. /\ op[c].stage = "sending" /\ op'[c].stage = "waiting"
            /\ op'[c].request = op[c].request /\ UNCHANGED subscribers
        BY <1>0, <2>4, <3>1 DEF Send, OperationsTyped, Operations, channel
      <4> QED  BY <1>0, <4>1 DEF InUse
    <3>2. CASE ~op[c].wait
      BY <1>2, <2>4, <3>2 DEF Send
    <3> QED  BY <3>1, <3>2
  <2>5. CASE ReadMessage(d)
    <3>1. CASE Confirms(Head(unread[d]), op[d])
      BY <1>2, <2>5, <3>1 DEF ReadMessage
    <3>2. CASE ~Confirms(Head(unread[d]), op[d])
      BY <1>1, <2>5, <3>2 DEF ReadMessage
    <3> QED  BY <3>1, <3>2
  <2> QED  BY <1>7, <2>1, <2>2, <2>3, <2>4, <2>5 DEF Step
<1>8. CASE \E p \in wire, success \in BOOLEAN : Answer(p, success)
  <2>1. UNCHANGED subscribers /\ op[RecvLoop].stage = "idle"
    BY <1>8 DEF Answer, PublishImmediate, Reading
  <2>2. \/ op'[c] = op[c]
        \/ c = RecvLoop /\ op'[c].stage = "sending" /\ op'[c].request = "pubrel"
    BY <1>0, <1>8 DEF Answer, OperationsTyped
  <2>3. CASE op'[c] = op[c]
    BY <1>1, <2>1, <2>3
  <2>4. CASE c = RecvLoop /\ op'[c].stage = "sending" /\ op'[c].request = "pubrel"
    BY <1>0, <2>1, <2>4 DEF InUse
  <2> QED  BY <2>2, <2>3, <2>4
<1>9. CASE Disconnect
  BY <1>0, <1>2, <1>9 DEF Disconnect
<1>10. CASE Open \/ Connack \/ UNCHANGED vars
  BY <1>1, <1>10 DEF Open, Connack, vars, channel
<1> QED  BY <1>4, <1>5, <1>6, <1>7, <1>8, <1>9, <1>10 DEF Next

\* The five subscribers of CONTROL_CHANNEL are with the operations that send or wait, one
\* each: whatever way an operation ends - confirmed, timed out, failed, cancelled, or
\* recv_loop's with its connection - its subscriber is free again, so that the others
\* that poll for one are never kept waiting by an operation that is over.
THEOREM NoSubscriberLost == Spec => []SubscribersInUse
<1> DEFINE Inv == HeardInv /\ Plain /\ \A c \in Clients : InUse(c)
<1>1. Init => Inv
  <2> SUFFICES ASSUME Init PROVE Inv
    OBVIOUS
  <2>1. \A c \in Clients : op[c].stage = "idle" /\ c \notin subscribers
    BY DEF Init, NotStarted
  <2> QED  BY <2>1, HeardInit DEF Plain, InUse
<1>2. Inv /\ [Next]_vars => Inv'
  BY InUseStep, HeardStep DEF HeardInv
<1>3. Inv => SubscribersInUse
  BY DEF InUse, SubscribersInUse, HeardInv, TypeInv, TypeOK, ChannelTyped
<1> QED  BY <1>1, <1>2, <1>3, PTL DEF Spec
=============================================================================
