------------------------ MODULE ConnectedPipeProofs -------------------------
(***************************************************************************)
(* Proofs about ConnectedPipe, for any number of senders, readers and      *)
(* tasks and any assignment of the former to the latter.                   *)
(***************************************************************************)
EXTENDS ConnectedPipe, FiniteSetTheorems, TLAPS

(***************************************************************************)
(* Type correctness.                                                       *)
(***************************************************************************)

\* Whatever is woken, only live futures are ever due for a poll.
LEMMA OnlyLiveScheduled ==
  ASSUME NEW f, NEW woken, PolledAndWoke(f, woken)
  PROVE  scheduled' \in SUBSET Live'
BY DEF PolledAndWoke

\* The two invariants hold together: that connect_count (a usize) stays a natural
\* number needs ReadersCounted, for -= 1 is executed by the drop of a reader that
\* was counted.
LEMMA TypeAndCount == Spec => [](TypeOK /\ ReadersCounted)
<1> USE ConstantsAssumption
<1>1. Init => TypeOK /\ ReadersCounted
  <2> SUFFICES ASSUME Init PROVE TypeOK /\ ReadersCounted
    OBVIOUS
  <2>1. ReadersCounted
    BY FS_EmptySet DEF Init, ReadersCounted
  <2>2. TypeOK
    BY DEF Init, TypeOK, Live, Items
  <2> QED  BY <2>1, <2>2
<1>2. TypeOK /\ ReadersCounted /\ [Next]_vars => TypeOK' /\ ReadersCounted'
  <2> SUFFICES ASSUME TypeOK, ReadersCounted, [Next]_vars
               PROVE  TypeOK' /\ ReadersCounted'
    OBVIOUS
  <2> USE DEF TypeOK, ReadersCounted
  <2>0. IsFiniteSet(readers)
    BY FS_Subset
  <2>1. ASSUME NEW s \in Senders, Push(s) PROVE TypeOK' /\ ReadersCounted'
    <3>1. <<s, sent[s] + 1>> \in Items /\ sent[s] + 1 \in 0 .. MaxPush
      BY <2>1 DEF Push, Items
    <3>2. <<s, sent[s] + 1>> # None
      BY <3>1
    <3>3. push' \in [Senders -> Items \cup {None}] /\ push'[s] # None
      BY <2>1, <3>1, <3>2 DEF Push
    <3>4. Live \subseteq Live' /\ s \in Live'
      BY <2>1, <3>3 DEF Push, Live
    <3>5. scheduled' \in SUBSET Live'
      BY <2>1, <3>4 DEF Push, FirstPollDue
    <3> QED  BY <2>1, <3>1, <3>3, <3>5 DEF Push, history
  <2>2. ASSUME NEW s \in Senders, PollPush(s)
        PROVE TypeOK' /\ ReadersCounted'
    <3>1. CASE PushDropped(s)
      <4>1. scheduled' \in SUBSET Live'
        BY <3>1, OnlyLiveScheduled DEF PushDropped
      <4> QED  BY <3>1, <4>1 DEF PushDropped
    <3>2. CASE PushBlocked(s)
      <4>1. scheduled' \in SUBSET Live'
        BY <3>2, OnlyLiveScheduled DEF PushBlocked
      <4> QED  BY <3>2, <4>1 DEF PushBlocked, history
    <3>3. CASE PushAccepted(s)
      <4>1. scheduled' \in SUBSET Live'
        BY <3>3, OnlyLiveScheduled DEF PushAccepted
      <4> QED  BY <3>3, <4>1 DEF PushAccepted, history
    <3> QED  BY <2>2, <3>1, <3>2, <3>3 DEF PollPush
  <2>3. ASSUME NEW s \in Senders, CancelPush(s)
        PROVE TypeOK' /\ ReadersCounted'
    BY <2>3 DEF CancelPush, Live
  <2>4. ASSUME NEW r \in Readers, NewReader(r)
        PROVE TypeOK' /\ ReadersCounted'
    <3>1. Cardinality(readers \cup {r}) = Cardinality(readers) + 1
      BY <2>0, <2>4, FS_AddElement DEF NewReader
    <3> QED  BY <2>4, <3>1 DEF NewReader, wakers, history, Live
  <2>5. ASSUME NEW r \in Readers, Receive(r)
        PROVE TypeOK' /\ ReadersCounted'
    BY <2>5 DEF Receive, FirstPollDue, history, Live
  <2>6. ASSUME NEW r \in Readers, PollReceive(r)
        PROVE TypeOK' /\ ReadersCounted'
    <3>1. CASE ReceiveReady(r)
      <4>1. scheduled' \in SUBSET Live'
        BY <3>1, OnlyLiveScheduled DEF ReceiveReady
      <4> QED  BY <3>1, <4>1 DEF ReceiveReady, TakePending
    <3>2. CASE ReceiveBlocked(r)
      <4>1. scheduled' \in SUBSET Live'
        BY <3>2, OnlyLiveScheduled DEF ReceiveBlocked
      <4> QED  BY <3>2, <4>1 DEF ReceiveBlocked, history
    <3> QED  BY <2>6, <3>1, <3>2 DEF PollReceive
  <2>7. ASSUME NEW r \in Readers, DropReader(r)
        PROVE TypeOK' /\ ReadersCounted'
    <3>1. /\ Cardinality(readers \ {r}) = Cardinality(readers) - 1
          /\ Cardinality(readers \ {r}) \in Nat
      BY <2>0, <2>7, FS_RemoveElement, FS_CardinalityType DEF DropReader
    <3>2. scheduled' \in SUBSET Live'
      BY <2>7, OnlyLiveScheduled DEF DropReader
    <3>3. pending' \in Items \cup {None} /\ discarded' \in SUBSET Items
      BY <2>7 DEF DropReader, EmptySlotIfLast
    <3> QED  BY <2>7, <3>1, <3>2, <3>3 DEF DropReader
  <2>8. CASE UNCHANGED vars
    BY <2>8 DEF vars, Live
  <2> QED
    BY <2>1, <2>2, <2>3, <2>4, <2>5, <2>6, <2>7, <2>8 DEF Next
<1> QED  BY <1>1, <1>2, PTL DEF Spec

\* The variables always hold values of the Rust types, and the futures due for a
\* poll are alive.
THEOREM TypeCorrect == Spec => []TypeOK
BY TypeAndCount, PTL

\* connect_count is the number of PipeReaders that exist, however connections
\* come and go.
THEOREM CountRight == Spec => []ReadersCounted
BY TypeAndCount, PTL

(***************************************************************************)
(* No lost wake-ups.                                                       *)
(***************************************************************************)

\* What the code maintains about the slot and the two waker slots.
Handover ==
  NothingLeftForNextReader /\ NoLostSenderWakeup /\ NoLostReceiverWakeup

\* Nobody waits unscheduled for the slot to be emptied once the sender's waker
\* has been woken: the tasks of all the others had been woken before.
LEMMA SenderWokenAllScheduled ==
  ASSUME TypeOK, NoLostSenderWakeup, NEW f, NEW woken,
         sender_waker \in woken, PolledAndWoke(f, woken),
         NEW s \in Senders, s # f, push[s] # None, push' = push
  PROVE  s \in scheduled'
BY ConstantsAssumption DEF TypeOK, NoLostSenderWakeup, PolledAndWoke, Live

\* The same for readers, the receiver's waker and the filling of the slot.
LEMMA ReceiverWokenAllScheduled ==
  ASSUME TypeOK, NoLostReceiverWakeup, NEW f, NEW woken,
         receiver_waker \in woken, PolledAndWoke(f, woken),
         NEW r \in receiving', r \in receiving, r # f
  PROVE  r \in scheduled'
BY ConstantsAssumption DEF TypeOK, NoLostReceiverWakeup, PolledAndWoke, Live

\* A future that is due and not the one polled stays due while it lives.
LEMMA StillScheduled ==
  ASSUME NEW f, NEW woken, PolledAndWoke(f, woken),
         NEW g \in scheduled, g # f, g \in Live'
  PROVE  g \in scheduled'
BY DEF PolledAndWoke

\* The three hold together: a sender that waits has the slot full because nothing
\* empties it silently, and the slot is emptied with the last reader.
LEMMA HandoverHolds == Spec => []Handover
<1> USE ConstantsAssumption
<1>1. Init => Handover
  BY DEF Init, Handover, NothingLeftForNextReader, NoLostSenderWakeup,
         NoLostReceiverWakeup
<1>2. TypeOK /\ ReadersCounted /\ ReadersCounted' /\ Handover /\ [Next]_vars
        => Handover'
  <2> SUFFICES ASSUME TypeOK, ReadersCounted, ReadersCounted', Handover,
                      [Next]_vars
               PROVE  Handover'
    OBVIOUS
  <2> USE DEF Handover
  <2>0. /\ IsFiniteSet(readers)
        /\ connect_count = 0 <=> readers = {}
    BY FS_Subset, FS_EmptySet DEF TypeOK, ReadersCounted
  <2>1. ASSUME NEW s \in Senders, Push(s) PROVE Handover'
    <3>1. NothingLeftForNextReader'
      BY <2>1 DEF Push, NothingLeftForNextReader
    <3>2. NoLostSenderWakeup'
      BY <2>1 DEF Push, FirstPollDue, NoLostSenderWakeup, TypeOK
    <3>3. NoLostReceiverWakeup'
      BY <2>1 DEF Push, FirstPollDue, NoLostReceiverWakeup
    <3> QED  BY <3>1, <3>2, <3>3
  <2>2. ASSUME NEW s \in Senders, PushDropped(s) PROVE Handover'
    <3>1. NothingLeftForNextReader'
      BY <2>2 DEF PushDropped, NothingLeftForNextReader
    <3>2. NoLostSenderWakeup'
      <4> SUFFICES ASSUME NEW t \in Senders, push'[t] # None
                   PROVE  t \in scheduled'
        BY DEF NoLostSenderWakeup
      <4>1. t # s /\ push[t] # None /\ t \in Live'
        BY <2>2 DEF PushDropped, TypeOK, Live
      <4>2. t \in scheduled
        BY <2>2, <4>1 DEF PushDropped, NoLostSenderWakeup
      <4> QED  BY <2>2, <4>1, <4>2, StillScheduled DEF PushDropped
    <3>3. NoLostReceiverWakeup'
      <4>1. receiving' = {}
        BY <2>2, <2>0 DEF PushDropped, TypeOK
      <4> QED  BY <4>1 DEF NoLostReceiverWakeup
    <3> QED  BY <3>1, <3>2, <3>3
  <2>3. ASSUME NEW s \in Senders, PushBlocked(s) PROVE Handover'
    <3>1. NothingLeftForNextReader'
      BY <2>3 DEF PushBlocked, NothingLeftForNextReader
    <3>2. NoLostSenderWakeup'
      <4> SUFFICES ASSUME NEW t \in Senders, push'[t] # None,
                          t \notin scheduled'
                   PROVE  TaskOf[t] = TaskOf[s]
        BY <2>3 DEF PushBlocked, NoLostSenderWakeup
      <4> SUFFICES ASSUME t # s PROVE TaskOf[t] = TaskOf[s]
        OBVIOUS
      <4>1. push[t] # None /\ t \in Live'
        BY <2>3 DEF PushBlocked, Live
      <4>2. t \notin scheduled
        BY <2>3, <4>1, StillScheduled DEF PushBlocked
      <4>3. sender_waker = TaskOf[t] /\ TaskOf[t] # None
        BY <4>1, <4>2 DEF NoLostSenderWakeup
      <4>4. TaskOf[t] \notin Displaced(sender_waker, TaskOf[s])
        BY <2>3, <4>1 DEF PushBlocked, PolledAndWoke
      <4> QED  BY <4>3, <4>4 DEF Displaced
    <3>3. NoLostReceiverWakeup'
      <4>1. \A r \in receiving : r # s
        BY DEF TypeOK
      <4> SUFFICES ASSUME NEW r \in receiving' PROVE r \in scheduled'
        BY DEF NoLostReceiverWakeup
      <4> QED
        BY <2>3, <4>1, ReceiverWokenAllScheduled DEF PushBlocked
    <3> QED  BY <3>1, <3>2, <3>3
  <2>4. ASSUME NEW s \in Senders, PushAccepted(s) PROVE Handover'
    <3>1. NothingLeftForNextReader'
      BY <2>4, <2>0 DEF PushAccepted, NothingLeftForNextReader, TypeOK
    <3>2. NoLostSenderWakeup'
      <4> SUFFICES ASSUME NEW t \in Senders, push'[t] # None
                   PROVE  t \in scheduled'
        BY DEF NoLostSenderWakeup
      <4>1. t # s /\ push[t] # None /\ t \in Live'
        BY <2>4 DEF PushAccepted, TypeOK, Live
      <4>2. t \in scheduled
        BY <2>4, <4>1 DEF PushAccepted, NoLostSenderWakeup
      <4> QED  BY <2>4, <4>1, <4>2, StillScheduled DEF PushAccepted
    <3>3. NoLostReceiverWakeup'
      <4>1. \A r \in receiving : r # s
        BY DEF TypeOK
      <4> SUFFICES ASSUME NEW r \in receiving' PROVE r \in scheduled'
        BY DEF NoLostReceiverWakeup
      <4> QED
        BY <2>4, <4>1, ReceiverWokenAllScheduled DEF PushAccepted
    <3> QED  BY <3>1, <3>2, <3>3
  <2>5. ASSUME NEW s \in Senders, CancelPush(s) PROVE Handover'
    <3>1. NothingLeftForNextReader'
      BY <2>5 DEF CancelPush, NothingLeftForNextReader
    <3>2. NoLostSenderWakeup'
      BY <2>5 DEF CancelPush, NoLostSenderWakeup, TypeOK
    <3>3. NoLostReceiverWakeup'
      BY <2>5 DEF CancelPush, NoLostReceiverWakeup, TypeOK
    <3> QED  BY <3>1, <3>2, <3>3
  <2>6. ASSUME NEW r \in Readers, NewReader(r) PROVE Handover'
    <3>1. NothingLeftForNextReader'
      BY <2>6 DEF NewReader, NothingLeftForNextReader
    <3>2. NoLostSenderWakeup'
      BY <2>6 DEF NewReader, NoLostSenderWakeup, TypeOK, wakers
    <3>3. NoLostReceiverWakeup'
      BY <2>6 DEF NewReader, NoLostReceiverWakeup, wakers
    <3> QED  BY <3>1, <3>2, <3>3
  <2>7. ASSUME NEW r \in Readers, Receive(r) PROVE Handover'
    <3>1. NothingLeftForNextReader'
      BY <2>7 DEF Receive, NothingLeftForNextReader
    <3>2. NoLostSenderWakeup'
      BY <2>7 DEF Receive, FirstPollDue, NoLostSenderWakeup
    <3>3. NoLostReceiverWakeup'
      BY <2>7 DEF Receive, FirstPollDue, NoLostReceiverWakeup
    <3> QED  BY <3>1, <3>2, <3>3
  <2>8. ASSUME NEW r \in Readers, ReceiveReady(r) PROVE Handover'
    <3>1. NothingLeftForNextReader'
      BY <2>8 DEF ReceiveReady, TakePending, NothingLeftForNextReader
    <3>2. NoLostSenderWakeup'
      BY <2>8, SenderWokenAllScheduled DEF ReceiveReady, NoLostSenderWakeup
    <3>3. NoLostReceiverWakeup'
      BY <2>8, ReceiverWokenAllScheduled DEF ReceiveReady, NoLostReceiverWakeup
    <3> QED  BY <3>1, <3>2, <3>3
  <2>9. ASSUME NEW r \in Readers, ReceiveBlocked(r) PROVE Handover'
    <3>1. NothingLeftForNextReader'
      BY <2>9 DEF ReceiveBlocked, NothingLeftForNextReader
    <3>2. NoLostSenderWakeup'
      BY <2>9, SenderWokenAllScheduled DEF ReceiveBlocked, NoLostSenderWakeup
    <3>3. NoLostReceiverWakeup'
      <4> SUFFICES ASSUME NEW q \in receiving', q \notin scheduled', q # r
                   PROVE  TaskOf[q] = TaskOf[r]
        BY <2>9 DEF ReceiveBlocked, NoLostReceiverWakeup
      <4>1. q \in receiving /\ q \in Live'
        BY <2>9 DEF ReceiveBlocked, Live
      <4>2. q \notin scheduled
        BY <2>9, <4>1, StillScheduled DEF ReceiveBlocked
      <4>3. receiver_waker = TaskOf[q] /\ TaskOf[q] # None
        BY <4>1, <4>2 DEF NoLostReceiverWakeup, TypeOK
      <4>4. TaskOf[q] \notin Displaced(receiver_waker, TaskOf[r])
        BY <2>9, <4>1 DEF ReceiveBlocked, PolledAndWoke
      <4> QED  BY <4>3, <4>4 DEF Displaced
    <3> QED  BY <3>1, <3>2, <3>3
  <2>10. ASSUME NEW r \in Readers, DropReader(r) PROVE Handover'
    <3>1. NothingLeftForNextReader'
      BY <2>10, FS_EmptySet
      DEF DropReader, EmptySlotIfLast, NothingLeftForNextReader, ReadersCounted
    <3>2. NoLostSenderWakeup'
      BY <2>10, SenderWokenAllScheduled DEF DropReader, NoLostSenderWakeup
    <3>3. NoLostReceiverWakeup'
      <4> SUFFICES ASSUME NEW q \in receiving', q \notin scheduled'
                   PROVE  pending' = None /\ receiver_waker' = TaskOf[q]
        BY DEF NoLostReceiverWakeup
      <4>1. q \in receiving /\ q # r /\ q \in Live'
        BY <2>10 DEF DropReader, Live
      <4>2. q \notin scheduled
        BY <2>10, <4>1, StillScheduled DEF DropReader
      <4> QED
        BY <2>10, <4>1, <4>2
        DEF DropReader, EmptySlotIfLast, NoLostReceiverWakeup
    <3> QED  BY <3>1, <3>2, <3>3
  <2>11. CASE UNCHANGED vars
    BY <2>11 DEF vars, NothingLeftForNextReader, NoLostSenderWakeup,
                 NoLostReceiverWakeup
  <2> QED
    BY <2>1, <2>2, <2>3, <2>4, <2>5, <2>6, <2>7, <2>8, <2>9, <2>10, <2>11
    DEF Next, PollPush, PollReceive
<1> QED  BY <1>1, <1>2, TypeAndCount, PTL DEF Spec

\* The slot is empty while no reader exists: nothing of an earlier connection is
\* waiting for the next one.
THEOREM SlotEmptied == Spec => []NothingLeftForNextReader
BY HandoverHolds, PTL DEF Handover

\* A sender that waits and is not due for a poll will be woken by whatever
\* empties the slot, though all senders share one waker slot.
THEOREM SendersWoken == Spec => []NoLostSenderWakeup
BY HandoverHolds, PTL DEF Handover

\* A reader that waits and is not due for a poll will be woken by the next push.
THEOREM ReadersWoken == Spec => []NoLostReceiverWakeup
BY HandoverHolds, PTL DEF Handover

(***************************************************************************)
(* Order.                                                                  *)
(***************************************************************************)

\* Everything its sender has yet to hand over is newer than item i.
Older(i) ==
  /\ i[2] <= sent[i[1]]
  /\ push[i[1]] # None => i[2] < sent[i[1]]

\* A future holds the newest item of its sender, the slot an older one, and
\* what was received is older than both.
OrderInv ==
  /\ \A s \in Senders : push[s] # None => push[s] = <<s, sent[s]>>
  /\ pending # None => Older(pending)
  /\ \A k \in DOMAIN received :
       /\ Older(received[k])
       /\ pending # None /\ pending[1] = received[k][1]
            => received[k][2] < pending[2]
  /\ ReceivedInOrder

\* The components of an item.
LEMMA ItemParts ==
  ASSUME NEW i \in Items
  PROVE  i[1] \in Senders /\ i[2] \in Nat /\ i # None
BY ConstantsAssumption DEF Items

\* OrderInv holds from the start and every step keeps it.
LEMMA OrderHolds == Spec => []OrderInv
<1> USE ConstantsAssumption
<1>1. Init => OrderInv
  BY DEF Init, OrderInv, ReceivedInOrder
<1>2. TypeOK /\ OrderInv /\ [Next]_vars => OrderInv'
  <2> SUFFICES ASSUME TypeOK, OrderInv, [Next]_vars PROVE OrderInv'
    OBVIOUS
  <2>0. /\ \A s \in Senders : sent[s] \in Nat
        /\ \A k \in DOMAIN received :
             /\ received[k] \in Items
             /\ received[k][1] \in Senders /\ received[k][2] \in Nat
        /\ pending # None => pending[1] \in Senders /\ pending[2] \in Nat
    BY ItemParts DEF TypeOK
  <2>1. ASSUME NEW s \in Senders, Push(s) PROVE OrderInv'
    <3>1. /\ push' = [push EXCEPT ![s] = <<s, sent[s] + 1>>]
          /\ sent' = [sent EXCEPT ![s] = @ + 1]
          /\ push[s] = None
          /\ pending' = pending /\ received' = received
      BY <2>1 DEF Push, history
    <3>2. \A i \in Items : Older(i) => Older(i)'
      BY <2>0, <3>1, ItemParts DEF Older, TypeOK
    <3>3. \A t \in Senders : push'[t] # None => push'[t] = <<t, sent'[t]>>
      BY <3>1 DEF OrderInv, TypeOK
    <3> QED
      BY <2>0, <3>1, <3>2, <3>3 DEF OrderInv, TypeOK, ReceivedInOrder
  <2>2. ASSUME NEW s \in Senders, PushDropped(s) \/ CancelPush(s)
        PROVE  OrderInv'
    <3>1. /\ push' = [push EXCEPT ![s] = None] /\ sent' = sent
          /\ pending' = pending /\ received' = received
      BY <2>2 DEF PushDropped, CancelPush
    <3>2. \A i \in Items : Older(i) => Older(i)'
      BY <3>1, ItemParts DEF Older, TypeOK
    <3>3. \A t \in Senders : push'[t] # None => push'[t] = <<t, sent'[t]>>
      BY <3>1 DEF OrderInv, TypeOK
    <3> QED
      BY <2>0, <3>1, <3>2, <3>3 DEF OrderInv, TypeOK, ReceivedInOrder
  <2>3. ASSUME NEW s \in Senders, PushAccepted(s) PROVE OrderInv'
    <3>1. /\ push' = [push EXCEPT ![s] = None] /\ sent' = sent
          /\ pending = None /\ push[s] # None
          /\ pending' = <<s, sent[s]>> /\ received' = received
      BY <2>3 DEF PushAccepted, OrderInv, history
    <3>2. \A i \in Items : Older(i) => Older(i)'
      BY <3>1, ItemParts DEF Older, TypeOK
    <3>3. \A t \in Senders : push'[t] # None => push'[t] = <<t, sent'[t]>>
      BY <3>1 DEF OrderInv, TypeOK
    <3>4. Older(pending)'
      BY <2>0, <3>1 DEF Older, TypeOK
    <3>5. \A k \in DOMAIN received :
            received[k][1] = s => received[k][2] < sent[s]
      BY <3>1 DEF OrderInv, Older
    <3>6. \A k \in DOMAIN received' :
            /\ Older(received[k])'
            /\ pending'[1] = received'[k][1] => received'[k][2] < pending'[2]
      BY <2>0, <3>1, <3>2, <3>5 DEF OrderInv
    <3>7. ReceivedInOrder'
      BY <3>1 DEF OrderInv, ReceivedInOrder
    <3> QED
      BY <3>1, <3>3, <3>4, <3>6, <3>7 DEF OrderInv
  <2>4. ASSUME NEW r \in Readers, ReceiveReady(r) PROVE OrderInv'
    <3>1. /\ push' = push /\ sent' = sent /\ pending # None
          /\ pending' = None /\ received' = Append(received, pending)
          /\ received \in Seq(Items) /\ pending \in Items
      BY <2>4 DEF ReceiveReady, TakePending, TypeOK
    <3>2. /\ DOMAIN received' = 1 .. Len(received) + 1
          /\ DOMAIN received = 1 .. Len(received) /\ Len(received) \in Nat
          /\ received'[Len(received) + 1] = pending
          /\ \A k \in DOMAIN received : received'[k] = received[k]
      BY <3>1
    <3>3. \A k \in DOMAIN received' : Older(received'[k])
      BY <3>1, <3>2 DEF OrderInv
    <3>4. \A k \in DOMAIN received' : Older(received[k])'
      BY <3>1, <3>3 DEF Older
    <3>5. ReceivedInOrder'
      <4> SUFFICES ASSUME NEW j \in DOMAIN received', NEW k \in DOMAIN received',
                          j < k, received'[j][1] = received'[k][1]
                   PROVE  received'[j][2] < received'[k][2]
        BY DEF ReceivedInOrder
      <4>1. j \in DOMAIN received
        BY <3>2
      <4>2. CASE k \in DOMAIN received
        BY <3>2, <4>1, <4>2 DEF OrderInv, ReceivedInOrder
      <4>3. CASE k = Len(received) + 1
        BY <3>1, <3>2, <4>1, <4>3 DEF OrderInv
      <4> QED  BY <3>2, <4>2, <4>3
    <3> QED  BY <3>1, <3>4, <3>5 DEF OrderInv
  <2>5. ASSUME NEW r \in Readers, DropReader(r) PROVE OrderInv'
    <3>1. /\ push' = push /\ sent' = sent /\ received' = received
          /\ pending' \in {pending, None}
      BY <2>5 DEF DropReader, EmptySlotIfLast
    <3> QED  BY <3>1 DEF OrderInv, Older, ReceivedInOrder
  <2>6. CASE UNCHANGED <<push, sent, pending, received>>
    BY <2>6 DEF OrderInv, Older, ReceivedInOrder
  <2>7. ASSUME NEW s \in Senders, PushBlocked(s) PROVE OrderInv'
    BY <2>6, <2>7 DEF PushBlocked, history
  <2>8. ASSUME NEW r \in Readers, NewReader(r) \/ Receive(r) \/ ReceiveBlocked(r)
        PROVE  OrderInv'
    BY <2>6, <2>8 DEF NewReader, Receive, ReceiveBlocked, history
  <2>9. CASE UNCHANGED vars
    BY <2>6, <2>9 DEF vars
  <2> QED
    BY <2>1, <2>2, <2>3, <2>4, <2>5, <2>7, <2>8, <2>9
    DEF Next, PollPush, PollReceive
<1> QED  BY <1>1, <1>2, TypeAndCount, PTL DEF Spec

\* Whatever the polls and cancellations in between, the items of one sender
\* come out of the pipe in the order in which it pushed them.
THEOREM InOrder == Spec => []ReceivedInOrder
<1>1. OrderInv => ReceivedInOrder
  BY DEF OrderInv
<1> QED  BY <1>1, OrderHolds, PTL

(***************************************************************************)
(* Nothing vanishes or is doubled.                                         *)
(***************************************************************************)

\* At most one of the places holds the item.
InAtMostOne(i) ==
  /\ InPush(i)  => ~InSlot(i) /\ ~Arrived(i) /\ i \notin discarded /\ i \notin withdrawn
  /\ InSlot(i)  => ~Arrived(i) /\ i \notin discarded /\ i \notin withdrawn
  /\ Arrived(i) => i \notin discarded /\ i \notin withdrawn
  /\ i \in discarded => i \notin withdrawn

Somewhere(i) ==
  InPush(i) \/ InSlot(i) \/ Arrived(i) \/ i \in discarded \/ i \in withdrawn

\* An item is in one place from its push on, and nowhere before.
PlacesInv ==
  \A i \in Items : InAtMostOne(i) /\ (Somewhere(i) <=> i[2] <= sent[i[1]])

\* The item of a future that ends leaves the futures, and no other does.
LEMMA LeavesPush ==
  ASSUME TypeOK, OrderInv, NEW s \in Senders, push[s] # None,
         push' = [push EXCEPT ![s] = None], NEW i \in Items
  PROVE  InPush(i)' <=> InPush(i) /\ i # push[s]
<1>0. None \notin Items
  BY ConstantsAssumption
<1>1. ASSUME NEW t \in Senders, push[t] = push[s] PROVE t = s
  <2>1. push[t] = <<t, sent[t]>> /\ push[s] = <<s, sent[s]>>
    BY <1>1 DEF OrderInv
  <2>2. push[t][1] = t /\ push[s][1] = s
    BY <2>1
  <2> QED  BY <1>1, <2>2
<1>2. ASSUME InPush(i)' PROVE InPush(i) /\ i # push[s]
  <2>1. PICK t \in Senders : push'[t] = i
    BY <1>2 DEF InPush
  <2>2. t # s /\ push[t] = i
    BY <1>0, <2>1 DEF TypeOK
  <2> QED  BY <1>1, <2>2 DEF InPush
<1>3. ASSUME InPush(i), i # push[s] PROVE InPush(i)'
  <2>1. PICK t \in Senders : push[t] = i
    BY <1>3 DEF InPush
  <2>2. push'[t] = i
    BY <1>3, <2>1 DEF TypeOK
  <2> QED  BY <2>2 DEF InPush
<1> QED  BY <1>2, <1>3

\* As many places as there are true ones of five.
LEMMA Counting ==
  ASSUME NEW a \in BOOLEAN, NEW b \in BOOLEAN, NEW c \in BOOLEAN, NEW d \in BOOLEAN,
         NEW e \in BOOLEAN,
         a => ~b /\ ~c /\ ~d /\ ~e, b => ~c /\ ~d /\ ~e, c => ~d /\ ~e, d => ~e
  PROVE  Cardinality({p \in 1 .. 5 : <<a, b, c, d, e>>[p]})
           = IF a \/ b \/ c \/ d \/ e THEN 1 ELSE 0
<1> DEFINE places == {p \in 1 .. 5 : <<a, b, c, d, e>>[p]}
<1>1. /\ 1 \in places <=> a
      /\ 2 \in places <=> b
      /\ 3 \in places <=> c
      /\ 4 \in places <=> d
      /\ 5 \in places <=> e
  OBVIOUS
<1>2. \A p \in places : p \in {1, 2, 3, 4, 5}
  OBVIOUS
<1> HIDE DEF places
<1>3. CASE a \/ b \/ c \/ d \/ e
  <2>1. \E p \in {1, 2, 3, 4, 5} : places = {p}
    BY <1>1, <1>2, <1>3
  <2> QED  BY <1>3, <2>1, FS_Singleton DEF places
<1>4. CASE ~(a \/ b \/ c \/ d \/ e)
  <2>1. places = {}
    BY <1>1, <1>2, <1>4
  <2> QED  BY <1>4, <2>1, FS_EmptySet DEF places
<1> QED  BY <1>3, <1>4

\* Every packet handed to the pipe waits in its future, is in the slot, was
\* received, dropped for want of a connection or withdrawn, and is in one of
\* these places only.
THEOREM NothingVanishes == Spec => []EveryItemInOnePlace
<1> USE ConstantsAssumption
<1>1. Init => PlacesInv
  <2> SUFFICES ASSUME Init, NEW i \in Items PROVE InAtMostOne(i) /\ ~Somewhere(i) /\ sent[i[1]] = 0
    BY ItemParts DEF PlacesInv, Items
  <2>1. ~InPush(i) /\ ~InSlot(i) /\ ~Arrived(i) /\ i \notin discarded /\ i \notin withdrawn
    BY DEF Init, InPush, InSlot, Arrived
  <2> QED  BY <2>1, ItemParts DEF Init, InAtMostOne, Somewhere
<1>2. TypeOK /\ OrderInv /\ PlacesInv /\ [Next]_vars => PlacesInv'
  <2> SUFFICES ASSUME TypeOK, OrderInv, PlacesInv, [Next]_vars, NEW i \in Items
               PROVE  InAtMostOne(i)' /\ (Somewhere(i)' <=> i[2] <= sent'[i[1]])
    BY DEF PlacesInv, Items
  <2>0. InAtMostOne(i) /\ (Somewhere(i) <=> i[2] <= sent[i[1]])
    BY DEF PlacesInv
  <2>a. i # None /\ i[1] \in Senders /\ i[2] \in Nat
    BY ItemParts
  <2> USE DEF InAtMostOne, Somewhere
  <2>1. ASSUME NEW s \in Senders, Push(s)
        PROVE  InAtMostOne(i)' /\ (Somewhere(i)' <=> i[2] <= sent'[i[1]])
    <3>1. /\ push[s] = None /\ push' = [push EXCEPT ![s] = <<s, sent[s] + 1>>]
          /\ sent' = [sent EXCEPT ![s] = @ + 1]
          /\ UNCHANGED <<pending, received, discarded, withdrawn>>
      BY <2>1 DEF Push, history
    <3>2. InPush(i)' <=> InPush(i) \/ i = <<s, sent[s] + 1>>
      <4>1. push' \in [Senders -> Items \cup {None, <<s, sent[s] + 1>>}]
            /\ push'[s] = <<s, sent[s] + 1>>
            /\ \A t \in Senders : t # s => push'[t] = push[t]
        BY <3>1 DEF TypeOK
      <4> QED  BY <2>a, <3>1, <4>1 DEF InPush
    <3>3. (InSlot(i)' <=> InSlot(i)) /\ (Arrived(i)' <=> Arrived(i))
      BY <3>1 DEF InSlot, Arrived
    <3>4. CASE i = <<s, sent[s] + 1>>
      <4>1. i[1] = s /\ i[2] = sent[s] + 1 /\ sent'[s] = sent[s] + 1 /\ sent[s] \in Nat
        BY <3>1, <3>4 DEF TypeOK
      <4>2. ~Somewhere(i)
        BY <2>0, <4>1
      <4>3. i[2] <= sent'[i[1]]
        BY <4>1
      <4> QED  BY <3>1, <3>2, <3>3, <3>4, <4>2, <4>3
    <3>5. CASE i # <<s, sent[s] + 1>>
      <4>1. i[2] <= sent'[i[1]] <=> i[2] <= sent[i[1]]
        <5>1. CASE i[1] = s
          <6>1. i = <<i[1], i[2]>>
            BY DEF Items
          <6>2. i[2] # sent[s] + 1
            BY <3>5, <5>1, <6>1
          <6> QED  BY <2>a, <3>1, <5>1, <6>2 DEF TypeOK
        <5>2. CASE i[1] # s
          BY <2>a, <3>1, <5>2 DEF TypeOK
        <5> QED  BY <5>1, <5>2
      <4> QED  BY <2>0, <3>1, <3>2, <3>3, <3>5, <4>1
    <3> QED  BY <3>4, <3>5
  <2>2. ASSUME NEW s \in Senders, PushDropped(s)
        PROVE  InAtMostOne(i)' /\ (Somewhere(i)' <=> i[2] <= sent'[i[1]])
    <3>1. /\ push[s] # None /\ push' = [push EXCEPT ![s] = None]
          /\ discarded' = discarded \cup {push[s]}
          /\ UNCHANGED <<pending, received, sent, withdrawn>>
      BY <2>2 DEF PushDropped
    <3>2. InPush(i)' <=> InPush(i) /\ i # push[s]
      BY <3>1, LeavesPush
    <3>3. (InSlot(i)' <=> InSlot(i)) /\ (Arrived(i)' <=> Arrived(i))
      BY <3>1 DEF InSlot, Arrived
    <3>4. i = push[s] => InPush(i)
      BY DEF InPush
    <3> QED  BY <2>0, <3>1, <3>2, <3>3, <3>4
  <2>3. ASSUME NEW s \in Senders, PushAccepted(s)
        PROVE  InAtMostOne(i)' /\ (Somewhere(i)' <=> i[2] <= sent'[i[1]])
    <3>1. /\ push[s] # None /\ push' = [push EXCEPT ![s] = None]
          /\ pending = None /\ pending' = push[s]
          /\ UNCHANGED <<received, sent, discarded, withdrawn>>
      BY <2>3 DEF PushAccepted, history
    <3>2. InPush(i)' <=> InPush(i) /\ i # push[s]
      BY <3>1, LeavesPush
    <3>3. ~InSlot(i) /\ (InSlot(i)' <=> i = push[s]) /\ (Arrived(i)' <=> Arrived(i))
      BY <2>a, <3>1 DEF InSlot, Arrived
    <3>4. i = push[s] => InPush(i)
      BY DEF InPush
    <3> QED  BY <2>0, <3>1, <3>2, <3>3, <3>4
  <2>4. ASSUME NEW s \in Senders, CancelPush(s)
        PROVE  InAtMostOne(i)' /\ (Somewhere(i)' <=> i[2] <= sent'[i[1]])
    <3>1. /\ push[s] # None /\ push' = [push EXCEPT ![s] = None]
          /\ withdrawn' = withdrawn \cup {push[s]}
          /\ UNCHANGED <<pending, received, sent, discarded>>
      BY <2>4 DEF CancelPush
    <3>2. InPush(i)' <=> InPush(i) /\ i # push[s]
      BY <3>1, LeavesPush
    <3>3. (InSlot(i)' <=> InSlot(i)) /\ (Arrived(i)' <=> Arrived(i))
      BY <3>1 DEF InSlot, Arrived
    <3>4. i = push[s] => InPush(i)
      BY DEF InPush
    <3> QED  BY <2>0, <3>1, <3>2, <3>3, <3>4
  <2>5. ASSUME NEW r \in Readers, ReceiveReady(r)
        PROVE  InAtMostOne(i)' /\ (Somewhere(i)' <=> i[2] <= sent'[i[1]])
    <3>1. /\ pending' = None /\ received' = Append(received, pending)
          /\ received \in Seq(Items) /\ pending \in Items
          /\ UNCHANGED <<push, sent, discarded, withdrawn>>
      BY <2>5 DEF ReceiveReady, TakePending, TypeOK
    <3>2. /\ Len(received) \in Nat /\ DOMAIN received = 1 .. Len(received)
          /\ DOMAIN received' = 1 .. Len(received) + 1
          /\ received'[Len(received) + 1] = pending
          /\ \A k \in DOMAIN received : received'[k] = received[k]
      BY <3>1
    <3>3. Arrived(i)' => Arrived(i) \/ InSlot(i)
      <4> SUFFICES ASSUME NEW k \in DOMAIN received', received'[k] = i
                   PROVE  Arrived(i) \/ InSlot(i)
        BY DEF Arrived
      <4>1. CASE k = Len(received) + 1
        BY <3>2, <4>1 DEF InSlot
      <4>2. CASE k \in DOMAIN received
        BY <3>2, <4>2 DEF Arrived
      <4> QED  BY <3>2, <4>1, <4>2
    <3>4. Arrived(i) => Arrived(i)'
      BY <3>2 DEF Arrived
    <3>5. InSlot(i) => Arrived(i)'
      <4>1. Len(received) + 1 \in DOMAIN received'
        BY <3>2
      <4> QED  BY <3>2, <4>1 DEF Arrived, InSlot
    <3>6. ~InSlot(i)' /\ (InPush(i)' <=> InPush(i))
      BY <2>a, <3>1 DEF InSlot, InPush
    <3> QED  BY <2>0, <3>1, <3>3, <3>4, <3>5, <3>6
  <2>6. ASSUME NEW r \in Readers, DropReader(r)
        PROVE  InAtMostOne(i)' /\ (Somewhere(i)' <=> i[2] <= sent'[i[1]])
    <3>1. /\ \/ pending' = None /\ discarded' = discarded \cup ({pending} \ {None})
             \/ UNCHANGED <<pending, discarded>>
          /\ UNCHANGED <<push, sent, received, withdrawn>>
      BY <2>6 DEF DropReader, EmptySlotIfLast
    <3>2. (InPush(i)' <=> InPush(i)) /\ (Arrived(i)' <=> Arrived(i))
      BY <3>1 DEF InPush, Arrived
    <3>3. \/ ~InSlot(i)' /\ (i \in discarded' <=> i \in discarded \/ InSlot(i))
          \/ (InSlot(i)' <=> InSlot(i)) /\ discarded' = discarded
      BY <2>a, <3>1 DEF InSlot
    <3> QED  BY <2>0, <3>1, <3>2, <3>3
  <2>7. CASE UNCHANGED <<push, sent, pending, received, discarded, withdrawn>>
    BY <2>0, <2>7 DEF InPush, InSlot, Arrived
  <2>8. ASSUME NEW s \in Senders, PushBlocked(s)
        PROVE  UNCHANGED <<push, sent, pending, received, discarded, withdrawn>>
    BY <2>8 DEF PushBlocked, history
  <2>9. ASSUME NEW r \in Readers, NewReader(r) \/ Receive(r) \/ ReceiveBlocked(r)
        PROVE  UNCHANGED <<push, sent, pending, received, discarded, withdrawn>>
    BY <2>9 DEF NewReader, Receive, ReceiveBlocked, history
  <2>10. CASE UNCHANGED vars
    BY <2>7, <2>10 DEF vars
  <2> QED
    BY <2>1, <2>2, <2>3, <2>4, <2>5, <2>6, <2>7, <2>8, <2>9, <2>10
    DEF Next, PollPush, PollReceive
<1>3. PlacesInv => EveryItemInOnePlace
  <2> SUFFICES ASSUME PlacesInv, NEW s \in Senders, NEW n \in 1 .. MaxPush
               PROVE  Cardinality({p \in 1 .. 5 :
                        <<InPush(<<s, n>>), InSlot(<<s, n>>), Arrived(<<s, n>>),
                          <<s, n>> \in discarded, <<s, n>> \in withdrawn>>[p]})
                        = IF n <= sent[s] THEN 1 ELSE 0
    BY DEF EveryItemInOnePlace
  <2> DEFINE a == InPush(<<s, n>>)
             b == InSlot(<<s, n>>)
             c == Arrived(<<s, n>>)
             d == <<s, n>> \in discarded
             e == <<s, n>> \in withdrawn
  <2>1. <<s, n>> \in Items
    BY DEF Items
  <2>2. InAtMostOne(<<s, n>>) /\ (Somewhere(<<s, n>>) <=> n <= sent[s])
    BY <2>1 DEF PlacesInv
  <2>3. a \in BOOLEAN /\ b \in BOOLEAN /\ c \in BOOLEAN /\ d \in BOOLEAN /\ e \in BOOLEAN
    BY DEF InPush, InSlot, Arrived
  <2>4. /\ a => ~b /\ ~c /\ ~d /\ ~e
        /\ b => ~c /\ ~d /\ ~e
        /\ c => ~d /\ ~e
        /\ d => ~e
    BY <2>2 DEF InAtMostOne
  <2>5. a \/ b \/ c \/ d \/ e <=> n <= sent[s]
    BY <2>2 DEF Somewhere
  <2> HIDE DEF a, b, c, d, e
  <2>6. Cardinality({p \in 1 .. 5 : <<a, b, c, d, e>>[p]})
          = IF a \/ b \/ c \/ d \/ e THEN 1 ELSE 0
    BY <2>3, <2>4, Counting
  <2>7. Cardinality({p \in 1 .. 5 : <<a, b, c, d, e>>[p]}) = IF n <= sent[s] THEN 1 ELSE 0
    <3>1. CASE n <= sent[s]
      BY <2>5, <2>6, <3>1
    <3>2. CASE ~(n <= sent[s])
      BY <2>5, <2>6, <3>2
    <3> QED  BY <3>1, <3>2
  <2> QED  BY <2>7 DEF a, b, c, d, e
<1> QED  BY <1>1, <1>2, <1>3, TypeAndCount, OrderHolds, PTL DEF Spec

(***************************************************************************)
(* The pipe implements its abstract specification.                         *)
(***************************************************************************)

\* Forgetting wakers, tasks and polls, every step of the pipe is one that
\* DroppingPipe allows: in particular it drops what is pushed only while no
\* reader is connected.
THEOREM Implements == Spec => Pipe!SafeSpec
<1>1. Init => Pipe!Init
  BY DEF Init, Pipe!Init
<1>2. TypeOK /\ ReadersCounted /\ [Next]_vars => [Pipe!Next]_(Pipe!absvars)
  <2> SUFFICES ASSUME TypeOK, ReadersCounted, [Next]_vars
               PROVE  [Pipe!Next]_(Pipe!absvars)
    OBVIOUS
  <2>0. connect_count = 0 <=> readers = {}
    BY ConstantsAssumption, FS_Subset, FS_EmptySet DEF TypeOK, ReadersCounted
  <2>1. ASSUME NEW s \in Senders, Push(s) PROVE Pipe!Offer(s)
    BY <2>1 DEF Push, Pipe!Offer, history
  <2>2. ASSUME NEW s \in Senders, PushDropped(s) PROVE Pipe!Drop(s)
    BY <2>0, <2>2 DEF PushDropped, Pipe!Drop
  <2>3. ASSUME NEW s \in Senders, PushBlocked(s)
        PROVE  UNCHANGED Pipe!absvars
    BY <2>3 DEF PushBlocked, Pipe!absvars, history
  <2>4. ASSUME NEW s \in Senders, PushAccepted(s) PROVE Pipe!Accept(s)
    BY <2>0, <2>4 DEF PushAccepted, Pipe!Accept, history, TypeOK
  <2>5. ASSUME NEW s \in Senders, CancelPush(s) PROVE Pipe!Withdraw(s)
    BY <2>5 DEF CancelPush, Pipe!Withdraw
  <2>6. ASSUME NEW r \in Readers, NewReader(r) PROVE Pipe!Connect(r)
    BY <2>6 DEF NewReader, Pipe!Connect, history
  <2>7. ASSUME NEW r \in Readers, Receive(r) PROVE Pipe!Ask(r)
    BY <2>7 DEF Receive, Pipe!Ask, history
  <2>8. ASSUME NEW r \in Readers, ReceiveReady(r) PROVE Pipe!Deliver(r)
    BY <2>8 DEF ReceiveReady, TakePending, Pipe!Deliver
  <2>9. ASSUME NEW r \in Readers, ReceiveBlocked(r)
        PROVE  UNCHANGED Pipe!absvars
    BY <2>9 DEF ReceiveBlocked, Pipe!absvars, history
  <2>10. ASSUME NEW r \in Readers, DropReader(r) PROVE Pipe!Disconnect(r)
    <3>1. connect_count' = 0 <=> readers' = {}
      <4>1. IsFiniteSet(readers) /\ IsFiniteSet(readers \ {r})
        BY ConstantsAssumption, FS_Subset DEF TypeOK
      <4>2. Cardinality(readers \ {r}) = Cardinality(readers) - 1
        BY <2>10, <4>1, FS_RemoveElement DEF DropReader
      <4> QED
        BY <2>10, <4>1, <4>2, FS_EmptySet DEF DropReader, ReadersCounted
    <3> QED  BY <2>10, <3>1 DEF DropReader, EmptySlotIfLast, Pipe!Disconnect
  <2>11. CASE UNCHANGED vars
    BY <2>11 DEF vars, Pipe!absvars
  <2> QED
    BY <2>1, <2>2, <2>3, <2>4, <2>5, <2>6, <2>7, <2>8, <2>9, <2>10, <2>11
    DEF Next, PollPush, PollReceive, Pipe!Next
<1> QED  BY <1>1, <1>2, TypeAndCount, PTL DEF Spec, Pipe!SafeSpec

(***************************************************************************)
(* What the abstract specification promises McutieTask.                    *)
(***************************************************************************)

\* Who offers an item, and who waits for one.
Offers ==
  /\ push \in [Senders -> Items \cup {None}]
  /\ sent \in [Senders -> 0 .. MaxPush]
  /\ receiving \subseteq readers

\* Every step of DroppingPipe is one of the slot that McutieTask has, or none: an offer
\* changes nothing before it is accepted, and what is dropped was never in the slot.
THEOREM DroppingPipeIsSendQueue == Pipe!SafeSpec => Pipe!ImplementsSendQueue
<1>1. Pipe!Init => Offers /\ Pipe!Queue!Init
  BY ConstantsAssumption DEF Pipe!Init, Pipe!Queue!Init, Offers
<1>2. Offers /\ [Pipe!Next]_Pipe!absvars => Offers' /\ [Pipe!Queue!Next]_Pipe!Queue!queue
  <2> SUFFICES ASSUME Offers, [Pipe!Next]_Pipe!absvars
               PROVE  Offers' /\ [Pipe!Queue!Next]_Pipe!Queue!queue
    OBVIOUS
  <2> DEFINE Same == UNCHANGED Pipe!Queue!queue
  <2> USE DEF Offers, Pipe!Queue!queue
  <2>1. ASSUME NEW s \in Senders, Pipe!Offer(s) PROVE Offers' /\ Same
    <3>1. sent[s] + 1 \in 1 .. MaxPush
      BY <2>1, ConstantsAssumption DEF Pipe!Offer
    <3>2. <<s, sent[s] + 1>> \in Items
      BY <3>1 DEF Items
    <3> QED  BY <2>1, <3>1, <3>2 DEF Pipe!Offer
  <2>2. ASSUME NEW s \in Senders, Pipe!Accept(s)
        PROVE  Offers' /\ \E packet \in Items : Pipe!Queue!Put(packet)
    <3>1. push[s] \in Items
      BY <2>2 DEF Pipe!Accept
    <3>2. Pipe!Queue!Put(push[s])
      BY <2>2 DEF Pipe!Accept, Pipe!Queue!Put
    <3> QED  BY <2>2, <3>1, <3>2 DEF Pipe!Accept
  <2>3. ASSUME NEW s \in Senders, Pipe!Drop(s) \/ Pipe!Withdraw(s)
        PROVE  Offers' /\ Same
    BY <2>3 DEF Pipe!Drop, Pipe!Withdraw
  <2>4. ASSUME NEW r \in Readers, Pipe!Connect(r)
        PROVE  Offers' /\ (Same \/ Pipe!Queue!Open)
    <3>1. readers' # {} /\ pending' = pending
      BY <2>4 DEF Pipe!Connect
    <3>2. CASE readers = {}
      BY <2>4, <3>1, <3>2 DEF Pipe!Connect, Pipe!Queue!Open
    <3>3. CASE readers # {}
      BY <2>4, <3>1, <3>3 DEF Pipe!Connect
    <3> QED  BY <3>2, <3>3
  <2>5. ASSUME NEW r \in Readers, Pipe!Ask(r) PROVE Offers' /\ Same
    BY <2>5 DEF Pipe!Ask
  <2>6. ASSUME NEW r \in Readers, Pipe!Deliver(r) PROVE Offers' /\ Pipe!Queue!Take
    BY <2>6 DEF Pipe!Deliver, Pipe!Queue!Take
  <2>7. ASSUME NEW r \in Readers, Pipe!Disconnect(r)
        PROVE  Offers' /\ (Same \/ Pipe!Queue!Close)
    <3>1. readers # {}
      BY <2>7 DEF Pipe!Disconnect
    <3>2. CASE readers' = {}
      BY <2>7, <3>1, <3>2 DEF Pipe!Disconnect, Pipe!Queue!Close
    <3>3. CASE readers' # {}
      BY <2>7, <3>1, <3>3 DEF Pipe!Disconnect
    <3> QED  BY <3>2, <3>3
  <2>8. CASE UNCHANGED Pipe!absvars
    BY <2>8 DEF Pipe!absvars
  <2> HIDE DEF Offers, Pipe!Queue!queue
  <2> QED
    BY <2>1, <2>2, <2>3, <2>4, <2>5, <2>6, <2>7, <2>8
    DEF Pipe!Next, Pipe!Queue!Next, Items
<1> QED  BY <1>1, <1>2, PTL DEF Pipe!SafeSpec, Pipe!ImplementsSendQueue, Pipe!Queue!Spec

\* So the pipe with its wakers, polls and tasks is to McutieTask what its slot says.
THEOREM PipeIsSendQueue == Spec => Pipe!ImplementsSendQueue
BY Implements, DroppingPipeIsSendQueue
=============================================================================
