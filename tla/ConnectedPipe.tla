--------------------------- MODULE ConnectedPipe ----------------------------
(***************************************************************************)
(* The one-slot pipe between everything that sends packets and the write   *)
(* loop (src/src/pipe.rs).  Each poll runs under the pipe's mutex and is   *)
(* one action.  A waker stands for the task it wakes: futures that live in *)
(* one task (the ping loop, the receive loop and the write loop of         *)
(* McutieTask::run) have equal wakers, and waking the task makes the       *)
(* executor poll all of them.                                              *)
(***************************************************************************)
EXTENDS Naturals, FiniteSets, Sequences

CONSTANTS
  Senders,   \* the places that push: each has at most one PushFuture alive
  Readers,   \* the places that read: each has at most one PipeReader alive
  Tasks,     \* the tasks of the executor
  TaskOf,    \* the task each sender and each reader runs in
  MaxPush,   \* how many items one sender pushes (bound)
  None       \* Rust's None

Items == Senders \X (1 .. MaxPush)

ASSUME ConstantsAssumption ==
  /\ IsFiniteSet(Readers)
  /\ Senders \cap Readers = {}
  /\ TaskOf \in [Senders \cup Readers -> Tasks]
  /\ MaxPush \in Nat
  /\ None \notin Tasks \cup Items

VARIABLES
  connect_count, receiver_waker, sender_waker, pending,   \* PipeData
  readers,     \* the PipeReaders that exist
  receiving,   \* the readers whose ReceiveFuture is alive
  push,        \* push[s]: the data of s's live PushFuture, or None
  scheduled,   \* the live futures whose task has been woken since their poll
  sent,        \* sent[s]: how many items s has pushed: the n-th is <<s, n>>
  received,    \* history: the items that ReceiveFutures returned
  discarded,   \* history: the items the pipe dropped
  withdrawn    \* history: the items whose PushFuture was dropped unfinished

wakers == <<receiver_waker, sender_waker, scheduled>>
history == <<received, discarded, withdrawn>>
vars == <<connect_count, receiver_waker, sender_waker, pending, readers,
          receiving, push, scheduled, sent, received, discarded, withdrawn>>

\* The futures that are alive and not yet ready.
Live == {s \in Senders : push[s] # None} \cup receiving

\* The poll of f is over and the given wakers have been woken: the futures of
\* their tasks are due, f itself only if its own task is among them.
PolledAndWoke(f, woken) ==
  scheduled' = ((scheduled \ {f}) \cup {g \in Live' : TaskOf[g] \in woken})
               \cap Live'

\* A new future: the caller awaits it, so its first poll is due.
FirstPollDue(f) == scheduled' = scheduled \cup {f}

\* Mutant of Displaced: the displaced waker is forgotten.
DisplacedForgotten(slot, new_waker) == {}

\* swap_wakers leaves new_waker in the slot and wakes the waker it displaces,
\* unless that one would wake the same task.
Displaced(slot, new_waker) == {slot} \ {None, new_waker}

Init ==
  /\ connect_count = 0 /\ pending = None
  /\ receiver_waker = None /\ sender_waker = None
  /\ readers = {} /\ receiving = {} /\ scheduled = {}
  /\ push = [s \in Senders |-> None]
  /\ sent = [s \in Senders |-> 0]
  /\ received = << >> /\ discarded = {} /\ withdrawn = {}

-----------------------------------------------------------------------------
(* Senders *)

\* push() makes the future; it does nothing until it is polled.
Push(s) ==
  /\ push[s] = None /\ sent[s] < MaxPush
  /\ sent' = [sent EXCEPT ![s] = @ + 1]
  /\ push' = [push EXCEPT ![s] = <<s, sent[s] + 1>>]
  /\ FirstPollDue(s)
  /\ UNCHANGED <<connect_count, receiver_waker, sender_waker, pending, readers,
                 receiving, history>>

\* PushFuture::poll: nobody is connected, the packet is dropped.
PushDropped(s) ==
  /\ push[s] # None /\ connect_count = 0
  /\ push' = [push EXCEPT ![s] = None]
  /\ discarded' = discarded \cup {push[s]}
  /\ receiver_waker' = None
  /\ UNCHANGED <<connect_count, sender_waker, pending, readers, receiving, sent,
                 received, withdrawn>>
  /\ PolledAndWoke(s, {receiver_waker})

\* PushFuture::poll: the slot is taken, wait for the receiver to empty it.
PushBlocked(s) ==
  /\ push[s] # None /\ connect_count > 0 /\ pending # None
  /\ receiver_waker' = None
  /\ sender_waker' = TaskOf[s]
  /\ UNCHANGED <<connect_count, pending, readers, receiving, push, sent, history>>
  /\ PolledAndWoke(s, {receiver_waker} \cup Displaced(sender_waker, TaskOf[s]))

\* Mutant of PushAccepted: the receiver is not woken.
PushAcceptedSilently(s) ==
  /\ push[s] # None /\ connect_count > 0 /\ pending = None
  /\ pending' = push[s]
  /\ push' = [push EXCEPT ![s] = None]
  /\ scheduled' = scheduled \ {s}
  /\ UNCHANGED <<connect_count, receiver_waker, sender_waker, readers, receiving,
                 sent, history>>

\* Mutant of PushAccepted: the item in the slot is overwritten.
PushOverwrites(s) ==
  /\ push[s] # None /\ connect_count > 0
  /\ pending' = push[s]
  /\ push' = [push EXCEPT ![s] = None]
  /\ receiver_waker' = None
  /\ UNCHANGED <<connect_count, sender_waker, readers, receiving, sent, history>>
  /\ PolledAndWoke(s, {receiver_waker})

\* PushFuture::poll: the slot is free.
PushAccepted(s) ==
  /\ push[s] # None /\ connect_count > 0 /\ pending = None
  /\ pending' = push[s]
  /\ push' = [push EXCEPT ![s] = None]
  /\ receiver_waker' = None
  /\ UNCHANGED <<connect_count, sender_waker, readers, receiving, sent, history>>
  /\ PolledAndWoke(s, {receiver_waker})

PollPush(s) == PushDropped(s) \/ PushBlocked(s) \/ PushAccepted(s)

\* The future is dropped before it is ready: the select4 of run() ended, or an
\* application stopped waiting.  PushFuture has no Drop: its waker stays.
CancelPush(s) ==
  /\ push[s] # None
  /\ withdrawn' = withdrawn \cup {push[s]}
  /\ push' = [push EXCEPT ![s] = None]
  /\ scheduled' = scheduled \ {s}
  /\ UNCHANGED <<connect_count, receiver_waker, sender_waker, pending, readers,
                 receiving, sent, received, discarded>>

-----------------------------------------------------------------------------
(* Readers *)

\* Mutant of NewReader: the reader is not counted.
NewReaderUncounted(r) ==
  /\ r \notin readers
  /\ readers' = readers \cup {r}
  /\ UNCHANGED <<connect_count, pending, receiving, push, sent, wakers, history>>

\* ConnectedPipe::reader
NewReader(r) ==
  /\ r \notin readers
  /\ connect_count' = connect_count + 1
  /\ readers' = readers \cup {r}
  /\ UNCHANGED <<pending, receiving, push, sent, wakers, history>>

\* PipeReader::receive
Receive(r) ==
  /\ r \in readers \ receiving
  /\ receiving' = receiving \cup {r}
  /\ FirstPollDue(r)
  /\ UNCHANGED <<connect_count, receiver_waker, sender_waker, pending, readers,
                 push, sent, history>>

\* Mutant of TakePending: the item is copied, not taken.
CopyPending == pending' = pending

\* inner.pending.take()
TakePending == pending' = None

\* ReceiveFuture::poll: an item is there.
ReceiveReady(r) ==
  /\ r \in receiving /\ pending # None
  /\ received' = Append(received, pending)
  /\ TakePending
  /\ receiving' = receiving \ {r}
  /\ sender_waker' = None /\ receiver_waker' = None
  /\ UNCHANGED <<connect_count, readers, push, sent, discarded, withdrawn>>
  /\ PolledAndWoke(r, {sender_waker, receiver_waker})

\* ReceiveFuture::poll: nothing yet.
ReceiveBlocked(r) ==
  /\ r \in receiving /\ pending = None
  /\ sender_waker' = None
  /\ receiver_waker' = TaskOf[r]
  /\ UNCHANGED <<connect_count, pending, readers, receiving, push, sent, history>>
  /\ PolledAndWoke(r, {sender_waker} \cup Displaced(receiver_waker, TaskOf[r]))

PollReceive(r) == ReceiveReady(r) \/ ReceiveBlocked(r)

\* Mutant of EmptySlotIfLast: the slot keeps its item for the next reader.
KeepSlot == UNCHANGED <<discarded, pending>>

\* The last reader takes the undelivered item with it.
EmptySlotIfLast ==
  IF connect_count' = 0
  THEN /\ discarded' = discarded \cup ({pending} \ {None})
       /\ pending' = None
  ELSE UNCHANGED <<discarded, pending>>

\* Mutant of DropReader: a sender that waits is not woken.
DropReaderSilently(r) ==
  /\ r \in readers
  /\ readers' = readers \ {r}
  /\ receiving' = receiving \ {r}
  /\ scheduled' = scheduled \ {r}
  /\ connect_count' = connect_count - 1
  /\ EmptySlotIfLast
  /\ UNCHANGED <<receiver_waker, sender_waker, push, sent, received, withdrawn>>

\* PipeReader::drop.  A ReceiveFuture borrows its reader, so one that still
\* waits is dropped just before it: write_loop, which holds both, was ended by
\* the select4 of run().  It has no Drop either: its waker stays.
DropReader(r) ==
  /\ r \in readers
  /\ readers' = readers \ {r}
  /\ receiving' = receiving \ {r}
  /\ connect_count' = connect_count - 1
  /\ EmptySlotIfLast
  /\ sender_waker' = None
  /\ UNCHANGED <<receiver_waker, push, sent, received, withdrawn>>
  /\ PolledAndWoke(r, {sender_waker})

-----------------------------------------------------------------------------
\* A task may be polled at any time: something else in it may have woken it.
Next ==
  \/ \E s \in Senders : Push(s) \/ PollPush(s) \/ CancelPush(s)
  \/ \E r \in Readers :
       NewReader(r) \/ Receive(r) \/ PollReceive(r) \/ DropReader(r)

Spec == Init /\ [][Next]_vars

\* All the executor guarantees: the futures of a task that was woken are polled.
ExecutorFairness ==
  /\ \A s \in Senders : WF_vars(s \in scheduled /\ PollPush(s))
  /\ \A r \in Readers : WF_vars(r \in scheduled /\ PollReceive(r))

ExecutorSpec == Spec /\ ExecutorFairness

-----------------------------------------------------------------------------
(* Properties *)

TypeOK ==
  /\ connect_count \in Nat
  /\ receiver_waker \in Tasks \cup {None} /\ sender_waker \in Tasks \cup {None}
  /\ pending \in Items \cup {None}
  /\ readers \in SUBSET Readers /\ receiving \in SUBSET readers
  /\ push \in [Senders -> Items \cup {None}]
  /\ scheduled \in SUBSET Live
  /\ sent \in [Senders -> 0 .. MaxPush]
  /\ received \in Seq(Items)
  /\ discarded \in SUBSET Items /\ withdrawn \in SUBSET Items

\* The count that decides between waiting and dropping is the number of readers
\* there are, so that connect_count -= 1 in PipeReader::drop never wraps.
ReadersCounted == connect_count = Cardinality(readers)

\* What was left in the slot when the connection ended is not sent over the
\* next one: the slot is empty whenever no reader exists.
NothingLeftForNextReader == readers = {} => pending = None

\* A sender waits unscheduled only while the slot is full and its task is the
\* one the next receive or disconnect wakes: there is a single waker slot for
\* any number of senders, and no wake-up is lost.
NoLostSenderWakeup ==
  \A s \in Senders :
    push[s] # None /\ s \notin scheduled
      => connect_count > 0 /\ pending # None /\ sender_waker = TaskOf[s]

\* A reader waits unscheduled only while the slot is empty and its task is the
\* one the next push wakes.
NoLostReceiverWakeup ==
  \A r \in receiving \ scheduled :
    pending = None /\ receiver_waker = TaskOf[r]

\* The places an item can be in.
InPush(i)  == \E s \in Senders : push[s] = i
InSlot(i)  == pending = i
Arrived(i) == \E k \in DOMAIN received : received[k] = i

\* No packet vanishes or is doubled: every item pushed so far waits in its
\* future, is in the slot, was received, dropped or withdrawn - in one of these
\* places only - and nothing else is anywhere.
EveryItemInOnePlace ==
  \A s \in Senders, n \in 1 .. MaxPush :
    LET i == <<s, n>>
        places == {p \in 1 .. 5 : <<InPush(i), InSlot(i), Arrived(i),
                                    i \in discarded, i \in withdrawn>>[p]}
    IN  Cardinality(places) = IF n <= sent[s] THEN 1 ELSE 0

\* The items of one sender are received in the order it pushed them, each once.
ReceivedInOrder ==
  \A j, k \in DOMAIN received :
    j < k /\ received[j][1] = received[k][1] => received[j][2] < received[k][2]

\* The pipe without wakers, polls and tasks.
Pipe == INSTANCE DroppingPipe WITH slot <- pending, offered <- push

\* Under nothing but the executor's fairness the pipe does what DroppingPipe
\* says, including that a push or a receive that can complete does.
ImplementsDroppingPipe == Pipe!Spec

\* A push never hangs: it is accepted, or dropped with the connection - as long
\* as write_loop comes back for the next packet, that is, the socket takes what
\* is written.
PushResolves ==
  (\A r \in Readers : WF_vars(Receive(r)))
    => \A s \in Senders : push[s] # None ~> push[s] = None
=============================================================================
