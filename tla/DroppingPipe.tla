---------------------------- MODULE DroppingPipe ----------------------------
(***************************************************************************)
(* What a ConnectedPipe promises to its users (the comment of              *)
(* src/src/pipe.rs, struct ConnectedPipe): while a reader is connected a   *)
(* push waits for the one slot, while none is connected the data is simply *)
(* dropped, and the disconnection of the last reader empties the slot.     *)
(* Wakers, tasks and polls do not appear: a step that can happen happens.  *)
(***************************************************************************)
EXTENDS Naturals, Sequences

CONSTANTS Senders, Readers, MaxPush, None

VARIABLES
  readers,     \* the readers that exist
  receiving,   \* those of them that wait for an item
  slot,        \* the item between the senders and the readers, or None
  offered,     \* offered[s]: the item sender s waits to hand over, or None
  sent,        \* sent[s]: how many items s has offered so far
  received,    \* the items handed to readers, in order
  discarded,   \* the items the pipe dropped
  withdrawn    \* the items whose sender stopped waiting

absvars == <<readers, receiving, slot, offered, sent, received, discarded,
             withdrawn>>

Init ==
  /\ readers = {} /\ receiving = {} /\ slot = None
  /\ discarded = {} /\ withdrawn = {}
  /\ offered = [s \in Senders |-> None]
  /\ sent = [s \in Senders |-> 0]
  /\ received = << >>

Offer(s) ==
  /\ offered[s] = None /\ sent[s] < MaxPush
  /\ sent' = [sent EXCEPT ![s] = @ + 1]
  /\ offered' = [offered EXCEPT ![s] = <<s, sent[s] + 1>>]
  /\ UNCHANGED <<readers, receiving, slot, received, discarded, withdrawn>>

Accept(s) ==
  /\ offered[s] # None /\ readers # {} /\ slot = None
  /\ slot' = offered[s]
  /\ offered' = [offered EXCEPT ![s] = None]
  /\ UNCHANGED <<readers, receiving, sent, received, discarded, withdrawn>>

\* The pipe may drop an item only while no reader is connected ...
Drop(s) ==
  /\ offered[s] # None /\ readers = {}
  /\ discarded' = discarded \cup {offered[s]}
  /\ offered' = [offered EXCEPT ![s] = None]
  /\ UNCHANGED <<readers, receiving, slot, sent, received, withdrawn>>

\* ... but the caller may stop waiting at any time.
Withdraw(s) ==
  /\ offered[s] # None
  /\ withdrawn' = withdrawn \cup {offered[s]}
  /\ offered' = [offered EXCEPT ![s] = None]
  /\ UNCHANGED <<readers, receiving, slot, sent, received, discarded>>

Connect(r) ==
  /\ r \notin readers
  /\ readers' = readers \cup {r}
  /\ UNCHANGED <<receiving, slot, offered, sent, received, discarded, withdrawn>>

Ask(r) ==
  /\ r \in readers \ receiving
  /\ receiving' = receiving \cup {r}
  /\ UNCHANGED <<readers, slot, offered, sent, received, discarded, withdrawn>>

Deliver(r) ==
  /\ r \in receiving /\ slot # None
  /\ received' = Append(received, slot)
  /\ slot' = None
  /\ receiving' = receiving \ {r}
  /\ UNCHANGED <<readers, offered, sent, discarded, withdrawn>>

Disconnect(r) ==
  /\ r \in readers
  /\ readers' = readers \ {r}
  /\ receiving' = receiving \ {r}
  /\ IF readers' = {}
     THEN /\ discarded' = discarded \cup ({slot} \ {None})
          /\ slot' = None
     ELSE UNCHANGED <<discarded, slot>>
  /\ UNCHANGED <<offered, sent, received, withdrawn>>

Next ==
  \/ \E s \in Senders : Offer(s) \/ Accept(s) \/ Drop(s) \/ Withdraw(s)
  \/ \E r \in Readers : Connect(r) \/ Ask(r) \/ Deliver(r) \/ Disconnect(r)

\* Nobody waits for something that stays possible: an item that can be handed
\* over or dropped is, and an item in the slot reaches a reader that waits.
Fairness ==
  /\ \A s \in Senders : WF_absvars(Accept(s) \/ Drop(s))
  /\ \A r \in Readers : WF_absvars(Deliver(r))

SafeSpec == Init /\ [][Next]_absvars

Spec == SafeSpec /\ Fairness

-----------------------------------------------------------------------------
\* What the pipe's users see of it: the slot, and whether somebody reads.
Queue == INSTANCE SendQueue WITH
           Packets <- Senders \X (1 .. MaxPush), connected <- readers # {}

\* The slot is filled only while it is empty and a reader is connected, and nothing
\* is left in it from one connection to the next, however many push and read.
ImplementsSendQueue == Queue!Spec
=============================================================================
