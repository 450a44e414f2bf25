----------------------------- MODULE SendQueue ------------------------------
(***************************************************************************)
(* SEND_QUEUE (src/src/io.rs, a ConnectedPipe of src/src/pipe.rs) as the   *)
(* task's loops rely on it: one slot, empty at the start of every          *)
(* connection, filled only while it is empty and a reader is there,        *)
(* emptied by the reader or by the end of the connection.  Who pushes and  *)
(* who waits does not appear, and to push while nobody is connected        *)
(* changes nothing.                                                        *)
(*                                                                         *)
(* DroppingPipe implements this, and so does what McutieTask makes of its  *)
(* own slot: this is what the two have in common.                          *)
(***************************************************************************)
CONSTANTS Packets, None

VARIABLES
  connected,   \* a reader exists
  slot         \* the packet between the senders and the reader, or None

queue == <<connected, slot>>

Init == connected = FALSE /\ slot = None

\* ConnectedPipe::reader, the first one.
Open ==
  /\ ~connected
  /\ connected' = TRUE
  /\ UNCHANGED slot

\* PushFuture::poll, the slot is free.
Put(packet) ==
  /\ connected /\ slot = None
  /\ slot' = packet
  /\ UNCHANGED connected

\* ReceiveFuture::poll, a packet is there.
Take ==
  /\ connected /\ slot # None
  /\ slot' = None
  /\ UNCHANGED connected

\* PipeReader::drop, the last one.
Close ==
  /\ connected
  /\ connected' = FALSE
  /\ slot' = None

Next == Open \/ (\E packet \in Packets : Put(packet)) \/ Take \/ Close

Spec == Init /\ [][Next]_queue
=============================================================================
