-------------------------- MODULE MCConnectedPipe ---------------------------
(* Small instances of ConnectedPipe. *)
EXTENDS ConnectedPipe

CONSTANTS ping, recv, app, writer, mcutie, appTask

\* The program: McutieTask::run polls the ping loop, the receive loop and the
\* write loop in one task, the application pushes from another.
McutieTaskOf ==
  [f \in Senders \cup Readers |-> IF f = app THEN appTask ELSE mcutie]
=============================================================================
