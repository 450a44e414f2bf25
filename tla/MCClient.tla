------------------------------ MODULE MCClient ------------------------------
(* A small instance of Client. *)
EXTENDS Client, TLC

CONSTANTS app, m0, topic

OneTopic == <<topic>>

\* Messages that the broker wants acknowledged, all for the application.
AllQos1 == [m \in Inbound |-> 1]
ToApplication == [m \in Inbound |-> "application"]

\* recv_loop subscribes as well: SUBACKs for both are on the way together.
BothKinds ==
  {[request |-> "qos1", wait |-> TRUE], [request |-> "subscribe", wait |-> TRUE]}
=============================================================================
