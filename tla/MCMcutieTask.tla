---------------------------- MODULE MCMcutieTask ----------------------------
(* Small instances of McutieTask. *)
EXTENDS McutieTask, TLC

CONSTANTS m0, m1, m2, request, status, topic

TwoTopics == <<status, topic>>

\* Home Assistant goes offline and online, and the application gets a message.
MixedQos == (m0 :> 0) @@ (m1 :> 1) @@ (m2 :> 2)
MixedTargets == (m0 :> "other") @@ (m1 :> "online") @@ (m2 :> "application")

\* The application publishes once, with QoS 2; the subscriptions are not
\* acknowledged in this instance.
Replies == (request :> "PUBREC") @@ (status :> None) @@ (topic :> None)

Unanswered == (status :> None) @@ (topic :> None)

NothingInbound == << >>
=============================================================================
