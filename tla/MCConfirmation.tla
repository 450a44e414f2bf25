--------------------------- MODULE MCConfirmation ---------------------------
(* Small instances of Confirmation. *)
EXTENDS Confirmation, TLC

CONSTANTS c1, c2

Kind(request, wait) == [request |-> request, wait |-> wait]

PublishKinds == {Kind("qos1", TRUE)}

MixedKinds ==
  {Kind("qos0", FALSE), Kind("qos2", TRUE), Kind("subscribe", TRUE),
   Kind("unsubscribe", TRUE), Kind("unsubscribe", FALSE)}

\* The callers are alike; used in runs without liveness properties only.
CallerSymmetry == Permutations(Callers)
=============================================================================
