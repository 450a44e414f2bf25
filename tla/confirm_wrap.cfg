\* Four operations and three identifiers (65535 in the code): one operation more than
\* OkWhileIdentifiersLast (ConfirmationProofs) allows.
CONSTANTS
  c1 = c1  c2 = c2
  Callers = {c1, c2}
  RecvLoop = RecvLoop
  Kinds <- PublishKinds
  Subscriptions = 0
  MaxSubscribers = 2
  QueueLength = 2
  MaxPid = 3
  MaxOps = 2
  MaxConnections = 1
SPECIFICATION Spec
SYMMETRY CallerSymmetry
INVARIANTS
  OkMeansConfirmed
\* The bounds on operations and connections stop the model.
CHECK_DEADLOCK FALSE
