\* Every kind of request, confirmed and not, one by each of two callers; two
\* subscribers for the three clients.
CONSTANTS
  c1 = c1  c2 = c2
  Callers = {c1, c2}
  RecvLoop = RecvLoop
  Kinds <- MixedKinds
  Subscriptions = 1
  MaxSubscribers = 2
  QueueLength = 1
  MaxPid = 7
  MaxOps = 1
  MaxConnections = 1
SPECIFICATION LiveSpec
INVARIANTS
  TypeOK
  OkMeansConfirmed
PROPERTIES
  TimedOutMeansUnanswered
  OperationEnds
  ReceiveLoopResumes
\* The bounds on operations and connections stop the model.
CHECK_DEADLOCK FALSE
