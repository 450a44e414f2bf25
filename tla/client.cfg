\* The application's only task receives messages and publishes or subscribes,
\* over two connections; everything between the tasks holds one element.
CONSTANTS
  app = app  m0 = m0  topic = topic
  App = app
  Callers = {app}
  RecvLoop = RecvLoop
  None = None
  Kinds <- BothKinds
  MaxSubscribers = 1
  QueueLength = 1
  MaxPid = 15
  MaxOps = 1
  Topics <- OneTopic
  Inbound = {m0}
  Qos <- AllQos1
  Target <- ToApplication
  DataCapacity = 1
  MaxSessions = 2
SPECIFICATION LiveSpec
INVARIANTS
  RequestsInOnePlace
  OkMeansAnswered
PROPERTIES
  TaskGoesOn
\* The bounds on operations and connections stop the model.
CHECK_DEADLOCK FALSE
