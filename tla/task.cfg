\* Messages of every QoS to every target over two connections, a channel of
\* one place and an application that keeps receiving.
CONSTANTS
  m0 = m0  m1 = m1  m2 = m2  request = request  status = status  topic = topic
  None = None
  Topics <- TwoTopics
  Inbound = {m0, m1, m2}
  Qos <- MixedQos
  Target <- MixedTargets
  DataCapacity = 1
  Others = {request}
  Reply <- Replies
  MaxSessions = 2
SPECIFICATION LiveSpec
INVARIANTS
  TypeOK
  EventsInOrder
  AcknowledgedMeansDelivered
  NothingStaleWritten
  BackOffFits
PROPERTIES
  SubscribedBeforeConnected
  HandlerCompletes
  TriesAgain
