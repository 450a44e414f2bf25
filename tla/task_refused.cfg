\* A broker that refuses the connection.
CONSTANTS
  m0 = m0  m1 = m1  m2 = m2  request = request  status = status  topic = topic
  None = None
  Topics <- TwoTopics
  Inbound = {}
  Qos <- NothingInbound
  Target <- NothingInbound
  DataCapacity = 1
  Others = {}
  Reply <- Unanswered
  MaxSessions = 1
SPECIFICATION Spec
INVARIANTS
  RefusalBacksOff
