\* McutieTask::run (ping, recv, writer in one task) and one application task,
\* under nothing but the fairness of the executor.
CONSTANTS
  ping = ping  recv = recv  app = app  writer = writer
  mcutie = mcutie  appTask = appTask
  None = None
  Senders = {ping, recv, app}
  Readers = {writer}
  Tasks = {mcutie, appTask}
  TaskOf <- McutieTaskOf
  MaxPush = 2
SPECIFICATION ExecutorSpec
INVARIANTS
  TypeOK
  ReadersCounted
  NothingLeftForNextReader
  NoLostSenderWakeup
  NoLostReceiverWakeup
  EveryItemInOnePlace
  ReceivedInOrder
PROPERTIES
  PushResolves
  ImplementsDroppingPipe
