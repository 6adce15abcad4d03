SPECIFICATION FairSpec
CONSTANTS
  MaxTasks = 2
  NumAccels = 2
  c1 = c1
  c2 = c2
  Clients = {c1}
  IdModulus = 3
  MaxSize = 2
  Calls <- MCSubmitCancel
  Removable = TRUE
  Descs <- MCTimed
INVARIANT
  NoWorkerAfterStop
PROPERTIES
  FifoService
  QueuedTaskEnds
  CancelInterrupts
  RemovalTerminates
