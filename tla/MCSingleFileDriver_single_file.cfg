SPECIFICATION DriverFairSpec
CONSTANTS
  MaxTasks = 1
  NumAccels = 3
  Clients = {c1}
  IdModulus = 2
  MaxSize = 2
  Calls <- MCCalls
  Removable = TRUE
  Descs <- MCDescs
CHECK_DEADLOCK FALSE
INVARIANTS
  WorkersHaveDevice
  TornDownClean
PROPERTY
  TransitionEnds
