SPECIFICATION DriverFairSpec
CONSTANTS
  MaxTasks = 1
  NumAccels = 2
  Clients = {c1}
  IdModulus = 2
  MaxSize = 2
  Calls <- MCCalls
  Removable = TRUE
  Descs <- MCDescs
CHECK_DEADLOCK FALSE
PROPERTY
  FailedStartCleansUp
