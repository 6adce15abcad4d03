SPECIFICATION FairSpec
CONSTANTS
  MaxTasks = 2
  NumAccels = 1
  c1 = c1
  c2 = c2
  Clients = {c1}
  IdModulus = 4
  MaxSize = 2
  Calls <- MCSubmit
  Removable = FALSE
  Descs <- MCTimed
PROPERTY
  OutOfMemoryMeansInUse
