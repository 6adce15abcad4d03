SPECIFICATION Spec
CONSTANTS
  MaxTasks = 1
  NumAccels = 1
  c1 = c1
  c2 = c2
  Clients = {c1}
  IdModulus = 4
  MaxSize = 2
  Calls <- MCSubmitCancel
  Removable = FALSE
  Descs <- MCTimed
INVARIANT
  CancelStops
