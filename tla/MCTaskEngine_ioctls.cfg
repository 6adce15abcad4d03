SPECIFICATION Spec
CONSTANTS
  MaxTasks = 2
  NumAccels = 1
  c1 = c1
  c2 = c2
  Clients = {c1, c2}
  IdModulus = 3
  MaxSize = 2
  Calls <- MCRoles
  Removable = FALSE
  Descs <- MCAnyDesc
INVARIANTS
  TypeOK
  ListIntegrity
  IssuedFindable
  RetiredIsTerminal
  LoadTracksWorker
  QueryReportsTask
