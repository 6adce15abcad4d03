SPECIFICATION FairSpec
CONSTANTS
  Threads = {t1, t2}
  Handles = {h1, h2}
  NumFds = 2
  Nobody = Nobody
INVARIANTS
  LibTypeOK
  FdsOwned
  OwnAnswer
  CallsOwnDevice
PROPERTY
  MutexReleased
