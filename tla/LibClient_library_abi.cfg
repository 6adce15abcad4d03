SPECIFICATION Spec
CONSTANTS
  Threads = {t1}
  Handles = {h1}
  NumFds = 1
  Nobody = Nobody
INVARIANT
  LibraryIsUnderstood
