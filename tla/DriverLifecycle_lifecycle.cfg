SPECIFICATION FairSpec
CONSTANTS
  NumAccels = 3
  Files = {f1, f2}
INVARIANTS
  LifecycleTypeOK
  NothingLeftBehind
  StopsOnlyThreads
  NodeIsServed
PROPERTY
  TransitionsEnd
