SPECIFICATION Spec
CONSTANTS
  NumAccels = 3
  Files = {f1, f2}
INVARIANT
  NoStaleFile
