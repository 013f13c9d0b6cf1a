CONSTANTS
  Descriptors = {0, 1, 3, 6}
  POLL_SET_SIZE = 2
SPECIFICATION Spec
INVARIANT SetInv
PROPERTY KeepsPromise
