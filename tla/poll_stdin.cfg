CONSTANTS
  Descriptors = {3}
  POLL_SET_SIZE = 4
SPECIFICATION Spec
INVARIANT ReturnsReadySocket
