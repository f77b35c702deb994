CONSTANTS
  MaxMessages = 4
  FrameLen = 1
  Capacity = 2
SPECIFICATION Spec
CHECK_DEADLOCK FALSE
INVARIANT BlockedWritesLoseNothing
