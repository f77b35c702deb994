CONSTANTS
  Peers = {p1, p2}
  Listener = Listener
SPECIFICATION Spec
CHECK_DEADLOCK FALSE
INVARIANTS
  IteratorsGood
PROPERTIES
  PeerGoneClosed
  OutputReached
