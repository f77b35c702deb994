CONSTANTS
  c1 = c1
  c2 = c2
  v1 = v1
  Listener = Listener
  Clients <- OneClient
  Viewers <- OneViewer
  Mortal <- Nobody
  MinPlayers = 1
  MaxPlayers = 1
  MaxStates = 2
  Room = 1
SPECIFICATION FairSpec
CHECK_DEADLOCK FALSE
PROPERTIES StopEndsLoop GameFinishes
