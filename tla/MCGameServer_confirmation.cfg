CONSTANTS
  c1 = c1
  c2 = c2
  v1 = v1
  Listener = Listener
  Clients <- OneClient
  Viewers <- NoViewer
  Mortal <- Nobody
  MinPlayers = 1
  MaxPlayers = 1
  MaxStates = 2
  Room = 1
SPECIFICATION Spec
CHECK_DEADLOCK FALSE
INVARIANT ConfirmationFirst
