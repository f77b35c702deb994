CONSTANTS
  c1 = c1
  c2 = c2
  v1 = v1
  Listener = Listener
  Clients <- TwoClients
  Viewers <- NoViewer
  Mortal <- OneClient
  MinPlayers = 1
  MaxPlayers = 2
  MaxStates = 2
  Room = 1
SPECIFICATION Spec
CHECK_DEADLOCK FALSE
INVARIANTS TurnsMatchPlayers AddTurnInRange ConnectionsBounded NoTurnForFutureState FinishQueued
PROPERTIES TurnsNeverGoBack OwnTurnOnly StreamsSpec
