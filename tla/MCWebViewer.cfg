CONSTANTS
  w1 = w1
  w2 = w2
  a = a
  b = b
  s = s
  Workers <- TwoWorkers
  Connections <- ThreeConnections
  Silent <- SilentOne
  Impatient <- MalformedOne
  Malformed <- MalformedOne
  MaxState = 1
  NoTask = NoTask
  PageStates = 2
  MaxInFlight = 2
  MaxFailures = 1
  MaxTimers = 2
  RequestLen = 8
  ReadSize = 3
SPECIFICATION MCSpec
CHECK_DEADLOCK FALSE
INVARIANTS AnswersCurrent RequestsRead
PROPERTIES RequestsAnswered PageSettles
