CONSTANTS
  MaxPlayers = 2
  FieldRadius = 5
  PlayerRadius = 1
  CoinRadius = 1
  SpotDistance = 3
  VelocityMax = 2
  StepsNumber = 3
  Epsilon = 2
  CoinValue = 6
  MaxCoins = 1
  NaN = NaN
SPECIFICATION MCSpec
CHECK_DEADLOCK FALSE
INVARIANTS
  ScoresAccountForCoins
  NearestShare
  BorderHolds
  TurnsAreNumbers
