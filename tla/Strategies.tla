----------------------------- MODULE Strategies -----------------------------
(***************************************************************************)
(* What a Gamer's strategy makes of a state of the Field: its GetTurn, on  *)
(* the diameter.  A turn is a unit vector, so -1, 0 or 1 here, and NaN      *)
(* where the code divides 0 by 0: BuildJsonMessage writes it as "nan",     *)
(* which no JSON parser reads.  A strategy that draws a random number has   *)
(* a set of turns, one for each number it may draw.                        *)
(***************************************************************************)
EXTENDS Field

CONSTANT NaN

ASSUME NaNIsNoNumber == NaN \notin Int

StrategyName == {"DoNothing", "MoveToClosest", "Predictive", "Drunk", "Buffalo", "RandomAcceleration"}

\* x / Length(x)
Unit(x) == IF x = 0 THEN NaN ELSE Sign(x)

NoTurn == 0

\* The coin with the least distance, the first of them.
ClosestCoin(center) ==
  CHOOSE c \in DOMAIN coins :
    \A k \in DOMAIN coins :
      /\ Distance(center, coins[c]) <= Distance(center, coins[k])
      /\ k < c => Distance(center, coins[c]) < Distance(center, coins[k])

MoveToClosest(player) ==
  IF coins = <<>> THEN NoTurn
  ELSE Unit(coins[ClosestCoin(player.center)] - player.center)

\* A mutation, not the code: the direction is not added to a shift of nothing.
Corrected_Bare(shift, direction) == shift
Corrected(shift, direction) == IF Abs(shift) < 1 THEN shift + direction ELSE shift

\* MoveToClosestCoin: from where the player will be to the nearest point of the ray from
\* it through the coin.  Its time_delta is the state's, a hundred times what Emulate uses.
MoveToClosestCoin(player) ==
  IF coins = <<>> THEN 1
  ELSE LET direction  == Unit(coins[ClosestCoin(player.center)] - player.center)
           next_point == player.center + player.velocity * StepsNumber * 100
           projection == IF (next_point - player.center) * direction >= 0 THEN next_point
                         ELSE player.center
       IN IF direction = NaN THEN NaN
          ELSE Unit(Corrected(projection - next_point, direction))

\* GetBestMove: whichever coin and direction its search comes up with, or none (0, -1 in
\* the code).
BestMove == [coin_id : {0} \cup DOMAIN coins, best_acceleration : {-1, 0, 1}]

\* A coin that another player reaches earlier, beaten, is left to it.
Predictive(player) ==
  {IF move.coin_id = 0 \/ beaten THEN MoveToClosestCoin(player) ELSE move.best_acceleration :
     move \in BestMove, beaten \in BOOLEAN}

\* No case of the switch ends with a break: the last one's vector, across the diameter.
Drunk == 0

\* A player that stands draws both coordinates from [0, 1).  Either may be 0: the vector
\* then points across the diameter, or, if both are, nowhere.
Drawn(x, y) == IF x = 0 /\ y # 0 THEN 0 ELSE Unit(x)

Buffalo(player) ==
  IF player.velocity # 0 THEN {Unit(player.velocity)} ELSE {Drawn(x, y) : x, y \in {0, 1}}

\* In tenths.
ShiftFromZero(x) == IF x < 0 THEN x - 1 ELSE x + 1

\* Until the next change the previous acceleration, which was drawn in the same way.
RandomAcceleration == {Unit(ShiftFromZero(x)) : x \in -10..10}

\* StrategiesFactory::Create and GetTurn.
GetTurn(strategy, player) ==
  CASE strategy = "DoNothing" -> {NoTurn}
    [] strategy = "MoveToClosest" -> {MoveToClosest(player)}
    [] strategy = "Predictive" -> Predictive(player)
    [] strategy = "Drunk" -> {Drunk}
    [] strategy = "Buffalo" -> Buffalo(player)
    [] strategy = "RandomAcceleration" -> RandomAcceleration

-----------------------------------------------------------------------------
(* Properties *)

\* A strategy's turn is a number wherever the balls and coins are and however fast they
\* go, except for a player whose center is exactly that of a coin (MoveToClosest and
\* Predictive go towards it), and for a standing Buffalo that draws 0 twice.
TurnsAreNumbers ==
  \A i \in DOMAIN players, strategy \in StrategyName :
    NaN \in GetTurn(strategy, players[i]) =>
      \/ \E k \in DOMAIN coins : coins[k] = players[i].center
      \/ strategy = "Buffalo" /\ players[i].velocity = 0
=============================================================================
