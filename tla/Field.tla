------------------------------- MODULE Field -------------------------------
(***************************************************************************)
(* The rules of the game, on one diameter of the field: DefaultEmulator    *)
(* moves the balls, lets them collide with each other and with the border, *)
(* and divides the coins they reach.                                       *)
(*                                                                         *)
(* Positions are integers on the x axis, 0 is the middle of the field.  A  *)
(* velocity of 1 moves a ball by 1 in one of the steps of Emulate, and a   *)
(* turn changes it by at most 1.  On a diameter the formulas of            *)
(* ResolveCollision come down to exact ones: two balls exchange their      *)
(* velocities, the border turns one round.  All balls have one radius, and *)
(* so have all coins.                                                      *)
(***************************************************************************)
EXTENDS Integers, FiniteSets, Sequences

CONSTANTS
  MaxPlayers,    \* config_.max_players_count
  FieldRadius,   \* state.radius
  PlayerRadius,
  CoinRadius,
  SpotDistance,  \* 1.0, what ResolveCollision takes for the distance of balls on one spot
  VelocityMax,   \* state.velocity_max
  StepsNumber,   \* steps_number_
  Epsilon,       \* kEpsilon
  CoinValue,     \* a multiple of every possible number of winners
  MaxCoins       \* bound: coins ever put on the field

ASSUME FieldAssumption ==
  /\ {MaxPlayers, FieldRadius, PlayerRadius, CoinRadius, SpotDistance, VelocityMax, StepsNumber, CoinValue}
       \subseteq Nat
  /\ Epsilon \in Nat \ {0}

\* What doubles do but for their rounding: the shares of a coin make up the coin.
ASSUME CoinsCanBeShared == \A n \in 1..MaxPlayers : n * (CoinValue \div n) = CoinValue

VARIABLES
  players,    \* state.players: records of center, velocity and score
  coins,      \* state.coins: their centers
  sent,       \* the state has been sent and the players' turns are awaited
  generated   \* history: how many coins were put on the field

vars == <<players, coins, sent, generated>>

Init == players = <<>> /\ coins = <<>> /\ sent = FALSE /\ generated = 0

Abs(x) == IF x < 0 THEN -x ELSE x
Distance(a, b) == Abs(a - b)

-----------------------------------------------------------------------------
(* The generators. *)

Inside(radius) == -(FieldRadius - radius)..(FieldRadius - radius)

\* GetPlayer: anywhere in the field, clear of the other players.
AddPlayer ==
  /\ Len(players) < MaxPlayers
  /\ \E c \in Inside(PlayerRadius) :
       /\ \A i \in DOMAIN players : Distance(c, players[i].center) > 2 * PlayerRadius
       /\ players' = Append(players, [center |-> c, velocity |-> 0, score |-> 0])
  /\ UNCHANGED <<coins, sent, generated>>

\* Run: a coin is generated or not, and the state is sent.
SendState ==
  /\ ~sent /\ sent' = TRUE
  /\ \/ /\ generated < MaxCoins
        /\ \E c \in Inside(CoinRadius) : coins' = Append(coins, c)
        /\ generated' = generated + 1
     \/ UNCHANGED <<coins, generated>>
  /\ UNCHANGED players

-----------------------------------------------------------------------------
(* Emulate. *)

Sign(x) == IF x < 0 THEN -1 ELSE 1
Clamped(v) == IF Abs(v) > VelocityMax THEN Sign(v) * VelocityMax ELSE v

ApplyAcceleration(ps, turns) ==
  [i \in DOMAIN ps |-> [ps[i] EXCEPT !.velocity = Clamped(@ + turns[i])]]

MovePlayers(ps) == [i \in DOMAIN ps |-> [ps[i] EXCEPT !.center = @ + ps[i].velocity]]

Collide(p, q) == Distance(p.center, q.center) <= 2 * PlayerRadius

\* The test for balls that are too far apart, with the distance that was made up for two
\* on one spot: balls of a small radius then do not collide there.
IsResolved(p, q) ==
  (IF p.center = q.center THEN SpotDistance ELSE Distance(p.center, q.center)) <= 2 * PlayerRadius

\* ResolveCollision of two balls, whichever way they move.
ResolveCollision(ps, i, j) ==
  IF Collide(ps[i], ps[j]) /\ IsResolved(ps[i], ps[j])
  THEN [ps EXCEPT ![i].velocity = ps[j].velocity, ![j].velocity = ps[i].velocity]
  ELSE ps

\* The inner loop: ball i with each one after it.
CollideWithOthers(ps, i) ==
  LET after[k \in 0..Len(ps) - i] ==
        IF k = 0 THEN ps ELSE ResolveCollision(after[k - 1], i, i + k)
  IN after[Len(ps) - i]

HandleBallToBallCollisions(ps) ==
  LET after[i \in 0..Len(ps)] == IF i = 0 THEN ps ELSE CollideWithOthers(after[i - 1], i)
  IN after[Len(ps)]

Outside(p) == Abs(p.center) + PlayerRadius > FieldRadius
\* A mutation, not the code: the border turns a ball round that already comes back, too.
TurnsRound_Always(p) == Outside(p)
\* dot_product < 0: the ball is on its way out.
TurnsRound(p) == Outside(p) /\ p.velocity * p.center > 0

HandleBallToBorderCollisions(ps) ==
  [i \in DOMAIN ps |-> IF TurnsRound(ps[i]) THEN [ps[i] EXCEPT !.velocity = -@] ELSE ps[i]]

Less(a, b) == a < b - Epsilon
Equal(a, b) == Abs(a - b) < Epsilon

\* A mutation, not the code: a nearer player joins those found before.
Nearer_Joins(best, i, d) == [distance |-> d, who |-> best.who \cup {i}]
\* A new min_distance empties on_the_min_distance.
Nearer(best, i, d) == [distance |-> d, who |-> {i}]

\* The body of the loop over the players.
Look(best, i, d) ==
  IF best.who = {} \/ Less(d, best.distance) THEN Nearer(best, i, d)
  ELSE IF Equal(d, best.distance) THEN [best EXCEPT !.who = @ \cup {i}]
  ELSE best

\* min_distance and on_the_min_distance after the loop.
OnTheMinDistance(ps, coin) ==
  LET best[i \in 0..Len(ps)] ==
        IF i = 0 THEN [distance |-> 0, who |-> {}]
        ELSE Look(best[i - 1], i, Distance(coin, ps[i].center))
  IN best[Len(ps)]

\* A mutation, not the code: the coin is shared by all players.
Share_OfAll(ps, who) == CoinValue \div Len(ps)
Share(ps, who) == CoinValue \div Cardinality(who)

GiveTo(who, ps) ==
  [i \in DOMAIN ps |-> IF i \in who THEN [ps[i] EXCEPT !.score = @ + Share(ps, who)] ELSE ps[i]]

DivideCoin(state, coin) ==
  LET best == OnTheMinDistance(state.players, coin)
  IN IF best.distance < PlayerRadius + CoinRadius
     THEN [state EXCEPT !.players = GiveTo(best.who, @)]
     ELSE [state EXCEPT !.coins_left = Append(@, coin)]

DivideCoins(ps, cs) ==
  LET after[k \in 0..Len(cs)] ==
        IF k = 0 THEN [players |-> ps, coins_left |-> <<>>] ELSE DivideCoin(after[k - 1], cs[k])
  IN IF ps = <<>> THEN [players |-> ps, coins_left |-> cs] ELSE after[Len(cs)]

\* One round of the loop of Emulate.
Step(state) ==
  DivideCoins(HandleBallToBorderCollisions(HandleBallToBallCollisions(MovePlayers(state.players))),
              state.coins_left)

Steps(ps, cs) ==
  LET after[k \in 0..StepsNumber] ==
        IF k = 0 THEN [players |-> ps, coins_left |-> cs] ELSE Step(after[k - 1])
  IN after[StepsNumber]

\* Whatever turns the players sent, or did not send in time.
Emulate ==
  /\ sent /\ sent' = FALSE
  /\ \E turns \in [DOMAIN players -> {-1, 0, 1}] :
       LET after == Steps(ApplyAcceleration(players, turns), coins)
       IN players' = after.players /\ coins' = after.coins_left
  /\ UNCHANGED generated

Next == AddPlayer \/ SendState \/ Emulate

Spec == Init /\ [][Next]_vars

-----------------------------------------------------------------------------
(* Properties *)

TotalScore(ps) ==
  LET sum[n \in 0..Len(ps)] == IF n = 0 THEN 0 ELSE sum[n - 1] + ps[n].score
  IN sum[Len(ps)]

\* What the players have been given is what has gone from the field: sharing makes
\* nothing and loses nothing.
ScoresAccountForCoins == TotalScore(players) + CoinValue * Len(coins) = CoinValue * generated

\* Wherever a coin may lie and in whatever order the players are looked at, nobody shares
\* in it who is farther off than the nearest player by two tolerances, and a player who is
\* nearer than every other by more than one gets it alone.
NearestShare ==
  \A coin \in Inside(CoinRadius) :
    LET winners == OnTheMinDistance(players, coin).who
        far(i) == Distance(coin, players[i].center)
    IN /\ \A i, j \in DOMAIN players : i \in winners => far(i) < far(j) + 2 * Epsilon
       /\ \A i \in DOMAIN players :
            (\A j \in DOMAIN players \ {i} : Less(far(i), far(j))) => winners = {i}

\* A ball gets out of the field by no more than one step's way and a diameter for each
\* other ball: balls that overlap there exchange their velocities in every step and
\* keep each other outside, but the border never loses one, if a turn
\* takes two steps at least.
BorderHolds ==
  \A i \in DOMAIN players :
    Abs(players[i].center) + PlayerRadius
      <= FieldRadius + VelocityMax + 2 * PlayerRadius * (Len(players) - 1)
=============================================================================
