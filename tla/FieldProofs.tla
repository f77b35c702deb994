----------------------------- MODULE FieldProofs -----------------------------
(***************************************************************************)
(* Proofs about Field and Strategies for any number of players and coins,  *)
(* any field and any speeds.                                               *)
(*                                                                         *)
(* Field's operators are loops over the balls, written as recursive        *)
(* functions: what they leave alone (the number of balls, the sum of the   *)
(* scores) is proved of one step of the loop and carried through it by     *)
(* Recursion's lemmas.                                                     *)
(*                                                                         *)
(* The border is another matter: how far out one ball may be depends on    *)
(* how far out the others are, so that the invariant speaks of every set   *)
(* of balls.                                                               *)
(***************************************************************************)
EXTENDS Strategies, Recursion, SequenceTheorems, FiniteSetTheorems

Ball == [center : Int, velocity : Int, score : Nat]
Balls(n) == [1..n -> Ball]

FieldTypeOK ==
  /\ players \in Seq(Ball) /\ Len(players) <= MaxPlayers
  /\ coins \in Seq(Int) /\ sent \in BOOLEAN /\ generated \in Nat

\* The constants are numbers.
LEMMA Numbers ==
  /\ MaxPlayers \in Nat /\ FieldRadius \in Nat /\ PlayerRadius \in Nat /\ CoinRadius \in Nat
  /\ VelocityMax \in Nat /\ StepsNumber \in Nat /\ CoinValue \in Nat
  /\ Epsilon \in Nat /\ Epsilon > 0
BY FieldAssumption

-----------------------------------------------------------------------------
(* The balls *)

\* A sequence of balls is a function on their numbers.
LEMMA SeqOfBalls ==
  ASSUME NEW ps
  PROVE  /\ \A n \in Nat : ps \in Balls(n) => ps \in Seq(Ball) /\ Len(ps) = n /\ DOMAIN ps = 1..n
         /\ ps \in Seq(Ball) => Len(ps) \in Nat /\ ps \in Balls(Len(ps))
<1>1. ASSUME NEW n \in Nat, ps \in Balls(n)
      PROVE  ps \in Seq(Ball) /\ Len(ps) = n /\ DOMAIN ps = 1..n
  BY <1>1 DEF Balls
<1>2. ASSUME ps \in Seq(Ball)
      PROVE  Len(ps) \in Nat /\ ps \in Balls(Len(ps))
  BY <1>2 DEF Balls
<1> QED
  BY <1>1, <1>2

\* What changes places and velocities only.
SameScores(n, ps) == {qs \in Balls(n) : \A i \in 1..n : qs[i].score = ps[i].score}

\* The turns and the movement leave the scores alone, and so does the border.
LEMMA MovesKeepScores ==
  ASSUME NEW n \in Nat, NEW ps \in Balls(n), NEW turns \in [1..n -> {-1, 0, 1}]
  PROVE  /\ ApplyAcceleration(ps, turns) \in SameScores(n, ps)
         /\ MovePlayers(ps) \in SameScores(n, ps)
         /\ HandleBallToBorderCollisions(ps) \in SameScores(n, ps)
<1>1. DOMAIN ps = 1..n /\ \A i \in 1..n : ps[i] \in Ball
  BY DEF Balls
<1>2. \A v \in Int : Clamped(v) \in Int
  BY Numbers DEF Clamped, Sign, Abs
<1>3. ApplyAcceleration(ps, turns) \in SameScores(n, ps)
  <2>1. ASSUME NEW i \in 1..n
        PROVE  /\ [ps[i] EXCEPT !.velocity = Clamped(@ + turns[i])] \in Ball
               /\ [ps[i] EXCEPT !.velocity = Clamped(@ + turns[i])].score = ps[i].score
    <3>1. ps[i] \in Ball /\ Clamped(ps[i].velocity + turns[i]) \in Int
      <4>1. ps[i] \in Ball /\ turns[i] \in Int
        BY <1>1
      <4>2. ps[i].velocity + turns[i] \in Int
        BY <4>1 DEF Ball
      <4> QED
        BY <1>2, <4>1, <4>2
    <3> QED
      BY <3>1 DEF Ball
  <2> QED
    BY <1>1, <2>1 DEF ApplyAcceleration, SameScores, Balls
<1>4. MovePlayers(ps) \in SameScores(n, ps)
  BY <1>1 DEF MovePlayers, SameScores, Balls, Ball
<1>5. HandleBallToBorderCollisions(ps) \in SameScores(n, ps)
  <2>1. ASSUME NEW i \in 1..n
        PROVE  LET p == IF TurnsRound(ps[i]) THEN [ps[i] EXCEPT !.velocity = -@] ELSE ps[i]
               IN  p \in Ball /\ p.score = ps[i].score
    <3>1. ps[i] \in Ball
      BY <1>1
    <3> QED
      BY <3>1 DEF Ball
  <2> QED
    BY <1>1, <2>1 DEF HandleBallToBorderCollisions, SameScores, Balls
<1> QED
  BY <1>3, <1>4, <1>5

\* Two balls that collide exchange their velocities and nothing else.
LEMMA CollisionKeepsScores ==
  ASSUME NEW n \in Nat, NEW ps \in Balls(n), NEW i \in 1..n, NEW j \in 1..n
  PROVE  ResolveCollision(ps, i, j) \in SameScores(n, ps)
<1> DEFINE rs == [ps EXCEPT ![i].velocity = ps[j].velocity]
           qs == [rs EXCEPT ![j].velocity = ps[i].velocity]
<1>1. ps[i] \in Ball /\ ps[j] \in Ball /\ ps[i].velocity \in Int /\ ps[j].velocity \in Int
  BY DEF Balls, Ball
<1>2. rs \in SameScores(n, ps)
  BY <1>1 DEF SameScores, Balls, Ball
<1>3. qs \in SameScores(n, ps)
  <2> HIDE DEF rs
  <2>1. rs \in Balls(n) /\ rs[j] \in Ball
    BY <1>2 DEF SameScores, Balls
  <2> QED
    BY <1>1, <1>2, <2>1 DEF SameScores, Balls, Ball
<1>4. ps \in SameScores(n, ps)
  BY DEF SameScores
<1> QED
  BY <1>3, <1>4 DEF ResolveCollision

\* What no collision of two balls leaves.
ClosedUnderCollisions(n, V) ==
  V \subseteq Balls(n) /\ \A v \in V : \A i, j \in 1..n : i < j => ResolveCollision(v, i, j) \in V

\* The inner loop does not leave it, which ends with the n-th ball.
LEMMA OthersStay ==
  ASSUME NEW n \in Nat, NEW V, ClosedUnderCollisions(n, V), NEW ps \in V, NEW i \in 1..n
  PROVE  CollideWithOthers(ps, i) \in V
<1> DEFINE m == n - i
           step == [k \in 1..m |-> [v \in V |-> ResolveCollision(v, i, i + k)]]
           after == CHOOSE f : f = [k \in 0..m |-> IF k = 0 THEN ps
                                                  ELSE ResolveCollision(f[k - 1], i, i + k)]
<1>1. m \in Nat /\ Len(ps) = n
  BY SeqOfBalls DEF ClosedUnderCollisions
<1>2. step \in [1..m -> [V -> V]]
  <2>1. ASSUME NEW k \in 1..m, NEW v \in V
        PROVE  ResolveCollision(v, i, i + k) \in V
    <3>1. i + k \in 1..n /\ i < i + k
      OBVIOUS
    <3> QED
      BY <3>1 DEF ClosedUnderCollisions
  <2> QED
    BY <2>1
<1>3. \A k \in 1..m, v \in V : step[k][v] = ResolveCollision(v, i, i + k)
  OBVIOUS
<1>4. CollideWithOthers(ps, i) = after[m]
  BY <1>1 DEF CollideWithOthers
<1> HIDE DEF m, step
<1>5. PICK f \in [0..m -> V] : Walks(f, m, ps, step)
  BY <1>1, <1>2, StepByStep
<1>6. f = [k \in 0..m |-> IF k = 0 THEN ps ELSE ResolveCollision(f[k - 1], i, i + k)]
  <2>1. ASSUME NEW k \in 1..m
        PROVE  f[k] = ResolveCollision(f[k - 1], i, i + k)
    <3>1. k - 1 \in 0..m
      BY <1>1
    <3>2. f[k - 1] \in V
      BY <3>1
    <3> QED
      BY <1>3, <1>5, <3>2 DEF Walks
  <2>2. \A k \in 0..m : f[k] = IF k = 0 THEN ps ELSE ResolveCollision(f[k - 1], i, i + k)
    BY <1>1, <1>5, <2>1 DEF Walks
  <2> QED
    BY <2>2
<1>7. after = [k \in 0..m |-> IF k = 0 THEN ps ELSE ResolveCollision(after[k - 1], i, i + k)]
  BY <1>6
<1> HIDE DEF after
<1>8. after[0] = ps /\ \A k \in 1..m : after[k] = ResolveCollision(after[k - 1], i, i + k)
  BY <1>1, <1>7
<1>9. Follows(after, m, ps, step, V)
  BY <1>3, <1>8 DEF Follows
<1>10. \A k \in 0..m : after[k] \in V
  BY <1>1, <1>2, <1>9, StaysWithin
<1> QED
  BY <1>1, <1>4, <1>10

\* Nor does the outer one.
LEMMA CollisionsStay ==
  ASSUME NEW n \in Nat, NEW V, ClosedUnderCollisions(n, V), NEW ps \in V
  PROVE  HandleBallToBallCollisions(ps) \in V
<1> DEFINE step == [k \in 1..n |-> [v \in V |-> CollideWithOthers(v, k)]]
           after == CHOOSE f : f = [i \in 0..n |-> IF i = 0 THEN ps
                                                  ELSE CollideWithOthers(f[i - 1], i)]
<1>1. Len(ps) = n
  BY SeqOfBalls DEF ClosedUnderCollisions
<1>2. step \in [1..n -> [V -> V]]
  BY OthersStay
<1>3. \A k \in 1..n, v \in V : step[k][v] = CollideWithOthers(v, k)
  OBVIOUS
<1>4. HandleBallToBallCollisions(ps) = after[n]
  BY <1>1 DEF HandleBallToBallCollisions
<1> HIDE DEF step
<1>5. PICK f \in [0..n -> V] : Walks(f, n, ps, step)
  BY <1>2, StepByStep
<1>6. f = [i \in 0..n |-> IF i = 0 THEN ps ELSE CollideWithOthers(f[i - 1], i)]
  <2>1. ASSUME NEW k \in 1..n
        PROVE  f[k] = CollideWithOthers(f[k - 1], k)
    <3>1. k - 1 \in 0..n
      OBVIOUS
    <3>2. f[k - 1] \in V
      BY <3>1
    <3> QED
      BY <1>3, <1>5, <3>2 DEF Walks
  <2>2. \A k \in 0..n : f[k] = IF k = 0 THEN ps ELSE CollideWithOthers(f[k - 1], k)
    BY <1>5, <2>1 DEF Walks
  <2> QED
    BY <2>2
<1>7. after = [i \in 0..n |-> IF i = 0 THEN ps ELSE CollideWithOthers(after[i - 1], i)]
  BY <1>6
<1> HIDE DEF after
<1>8. after[0] = ps /\ \A k \in 1..n : after[k] = CollideWithOthers(after[k - 1], k)
  BY <1>7
<1>9. Follows(after, n, ps, step, V)
  BY <1>3, <1>8 DEF Follows
<1>10. \A k \in 0..n : after[k] \in V
  BY <1>2, <1>9, StaysWithin
<1> QED
  BY <1>4, <1>10

\* All collisions together leave the scores alone.
LEMMA CollisionsKeepScores ==
  ASSUME NEW n \in Nat, NEW ps \in Balls(n)
  PROVE  HandleBallToBallCollisions(ps) \in SameScores(n, ps)
<1>1. ASSUME NEW v \in SameScores(n, ps), NEW i \in 1..n, NEW j \in 1..n
      PROVE  ResolveCollision(v, i, j) \in SameScores(n, ps)
  <2>1. v \in Balls(n)
    BY DEF SameScores
  <2>2. ResolveCollision(v, i, j) \in SameScores(n, v)
    BY <2>1, CollisionKeepsScores
  <2> QED
    BY <2>2 DEF SameScores
<1>2. ClosedUnderCollisions(n, SameScores(n, ps)) /\ ps \in SameScores(n, ps)
  BY <1>1 DEF ClosedUnderCollisions, SameScores
<1> QED
  BY <1>2, CollisionsStay

-----------------------------------------------------------------------------
(* The nearest players *)

\* What is known of best after the first i players: some of those who share are as far
\* off as it says, the others less than a tolerance more or less, and nobody is nearer
\* by more than one.
Nearest(best, i, far) ==
  /\ best \in [distance : Nat, who : SUBSET (1..i)]
  /\ i > 0 => \E w \in best.who : best.distance = far[w]
  /\ \A w \in best.who : far[w] < best.distance + Epsilon /\ best.distance < far[w] + Epsilon
  /\ \A j \in 1..i : best.distance <= far[j] + Epsilon

\* One player more: the loop's body keeps what it has found the nearest.
LEMMA LookKeepsNearest ==
  ASSUME NEW n \in Nat, NEW far \in [1..n -> Nat], NEW i \in 1..n, NEW best,
         Nearest(best, i - 1, far)
  PROVE  Nearest(Look(best, i, far[i]), i, far)
<1>1. /\ best \in [distance : Nat, who : SUBSET (1..i - 1)]
      /\ i - 1 > 0 => \E w \in best.who : best.distance = far[w]
      /\ \A w \in best.who : far[w] < best.distance + Epsilon /\ best.distance < far[w] + Epsilon
      /\ \A j \in 1..i - 1 : best.distance <= far[j] + Epsilon
  BY DEF Nearest
<1>2. /\ Epsilon \in Nat /\ Epsilon > 0 /\ \A j \in 1..i : far[j] \in Nat
      /\ best.distance \in Nat /\ best.who \subseteq 1..i - 1
  <2>1. \A j \in 1..i : j \in 1..n
    OBVIOUS
  <2> QED
    BY <1>1, <2>1, Numbers
<1>3. CASE best.who = {} \/ Less(far[i], best.distance)
  <2>1. Look(best, i, far[i]) = [distance |-> far[i], who |-> {i}]
    BY <1>3 DEF Look, Nearer
  <2>2. ASSUME NEW j \in 1..i
        PROVE  far[i] <= far[j] + Epsilon
    <3>1. CASE j = i
      BY <1>2, <3>1
    <3>2. CASE j # i
      <4>1. j \in 1..i - 1
        BY <3>2
      <4>2. best.who # {}
        BY <1>1, <4>1
      <4>3. far[i] < best.distance - Epsilon /\ best.distance <= far[j] + Epsilon
        BY <1>1, <1>3, <4>1, <4>2 DEF Less
      <4> QED
        BY <1>2, <4>3
    <3> QED
      BY <3>1, <3>2
  <2>3. far[i] \in Nat /\ {i} \subseteq 1..i
    BY <1>2
  <2> QED
    BY <1>2, <2>1, <2>2, <2>3 DEF Nearest
<1>4. CASE best.who # {} /\ ~Less(far[i], best.distance) /\ Equal(far[i], best.distance)
  <2>1. Look(best, i, far[i]) = [best EXCEPT !.who = @ \cup {i}]
    BY <1>4 DEF Look
  <2> DEFINE new == [best EXCEPT !.who = @ \cup {i}]
  <2>2. new.distance = best.distance /\ new.who = best.who \cup {i}
        /\ new \in [distance : Nat, who : SUBSET (1..i)]
    BY <1>1, <1>2
  <2>3. far[i] < best.distance + Epsilon /\ best.distance < far[i] + Epsilon
    BY <1>2, <1>4 DEF Equal, Abs
  <2>4. \E w \in best.who : best.distance = far[w]
    BY <1>1, <1>2, <1>4
  <2>5. ASSUME NEW j \in 1..i
        PROVE  best.distance <= far[j] + Epsilon
    <3>1. j = i \/ j \in 1..i - 1
      OBVIOUS
    <3> QED
      BY <1>1, <1>2, <2>3, <3>1
  <2> HIDE DEF new
  <2>6. Nearest(new, i, far)
    BY <1>1, <2>2, <2>3, <2>4, <2>5 DEF Nearest
  <2> QED
    BY <2>1, <2>6 DEF new
<1>5. CASE best.who # {} /\ ~Less(far[i], best.distance) /\ ~Equal(far[i], best.distance)
  <2>1. Look(best, i, far[i]) = best
    BY <1>5 DEF Look
  <2>2. ASSUME NEW j \in 1..i
        PROVE  best.distance <= far[j] + Epsilon
    <3>1. j = i \/ j \in 1..i - 1
      OBVIOUS
    <3>2. best.distance <= far[i] + Epsilon
      BY <1>2, <1>5 DEF Less
    <3> QED
      BY <1>1, <3>1, <3>2
  <2>3. \E w \in best.who : best.distance = far[w]
    BY <1>1, <1>2, <1>5
  <2>4. best \in [distance : Nat, who : SUBSET (1..i)]
    BY <1>1
  <2> QED
    BY <1>1, <2>1, <2>2, <2>3, <2>4 DEF Nearest
<1> QED
  BY <1>3, <1>4, <1>5

\* The distances of the balls to a coin.
Fars(n, ps, coin) == [i \in 1..n |-> Distance(coin, ps[i].center)]

\* Distances are not negative.
LEMMA FarsAreNumbers ==
  ASSUME NEW n \in Nat, NEW ps \in Balls(n), NEW coin \in Int
  PROVE  Fars(n, ps, coin) \in [1..n -> Nat]
<1>1. \A i \in 1..n : ps[i].center \in Int
  BY DEF Balls, Ball
<1>2. \A a, b \in Int : Distance(a, b) \in Nat
  BY DEF Distance, Abs
<1> QED
  BY <1>1, <1>2 DEF Fars

\* After the last player, the loop has found the nearest of all.
LEMMA NearestFound ==
  ASSUME NEW n \in Nat, NEW ps \in Balls(n), NEW coin \in Int
  PROVE  Nearest(OnTheMinDistance(ps, coin), n, Fars(n, ps, coin))
<1> DEFINE far == Fars(n, ps, coin)
           V == [distance : Nat, who : SUBSET (1..n)]
           v0 == [distance |-> 0, who |-> {}]
           step == [k \in 1..n |-> [v \in V |-> Look(v, k, Distance(coin, ps[k].center))]]
           best == CHOOSE f : f = [i \in 0..n |->
                     IF i = 0 THEN v0 ELSE Look(f[i - 1], i, Distance(coin, ps[i].center))]
<1>1. Len(ps) = n /\ v0 \in V /\ far \in [1..n -> Nat]
  BY SeqOfBalls, FarsAreNumbers
<1>2. \A k \in 1..n : Distance(coin, ps[k].center) = far[k] /\ far[k] \in Nat
  BY <1>1 DEF Fars
<1>3. step \in [1..n -> [V -> V]]
  <2>1. ASSUME NEW k \in 1..n, NEW v \in V
        PROVE  Look(v, k, far[k]) \in V
    <3>1. far[k] \in Nat /\ {k} \subseteq 1..n
      BY <1>2
    <3> QED
      BY <3>1 DEF Look, Nearer
  <2> HIDE DEF V, far
  <2> QED
    BY <1>2, <2>1
<1>4. \A k \in 1..n, v \in V : step[k][v] = Look(v, k, Distance(coin, ps[k].center))
  OBVIOUS
<1>5. OnTheMinDistance(ps, coin) = best[n]
  BY <1>1 DEF OnTheMinDistance
<1> HIDE DEF V, v0, step, far
<1>6. PICK f \in [0..n -> V] : Walks(f, n, v0, step)
  BY <1>1, <1>3, StepByStep
<1>7. f = [i \in 0..n |-> IF i = 0 THEN v0 ELSE Look(f[i - 1], i, Distance(coin, ps[i].center))]
  <2>1. ASSUME NEW k \in 1..n
        PROVE  f[k] = Look(f[k - 1], k, Distance(coin, ps[k].center))
    <3>1. k - 1 \in 0..n
      OBVIOUS
    <3>2. f[k - 1] \in V
      BY <3>1
    <3> QED
      BY <1>4, <1>6, <3>2 DEF Walks
  <2>2. \A k \in 0..n : f[k] = IF k = 0 THEN v0
                               ELSE Look(f[k - 1], k, Distance(coin, ps[k].center))
    BY <1>6, <2>1 DEF Walks
  <2> QED
    BY <2>2
<1>8. best = [i \in 0..n |-> IF i = 0 THEN v0
                              ELSE Look(best[i - 1], i, Distance(coin, ps[i].center))]
  BY <1>7
<1> HIDE DEF best
<1>9. best[0] = v0 /\ \A k \in 1..n : best[k] = Look(best[k - 1], k, far[k])
  BY <1>2, <1>8
<1> DEFINE Good == {k \in 0..n : Nearest(best[k], k, far)}
<1>10. 0 \in Good
  BY <1>9 DEF v0, Nearest
<1>11. ASSUME NEW k \in 1..n, k - 1 \in Good
       PROVE  k \in Good
  <2>1. Nearest(best[k], k, far)
    BY <1>1, <1>9, <1>11, LookKeepsNearest
  <2> QED
    BY <2>1
<1>12. 0..n \subseteq Good
  <2> HIDE DEF Good
  <2> QED
    BY <1>10, <1>11, Upwards
<1> QED
  BY <1>5, <1>12 DEF far

\* Who shares in a coin, whatever the order.
LEMMA NearestWin ==
  ASSUME FieldTypeOK
  PROVE  NearestShare
<1> DEFINE n == Len(players)
<1>1. n \in Nat /\ players \in Balls(n) /\ DOMAIN players = 1..n
  BY SeqOfBalls DEF FieldTypeOK
<1>2. Epsilon \in Nat /\ Epsilon > 0
  BY Numbers
<1> SUFFICES ASSUME NEW coin \in Inside(CoinRadius)
             PROVE  LET winners == OnTheMinDistance(players, coin).who
                        far(i) == Distance(coin, players[i].center)
                    IN /\ \A i, j \in DOMAIN players : i \in winners => far(i) < far(j) + 2 * Epsilon
                       /\ \A i \in DOMAIN players :
                            (\A j \in DOMAIN players \ {i} : Less(far(i), far(j))) => winners = {i}
  BY DEF NearestShare
<1> HIDE DEF n
<1> DEFINE best == OnTheMinDistance(players, coin)
           far == Fars(n, players, coin)
<1>3. coin \in Int
  BY Numbers DEF Inside
<1>4. Nearest(best, n, far) /\ far \in [1..n -> Nat]
  BY <1>1, <1>3, NearestFound, FarsAreNumbers
<1>5. \A i \in 1..n : Distance(coin, players[i].center) = far[i]
  BY DEF Fars
<1> HIDE DEF best, far
<1>6. /\ best.distance \in Nat /\ best.who \subseteq 1..n /\ \A i \in 1..n : far[i] \in Nat
      /\ n > 0 => \E w \in best.who : best.distance = far[w]
      /\ \A w \in best.who : far[w] < best.distance + Epsilon /\ best.distance < far[w] + Epsilon
      /\ \A j \in 1..n : best.distance <= far[j] + Epsilon
  BY <1>4 DEF Nearest
<1>7. ASSUME NEW i \in best.who, NEW j \in 1..n
      PROVE  far[i] < far[j] + 2 * Epsilon
  BY <1>2, <1>6
<1>8. ASSUME NEW i \in 1..n, \A j \in (1..n) \ {i} : Less(far[i], far[j])
      PROVE  best.who = {i}
  <2>1. PICK m \in best.who : best.distance = far[m]
    BY <1>1, <1>6
  <2>2. m = i
    <3>1. SUFFICES ASSUME m # i PROVE FALSE
      OBVIOUS
    <3>2. far[i] < far[m] - Epsilon /\ far[m] <= far[i] + Epsilon
      BY <1>6, <1>8, <2>1, <3>1 DEF Less
    <3> QED
      BY <1>2, <1>6, <3>2
  <2>3. ASSUME NEW w \in best.who, w # i
        PROVE  FALSE
    <3>1. far[i] < far[w] - Epsilon /\ far[w] < far[i] + Epsilon
      BY <1>6, <1>8, <2>1, <2>2, <2>3 DEF Less
    <3> QED
      BY <1>2, <1>6, <3>1
  <2> QED
    BY <2>1, <2>2, <2>3
<1>9. \A i, j \in 1..n : i \in best.who =>
        Distance(coin, players[i].center) < Distance(coin, players[j].center) + 2 * Epsilon
  BY <1>5, <1>7
<1>10. ASSUME NEW i \in 1..n,
              \A j \in (1..n) \ {i} :
                Less(Distance(coin, players[i].center), Distance(coin, players[j].center))
       PROVE  best.who = {i}
  BY <1>5, <1>8, <1>10
<1> QED
  BY <1>1, <1>9, <1>10 DEF best

-----------------------------------------------------------------------------
(* The scores *)

\* The partial sums of TotalScore.
Sums(ps) == CHOOSE sum : sum = [n \in 0..Len(ps) |-> IF n = 0 THEN 0 ELSE sum[n - 1] + ps[n].score]

\* TotalScore adds up one score after the other.
LEMMA SumsAdvance ==
  ASSUME NEW n \in Nat, NEW ps \in Balls(n)
  PROVE  /\ TotalScore(ps) = Sums(ps)[n]
         /\ Sums(ps)[0] = 0
         /\ \A k \in 1..n : Sums(ps)[k] = Sums(ps)[k - 1] + ps[k].score
         /\ \A k \in 0..n : Sums(ps)[k] \in Nat
         /\ TotalScore(ps) \in Nat
<1> DEFINE step == [k \in 1..n |-> [v \in Nat |-> v + ps[k].score]]
           sum == CHOOSE f : f = [k \in 0..n |-> IF k = 0 THEN 0 ELSE f[k - 1] + ps[k].score]
<1>1. Len(ps) = n /\ \A k \in 1..n : ps[k].score \in Nat
  BY SeqOfBalls DEF Balls, Ball
<1>2. step \in [1..n -> [Nat -> Nat]]
  BY <1>1
<1>3. \A k \in 1..n, v \in Nat : step[k][v] = v + ps[k].score
  OBVIOUS
<1>4. Sums(ps) = sum /\ TotalScore(ps) = sum[n]
  BY <1>1 DEF Sums, TotalScore
<1> HIDE DEF step
<1>5. PICK f \in [0..n -> Nat] : Walks(f, n, 0, step)
  <2>1. 0 \in Nat
    OBVIOUS
  <2> QED
    BY <1>2, <2>1, StepByStep
<1>6. f = [k \in 0..n |-> IF k = 0 THEN 0 ELSE f[k - 1] + ps[k].score]
  <2>1. ASSUME NEW k \in 1..n
        PROVE  f[k] = f[k - 1] + ps[k].score
    <3>1. k - 1 \in 0..n
      OBVIOUS
    <3>2. f[k - 1] \in Nat
      BY <3>1
    <3> QED
      BY <1>3, <1>5, <3>2 DEF Walks
  <2>2. \A k \in 0..n : f[k] = IF k = 0 THEN 0 ELSE f[k - 1] + ps[k].score
    BY <1>5, <2>1 DEF Walks
  <2> QED
    BY <2>2
<1>7. sum = [k \in 0..n |-> IF k = 0 THEN 0 ELSE sum[k - 1] + ps[k].score]
  BY <1>6
<1> HIDE DEF sum
<1>8. sum[0] = 0 /\ \A k \in 1..n : sum[k] = sum[k - 1] + ps[k].score
  BY <1>7
<1>9. Follows(sum, n, 0, step, Nat)
  BY <1>3, <1>8 DEF Follows
<1>10. \A k \in 0..n : sum[k] \in Nat
  <2>1. 0 \in Nat
    OBVIOUS
  <2> QED
    BY <1>2, <1>9, <2>1, StaysWithin
<1>11. sum[n] \in Nat
  BY <1>10
<1> QED
  BY <1>4, <1>8, <1>10, <1>11

\* Some of the balls are given something each.
Gives(n, ps, qs, who, share) ==
  \A i \in 1..n : qs[i].score = IF i \in who THEN ps[i].score + share ELSE ps[i].score

\* What some of the balls are given each is added to the total once for each of them.
LEMMA GivingAdds ==
  ASSUME NEW n \in Nat, NEW ps \in Balls(n), NEW qs \in Balls(n), NEW who \in SUBSET (1..n),
         NEW share \in Nat, Gives(n, ps, qs, who, share)
  PROVE  TotalScore(qs) = TotalScore(ps) + share * Cardinality(who)
<1> DEFINE p == Sums(ps)
           q == Sums(qs)
           c(k) == Cardinality(who \cap 1..k)
<1>1. /\ TotalScore(ps) = p[n] /\ p[0] = 0 /\ \A k \in 1..n : p[k] = p[k - 1] + ps[k].score
      /\ TotalScore(qs) = q[n] /\ q[0] = 0 /\ \A k \in 1..n : q[k] = q[k - 1] + qs[k].score
      /\ \A k \in 0..n : p[k] \in Nat /\ q[k] \in Nat
  BY SumsAdvance
<1>2. \A k \in 1..n : ps[k].score \in Nat /\ qs[k].score \in Nat
  BY DEF Balls, Ball
<1>3. ASSUME NEW k \in 0..n
      PROVE  IsFiniteSet(who \cap 1..k) /\ c(k) \in Nat
  <2>1. IsFiniteSet(1..k)
    BY FS_Interval
  <2>2. who \cap 1..k \subseteq 1..k
    OBVIOUS
  <2>3. IsFiniteSet(who \cap 1..k)
    BY <2>1, <2>2, FS_Subset
  <2> QED
    BY <2>3, FS_CardinalityType
<1> DEFINE Good == {k \in 0..n : q[k] = p[k] + share * c(k)}
<1>4. 0 \in Good
  <2>1. who \cap 1..0 = {}
    OBVIOUS
  <2>2. c(0) = 0
    BY <2>1, FS_EmptySet
  <2> HIDE DEF c
  <2> QED
    BY <1>1, <2>2
<1>5. ASSUME NEW k \in 1..n, k - 1 \in Good
      PROVE  k \in Good
  <2>1. k - 1 \in 0..n /\ k \in 0..n /\ k \notin 1..k - 1
    OBVIOUS
  <2>2. c(k - 1) \in Nat /\ IsFiniteSet(who \cap 1..k - 1)
    BY <1>3, <2>1
  <2>3. c(k) = IF k \in who THEN c(k - 1) + 1 ELSE c(k - 1)
    <3>1. CASE k \in who
      <4>1. who \cap 1..k = (who \cap 1..k - 1) \cup {k}
        BY <3>1
      <4> QED
        BY <2>1, <2>2, <3>1, <4>1, FS_AddElement
    <3>2. CASE k \notin who
      <4>1. who \cap 1..k = who \cap 1..k - 1
        BY <3>2
      <4> QED
        BY <3>2, <4>1
    <3> QED
      BY <3>1, <3>2
  <2> HIDE DEF c, p, q
  <2>4. q[k - 1] = p[k - 1] + share * c(k - 1) /\ p[k - 1] \in Nat
    BY <1>1, <1>5, <2>1
  <2>5. q[k] = q[k - 1] + qs[k].score /\ p[k] = p[k - 1] + ps[k].score
    BY <1>1
  <2>6. share * (c(k - 1) + 1) = share * c(k - 1) + share /\ share * c(k - 1) \in Nat
    BY <2>2
  <2>7. q[k] = p[k] + share * c(k)
    BY <1>2, <2>3, <2>4, <2>5, <2>6 DEF Gives
  <2> QED
    BY <2>1, <2>7
<1>6. 0..n \subseteq Good
  <2> HIDE DEF Good
  <2> QED
    BY <1>4, <1>5, Upwards
<1>7. who \cap 1..n = who /\ n \in 0..n
  <2>1. \A x \in who : x \in 1..n
    OBVIOUS
  <2>2. who \cap 1..n = who
    BY <2>1
  <2> QED
    BY <2>2
<1>8. q[n] = p[n] + share * c(n)
  BY <1>6, <1>7
<1> QED
  BY <1>1, <1>7, <1>8

\* What only moves the balls leaves the total alone.
LEMMA SameTotal ==
  ASSUME NEW n \in Nat, NEW ps \in Balls(n), NEW qs \in SameScores(n, ps)
  PROVE  qs \in Balls(n) /\ TotalScore(qs) = TotalScore(ps)
<1>1. qs \in Balls(n) /\ \A i \in 1..n : qs[i].score = ps[i].score
  BY DEF SameScores
<1>2. {} \in SUBSET (1..n) /\ 0 \in Nat /\ Cardinality({}) = 0
  BY FS_EmptySet
<1>3. TotalScore(qs) = TotalScore(ps) + 0 * Cardinality({})
  <2>1. Gives(n, ps, qs, {}, 0)
    BY <1>1 DEF Gives
  <2> QED
    BY <1>1, <1>2, <2>1, GivingAdds
<1>4. TotalScore(ps) \in Nat
  BY SumsAdvance
<1> QED
  BY <1>1, <1>2, <1>3, <1>4

\* The states of Emulate, and what the balls and the coins of one are worth.
States(n) == [players : Balls(n), coins_left : Seq(Int)]
Worth(state) == TotalScore(state.players) + CoinValue * Len(state.coins_left)

\* The two parts of what a state is worth.
LEMMA WorthIsNumber ==
  ASSUME NEW n \in Nat, NEW state \in States(n)
  PROVE  /\ state.players \in Balls(n) /\ state.coins_left \in Seq(Int) /\ Len(state.coins_left) \in Nat
         /\ TotalScore(state.players) \in Nat
         /\ Worth(state) \in Nat
<1>1. state.players \in Balls(n) /\ state.coins_left \in Seq(Int) /\ Len(state.coins_left) \in Nat
  BY DEF States
<1>2. TotalScore(state.players) \in Nat
  BY <1>1, SumsAdvance
<1> QED
  BY <1>1, <1>2, Numbers DEF Worth

\* Those who share in a coin get it among them; else it is left.
LEMMA DivideCoinKeepsWorth ==
  ASSUME NEW n \in 1..MaxPlayers, NEW state \in States(n), NEW coin \in Int
  PROVE  /\ DivideCoin(state, coin) \in States(n)
         /\ Worth(DivideCoin(state, coin)) = Worth(state) + CoinValue
<1> DEFINE best == OnTheMinDistance(state.players, coin)
           share == Share(state.players, best.who)
           new == DivideCoin(state, coin)
<1>1. /\ n \in Nat /\ n > 0 /\ CoinValue \in Nat
      /\ state.players \in Balls(n) /\ state.coins_left \in Seq(Int) /\ Len(state.coins_left) \in Nat
      /\ TotalScore(state.players) \in Nat
  BY Numbers, WorthIsNumber
<1>2. best.who \in SUBSET (1..n) /\ best.who # {}
  <2>1. Nearest(best, n, Fars(n, state.players, coin))
    BY <1>1, NearestFound
  <2> HIDE DEF best
  <2> QED
    BY <1>1, <2>1 DEF Nearest
<1> HIDE DEF best
<1>3. CASE best.distance < PlayerRadius + CoinRadius
  <2> DEFINE qs == GiveTo(best.who, state.players)
  <2>1. Cardinality(best.who) \in 1..n
    <3>1. IsFiniteSet(1..n) /\ Cardinality(1..n) = n
      BY <1>1, FS_Interval
    <3>2. IsFiniteSet(best.who) /\ Cardinality(best.who) <= n
      BY <1>2, <3>1, FS_Subset
    <3>3. Cardinality(best.who) \in Nat /\ Cardinality(best.who) # 0
      BY <1>2, <3>2, FS_CardinalityType, FS_EmptySet
    <3> QED
      BY <1>1, <3>2, <3>3
  <2>2. share \in Nat /\ share * Cardinality(best.who) = CoinValue
    <3> DEFINE c == Cardinality(best.who)
    <3>1. c \in 1..MaxPlayers
      BY <2>1, Numbers
    <3>2. share = CoinValue \div c
      BY DEF Share
    <3> HIDE DEF c
    <3>3. CoinValue \div c \in Nat
      BY <1>1, <3>1, Numbers
    <3>4. c * (CoinValue \div c) = CoinValue
      BY <3>1, CoinsCanBeShared
    <3>5. c * (CoinValue \div c) = (CoinValue \div c) * c
      BY <3>1, <3>3, Numbers
    <3> QED
      BY <3>2, <3>3, <3>4, <3>5 DEF c
  <2>3. qs \in Balls(n) /\ Gives(n, state.players, qs, best.who, share)
    <3>1. DOMAIN state.players = 1..n /\ \A i \in 1..n : state.players[i] \in Ball
      BY <1>1 DEF Balls
    <3>2. qs = [i \in 1..n |-> IF i \in best.who
                               THEN [state.players[i] EXCEPT !.score = @ + share]
                               ELSE state.players[i]]
      BY <3>1 DEF GiveTo
    <3> HIDE DEF qs, share
    <3>3. ASSUME NEW i \in 1..n
          PROVE  LET p == [state.players[i] EXCEPT !.score = @ + share]
                 IN  p \in Ball /\ p.score = state.players[i].score + share
      <4>1. state.players[i] \in Ball
        BY <3>1
      <4> QED
        BY <2>2, <4>1 DEF Ball
    <3> QED
      BY <3>1, <3>2, <3>3 DEF Balls, Gives
  <2> HIDE DEF share, qs
  <2>4. new = [players |-> qs, coins_left |-> state.coins_left]
    <3>1. new = [state EXCEPT !.players = qs]
      BY <1>3 DEF DivideCoin, best, qs
    <3> HIDE DEF new
    <3> QED
      BY <3>1 DEF States
  <2> HIDE DEF new
  <2>5. TotalScore(qs) = TotalScore(state.players) + CoinValue
    <3>1. TotalScore(qs) = TotalScore(state.players) + share * Cardinality(best.who)
      BY <1>1, <1>2, <2>2, <2>3, GivingAdds
    <3> QED
      BY <2>2, <3>1
  <2>6. new \in States(n)
    BY <1>1, <2>3, <2>4 DEF States
  <2>7. Worth(new) = Worth(state) + CoinValue
    BY <1>1, <2>4, <2>5 DEF Worth
  <2> QED
    BY <2>6, <2>7 DEF new
<1>4. CASE ~(best.distance < PlayerRadius + CoinRadius)
  <2>1. new = [players |-> state.players, coins_left |-> Append(state.coins_left, coin)]
    <3>1. new = [state EXCEPT !.coins_left = Append(@, coin)]
      BY <1>4 DEF DivideCoin, best
    <3> HIDE DEF new
    <3> QED
      BY <3>1 DEF States
  <2> HIDE DEF new
  <2>2. /\ Append(state.coins_left, coin) \in Seq(Int)
        /\ Len(Append(state.coins_left, coin)) = Len(state.coins_left) + 1
    BY <1>1
  <2>3. CoinValue * (Len(state.coins_left) + 1) = CoinValue * Len(state.coins_left) + CoinValue
        /\ CoinValue * Len(state.coins_left) \in Nat
    BY <1>1
  <2>4. new \in States(n)
    BY <1>1, <2>1, <2>2 DEF States
  <2>5. Worth(new) = Worth(state) + CoinValue
    BY <1>1, <2>1, <2>2, <2>3 DEF Worth
  <2> QED
    BY <2>4, <2>5 DEF new
<1> QED
  BY <1>3, <1>4

\* The states on the way of the loop over the coins.
CoinByCoin(after, n, ps, cs) ==
  /\ after[0] = [players |-> ps, coins_left |-> <<>>]
  /\ \A k \in 1..Len(cs) : after[k] = DivideCoin(after[k - 1], cs[k])
  /\ \A k \in 0..Len(cs) : after[k] \in States(n)
  /\ DivideCoins(ps, cs) = after[Len(cs)]

\* With somebody on the field the loop is gone through.
LEMMA DividedOneByOne ==
  ASSUME NEW n \in 1..MaxPlayers, NEW ps \in Balls(n), NEW cs \in Seq(Int)
  PROVE  \E after : CoinByCoin(after, n, ps, cs)
<1> DEFINE V == States(n)
           m == Len(cs)
           v0 == [players |-> ps, coins_left |-> <<>>]
           step == [k \in 1..m |-> [v \in V |-> DivideCoin(v, cs[k])]]
           after == CHOOSE f : f = [k \in 0..m |-> IF k = 0 THEN v0 ELSE DivideCoin(f[k - 1], cs[k])]
<1>1. n \in Nat /\ n > 0 /\ Len(ps) = n /\ m \in Nat
  BY Numbers, SeqOfBalls
<1>2. v0 \in V /\ \A k \in 1..m : cs[k] \in Int
  BY DEF States
<1>3. DivideCoins(ps, cs) = after[m]
  <2>1. ps # <<>>
    BY <1>1
  <2> QED
    BY <2>1 DEF DivideCoins
<1>4. step \in [1..m -> [V -> V]]
  <2>1. ASSUME NEW k \in 1..m, NEW v \in V
        PROVE  DivideCoin(v, cs[k]) \in V
    BY <1>2, DivideCoinKeepsWorth
  <2> HIDE DEF V
  <2> QED
    BY <2>1
<1>5. \A k \in 1..m, v \in V : step[k][v] = DivideCoin(v, cs[k])
  OBVIOUS
<1> HIDE DEF step, V, v0
<1>6. PICK f \in [0..m -> V] : Walks(f, m, v0, step)
  BY <1>1, <1>2, <1>4, StepByStep
<1>7. f = [k \in 0..m |-> IF k = 0 THEN v0 ELSE DivideCoin(f[k - 1], cs[k])]
  <2>1. ASSUME NEW k \in 1..m
        PROVE  f[k] = DivideCoin(f[k - 1], cs[k])
    <3>1. k - 1 \in 0..m
      BY <1>1
    <3>2. f[k - 1] \in V
      BY <3>1
    <3> QED
      BY <1>5, <1>6, <3>2 DEF Walks
  <2>2. \A k \in 0..m : f[k] = IF k = 0 THEN v0 ELSE DivideCoin(f[k - 1], cs[k])
    BY <1>1, <1>6, <2>1 DEF Walks
  <2> QED
    BY <2>2
<1>8. after = [k \in 0..m |-> IF k = 0 THEN v0 ELSE DivideCoin(after[k - 1], cs[k])]
  BY <1>7
<1> HIDE DEF after
<1>9. after[0] = v0 /\ \A k \in 1..m : after[k] = DivideCoin(after[k - 1], cs[k])
  BY <1>1, <1>8
<1>10. Follows(after, m, v0, step, V)
  BY <1>5, <1>9 DEF Follows
<1>11. \A k \in 0..m : after[k] \in V
  BY <1>1, <1>2, <1>4, <1>10, StaysWithin
<1>12. CoinByCoin(after, n, ps, cs)
  BY <1>3, <1>9, <1>11 DEF CoinByCoin, v0, V
<1> QED
  BY <1>12

\* All the coins on the field are divided or left.
LEMMA DivideCoinsKeepsWorth ==
  ASSUME NEW n \in 0..MaxPlayers, NEW ps \in Balls(n), NEW cs \in Seq(Int)
  PROVE  /\ DivideCoins(ps, cs) \in States(n)
         /\ Worth(DivideCoins(ps, cs)) = TotalScore(ps) + CoinValue * Len(cs)
<1>1. n \in Nat /\ Len(ps) = n /\ CoinValue \in Nat /\ Len(cs) \in Nat /\ TotalScore(ps) \in Nat
  BY Numbers, SeqOfBalls, SumsAdvance
<1>2. CASE n = 0
  <2>1. ps = <<>>
    BY <1>1, <1>2, SeqOfBalls
  <2>2. DivideCoins(ps, cs) = [players |-> ps, coins_left |-> cs]
    BY <2>1 DEF DivideCoins
  <2> QED
    BY <2>2 DEF States, Worth
<1>3. CASE n \in 1..MaxPlayers
  <2> DEFINE m == Len(cs)
  <2>1. PICK after : CoinByCoin(after, n, ps, cs)
    BY <1>3, DividedOneByOne
  <2>2. /\ after[0] = [players |-> ps, coins_left |-> <<>>]
        /\ \A k \in 1..m : after[k] = DivideCoin(after[k - 1], cs[k]) /\ cs[k] \in Int
        /\ \A k \in 0..m : after[k] \in States(n)
        /\ DivideCoins(ps, cs) = after[m]
    BY <2>1 DEF CoinByCoin
  <2> DEFINE Good == {k \in 0..m : Worth(after[k]) = TotalScore(ps) + CoinValue * k}
  <2>3. 0 \in Good
    <3>1. Worth(after[0]) = TotalScore(ps) + CoinValue * 0
      BY <1>1, <2>2 DEF Worth
    <3> QED
      BY <1>1, <3>1
  <2>4. ASSUME NEW k \in 1..m, k - 1 \in Good
        PROVE  k \in Good
    <3>1. k \in 0..m /\ k - 1 \in 0..m /\ cs[k] \in Int
          /\ Worth(after[k - 1]) = TotalScore(ps) + CoinValue * (k - 1)
      BY <1>1, <2>2, <2>4
    <3>2. Worth(after[k]) = Worth(after[k - 1]) + CoinValue
      BY <1>3, <2>2, <3>1, DivideCoinKeepsWorth
    <3>3. k - 1 \in Nat /\ k \in Nat /\ CoinValue * k = CoinValue * (k - 1) + CoinValue
          /\ CoinValue * (k - 1) \in Nat
      BY <1>1
    <3>4. Worth(after[k]) = TotalScore(ps) + CoinValue * k
      BY <1>1, <3>1, <3>2, <3>3
    <3> QED
      BY <3>1, <3>4
  <2>5. 0..m \subseteq Good
    <3> HIDE DEF Good
    <3> QED
      BY <1>1, <2>3, <2>4, Upwards
  <2>6. m \in 0..m
    BY <1>1
  <2> QED
    BY <2>2, <2>5, <2>6
<1> QED
  BY <1>2, <1>3

\* One round of the loop of Emulate.
LEMMA StepKeepsWorth ==
  ASSUME NEW n \in 0..MaxPlayers, NEW state \in States(n)
  PROVE  Step(state) \in States(n) /\ Worth(Step(state)) = Worth(state)
<1> DEFINE ps == state.players
           moved == MovePlayers(ps)
           collided == HandleBallToBallCollisions(moved)
           held == HandleBallToBorderCollisions(collided)
<1>1. n \in Nat /\ ps \in Balls(n) /\ state.coins_left \in Seq(Int)
  BY Numbers, WorthIsNumber
<1>2. moved \in Balls(n) /\ TotalScore(moved) = TotalScore(ps)
  <2>1. [i \in 1..n |-> 0] \in [1..n -> {-1, 0, 1}]
    OBVIOUS
  <2>2. moved \in SameScores(n, ps)
    BY <1>1, <2>1, MovesKeepScores
  <2> HIDE DEF ps, moved
  <2> QED
    BY <1>1, <2>2, SameTotal
<1>3. collided \in Balls(n) /\ TotalScore(collided) = TotalScore(moved)
  <2> HIDE DEF moved
  <2>1. collided \in SameScores(n, moved)
    BY <1>1, <1>2, CollisionsKeepScores
  <2> HIDE DEF collided
  <2> QED
    BY <1>1, <1>2, <2>1, SameTotal
<1>4. held \in Balls(n) /\ TotalScore(held) = TotalScore(collided)
  <2> HIDE DEF collided
  <2>1. [i \in 1..n |-> 0] \in [1..n -> {-1, 0, 1}]
    OBVIOUS
  <2>2. held \in SameScores(n, collided)
    BY <1>1, <1>3, <2>1, MovesKeepScores
  <2> HIDE DEF held
  <2> QED
    BY <1>1, <1>3, <2>2, SameTotal
<1>5. Step(state) = DivideCoins(held, state.coins_left)
  BY DEF Step
<1> HIDE DEF held, collided, moved
<1>6. /\ DivideCoins(held, state.coins_left) \in States(n)
      /\ Worth(DivideCoins(held, state.coins_left)) = TotalScore(held) + CoinValue * Len(state.coins_left)
  BY <1>1, <1>4, DivideCoinsKeepsWorth
<1> QED
  BY <1>2, <1>3, <1>4, <1>5, <1>6 DEF Worth

\* The states on the way of the loop of Emulate.
StepByStepOf(after, n, ps, cs) ==
  /\ after[0] = [players |-> ps, coins_left |-> cs]
  /\ \A k \in 1..StepsNumber : after[k] = Step(after[k - 1])
  /\ \A k \in 0..StepsNumber : after[k] \in States(n) /\ Worth(after[k]) = Worth(after[0])
  /\ Steps(ps, cs) = after[StepsNumber]

\* It goes through them.
LEMMA SteppedOneByOne ==
  ASSUME NEW n \in 0..MaxPlayers, NEW ps \in Balls(n), NEW cs \in Seq(Int)
  PROVE  \E after : StepByStepOf(after, n, ps, cs)
<1> DEFINE v0 == [players |-> ps, coins_left |-> cs]
           V == {v \in States(n) : Worth(v) = Worth(v0)}
           m == StepsNumber
           step == [k \in 1..m |-> [v \in V |-> Step(v)]]
           after == CHOOSE f : f = [k \in 0..m |-> IF k = 0 THEN v0 ELSE Step(f[k - 1])]
<1>1. m \in Nat /\ v0 \in V
  BY Numbers DEF States
<1>2. step \in [1..m -> [V -> V]]
  <2>1. ASSUME NEW k \in 1..m, NEW v \in V
        PROVE  Step(v) \in V
    BY StepKeepsWorth
  <2> HIDE DEF V
  <2> QED
    BY <2>1
<1>3. \A k \in 1..m, v \in V : step[k][v] = Step(v)
  OBVIOUS
<1>4. Steps(ps, cs) = after[m]
  BY DEF Steps
<1> HIDE DEF v0, V, m, step
<1>5. PICK f \in [0..m -> V] : Walks(f, m, v0, step)
  BY <1>1, <1>2, StepByStep
<1>6. f = [k \in 0..m |-> IF k = 0 THEN v0 ELSE Step(f[k - 1])]
  <2>1. ASSUME NEW k \in 1..m
        PROVE  f[k] = Step(f[k - 1])
    <3>1. k - 1 \in 0..m
      BY <1>1
    <3>2. f[k - 1] \in V
      BY <3>1
    <3> QED
      BY <1>3, <1>5, <3>2 DEF Walks
  <2>2. \A k \in 0..m : f[k] = IF k = 0 THEN v0 ELSE Step(f[k - 1])
    BY <1>1, <1>5, <2>1 DEF Walks
  <2> QED
    BY <2>2
<1>7. after = [k \in 0..m |-> IF k = 0 THEN v0 ELSE Step(after[k - 1])]
  BY <1>6
<1> HIDE DEF after
<1>8. after[0] = v0 /\ \A k \in 1..m : after[k] = Step(after[k - 1])
  BY <1>1, <1>7
<1>9. Follows(after, m, v0, step, V)
  BY <1>3, <1>8 DEF Follows
<1>10. \A k \in 0..m : after[k] \in V
  BY <1>1, <1>2, <1>9, StaysWithin
<1>11. StepByStepOf(after, n, ps, cs)
  BY <1>4, <1>8, <1>10 DEF StepByStepOf, v0, V, m
<1> QED
  BY <1>11

\* Together they keep what it is worth.
LEMMA StepsKeepWorth ==
  ASSUME NEW n \in 0..MaxPlayers, NEW ps \in Balls(n), NEW cs \in Seq(Int)
  PROVE  /\ Steps(ps, cs) \in States(n)
         /\ Worth(Steps(ps, cs)) = TotalScore(ps) + CoinValue * Len(cs)
<1>1. PICK after : StepByStepOf(after, n, ps, cs)
  BY SteppedOneByOne
<1>2. StepsNumber \in 0..StepsNumber
  BY Numbers
<1>3. after[StepsNumber] \in States(n) /\ Worth(after[StepsNumber]) = Worth(after[0])
      /\ Steps(ps, cs) = after[StepsNumber]
  BY <1>1, <1>2 DEF StepByStepOf
<1>4. Worth(after[0]) = TotalScore(ps) + CoinValue * Len(cs)
  BY <1>1 DEF StepByStepOf, Worth
<1> QED
  BY <1>3, <1>4

-----------------------------------------------------------------------------
(* The steps of the game *)

FieldInv == FieldTypeOK /\ ScoresAccountForCoins

\* A game begins with nobody and nothing.
LEMMA FieldInit ==
  ASSUME Init
  PROVE  FieldInv
<1>1. players = <<>> /\ coins = <<>> /\ sent = FALSE /\ generated = 0
  BY DEF Init
<1>2. players \in Seq(Ball) /\ Len(players) = 0 /\ coins \in Seq(Int) /\ Len(coins) = 0
  BY <1>1
<1>3. TotalScore(players) = 0
  <2>1. 0 \in Nat /\ players \in Balls(0)
    BY <1>2, SeqOfBalls
  <2> QED
    BY <2>1, SumsAdvance
<1>4. FieldTypeOK
  <2>1. sent \in BOOLEAN /\ generated \in Nat
    BY <1>1
  <2>2. Len(players) <= MaxPlayers
    BY <1>2, Numbers
  <2> QED
    BY <1>2, <2>1, <2>2 DEF FieldTypeOK
<1>5. CoinValue * 0 = 0
  BY Numbers
<1>6. ScoresAccountForCoins
  BY <1>1, <1>2, <1>3, <1>5 DEF ScoresAccountForCoins
<1> QED
  BY <1>4, <1>6 DEF FieldInv

\* A player brings no score.
LEMMA AddPlayerAccounts ==
  ASSUME FieldInv, AddPlayer
  PROVE  FieldInv'
<1> DEFINE n == Len(players)
           qs == players'
<1>1. PICK c \in Inside(PlayerRadius) :
        players' = Append(players, [center |-> c, velocity |-> 0, score |-> 0])
  BY DEF AddPlayer
<1> DEFINE p == [center |-> c, velocity |-> 0, score |-> 0]
<1>2. UNCHANGED <<coins, sent, generated>> /\ n < MaxPlayers
  BY DEF AddPlayer
<1>3. n \in Nat /\ players \in Balls(n) /\ players \in Seq(Ball)
  BY SeqOfBalls DEF FieldInv, FieldTypeOK
<1>4. p \in Ball
  BY Numbers DEF Inside, Ball
<1>5. /\ qs \in Seq(Ball) /\ Len(qs) = n + 1
      /\ \A i \in 1..n : qs[i] = players[i]
      /\ qs[n + 1].score = 0
  <2>1. qs = Append(players, p)
    BY <1>1
  <2>2. p.score = 0
    OBVIOUS
  <2> HIDE DEF p, qs
  <2> QED
    BY <1>3, <1>4, <2>1, <2>2, AppendProperties
<1> HIDE DEF p
<1>6. TotalScore(qs) = TotalScore(players)
  <2> HIDE DEF n, qs
  <2> DEFINE a == Sums(players)
             b == Sums(qs)
  <2>1. n + 1 \in Nat /\ qs \in Balls(n + 1)
    BY <1>3, <1>5, SeqOfBalls
  <2>2. /\ TotalScore(players) = a[n] /\ a[0] = 0
        /\ \A k \in 1..n : a[k] = a[k - 1] + players[k].score
        /\ \A k \in 0..n : a[k] \in Nat
    BY <1>3, SumsAdvance
  <2>3. /\ TotalScore(qs) = b[n + 1] /\ b[0] = 0
        /\ \A k \in 1..n + 1 : b[k] = b[k - 1] + qs[k].score
    BY <2>1, SumsAdvance
  <2> HIDE DEF a, b
  <2> DEFINE Good == {k \in 0..n : b[k] = a[k]}
  <2>4. 0 \in Good
    BY <1>3, <2>2, <2>3
  <2>5. ASSUME NEW k \in 1..n, k - 1 \in Good
        PROVE  k \in Good
    <3>1. k \in 1..n + 1 /\ k \in 0..n /\ b[k - 1] = a[k - 1] /\ qs[k] = players[k]
      BY <1>3, <1>5, <2>5
    <3> QED
      BY <2>2, <2>3, <3>1
  <2>6. 0..n \subseteq Good
    <3> HIDE DEF Good
    <3> QED
      BY <1>3, <2>4, <2>5, Upwards
  <2>7. n \in 0..n /\ n + 1 \in 1..n + 1 /\ (n + 1) - 1 = n
    BY <1>3
  <2>8. b[n + 1] = b[n] + 0 /\ b[n] = a[n] /\ a[n] \in Nat
    BY <1>5, <2>2, <2>3, <2>6, <2>7
  <2> QED
    BY <2>2, <2>3, <2>8
<1>7. FieldTypeOK'
  BY <1>2, <1>3, <1>5, Numbers DEF FieldInv, FieldTypeOK
<1>8. ScoresAccountForCoins'
  BY <1>2, <1>6 DEF FieldInv, ScoresAccountForCoins
<1> QED
  BY <1>7, <1>8 DEF FieldInv

\* A coin that is put on the field is worth what it adds to the account.
LEMMA SendStateAccounts ==
  ASSUME FieldInv, SendState
  PROVE  FieldInv'
<1>1. /\ coins \in Seq(Int) /\ generated \in Nat /\ sent' \in BOOLEAN /\ players' = players
      /\ Len(coins) \in Nat /\ CoinValue \in Nat
      /\ TotalScore(players) + CoinValue * Len(coins) = CoinValue * generated
      /\ TotalScore(players) \in Nat
  <2>1. TotalScore(players) \in Nat
    BY SeqOfBalls, SumsAdvance DEF FieldInv, FieldTypeOK
  <2> QED
    BY <2>1, Numbers DEF FieldInv, FieldTypeOK, ScoresAccountForCoins, SendState
<1>2. CASE UNCHANGED <<coins, generated>>
  BY <1>1, <1>2 DEF FieldInv, FieldTypeOK, ScoresAccountForCoins
<1>3. CASE /\ \E c \in Inside(CoinRadius) : coins' = Append(coins, c)
           /\ generated' = generated + 1
  <2>1. PICK c \in Inside(CoinRadius) : coins' = Append(coins, c)
    BY <1>3
  <2>2. c \in Int
    BY Numbers DEF Inside
  <2>3. coins' \in Seq(Int) /\ Len(coins') = Len(coins) + 1
    BY <1>1, <2>1, <2>2, AppendProperties
  <2>4. /\ CoinValue * (Len(coins) + 1) = CoinValue * Len(coins) + CoinValue
        /\ CoinValue * (generated + 1) = CoinValue * generated + CoinValue
        /\ CoinValue * Len(coins) \in Nat /\ CoinValue * generated \in Nat
    BY <1>1
  <2>5. TotalScore(players) + CoinValue * (Len(coins) + 1) = CoinValue * (generated + 1)
    <3> DEFINE total == TotalScore(players)
               left == CoinValue * Len(coins)
               all == CoinValue * generated
    <3>1. total \in Nat /\ left \in Nat /\ all \in Nat /\ total + left = all
      BY <1>1, <2>4
    <3> HIDE DEF total, left, all
    <3>2. total + (left + CoinValue) = all + CoinValue
      BY <1>1, <3>1
    <3> QED
      BY <2>4, <3>2 DEF total, left, all
  <2>6. ScoresAccountForCoins'
    BY <1>1, <1>3, <2>3, <2>5 DEF ScoresAccountForCoins
  <2> QED
    BY <1>1, <1>3, <2>3, <2>6 DEF FieldInv, FieldTypeOK
<1> QED
  BY <1>2, <1>3 DEF SendState

\* Nothing is made or lost in all the steps of Emulate.
LEMMA EmulateAccounts ==
  ASSUME FieldInv, Emulate
  PROVE  FieldInv'
<1> DEFINE n == Len(players)
<1>1. n \in 0..MaxPlayers /\ n \in Nat /\ players \in Balls(n) /\ DOMAIN players = 1..n /\ coins \in Seq(Int)
  BY SeqOfBalls, Numbers DEF FieldInv, FieldTypeOK
<1>2. PICK turns \in [1..n -> {-1, 0, 1}] :
        LET after == Steps(ApplyAcceleration(players, turns), coins)
        IN players' = after.players /\ coins' = after.coins_left
  BY <1>1 DEF Emulate
<1> DEFINE ps == ApplyAcceleration(players, turns)
           after == Steps(ps, coins)
<1> HIDE DEF n
<1>3. ps \in SameScores(n, players)
  BY <1>1, MovesKeepScores
<1>4. ps \in Balls(n) /\ TotalScore(ps) = TotalScore(players)
  <2> HIDE DEF ps
  <2> QED
    BY <1>1, <1>3, SameTotal
<1>5. players' = after.players /\ coins' = after.coins_left
  BY <1>2
<1> HIDE DEF ps
<1>6. after \in States(n) /\ Worth(after) = TotalScore(players) + CoinValue * Len(coins)
  BY <1>1, <1>4, StepsKeepWorth
<1> HIDE DEF after
<1>7. players' \in Balls(n) /\ coins' \in Seq(Int)
      /\ TotalScore(players') + CoinValue * Len(coins') = TotalScore(players) + CoinValue * Len(coins)
  BY <1>5, <1>6 DEF States, Worth
<1>8. players' \in Seq(Ball) /\ Len(players') = n
  BY <1>1, <1>7, SeqOfBalls
<1>9. sent' \in BOOLEAN /\ generated' = generated
  BY DEF Emulate
<1>10. FieldTypeOK'
  BY <1>1, <1>7, <1>8, <1>9 DEF FieldInv, FieldTypeOK
<1>11. ScoresAccountForCoins'
  BY <1>7, <1>9 DEF FieldInv, ScoresAccountForCoins
<1> QED
  BY <1>10, <1>11 DEF FieldInv

\* So every step of the game keeps the account.
LEMMA FieldStep ==
  ASSUME FieldInv, [Next]_vars
  PROVE  FieldInv'
<1>1. CASE UNCHANGED vars
  BY <1>1 DEF vars, FieldInv, FieldTypeOK, ScoresAccountForCoins
<1> QED
  BY <1>1, AddPlayerAccounts, SendStateAccounts, EmulateAccounts DEF Next

-----------------------------------------------------------------------------
(* Sums *)

\* A sum, term by term, and its partial sums.
Total(t, n) == LET sum[k \in 0..n] == IF k = 0 THEN 0 ELSE sum[k - 1] + t[k] IN sum[n]
IsSum(s, t, n) ==
  /\ s \in [0..n -> Int] /\ s[0] = 0 /\ \A k \in 1..n : s[k] = s[k - 1] + t[k]
  /\ Total(t, n) = s[n]

\* Every sum has its partial sums.
LEMMA TotalAdvances ==
  ASSUME NEW n \in Nat, NEW t \in [1..n -> Int]
  PROVE  \E s : IsSum(s, t, n)
<1> DEFINE step == [k \in 1..n |-> [v \in Int |-> v + t[k]]]
           sum == CHOOSE f : f = [k \in 0..n |-> IF k = 0 THEN 0 ELSE f[k - 1] + t[k]]
<1>1. step \in [1..n -> [Int -> Int]]
  OBVIOUS
<1>2. \A k \in 1..n, v \in Int : step[k][v] = v + t[k]
  OBVIOUS
<1>3. Total(t, n) = sum[n]
  BY DEF Total
<1> HIDE DEF step
<1>4. PICK f \in [0..n -> Int] : Walks(f, n, 0, step)
  <2>1. 0 \in Int
    OBVIOUS
  <2> QED
    BY <1>1, <2>1, StepByStep
<1>5. f = [k \in 0..n |-> IF k = 0 THEN 0 ELSE f[k - 1] + t[k]]
  <2>1. ASSUME NEW k \in 1..n
        PROVE  f[k] = f[k - 1] + t[k]
    <3>1. k - 1 \in 0..n
      OBVIOUS
    <3>2. f[k - 1] \in Int
      BY <3>1
    <3> QED
      BY <1>2, <1>4, <3>2 DEF Walks
  <2>2. \A k \in 0..n : f[k] = IF k = 0 THEN 0 ELSE f[k - 1] + t[k]
    BY <1>4, <2>1 DEF Walks
  <2> QED
    BY <2>2
<1>6. sum = [k \in 0..n |-> IF k = 0 THEN 0 ELSE sum[k - 1] + t[k]]
  BY <1>5
<1> HIDE DEF sum
<1>7. sum[0] = 0 /\ \A k \in 1..n : sum[k] = sum[k - 1] + t[k]
  BY <1>6
<1>8. Follows(sum, n, 0, step, Int)
  BY <1>2, <1>7 DEF Follows
<1>9. \A k \in 0..n : sum[k] \in Int
  <2>1. 0 \in Int
    OBVIOUS
  <2> QED
    BY <1>1, <1>8, <2>1, StaysWithin
<1>10. sum \in [0..n -> Int]
  BY <1>6, <1>9
<1>11. IsSum(sum, t, n)
  BY <1>3, <1>7, <1>10 DEF IsSum
<1> QED
  BY <1>11

\* A sum of nothing but zeros.
LEMMA NoTerms ==
  ASSUME NEW n \in Nat, NEW t \in [1..n -> Int], \A k \in 1..n : t[k] = 0
  PROVE  Total(t, n) = 0
<1>1. PICK s : IsSum(s, t, n)
  BY TotalAdvances
<1> DEFINE Good == {k \in 0..n : s[k] = 0}
<1>2. 0 \in Good
  BY <1>1 DEF IsSum
<1>3. ASSUME NEW k \in 1..n, k - 1 \in Good
      PROVE  k \in Good
  BY <1>1, <1>3 DEF IsSum
<1>4. 0..n \subseteq Good
  <2> HIDE DEF Good
  <2> QED
    BY <1>2, <1>3, Upwards
<1> QED
  BY <1>1, <1>4 DEF IsSum

\* No term is greater: nor is the sum.
NoGreater(t, u, n) == \A k \in 1..n : t[k] <= u[k]

LEMMA LessTerms ==
  ASSUME NEW n \in Nat, NEW t \in [1..n -> Int], NEW u \in [1..n -> Int], NoGreater(t, u, n)
  PROVE  Total(t, n) <= Total(u, n) /\ Total(t, n) \in Int
<1>1. PICK s : IsSum(s, t, n)
  BY TotalAdvances
<1>2. PICK r : IsSum(r, u, n)
  BY TotalAdvances
<1> DEFINE Good == {k \in 0..n : s[k] <= r[k]}
<1>3. 0 \in Good
  BY <1>1, <1>2 DEF IsSum
<1>4. ASSUME NEW k \in 1..n, k - 1 \in Good
      PROVE  k \in Good
  <2>1. k - 1 \in 0..n /\ k \in 0..n /\ t[k] <= u[k] /\ t[k] \in Int /\ u[k] \in Int
    BY DEF NoGreater
  <2>2. /\ s[k] = s[k - 1] + t[k] /\ r[k] = r[k - 1] + u[k]
        /\ s[k - 1] \in Int /\ r[k - 1] \in Int /\ s[k - 1] <= r[k - 1]
    BY <1>1, <1>2, <1>4, <2>1 DEF IsSum
  <2>3. s[k] <= r[k]
    BY <2>1, <2>2
  <2> QED
    BY <2>1, <2>3
<1>5. 0..n \subseteq Good
  <2> HIDE DEF Good
  <2> QED
    BY <1>3, <1>4, Upwards
<1> QED
  BY <1>1, <1>2, <1>5 DEF IsSum

\* Only one term is another.
OnlyAt(i, t, u, n) == \A k \in 1..n : k # i => u[k] = t[k]

LEMMA OneTerm ==
  ASSUME NEW n \in Nat, NEW t \in [1..n -> Int], NEW u \in [1..n -> Int], NEW i \in 1..n,
         OnlyAt(i, t, u, n)
  PROVE  Total(u, n) = Total(t, n) + (u[i] - t[i])
<1>1. PICK s : IsSum(s, t, n)
  BY TotalAdvances
<1>2. PICK r : IsSum(r, u, n)
  BY TotalAdvances
<1> DEFINE d == u[i] - t[i]
           Good == {k \in 0..n : r[k] = IF k < i THEN s[k] ELSE s[k] + d}
<1>3. d \in Int
  OBVIOUS
<1>4. 0 \in Good
  BY <1>1, <1>2 DEF IsSum
<1>5. ASSUME NEW k \in 1..n, k - 1 \in Good
      PROVE  k \in Good
  <2>1. k - 1 \in 0..n /\ k \in 0..n /\ t[k] \in Int /\ u[k] \in Int
    OBVIOUS
  <2>2. /\ s[k] = s[k - 1] + t[k] /\ r[k] = r[k - 1] + u[k]
        /\ s[k - 1] \in Int /\ r[k - 1] \in Int
        /\ r[k - 1] = IF k - 1 < i THEN s[k - 1] ELSE s[k - 1] + d
    BY <1>1, <1>2, <1>5, <2>1 DEF IsSum
  <2>3. k # i => u[k] = t[k]
    BY DEF OnlyAt
  <2>4. k = i => u[k] = t[k] + d
    OBVIOUS
  <2> HIDE DEF d
  <2>5. r[k] = IF k < i THEN s[k] ELSE s[k] + d
    BY <1>3, <2>1, <2>2, <2>3, <2>4
  <2> QED
    BY <2>1, <2>5
<1>6. 0..n \subseteq Good
  <2> HIDE DEF Good
  <2> QED
    BY <1>4, <1>5, Upwards
<1>7. r[n] = s[n] + d
  BY <1>6
<1> QED
  BY <1>1, <1>2, <1>7 DEF IsSum

\* One term more.
LEMMA LastTerm ==
  ASSUME NEW n \in Nat, NEW t \in [1..n -> Int], NEW u \in [1..n + 1 -> Int],
         \A k \in 1..n : u[k] = t[k]
  PROVE  Total(u, n + 1) = Total(t, n) + u[n + 1]
<1>1. PICK s : IsSum(s, t, n)
  BY TotalAdvances
<1>2. PICK r : IsSum(r, u, n + 1)
  <2>1. n + 1 \in Nat
    OBVIOUS
  <2> QED
    BY <2>1, TotalAdvances
<1> DEFINE Good == {k \in 0..n : r[k] = s[k]}
<1>3. 0 \in Good
  BY <1>1, <1>2 DEF IsSum
<1>4. ASSUME NEW k \in 1..n, k - 1 \in Good
      PROVE  k \in Good
  <2>1. k \in 1..n + 1 /\ k \in 0..n /\ r[k - 1] = s[k - 1] /\ u[k] = t[k]
    BY <1>4
  <2> QED
    BY <1>1, <1>2, <2>1 DEF IsSum
<1>5. 0..n \subseteq Good
  <2> HIDE DEF Good
  <2> QED
    BY <1>3, <1>4, Upwards
<1>6. n + 1 \in 1..n + 1 /\ (n + 1) - 1 = n /\ n \in 0..n
  OBVIOUS
<1>7. r[n + 1] = r[n] + u[n + 1] /\ r[n] = s[n]
  BY <1>2, <1>5, <1>6 DEF IsSum
<1> QED
  BY <1>1, <1>2, <1>7 DEF IsSum

-----------------------------------------------------------------------------
(* How far out the balls may be together *)

Depths(n) == [1..n -> Nat]

\* The sum over some of the balls.
Terms(x, K, n) == [k \in 1..n |-> IF k \in K THEN x[k] ELSE 0]
Part(x, K, n) == Total(Terms(x, K, n), n)

\* Parts of a sum, from nothing on, ball by ball.
LEMMA Parts ==
  ASSUME NEW n \in Nat, NEW x \in Depths(n)
  PROVE  /\ Part(x, {}, n) = 0
         /\ \A K \in SUBSET (1..n) : Part(x, K, n) \in Int
         /\ \A K \in SUBSET (1..n) : \A i \in (1..n) \ K : Part(x, K \cup {i}, n) = Part(x, K, n) + x[i]
<1>1. \A K : Terms(x, K, n) \in [1..n -> Int]
  BY DEF Terms, Depths
<1>2. Part(x, {}, n) = 0
  <2>1. \A k \in 1..n : Terms(x, {}, n)[k] = 0
    BY DEF Terms
  <2> QED
    BY <1>1, <2>1, NoTerms DEF Part
<1>3. ASSUME NEW K \in SUBSET (1..n)
      PROVE  Part(x, K, n) \in Int
  <2>1. NoGreater(Terms(x, K, n), Terms(x, K, n), n)
    BY <1>1 DEF NoGreater
  <2> QED
    BY <1>1, <2>1, LessTerms DEF Part
<1>4. ASSUME NEW K \in SUBSET (1..n), NEW i \in (1..n) \ K
      PROVE  Part(x, K \cup {i}, n) = Part(x, K, n) + x[i]
  <2>1. OnlyAt(i, Terms(x, K, n), Terms(x, K \cup {i}, n), n)
    BY DEF OnlyAt, Terms
  <2>2. Total(Terms(x, K \cup {i}, n), n)
          = Total(Terms(x, K, n), n) + (Terms(x, K \cup {i}, n)[i] - Terms(x, K, n)[i])
    BY <1>1, <2>1, OneTerm
  <2>3. Terms(x, K \cup {i}, n)[i] = x[i] /\ Terms(x, K, n)[i] = 0 /\ x[i] \in Nat
    BY DEF Terms, Depths
  <2>4. Part(x, K, n) \in Int
    BY <1>3
  <2> QED
    BY <2>2, <2>3, <2>4 DEF Part
<1> QED
  BY <1>2, <1>3, <1>4

\* Of balls that are no deeper.
LEMMA LessPart ==
  ASSUME NEW n \in Nat, NEW x \in Depths(n), NEW y \in Depths(n), NEW K \in SUBSET (1..n),
         \A k \in K : y[k] <= x[k]
  PROVE  Part(y, K, n) <= Part(x, K, n)
<1>1. Terms(x, K, n) \in [1..n -> Int] /\ Terms(y, K, n) \in [1..n -> Int]
  BY DEF Terms, Depths
<1>2. NoGreater(Terms(y, K, n), Terms(x, K, n), n)
  BY DEF NoGreater, Terms
<1> QED
  BY <1>1, <1>2, LessTerms DEF Part

\* What k of n balls may have: a diameter for each pair of which one or both are among them.
Bound(n, k) == PlayerRadius * (k * (2 * n - k - 1))

\* The next ball may have two radii less than the one before.
LEMMA BoundGrows ==
  ASSUME NEW n \in Nat, NEW k \in Nat, k + 2 <= n
  PROVE  \E d \in Nat : /\ d >= 2 * PlayerRadius
                        /\ Bound(n, k + 1) = Bound(n, k) + d
                        /\ Bound(n, k + 2) = Bound(n, k + 1) + (d - 2 * PlayerRadius)
<1> DEFINE m == n - k - 2
           d == 2 * (PlayerRadius * (m + 1))
<1>1. m \in Nat /\ n = m + k + 2 /\ PlayerRadius \in Nat
  BY Numbers
<1> HIDE DEF m
<1>2. d \in Nat /\ d = 2 * (PlayerRadius * m) + 2 * PlayerRadius /\ PlayerRadius * m \in Nat
  BY <1>1
<1>3. (k + 1) * (2 * n - (k + 1) - 1) = k * (2 * n - k - 1) + 2 * (m + 1)
  BY <1>1
<1>4. (k + 2) * (2 * n - (k + 2) - 1) = (k + 1) * (2 * n - (k + 1) - 1) + 2 * m
  BY <1>1
<1>5. \A a, b \in Int : PlayerRadius * (a + 2 * b) = PlayerRadius * a + 2 * (PlayerRadius * b)
  BY <1>1
<1>6. Bound(n, k + 1) = Bound(n, k) + d
  <2>1. k * (2 * n - k - 1) \in Int /\ m + 1 \in Int
    BY <1>1
  <2> QED
    BY <1>3, <1>5, <2>1 DEF Bound
<1>7. Bound(n, k + 2) = Bound(n, k + 1) + 2 * (PlayerRadius * m)
  <2>1. (k + 1) * (2 * n - (k + 1) - 1) \in Int /\ m \in Int
    BY <1>1
  <2> QED
    BY <1>4, <1>5, <2>1 DEF Bound
<1>8. Bound(n, k + 1) \in Int
  BY <1>1 DEF Bound
<1> HIDE DEF d
<1> QED
  BY <1>1, <1>2, <1>6, <1>7, <1>8

\* Another player gives everybody more room.
LEMMA BoundWidens ==
  ASSUME NEW n \in Nat, NEW k \in 0..n
  PROVE  /\ Bound(n, k) \in Nat
         /\ Bound(n, k) <= Bound(n + 1, k) /\ Bound(n + 1, k) <= Bound(n + 1, k + 1)
<1>1. PlayerRadius \in Nat /\ k \in Nat
  BY Numbers
<1>2. ASSUME NEW a \in Int, NEW b \in Nat
      PROVE  PlayerRadius * a <= PlayerRadius * (a + b)
  <2>1. PlayerRadius * (a + b) = PlayerRadius * a + PlayerRadius * b
    BY <1>1
  <2>2. PlayerRadius * b \in Nat /\ PlayerRadius * a \in Int
    BY <1>1
  <2> QED
    BY <2>1, <2>2
<1>3. k * (2 * n - k - 1) \in Nat
  <2>1. k = 0 \/ 2 * n - k - 1 \in Nat
    OBVIOUS
  <2>2. k = 0 => k * (2 * n - k - 1) = 0
    OBVIOUS
  <2>3. \A a, b \in Nat : a * b \in Nat
    OBVIOUS
  <2> QED
    BY <1>1, <2>1, <2>2, <2>3
<1>4. Bound(n, k) \in Nat
  BY <1>1, <1>3 DEF Bound
<1>5. k * (2 * (n + 1) - k - 1) = k * (2 * n - k - 1) + 2 * k
  BY <1>1
<1>6. (k + 1) * (2 * (n + 1) - (k + 1) - 1) = k * (2 * (n + 1) - k - 1) + 2 * (n - k)
  BY <1>1
<1>7. 2 * k \in Nat /\ 2 * (n - k) \in Nat /\ k * (2 * n - k - 1) \in Int /\ k * (2 * (n + 1) - k - 1) \in Int
  BY <1>1
<1>8. Bound(n, k) <= Bound(n + 1, k)
  BY <1>2, <1>5, <1>7 DEF Bound
<1>9. Bound(n + 1, k) <= Bound(n + 1, k + 1)
  BY <1>2, <1>6, <1>7 DEF Bound
<1> QED
  BY <1>4, <1>8, <1>9

\* Any balls together are no deeper than their bound.
Spread(n, x) == \A K \in SUBSET (1..n) : Part(x, K, n) <= Bound(n, Cardinality(K))

\* What one ball gets from another: no more than one, no more than would take it a diameter
\* beyond the other, and the other comes back by one, if it was out at all.
HandsOver(x, y, i, j, n) ==
  /\ \A k \in (1..n) \ {i, j} : y[k] = x[k]
  /\ y[i] <= x[i] + 1 /\ y[i] <= x[j] + 2 * PlayerRadius
  /\ y[j] <= x[j] /\ (x[j] > 0 => y[j] <= x[j] - 1)

\* All the balls are n.
LEMMA AllOfThem ==
  ASSUME NEW n \in Nat
  PROVE  IsFiniteSet(1..n) /\ Cardinality(1..n) = n
BY FS_Interval

\* Some of the balls and one or two more.
LEMMA WithMore ==
  ASSUME NEW n \in Nat, NEW L \in SUBSET (1..n), NEW i \in (1..n) \ L, NEW j \in (1..n) \ L, i # j
  PROVE  /\ Cardinality(L) \in Nat /\ Cardinality(L) + 2 <= n
         /\ Cardinality(L \cup {i}) = Cardinality(L) + 1
         /\ Cardinality((L \cup {i}) \cup {j}) = Cardinality(L) + 2
<1>1. IsFiniteSet(1..n) /\ Cardinality(1..n) = n
  BY AllOfThem
<1>2. IsFiniteSet(L) /\ Cardinality(L) \in Nat
  BY <1>1, FS_Subset, FS_CardinalityType
<1>3. IsFiniteSet(L \cup {i}) /\ Cardinality(L \cup {i}) = Cardinality(L) + 1
  BY <1>2, FS_AddElement
<1>4. j \notin L \cup {i}
  OBVIOUS
<1>5. Cardinality((L \cup {i}) \cup {j}) = Cardinality(L) + 1 + 1
  BY <1>3, <1>4, FS_AddElement
<1>6. (L \cup {i}) \cup {j} \subseteq 1..n
  OBVIOUS
<1>7. Cardinality((L \cup {i}) \cup {j}) <= n
  BY <1>1, <1>6, FS_Subset
<1> QED
  BY <1>2, <1>3, <1>5, <1>7

\* If one ball hands its way back over to another, the balls stay within their bounds:
\* the one that gets it would only leave them with the one that gives it.
LEMMA Transfer ==
  ASSUME NEW n \in Nat, NEW x \in Depths(n), NEW y \in Depths(n), NEW i \in 1..n, NEW j \in 1..n,
         i # j, Spread(n, x), HandsOver(x, y, i, j, n)
  PROVE  Spread(n, y)
<1> SUFFICES ASSUME NEW K \in SUBSET (1..n) PROVE Part(y, K, n) <= Bound(n, Cardinality(K))
  BY DEF Spread
<1>1. /\ x[i] \in Nat /\ x[j] \in Nat /\ y[i] \in Nat /\ y[j] \in Nat /\ PlayerRadius \in Nat
      /\ y[i] <= x[i] + 1 /\ y[i] <= x[j] + 2 * PlayerRadius
      /\ y[j] <= x[j] /\ (x[j] > 0 => y[j] <= x[j] - 1)
  BY Numbers DEF Depths, HandsOver
<1>2. CASE i \notin K
  <2>1. \A k \in K : y[k] <= x[k]
    <3>1. \A k \in K \ {j} : y[k] = x[k] /\ x[k] \in Nat
      BY <1>2 DEF HandsOver, Depths
    <3> QED
      BY <1>1, <3>1
  <2>2. Part(y, K, n) <= Part(x, K, n) /\ Part(x, K, n) <= Bound(n, Cardinality(K))
    BY <2>1, LessPart DEF Spread
  <2>3. Part(y, K, n) \in Int /\ Part(x, K, n) \in Int /\ Bound(n, Cardinality(K)) \in Int
    <3>1. Cardinality(K) \in 0..n
      <4>1. IsFiniteSet(1..n) /\ Cardinality(1..n) = n
        BY AllOfThem
      <4>2. IsFiniteSet(K) /\ Cardinality(K) <= n
        BY <4>1, FS_Subset
      <4> QED
        BY <4>2, FS_CardinalityType
    <3>2. Bound(n, Cardinality(K)) \in Int
      BY <3>1, BoundWidens
    <3> QED
      BY <3>2, Parts
  <2> QED
    BY <2>2, <2>3
<1>3. CASE i \in K
  <2> DEFINE L == K \ {i, j}
             l == Cardinality(L)
             P == Part(x, L, n)
             Q == Part(y, L, n)
  <2>1. L \in SUBSET (1..n) /\ i \in (1..n) \ L /\ j \in (1..n) \ L
    OBVIOUS
  <2>2. /\ l \in Nat /\ l + 2 <= n
        /\ Cardinality(L \cup {i}) = l + 1 /\ Cardinality((L \cup {i}) \cup {j}) = l + 2
    <3> HIDE DEF L
    <3> QED
      BY <2>1, WithMore
  <2>3. PICK d \in Nat : /\ d >= 2 * PlayerRadius
                         /\ Bound(n, l + 1) = Bound(n, l) + d
                         /\ Bound(n, l + 2) = Bound(n, l + 1) + (d - 2 * PlayerRadius)
    BY <2>2, BoundGrows
  <2>4. Bound(n, l) \in Nat
    <3>1. l \in 0..n
      BY <2>2
    <3> QED
      BY <3>1, BoundWidens
  <2> HIDE DEF l
  <2>5. Q <= P
    <3>1. \A k \in L : y[k] = x[k] /\ x[k] \in Nat
      BY DEF HandsOver, Depths
    <3>2. \A k \in L : y[k] <= x[k]
      BY <3>1
    <3> QED
      BY <2>1, <3>2, LessPart
  <2>6. P \in Int /\ Q \in Int
    BY <2>1, Parts
  <2>7. /\ Part(x, L \cup {i}, n) = P + x[i] /\ Part(x, (L \cup {i}) \cup {j}, n) = P + x[i] + x[j]
        /\ Part(y, L \cup {i}, n) = Q + y[i] /\ Part(y, (L \cup {i}) \cup {j}, n) = Q + y[i] + y[j]
    <3> HIDE DEF L
    <3> DEFINE M == L \cup {i}
    <3>1. M \in SUBSET (1..n) /\ j \in (1..n) \ M
      BY <2>1
    <3>2. Part(x, M, n) = P + x[i] /\ Part(y, M, n) = Q + y[i]
      BY <2>1, Parts
    <3> HIDE DEF M
    <3>3. Part(x, M \cup {j}, n) = Part(x, M, n) + x[j] /\ Part(y, M \cup {j}, n) = Part(y, M, n) + y[j]
      BY <3>1, Parts
    <3> QED
      BY <3>2, <3>3 DEF M
  <2>8. P <= Bound(n, l) /\ P + x[i] <= Bound(n, l + 1) /\ P + x[i] + x[j] <= Bound(n, l + 2)
    <3>1. L \cup {i} \in SUBSET (1..n) /\ (L \cup {i}) \cup {j} \in SUBSET (1..n)
      BY <2>1
    <3>2. Part(x, L \cup {i}, n) <= Bound(n, l + 1) /\ Part(x, (L \cup {i}) \cup {j}, n) <= Bound(n, l + 2)
      BY <2>2, <3>1 DEF Spread
    <3>3. P <= Bound(n, l)
      BY <2>1 DEF Spread, l
    <3> HIDE DEF P, L
    <3> QED
      BY <2>7, <3>2, <3>3
  <2>9. CASE j \notin K
    <3>1. K = L \cup {i}
      BY <1>3, <2>9
    <3> HIDE DEF P, Q, L
    <3>2. Q + y[i] <= Bound(n, l + 1)
      BY <1>1, <2>3, <2>4, <2>5, <2>6, <2>8
    <3> QED
      BY <2>2, <2>7, <3>1, <3>2
  <2>10. CASE j \in K
    <3>1. K = (L \cup {i}) \cup {j}
      BY <1>3, <2>10
    <3> HIDE DEF P, Q, L
    <3>2. Q + y[i] + y[j] <= Bound(n, l + 2)
      <4>1. CASE x[j] > 0
        BY <1>1, <2>3, <2>4, <2>5, <2>6, <2>8, <4>1
      <4>2. CASE x[j] = 0
        BY <1>1, <2>3, <2>4, <2>5, <2>6, <2>8, <4>2
      <4> QED
        BY <1>1, <4>1, <4>2
    <3> QED
      BY <2>2, <2>7, <3>1, <3>2
  <2> QED
    BY <2>9, <2>10
<1> QED
  BY <1>2, <1>3

\* A ball that is not out at all comes in addition.
LEMMA OneMoreBall ==
  ASSUME NEW n \in Nat, NEW x \in Depths(n), NEW y \in Depths(n + 1), Spread(n, x),
         \A k \in 1..n : y[k] = x[k], y[n + 1] = 0
  PROVE  Spread(n + 1, y)
<1> SUFFICES ASSUME NEW K \in SUBSET (1..n + 1)
             PROVE  Part(y, K, n + 1) <= Bound(n + 1, Cardinality(K))
  BY DEF Spread
<1> DEFINE L == K \cap 1..n
<1>1. L \in SUBSET (1..n) /\ n + 1 \notin L
  OBVIOUS
<1>2. IsFiniteSet(L) /\ Cardinality(L) \in 0..n
  <2>1. IsFiniteSet(1..n) /\ Cardinality(1..n) = n
    BY AllOfThem
  <2>2. IsFiniteSet(L) /\ Cardinality(L) <= n
    BY <1>1, <2>1, FS_Subset
  <2> QED
    BY <2>2, FS_CardinalityType
<1>3. Part(y, K, n + 1) = Part(x, L, n)
  <2> DEFINE t == Terms(x, L, n)
             u == Terms(y, K, n + 1)
  <2>1. t \in [1..n -> Int] /\ u \in [1..n + 1 -> Int]
    BY DEF Terms, Depths
  <2>2. \A k \in 1..n : u[k] = t[k]
    BY DEF Terms
  <2>3. u[n + 1] = 0
    BY DEF Terms
  <2> HIDE DEF t, u
  <2>4. Total(u, n + 1) = Total(t, n) + u[n + 1]
    BY <2>1, <2>2, LastTerm
  <2>5. Total(t, n) \in Int
    BY <1>1, Parts DEF Part, t
  <2>6. Total(u, n + 1) = Total(t, n)
    BY <2>3, <2>4, <2>5
  <2> QED
    BY <2>6 DEF Part, t, u
<1>4. Part(x, L, n) <= Bound(n, Cardinality(L)) /\ Part(x, L, n) \in Int
  BY <1>1, Parts DEF Spread
<1>5. Cardinality(K) = Cardinality(L) \/ Cardinality(K) = Cardinality(L) + 1
  <2>1. CASE n + 1 \in K
    <3>1. K = L \cup {n + 1}
      <4>1. \A k \in K : k \in 1..n \/ k = n + 1
        OBVIOUS
      <4> QED
        BY <2>1, <4>1
    <3> HIDE DEF L
    <3>2. Cardinality(L \cup {n + 1}) = Cardinality(L) + 1
      BY <1>1, <1>2, FS_AddElement
    <3> QED
      BY <3>1, <3>2
  <2>2. CASE n + 1 \notin K
    <3>1. K = L
      <4>1. \A k \in K : k \in 1..n \/ k = n + 1
        OBVIOUS
      <4> QED
        BY <2>2, <4>1
    <3> QED
      BY <3>1
  <2> QED
    BY <2>1, <2>2
<1> DEFINE l == Cardinality(L)
<1>6. /\ Bound(n, l) \in Nat
      /\ Bound(n, l) <= Bound(n + 1, l) /\ Bound(n + 1, l) <= Bound(n + 1, l + 1)
  <2> HIDE DEF l
  <2>1. l \in 0..n
    BY <1>2 DEF l
  <2> QED
    BY <2>1, BoundWidens
<1>7. Bound(n + 1, l) \in Int /\ Bound(n + 1, l + 1) \in Int
  BY <1>2, Numbers DEF Bound
<1> HIDE DEF l
<1>8. Part(x, L, n) <= Bound(n, l) /\ (Cardinality(K) = l \/ Cardinality(K) = l + 1)
  BY <1>4, <1>5 DEF l
<1> HIDE DEF L
<1>9. Part(x, L, n) <= Bound(n + 1, Cardinality(K))
  BY <1>4, <1>6, <1>7, <1>8
<1> QED
  BY <1>3, <1>9

-----------------------------------------------------------------------------
(* One ball on its way *)

\* As far as one step takes a ball from inside the field; how much farther out it is; and
\* how much farther it will be after the next step, if it is coming back.
Reach == FieldRadius - PlayerRadius + VelocityMax
Excess(x) == IF x > Reach THEN x - Reach ELSE 0
Beyond(p) == Excess(Abs(p.center))
Soon(p) == Excess(Abs(p.center) - (IF p.velocity = 0 THEN 0 ELSE 1))

\* No ball is faster than the game allows, and none that is outside goes on outwards.
Slow(p) == Abs(p.velocity) <= VelocityMax
Ready(p) == Outside(p) => p.velocity * p.center <= 0

\* The players' places are in the field.
BallsFit == PlayerRadius <= FieldRadius

\* A factor's sign.
LEMMA Signs ==
  ASSUME NEW a \in Int, NEW b \in Int, a * b <= 0
  PROVE  (b > 0 => a <= 0) /\ (b < 0 => a >= 0)
<1>1. ASSUME NEW c \in Nat, NEW d \in Nat, c > 0, d > 0
      PROVE  c * d > 0
  <2>1. c * d = (c - 1) * d + d /\ (c - 1) * d \in Nat
    BY <1>1
  <2> QED
    BY <1>1, <2>1
<1>2. ASSUME b > 0, a > 0 PROVE FALSE
  BY <1>1, <1>2
<1>3. ASSUME b < 0, a < 0 PROVE FALSE
  <2>1. (-a) * (-b) = a * b
    OBVIOUS
  <2>2. -a \in Nat /\ -b \in Nat /\ -a > 0 /\ -b > 0
    BY <1>3
  <2>3. (-a) * (-b) > 0
    BY <1>1, <2>2
  <2> QED
    BY <2>1, <2>3
<1> QED
  BY <1>2, <1>3

\* A ball outside is on its way back, or it stands.
LEMMA Returns ==
  ASSUME NEW p \in Ball, Ready(p), BallsFit
  PROVE  \/ Abs(p.center) <= FieldRadius - PlayerRadius
         \/ p.center > 0 /\ p.velocity <= 0
         \/ p.center < 0 /\ p.velocity >= 0
<1>1. /\ p.center \in Int /\ p.velocity \in Int /\ FieldRadius \in Nat /\ PlayerRadius \in Nat
      /\ PlayerRadius <= FieldRadius
  BY Numbers DEF Ball, BallsFit
<1>2. CASE Outside(p)
  <2>1. p.center # 0
    BY <1>1, <1>2 DEF Outside, Abs
  <2>2. p.velocity * p.center <= 0
    BY <1>2 DEF Ready
  <2>3. (p.center > 0 => p.velocity <= 0) /\ (p.center < 0 => p.velocity >= 0)
    BY <1>1, <2>2, Signs
  <2> QED
    BY <1>1, <2>1, <2>3
<1>3. CASE ~Outside(p)
  BY <1>1, <1>3 DEF Outside, Abs
<1> QED
  BY <1>2, <1>3

\* Where it will be.
LEMMA MovesBack ==
  ASSUME NEW p \in Ball, NEW q \in Ball, Ready(p), Slow(p), BallsFit,
         q.center = p.center + p.velocity
  PROVE  Beyond(q) <= Soon(p)
<1>1. /\ p.center \in Int /\ p.velocity \in Int /\ FieldRadius \in Nat /\ PlayerRadius \in Nat
      /\ PlayerRadius <= FieldRadius /\ VelocityMax \in Nat
      /\ -VelocityMax <= p.velocity /\ p.velocity <= VelocityMax
  BY Numbers DEF Ball, BallsFit, Slow, Abs
<1>2. CASE Abs(p.center) <= FieldRadius - PlayerRadius
  BY <1>1, <1>2 DEF Beyond, Soon, Excess, Reach, Abs
<1>3. CASE p.center > 0 /\ p.velocity <= 0
  BY <1>1, <1>3 DEF Beyond, Soon, Excess, Reach, Abs
<1>4. CASE p.center < 0 /\ p.velocity >= 0
  BY <1>1, <1>4 DEF Beyond, Soon, Excess, Reach, Abs
<1> QED
  BY <1>2, <1>3, <1>4, Returns

\* A turn may stop a ball that comes back, or drive it out again, but by one only.
LEMMA TurnsAndMoves ==
  ASSUME NEW p \in Ball, NEW q \in Ball, NEW turn \in {-1, 0, 1}, Ready(p), Slow(p), BallsFit,
         q.velocity = Clamped(p.velocity + turn), q.center = p.center + q.velocity
  PROVE  Soon(q) <= Beyond(p) /\ Slow(q)
<1>1. /\ p.center \in Int /\ p.velocity \in Int /\ FieldRadius \in Nat /\ PlayerRadius \in Nat
      /\ PlayerRadius <= FieldRadius /\ VelocityMax \in Nat
      /\ -VelocityMax <= p.velocity /\ p.velocity <= VelocityMax
  BY Numbers DEF Ball, BallsFit, Slow, Abs
<1>2. /\ q.velocity \in Int /\ -VelocityMax <= q.velocity /\ q.velocity <= VelocityMax
      /\ q.velocity <= p.velocity + 1 /\ q.velocity >= p.velocity - 1
  BY <1>1 DEF Clamped, Sign, Abs, Ball
<1>3. Slow(q)
  BY <1>1, <1>2 DEF Slow, Abs
<1>4. CASE Abs(p.center) <= FieldRadius - PlayerRadius
  BY <1>1, <1>2, <1>3, <1>4 DEF Beyond, Soon, Excess, Reach, Abs
<1>5. CASE p.center > 0 /\ p.velocity <= 0
  BY <1>1, <1>2, <1>3, <1>5 DEF Beyond, Soon, Excess, Reach, Abs
<1>6. CASE p.center < 0 /\ p.velocity >= 0
  BY <1>1, <1>2, <1>3, <1>6 DEF Beyond, Soon, Excess, Reach, Abs
<1> QED
  BY <1>4, <1>5, <1>6, Returns

\* The border makes every ball ready for the next step and changes nothing else.
LEMMA TurnedRound ==
  ASSUME NEW p \in Ball, NEW q, q = IF TurnsRound(p) THEN [p EXCEPT !.velocity = -@] ELSE p
  PROVE  /\ q \in Ball /\ Ready(q) /\ (Slow(p) => Slow(q))
         /\ q.center = p.center /\ Soon(q) = Soon(p)
<1>1. p.center \in Int /\ p.velocity \in Int /\ VelocityMax \in Nat
  BY Numbers DEF Ball
<1>2. CASE TurnsRound(p)
  <2>1. q = [p EXCEPT !.velocity = -@] /\ q \in Ball /\ q.center = p.center /\ q.velocity = -p.velocity
    BY <1>1, <1>2 DEF Ball
  <2>2. p.velocity * p.center > 0 /\ (-p.velocity) * p.center = -(p.velocity * p.center)
        /\ p.velocity * p.center \in Int
    BY <1>1, <1>2 DEF TurnsRound
  <2>3. Ready(q)
    BY <2>1, <2>2 DEF Ready
  <2>4. (Slow(p) => Slow(q)) /\ Soon(q) = Soon(p)
    BY <1>1, <2>1 DEF Slow, Abs, Soon
  <2> QED
    BY <2>1, <2>3, <2>4
<1>3. CASE ~TurnsRound(p)
  <2>1. q = p
    BY <1>3
  <2>2. p.velocity * p.center \in Int
    BY <1>1
  <2>3. Ready(p)
    BY <1>3, <2>2 DEF Ready, TurnsRound
  <2> QED
    BY <2>1, <2>3
<1> QED
  BY <1>2, <1>3

-----------------------------------------------------------------------------
(* All the balls in a step *)

Beyonds(n, ps) == [i \in 1..n |-> Beyond(ps[i])]
Soons(n, ps) == [i \in 1..n |-> Soon(ps[i])]

\* Depths are not negative, and coming back makes none greater.
LEMMA DepthsAreNumbers ==
  ASSUME NEW n \in Nat, NEW ps \in Balls(n)
  PROVE  /\ Beyonds(n, ps) \in Depths(n) /\ Soons(n, ps) \in Depths(n)
         /\ \A i \in 1..n : Soons(n, ps)[i] <= Beyonds(n, ps)[i]
<1>1. \A x \in Int : Excess(x) \in Nat
  BY Numbers DEF Excess, Reach
<1>2. ASSUME NEW i \in 1..n
      PROVE  Beyond(ps[i]) \in Nat /\ Soon(ps[i]) \in Nat /\ Soon(ps[i]) <= Beyond(ps[i])
  <2>1. ps[i].center \in Int
    BY DEF Balls, Ball
  <2>2. Abs(ps[i].center) \in Int /\ Abs(ps[i].center) - (IF ps[i].velocity = 0 THEN 0 ELSE 1) \in Int
    BY <2>1 DEF Abs
  <2>3. Beyond(ps[i]) \in Nat /\ Soon(ps[i]) \in Nat
    BY <1>1, <2>2 DEF Beyond, Soon
  <2>4. Soon(ps[i]) <= Beyond(ps[i])
    BY <2>1, Numbers DEF Beyond, Soon, Excess, Reach, Abs
  <2> QED
    BY <2>3, <2>4
<1> QED
  BY <1>2 DEF Beyonds, Soons, Depths

\* Of two collections of balls the one that is no deeper is spread if the other is.
LEMMA LessSpread ==
  ASSUME NEW n \in Nat, NEW x \in Depths(n), NEW y \in Depths(n), Spread(n, x),
         \A i \in 1..n : y[i] <= x[i]
  PROVE  Spread(n, y)
<1> SUFFICES ASSUME NEW K \in SUBSET (1..n) PROVE Part(y, K, n) <= Bound(n, Cardinality(K))
  BY DEF Spread
<1>1. Part(y, K, n) <= Part(x, K, n) /\ Part(x, K, n) <= Bound(n, Cardinality(K))
  BY LessPart DEF Spread
<1>2. Part(y, K, n) \in Int /\ Part(x, K, n) \in Int /\ Cardinality(K) \in 0..n
  <2>1. IsFiniteSet(1..n) /\ Cardinality(1..n) = n
    BY AllOfThem
  <2>2. IsFiniteSet(K) /\ Cardinality(K) <= n
    BY <2>1, FS_Subset
  <2> QED
    BY <2>2, FS_CardinalityType, Parts
<1>3. Bound(n, Cardinality(K)) \in Int
  BY <1>2, BoundWidens
<1> QED
  BY <1>1, <1>2, <1>3

\* Two balls whose collision is resolved exchange their velocities; the others do not notice.
LEMMA Exchange ==
  ASSUME NEW n \in Nat, NEW ps \in Balls(n), NEW i \in 1..n, NEW j \in 1..n, i # j,
         Collide(ps[i], ps[j]) /\ IsResolved(ps[i], ps[j]), NEW qs, qs = ResolveCollision(ps, i, j)
  PROVE  /\ qs \in Balls(n)
         /\ \A k \in 1..n : qs[k].center = ps[k].center
         /\ \A k \in (1..n) \ {i, j} : qs[k] = ps[k]
         /\ qs[i].velocity = ps[j].velocity /\ qs[j].velocity = ps[i].velocity
<1> DEFINE v == ps[j].velocity
           w == ps[i].velocity
           rs == [ps EXCEPT ![i].velocity = v]
<1>1. v \in Int /\ w \in Int /\ DOMAIN ps = 1..n /\ \A k \in 1..n : ps[k] \in Ball
  BY DEF Balls, Ball
<1>2. qs = [rs EXCEPT ![j].velocity = w]
  BY DEF ResolveCollision
<1> HIDE DEF v, w
<1>3. /\ rs \in Balls(n) /\ DOMAIN rs = 1..n /\ \A k \in 1..n : rs[k] \in Ball
      /\ \A k \in 1..n : rs[k].center = ps[k].center
      /\ \A k \in (1..n) \ {i} : rs[k] = ps[k]
      /\ rs[i].velocity = v
  BY <1>1 DEF Balls, Ball
<1> HIDE DEF rs
<1>4. /\ qs \in Balls(n)
      /\ \A k \in 1..n : qs[k].center = rs[k].center
      /\ \A k \in (1..n) \ {j} : qs[k] = rs[k]
      /\ qs[j].velocity = w
  BY <1>1, <1>2, <1>3 DEF Balls, Ball
<1> QED
  BY <1>3, <1>4 DEF v, w

\* A ball that comes back gives its way to one that stands; they are near each other.
LEMMA GivesItsWay ==
  ASSUME NEW n \in Nat, NEW ps \in Balls(n), NEW qs \in Balls(n), NEW i \in 1..n, NEW j \in 1..n, i # j,
         \A k \in 1..n : qs[k].center = ps[k].center,
         \A k \in (1..n) \ {i, j} : qs[k] = ps[k],
         Distance(ps[i].center, ps[j].center) <= 2 * PlayerRadius,
         ps[i].velocity # 0, ps[j].velocity = 0, qs[i].velocity = 0, qs[j].velocity # 0,
         Spread(n, Soons(n, ps))
  PROVE  Spread(n, Soons(n, qs))
<1> DEFINE x == Soons(n, ps)
           y == Soons(n, qs)
           a == Abs(ps[i].center)
           b == Abs(ps[j].center)
<1>1. ps[i].center \in Int /\ ps[j].center \in Int
  BY DEF Balls, Ball
<1>2. a \in Nat /\ b \in Nat /\ a <= b + 2 * PlayerRadius
  BY <1>1, Numbers DEF Distance, Abs
<1>3. x[i] = Excess(a - 1) /\ x[j] = Excess(b) /\ y[i] = Excess(a) /\ y[j] = Excess(b - 1)
  <2>1. Excess(b - 0) = Excess(b) /\ Excess(a - 0) = Excess(a)
    BY <1>2
  <2>2. qs[i].center = ps[i].center /\ qs[j].center = ps[j].center
    OBVIOUS
  <2> HIDE DEF a, b
  <2>3. /\ Soon(ps[i]) = Excess(a - 1) /\ Soon(ps[j]) = Excess(b - 0)
        /\ Soon(qs[i]) = Excess(a - 0) /\ Soon(qs[j]) = Excess(b - 1)
    BY <2>2 DEF Soon, a, b
  <2> QED
    BY <2>1, <2>3 DEF Soons
<1>4. \A k \in (1..n) \ {i, j} : y[k] = x[k]
  BY DEF Soons
<1>5. x \in Depths(n) /\ y \in Depths(n)
  BY DepthsAreNumbers
<1> HIDE DEF x, y, a, b
<1>6. HandsOver(x, y, i, j, n)
  <2>1. /\ y[i] <= x[i] + 1 /\ y[i] <= x[j] + 2 * PlayerRadius
        /\ y[j] <= x[j] /\ (x[j] > 0 => y[j] <= x[j] - 1)
    BY <1>2, <1>3, Numbers DEF Excess, Reach
  <2> QED
    BY <1>4, <2>1 DEF HandsOver
<1>7. Spread(n, x)
  BY DEF x
<1>8. Spread(n, y)
  BY <1>5, <1>6, <1>7, Transfer
<1> QED
  BY <1>8 DEF y

\* What the collisions of a step keep: the places, how fast the balls are, and how far out
\* they are once they come back.
Colliding(n, ps) ==
  {qs \in Balls(n) : /\ \A i \in 1..n : qs[i].center = ps[i].center /\ Slow(qs[i])
                     /\ Spread(n, Soons(n, ps)) => Spread(n, Soons(n, qs))}

\* One collision keeps it.
LEMMA CollisionSpreads ==
  ASSUME NEW n \in Nat, NEW ps, NEW qs \in Colliding(n, ps), NEW i \in 1..n, NEW j \in 1..n, i < j
  PROVE  ResolveCollision(qs, i, j) \in Colliding(n, ps)
<1> DEFINE rs == ResolveCollision(qs, i, j)
<1>1. /\ qs \in Balls(n) /\ \A k \in 1..n : qs[k].center = ps[k].center /\ Slow(qs[k])
      /\ Spread(n, Soons(n, ps)) => Spread(n, Soons(n, qs))
  BY DEF Colliding
<1>2. CASE ~(Collide(qs[i], qs[j]) /\ IsResolved(qs[i], qs[j]))
  BY <1>2 DEF ResolveCollision
<1>3. CASE Collide(qs[i], qs[j]) /\ IsResolved(qs[i], qs[j])
  <2>1. i # j
    OBVIOUS
  <2>2. /\ rs \in Balls(n)
        /\ \A k \in 1..n : rs[k].center = qs[k].center
        /\ \A k \in (1..n) \ {i, j} : rs[k] = qs[k]
        /\ rs[i].velocity = qs[j].velocity /\ rs[j].velocity = qs[i].velocity
    BY <1>1, <1>3, <2>1, Exchange
  <2> HIDE DEF rs
  <2>3. \A k \in 1..n : Slow(rs[k])
    BY <1>1, <2>2 DEF Slow
  <2>4. ASSUME Spread(n, Soons(n, qs))
        PROVE  Spread(n, Soons(n, rs))
    <3>1. CASE (qs[i].velocity = 0) <=> (qs[j].velocity = 0)
      <4>1. \A k \in 1..n : Soon(rs[k]) = Soon(qs[k])
        <5>1. Soon(rs[i]) = Soon(qs[i]) /\ Soon(rs[j]) = Soon(qs[j])
          BY <2>2, <3>1 DEF Soon
        <5> QED
          BY <2>2, <5>1
      <4>2. Soons(n, rs) = Soons(n, qs)
        BY <4>1 DEF Soons
      <4> QED
        BY <2>4, <4>2
    <3>2. CASE qs[i].velocity # 0 /\ qs[j].velocity = 0
      <4>1. Distance(qs[i].center, qs[j].center) <= 2 * PlayerRadius
        BY <1>3 DEF Collide
      <4> QED
        BY <1>1, <2>1, <2>2, <2>4, <3>2, <4>1, GivesItsWay
    <3>3. CASE qs[i].velocity = 0 /\ qs[j].velocity # 0
      <4>1. Distance(qs[j].center, qs[i].center) <= 2 * PlayerRadius
        <5>1. qs[i].center \in Int /\ qs[j].center \in Int
          BY <1>1 DEF Balls, Ball
        <5> QED
          BY <1>3, <5>1, Numbers DEF Collide, Distance, Abs
      <4>2. {i, j} = {j, i}
        OBVIOUS
      <4> QED
        BY <1>1, <2>1, <2>2, <2>4, <3>3, <4>1, <4>2, GivesItsWay
    <3> QED
      BY <3>1, <3>2, <3>3
  <2> QED
    BY <1>1, <2>2, <2>3, <2>4 DEF Colliding, rs
<1> QED
  BY <1>2, <1>3

\* Sharing a coin moves nobody.
SamePlaces(n, ps) ==
  {qs \in Balls(n) : \A i \in 1..n : qs[i].center = ps[i].center /\ qs[i].velocity = ps[i].velocity}

LEMMA DivideCoinKeepsPlaces ==
  ASSUME NEW n \in 1..MaxPlayers, NEW state \in States(n), NEW coin \in Int
  PROVE  DivideCoin(state, coin).players \in SamePlaces(n, state.players)
<1> DEFINE ps == state.players
           best == OnTheMinDistance(ps, coin)
           new == DivideCoin(state, coin)
<1>1. new \in States(n) /\ state \in States(n)
  BY DivideCoinKeepsWorth
<1>2. new.players \in Balls(n) /\ ps \in Balls(n) /\ DOMAIN ps = 1..n /\ DOMAIN state = {"players", "coins_left"}
  BY <1>1 DEF States, Balls
<1>3. new.players = GiveTo(best.who, ps) \/ new.players = ps
  <2>1. \/ new = [state EXCEPT !.players = GiveTo(best.who, @)]
        \/ new = [state EXCEPT !.coins_left = Append(@, coin)]
    BY DEF DivideCoin
  <2> HIDE DEF new, best
  <2> QED
    BY <1>2, <2>1
<1>4. \A i \in 1..n : ps[i] \in Ball
  BY <1>2 DEF Balls
<1>5. ASSUME NEW i \in 1..n
      PROVE  new.players[i].center = ps[i].center /\ new.players[i].velocity = ps[i].velocity
  <2>1. CASE new.players = ps
    BY <2>1
  <2>2. CASE new.players = GiveTo(best.who, ps)
    <3> DEFINE share == Share(ps, best.who)
    <3>1. new.players[i] = IF i \in best.who THEN [ps[i] EXCEPT !.score = @ + share] ELSE ps[i]
      BY <1>2, <2>2 DEF GiveTo
    <3> HIDE DEF share, new, best
    <3>2. ps[i] \in Ball
      BY <1>4
    <3> QED
      BY <3>1, <3>2 DEF Ball
  <2> QED
    BY <1>3, <2>1, <2>2
<1> QED
  BY <1>2, <1>5 DEF SamePlaces

\* Nor does sharing all of them.
LEMMA DivideCoinsKeepsPlaces ==
  ASSUME NEW n \in 0..MaxPlayers, NEW ps \in Balls(n), NEW cs \in Seq(Int)
  PROVE  DivideCoins(ps, cs).players \in SamePlaces(n, ps)
<1>1. n \in Nat /\ Len(cs) \in Nat /\ ps \in SamePlaces(n, ps)
  BY Numbers DEF SamePlaces
<1>2. CASE n = 0
  <2>1. ps = <<>>
    BY <1>1, <1>2, SeqOfBalls
  <2>2. DivideCoins(ps, cs) = [players |-> ps, coins_left |-> cs]
    BY <2>1 DEF DivideCoins
  <2> QED
    BY <1>1, <2>2
<1>3. CASE n \in 1..MaxPlayers
  <2> DEFINE m == Len(cs)
  <2>1. PICK after : CoinByCoin(after, n, ps, cs)
    BY <1>3, DividedOneByOne
  <2>2. /\ after[0].players = ps
        /\ \A k \in 1..m : after[k] = DivideCoin(after[k - 1], cs[k]) /\ cs[k] \in Int
        /\ \A k \in 0..m : after[k] \in States(n)
        /\ DivideCoins(ps, cs) = after[m]
    BY <2>1 DEF CoinByCoin
  <2> DEFINE Good == {k \in 0..m : after[k].players \in SamePlaces(n, ps)}
  <2>3. 0 \in Good
    BY <1>1, <2>2
  <2>4. ASSUME NEW k \in 1..m, k - 1 \in Good
        PROVE  k \in Good
    <3>1. k \in 0..m /\ k - 1 \in 0..m /\ cs[k] \in Int /\ after[k - 1] \in States(n)
          /\ after[k - 1].players \in SamePlaces(n, ps)
      BY <1>1, <2>2, <2>4
    <3>2. after[k].players \in SamePlaces(n, after[k - 1].players)
      BY <1>3, <2>2, <3>1, DivideCoinKeepsPlaces
    <3>3. after[k].players \in SamePlaces(n, ps)
      BY <3>1, <3>2 DEF SamePlaces
    <3> QED
      BY <3>1, <3>3
  <2>5. 0..m \subseteq Good
    <3> HIDE DEF Good
    <3> QED
      BY <1>1, <2>3, <2>4, Upwards
  <2>6. m \in 0..m
    BY <1>1
  <2> QED
    BY <2>2, <2>5, <2>6
<1> QED
  BY <1>2, <1>3

\* The balls after all the collisions of a step.
Settle(ps, cs) ==
  DivideCoins(HandleBallToBorderCollisions(HandleBallToBallCollisions(ps)), cs).players

\* They are where they were, ready for the next step, and no farther out when they come back.
LEMMA StepSettles ==
  ASSUME NEW n \in 0..MaxPlayers, NEW ps \in Balls(n), NEW cs \in Seq(Int),
         \A i \in 1..n : Slow(ps[i])
  PROVE  /\ Settle(ps, cs) \in Colliding(n, ps)
         /\ \A i \in 1..n : Ready(Settle(ps, cs)[i])
<1> DEFINE hit == HandleBallToBallCollisions(ps)
           held == HandleBallToBorderCollisions(hit)
           left == Settle(ps, cs)
<1>1. n \in Nat
  BY Numbers
<1>2. hit \in Colliding(n, ps)
  <2>1. ps \in Colliding(n, ps)
    BY DEF Colliding
  <2>2. ClosedUnderCollisions(n, Colliding(n, ps))
    <3>1. Colliding(n, ps) \subseteq Balls(n)
      BY DEF Colliding
    <3> QED
      BY <1>1, <3>1, CollisionSpreads DEF ClosedUnderCollisions
  <2> QED
    BY <1>1, <2>1, <2>2, CollisionsStay
<1> HIDE DEF hit
<1>3. hit \in Balls(n) /\ DOMAIN hit = 1..n /\ \A i \in 1..n : hit[i] \in Ball
  BY <1>2 DEF Colliding, Balls
<1>4. /\ held \in Balls(n)
      /\ \A i \in 1..n : /\ Ready(held[i]) /\ (Slow(hit[i]) => Slow(held[i]))
                         /\ held[i].center = hit[i].center /\ Soon(held[i]) = Soon(hit[i])
  <2>1. held = [i \in 1..n |-> IF TurnsRound(hit[i]) THEN [hit[i] EXCEPT !.velocity = -@] ELSE hit[i]]
    BY <1>3 DEF HandleBallToBorderCollisions
  <2> HIDE DEF held
  <2>2. ASSUME NEW i \in 1..n
        PROVE  /\ held[i] \in Ball /\ Ready(held[i]) /\ (Slow(hit[i]) => Slow(held[i]))
               /\ held[i].center = hit[i].center /\ Soon(held[i]) = Soon(hit[i])
    <3>1. held[i] = IF TurnsRound(hit[i]) THEN [hit[i] EXCEPT !.velocity = -@] ELSE hit[i]
      BY <2>1
    <3>2. hit[i] \in Ball
      BY <1>3
    <3> QED
      BY <3>1, <3>2, TurnedRound
  <2> QED
    BY <2>1, <2>2 DEF Balls
<1> HIDE DEF held
<1>5. left \in SamePlaces(n, held)
  BY <1>4, DivideCoinsKeepsPlaces DEF Settle, held, hit
<1> HIDE DEF left
<1>6. left \in Balls(n) /\ \A i \in 1..n : left[i].center = held[i].center /\ left[i].velocity = held[i].velocity
  BY <1>5 DEF SamePlaces
<1>7. \A i \in 1..n : Ready(left[i]) /\ Slow(left[i]) /\ left[i].center = ps[i].center
  BY <1>2, <1>4, <1>6 DEF Colliding, Ready, Slow, Outside
<1>8. Spread(n, Soons(n, ps)) => Spread(n, Soons(n, left))
  <2>1. \A i \in 1..n : Soon(left[i]) = Soon(hit[i])
    BY <1>4, <1>6 DEF Soon
  <2>2. Soons(n, left) = Soons(n, hit)
    BY <2>1 DEF Soons
  <2> QED
    BY <1>2, <2>2 DEF Colliding
<1>9. left \in Colliding(n, ps) /\ \A i \in 1..n : Ready(left[i])
  BY <1>6, <1>7, <1>8 DEF Colliding
<1> QED
  BY <1>9 DEF left

\* Before a turn, and after one step of it.
Calm(n) == {ps \in Balls(n) : \A i \in 1..n : Slow(ps[i]) /\ Ready(ps[i])}
Settled(n) == {ps \in Calm(n) : Spread(n, Beyonds(n, ps))}
Settling(n) == {ps \in Calm(n) : Spread(n, Soons(n, ps))}

\* What is settled is also settling.
LEMMA SettledIsSettling ==
  ASSUME NEW n \in Nat, NEW ps \in Settled(n)
  PROVE  ps \in Settling(n)
<1>1. ps \in Calm(n) /\ ps \in Balls(n) /\ Spread(n, Beyonds(n, ps))
  BY DEF Settled, Calm
<1>2. Spread(n, Soons(n, ps))
  BY <1>1, DepthsAreNumbers, LessSpread
<1> QED
  BY <1>1, <1>2 DEF Settling

\* MovePlayers moves each ball by its velocity.
LEMMA Moved ==
  ASSUME NEW n \in Nat, NEW ps \in Balls(n)
  PROVE  /\ MovePlayers(ps) \in Balls(n)
         /\ \A i \in 1..n : /\ MovePlayers(ps)[i].center = ps[i].center + ps[i].velocity
                            /\ MovePlayers(ps)[i].velocity = ps[i].velocity
<1>1. DOMAIN ps = 1..n /\ \A i \in 1..n : ps[i] \in Ball
  BY DEF Balls
<1> QED
  BY <1>1 DEF MovePlayers, Balls, Ball

\* The first step of a turn lets the balls out no farther than those that come back have come.
LEMMA FirstStep ==
  ASSUME NEW n \in 0..MaxPlayers, NEW ps \in Settled(n), NEW cs \in Seq(Int), n > 0 => BallsFit,
         NEW turns \in [1..n -> {-1, 0, 1}]
  PROVE  Step([players |-> ApplyAcceleration(ps, turns), coins_left |-> cs]).players \in Settling(n)
<1> DEFINE driven == ApplyAcceleration(ps, turns)
           moved == MovePlayers(driven)
           left == Settle(moved, cs)
<1>1. /\ n \in Nat /\ ps \in Balls(n) /\ DOMAIN ps = 1..n /\ \A i \in 1..n : ps[i] \in Ball
      /\ \A i \in 1..n : Slow(ps[i]) /\ Ready(ps[i])
      /\ Spread(n, Beyonds(n, ps))
  BY Numbers DEF Settled, Calm, Balls
<1>2. driven \in Balls(n)
  BY <1>1, MovesKeepScores DEF SameScores
<1>3. \A i \in 1..n : /\ driven[i].velocity = Clamped(ps[i].velocity + turns[i])
                      /\ driven[i].center = ps[i].center
  BY <1>1 DEF ApplyAcceleration, Ball
<1> HIDE DEF driven
<1>4. moved \in Balls(n) /\ \A i \in 1..n : moved[i].center = driven[i].center + driven[i].velocity
                                            /\ moved[i].velocity = driven[i].velocity
  BY <1>1, <1>2, Moved
<1> HIDE DEF moved
<1>5. ASSUME NEW i \in 1..n
      PROVE  Soon(moved[i]) <= Beyond(ps[i]) /\ Slow(moved[i])
  <2>1. ps[i] \in Ball /\ moved[i] \in Ball /\ turns[i] \in {-1, 0, 1} /\ Ready(ps[i]) /\ Slow(ps[i])
    BY <1>1, <1>4 DEF Balls
  <2>2. moved[i].velocity = Clamped(ps[i].velocity + turns[i])
        /\ moved[i].center = ps[i].center + moved[i].velocity
    BY <1>3, <1>4
  <2>3. BallsFit
    BY <1>1
  <2> QED
    BY <2>1, <2>2, <2>3, TurnsAndMoves
<1>6. Spread(n, Soons(n, moved))
  <2>1. \A i \in 1..n : Soons(n, moved)[i] <= Beyonds(n, ps)[i]
    BY <1>5 DEF Soons, Beyonds
  <2> QED
    BY <1>1, <1>4, <2>1, DepthsAreNumbers, LessSpread
<1>7. left \in Colliding(n, moved) /\ \A i \in 1..n : Ready(left[i])
  BY <1>4, <1>5, StepSettles
<1>8. Step([players |-> driven, coins_left |-> cs]).players = left
  BY DEF Step, Settle, moved
<1> HIDE DEF left
<1>9. left \in Settling(n)
  BY <1>6, <1>7 DEF Settling, Calm, Colliding
<1> QED
  BY <1>8, <1>9 DEF driven

\* In every later one they come back.
LEMMA LaterStep ==
  ASSUME NEW n \in 0..MaxPlayers, NEW state \in States(n), state.players \in Settling(n), n > 0 => BallsFit
  PROVE  Step(state).players \in Settled(n)
<1> DEFINE ps == state.players
           cs == state.coins_left
           moved == MovePlayers(ps)
           left == Settle(moved, cs)
<1>1. /\ n \in Nat /\ ps \in Balls(n) /\ cs \in Seq(Int) /\ \A i \in 1..n : ps[i] \in Ball
      /\ \A i \in 1..n : Slow(ps[i]) /\ Ready(ps[i])
      /\ Spread(n, Soons(n, ps))
  BY Numbers DEF Settling, Calm, Balls, States
<1>2. Step(state).players = left
  BY DEF Step, Settle
<1> HIDE DEF ps, cs
<1>3. moved \in Balls(n) /\ \A i \in 1..n : moved[i].center = ps[i].center + ps[i].velocity
                                            /\ moved[i].velocity = ps[i].velocity
  BY <1>1, Moved
<1> HIDE DEF moved
<1>4. ASSUME NEW i \in 1..n
      PROVE  Beyond(moved[i]) <= Soon(ps[i]) /\ Slow(moved[i])
  <2>1. ps[i] \in Ball /\ moved[i] \in Ball /\ Ready(ps[i]) /\ Slow(ps[i])
    BY <1>1, <1>3 DEF Balls
  <2>2. moved[i].center = ps[i].center + ps[i].velocity /\ moved[i].velocity = ps[i].velocity
    BY <1>3
  <2>3. BallsFit
    BY <1>1
  <2>4. Slow(moved[i])
    BY <2>1, <2>2 DEF Slow
  <2> QED
    BY <2>1, <2>2, <2>3, <2>4, MovesBack
<1>5. left \in Colliding(n, moved) /\ \A i \in 1..n : Ready(left[i])
  BY <1>1, <1>3, <1>4, StepSettles
<1> HIDE DEF left
<1>6. Spread(n, Beyonds(n, left))
  <2>1. Beyonds(n, left) = Beyonds(n, moved)
    BY <1>5 DEF Colliding, Beyonds, Beyond
  <2>2. \A i \in 1..n : Beyonds(n, moved)[i] <= Soons(n, ps)[i]
    BY <1>4 DEF Soons, Beyonds
  <2>3. Spread(n, Beyonds(n, moved))
    BY <1>1, <1>3, <2>2, DepthsAreNumbers, LessSpread
  <2> QED
    BY <2>1, <2>3
<1>7. left \in Settled(n)
  BY <1>5, <1>6 DEF Settled, Calm, Colliding
<1> QED
  BY <1>2, <1>7

\* With two steps or more they are settled after the turn.
LEMMA TurnSettles ==
  ASSUME NEW n \in 0..MaxPlayers, NEW ps \in Settled(n), NEW cs \in Seq(Int), n > 0 => BallsFit,
         NEW turns \in [1..n -> {-1, 0, 1}], StepsNumber >= 2
  PROVE  Steps(ApplyAcceleration(ps, turns), cs).players \in Settled(n)
<1> DEFINE driven == ApplyAcceleration(ps, turns)
<1>1. n \in Nat /\ StepsNumber \in Nat /\ ps \in Balls(n)
  BY Numbers DEF Settled, Calm
<1>2. driven \in Balls(n)
  BY <1>1, MovesKeepScores DEF SameScores
<1>3. PICK after : StepByStepOf(after, n, driven, cs)
  <2> HIDE DEF driven
  <2> QED
    BY <1>2, SteppedOneByOne
<1>4. /\ after[0] = [players |-> driven, coins_left |-> cs]
      /\ \A k \in 1..StepsNumber : after[k] = Step(after[k - 1])
      /\ \A k \in 0..StepsNumber : after[k] \in States(n)
      /\ Steps(driven, cs) = after[StepsNumber]
  BY <1>3 DEF StepByStepOf
<1>5. after[1].players \in Settling(n)
  <2>1. 1 \in 1..StepsNumber /\ 1 - 1 = 0
    BY <1>1
  <2>2. after[1] = Step(after[0])
    BY <1>4, <2>1
  <2> QED
    BY <1>4, <2>2, FirstStep
<1> HIDE DEF driven
<1> DEFINE Good == {k \in 0..StepsNumber : /\ k >= 1 => after[k].players \in Settling(n)
                                           /\ k >= 2 => after[k].players \in Settled(n)}
<1>6. 0 \in Good
  BY <1>1
<1>7. ASSUME NEW k \in 1..StepsNumber, k - 1 \in Good
      PROVE  k \in Good
  <2>1. CASE k = 1
    BY <1>1, <1>5, <2>1
  <2>2. CASE k >= 2
    <3>1. k - 1 >= 1 /\ k - 1 \in 0..StepsNumber /\ k \in 0..StepsNumber
      BY <1>1, <2>2
    <3>2. after[k - 1].players \in Settling(n) /\ after[k - 1] \in States(n) /\ after[k] = Step(after[k - 1])
      BY <1>4, <1>7, <3>1
    <3>3. after[k].players \in Settled(n)
      BY <3>2, LaterStep
    <3>4. after[k].players \in Settling(n)
      BY <1>1, <3>3, SettledIsSettling
    <3> QED
      BY <3>1, <3>3, <3>4
  <2> QED
    BY <1>1, <2>1, <2>2
<1>8. 0..StepsNumber \subseteq Good
  <2> HIDE DEF Good
  <2> QED
    BY <1>1, <1>6, <1>7, Upwards
<1>9. StepsNumber \in 0..StepsNumber
  BY <1>1
<1>10. after[StepsNumber].players \in Settled(n)
  BY <1>8, <1>9
<1> QED
  BY <1>4, <1>10 DEF driven

-----------------------------------------------------------------------------
(* The border *)

\* Between the turns nobody is out for good: the balls are settled.
BorderInv == FieldTypeOK /\ players \in Settled(Len(players)) /\ (players # <<>> => BallsFit)

\* The bound of one ball is the border's.
LEMMA SettledIsWithin ==
  ASSUME BorderInv
  PROVE  BorderHolds
<1> DEFINE n == Len(players)
<1>1. /\ n \in Nat /\ players \in Balls(n) /\ DOMAIN players = 1..n
      /\ Spread(n, Beyonds(n, players))
  BY SeqOfBalls DEF BorderInv, FieldTypeOK, Settled
<1> SUFFICES ASSUME NEW i \in 1..n
             PROVE  Abs(players[i].center) + PlayerRadius
                      <= FieldRadius + VelocityMax + 2 * PlayerRadius * (n - 1)
  BY <1>1 DEF BorderHolds
<1> HIDE DEF n
<1> DEFINE x == Beyonds(n, players)
<1>2. x \in Depths(n)
  BY <1>1, DepthsAreNumbers
<1>3. x[i] <= Bound(n, 1)
  <2>1. {i} \in SUBSET (1..n) /\ {} \in SUBSET (1..n) /\ i \in (1..n) \ {} /\ {} \cup {i} = {i}
    OBVIOUS
  <2>2. Cardinality({i}) = 1
    BY FS_Singleton
  <2>3. Part(x, {i}, n) <= Bound(n, 1)
    BY <1>1, <2>1, <2>2 DEF Spread
  <2> HIDE DEF x
  <2>4. Part(x, {} \cup {i}, n) = Part(x, {}, n) + x[i] /\ Part(x, {}, n) = 0 /\ x[i] \in Nat
    BY <1>1, <1>2, <2>1, Parts DEF Depths
  <2> QED
    BY <2>1, <2>3, <2>4
<1>4. x[i] = Beyond(players[i])
  BY DEF Beyonds
<1> HIDE DEF x
<1>5. Bound(n, 1) = 2 * PlayerRadius * (n - 1) /\ Bound(n, 1) \in Nat
  <2>1. n >= 1 /\ PlayerRadius \in Nat
    BY <1>1, Numbers
  <2>2. 1 * (2 * n - 1 - 1) = 2 * (n - 1)
    BY <1>1
  <2>3. PlayerRadius * (2 * (n - 1)) = 2 * PlayerRadius * (n - 1)
    BY <1>1, <2>1
  <2>4. 2 * PlayerRadius * (n - 1) \in Nat
    BY <1>1, <2>1
  <2> QED
    BY <2>2, <2>3, <2>4 DEF Bound
<1>6. players[i].center \in Int
  BY <1>1 DEF Balls, Ball
<1> DEFINE b == 2 * PlayerRadius * (n - 1)
<1>7. b \in Nat /\ Beyond(players[i]) <= b
  BY <1>3, <1>4, <1>5
<1> HIDE DEF b
<1>8. Abs(players[i].center) + PlayerRadius <= FieldRadius + VelocityMax + b
  BY <1>6, <1>7, Numbers DEF Beyond, Excess, Reach, Abs
<1> QED
  BY <1>8 DEF b

\* Nobody is out at first.
LEMMA BorderInit ==
  ASSUME Init
  PROVE  BorderInv
<1>1. players = <<>> /\ Len(players) = 0 /\ FieldTypeOK
  BY FieldInit DEF Init, FieldInv
<1>2. players \in Balls(0) /\ 0 \in Nat
  BY <1>1, SeqOfBalls DEF FieldTypeOK
<1> DEFINE x == Beyonds(0, players)
<1>3. Spread(0, x)
  <2>1. x \in Depths(0)
    BY <1>2, DepthsAreNumbers
  <2> HIDE DEF x
  <2>2. \A K \in SUBSET (1..0) : K = {}
    OBVIOUS
  <2>3. Part(x, {}, 0) = 0 /\ Cardinality({}) = 0
    BY <1>2, <2>1, Parts, FS_EmptySet
  <2>4. Bound(0, 0) \in Nat
    BY <1>2, BoundWidens
  <2>5. ASSUME NEW K \in SUBSET (1..0)
        PROVE  Part(x, K, 0) <= Bound(0, Cardinality(K))
    <3>1. K = {}
      BY <2>2
    <3> QED
      BY <2>3, <2>4, <3>1
  <2> QED
    BY <2>5 DEF Spread
<1>4. players \in Settled(0)
  BY <1>2, <1>3 DEF Settled, Calm
<1> QED
  BY <1>1, <1>4 DEF BorderInv

\* A new player is put inside the field and stands.
LEMMA AddPlayerSettled ==
  ASSUME BorderInv, AddPlayer, FieldTypeOK'
  PROVE  BorderInv'
<1> DEFINE n == Len(players)
           qs == players'
<1>1. PICK c \in Inside(PlayerRadius) :
        players' = Append(players, [center |-> c, velocity |-> 0, score |-> 0])
  BY DEF AddPlayer
<1> DEFINE p == [center |-> c, velocity |-> 0, score |-> 0]
<1>2. /\ n \in Nat /\ players \in Seq(Ball) /\ players \in Balls(n)
      /\ \A i \in 1..n : Slow(players[i]) /\ Ready(players[i])
      /\ Spread(n, Beyonds(n, players))
  BY SeqOfBalls DEF BorderInv, FieldTypeOK, Settled, Calm
<1>3. c \in Int /\ Abs(c) <= FieldRadius - PlayerRadius /\ BallsFit
  BY Numbers DEF Inside, Abs, BallsFit
<1>4. p \in Ball /\ Slow(p) /\ Ready(p) /\ Beyond(p) = 0
  <2>1. p \in Ball /\ p.center = c /\ p.velocity = 0
    BY <1>3 DEF Ball
  <2>2. Slow(p)
    BY <2>1, Numbers DEF Slow, Abs
  <2>3. Ready(p)
    <3>1. 0 * c <= 0
      BY <1>3
    <3> HIDE DEF p
    <3> QED
      BY <2>1, <3>1 DEF Ready
  <2>4. Beyond(p) = 0
    <3> HIDE DEF p
    <3> QED
      BY <1>3, <2>1, Numbers DEF Beyond, Excess, Reach, Abs
  <2> HIDE DEF p
  <2> QED
    BY <2>1, <2>2, <2>3, <2>4
<1>5. /\ qs \in Seq(Ball) /\ Len(qs) = n + 1
      /\ \A i \in 1..n : qs[i] = players[i]
      /\ qs[n + 1] = p
  <2>1. qs = Append(players, p)
    BY <1>1
  <2> HIDE DEF p, qs
  <2> QED
    BY <1>2, <1>4, <2>1, AppendProperties
<1> HIDE DEF p, n, qs
<1>6. n + 1 \in Nat /\ qs \in Balls(n + 1)
  BY <1>2, <1>5, SeqOfBalls
<1>7. Spread(n + 1, Beyonds(n + 1, qs))
  <2> DEFINE x == Beyonds(n, players)
             y == Beyonds(n + 1, qs)
  <2>1. x \in Depths(n) /\ y \in Depths(n + 1)
    BY <1>2, <1>6, DepthsAreNumbers
  <2>2. \A k \in 1..n : y[k] = x[k]
    BY <1>2, <1>5 DEF Beyonds
  <2>3. y[n + 1] = 0
    BY <1>2, <1>4, <1>5 DEF Beyonds
  <2>4. Spread(n, x)
    BY <1>2
  <2> HIDE DEF x, y
  <2>5. Spread(n + 1, y)
    BY <1>2, <2>1, <2>2, <2>3, <2>4, OneMoreBall
  <2> QED
    BY <2>5 DEF y
<1>8. \A i \in 1..n + 1 : Slow(qs[i]) /\ Ready(qs[i])
  <2>1. \A i \in 1..n + 1 : i \in 1..n \/ i = n + 1
    BY <1>2
  <2> QED
    BY <1>2, <1>4, <1>5, <2>1
<1>9. qs \in Settled(n + 1)
  BY <1>6, <1>7, <1>8 DEF Settled, Calm
<1>10. players' \in Settled(Len(players'))
  BY <1>5, <1>9 DEF qs
<1>11. BallsFit'
  BY <1>3 DEF BallsFit
<1> QED
  BY <1>10, <1>11 DEF BorderInv

\* And the turns leave everybody settled.
LEMMA EmulateSettled ==
  ASSUME BorderInv, Emulate, FieldTypeOK', StepsNumber >= 2
  PROVE  BorderInv'
<1> DEFINE n == Len(players)
<1>1. /\ n \in 0..MaxPlayers /\ n \in Nat /\ players \in Balls(n) /\ DOMAIN players = 1..n
      /\ coins \in Seq(Int) /\ players \in Settled(n) /\ (n > 0 => BallsFit)
  <2>1. n > 0 => players # <<>>
    OBVIOUS
  <2> QED
    BY <2>1, SeqOfBalls, Numbers DEF BorderInv, FieldTypeOK
<1>2. PICK turns \in [1..n -> {-1, 0, 1}] :
        LET after == Steps(ApplyAcceleration(players, turns), coins)
        IN players' = after.players /\ coins' = after.coins_left
  BY <1>1 DEF Emulate
<1> HIDE DEF n
<1>3. players' = Steps(ApplyAcceleration(players, turns), coins).players
  BY <1>2
<1>4. players' \in Settled(n)
  BY <1>1, <1>3, TurnSettles
<1>5. players' \in Balls(n)
  BY <1>4 DEF Settled, Calm
<1>6. Len(players') = n
  BY <1>1, <1>5, SeqOfBalls
<1>7. players' # <<>> => BallsFit
  <2>1. players' # <<>> => n > 0
    BY <1>1, <1>5, <1>6, SeqOfBalls
  <2> QED
    BY <1>1, <2>1
<1> QED
  BY <1>4, <1>6, <1>7 DEF BorderInv, BallsFit

-----------------------------------------------------------------------------
(* Strategies *)

\* A vector that is not zero has a direction.
LEMMA UnitIsNumber ==
  ASSUME NEW x \in Int
  PROVE  /\ x # 0 => Unit(x) \in {-1, 1} /\ Unit(x) # NaN
         /\ Unit(x) = NaN => x = 0
BY NaNIsNoNumber DEF Unit, Sign

\* There is a closest coin.
LEMMA ClosestIsACoin ==
  ASSUME FieldTypeOK, coins # <<>>, NEW center \in Int
  PROVE  ClosestCoin(center) \in DOMAIN coins
<1> DEFINE n == Len(coins)
           d == [k \in 1..n |-> Distance(center, coins[k])]
           All == {d[k] : k \in 1..n}
<1>1. n \in Nat /\ n > 0 /\ DOMAIN coins = 1..n /\ \A k \in 1..n : coins[k] \in Int
  BY DEF FieldTypeOK
<1>2. \A k \in 1..n : d[k] \in Nat
  BY <1>1 DEF Distance, Abs
<1>3. \A k \in 1..n : Distance(center, coins[k]) = d[k]
  OBVIOUS
<1> HIDE DEF n, d
<1>4. PICK least \in All : \A x \in All : least <= x
  <2>1. All \subseteq Nat /\ d[1] \in All
    BY <1>1, <1>2
  <2> HIDE DEF All
  <2> QED
    BY <2>1, LeastNumber
<1> DEFINE Closest == {k \in 1..n : d[k] = least}
<1>5. PICK c \in Closest : \A k \in Closest : c <= k
  <2>1. Closest \subseteq Nat /\ Closest # {}
    BY <1>1, <1>4
  <2> HIDE DEF Closest
  <2> QED
    BY <2>1, LeastNumber
<1>6. c \in 1..n /\ d[c] = least
  OBVIOUS
<1>7. ASSUME NEW k \in 1..n
      PROVE  d[c] <= d[k] /\ (k < c => d[c] < d[k])
  <2>1. d[c] <= d[k] /\ d[c] \in Nat /\ d[k] \in Nat
    BY <1>2, <1>4, <1>6
  <2>2. d[k] = d[c] => c <= k
    BY <1>5, <1>6
  <2> QED
    BY <1>6, <2>1, <2>2
<1>8. c \in DOMAIN coins /\ \A k \in DOMAIN coins :
        /\ Distance(center, coins[c]) <= Distance(center, coins[k])
        /\ k < c => Distance(center, coins[c]) < Distance(center, coins[k])
  BY <1>1, <1>3, <1>6, <1>7
<1>9. \E x \in DOMAIN coins :
        \A k \in DOMAIN coins :
          /\ Distance(center, coins[x]) <= Distance(center, coins[k])
          /\ k < x => Distance(center, coins[x]) < Distance(center, coins[k])
  BY <1>8
<1> QED
  BY <1>9 DEF ClosestCoin

\* What the type of the field says of each player.
LEMMA EachIsABall ==
  ASSUME FieldTypeOK, NEW i \in DOMAIN players
  PROVE  players[i].center \in Int /\ players[i].velocity \in Int
<1>1. players[i] \in Ball
  <2>1. Len(players) \in Nat /\ players \in Balls(Len(players)) /\ DOMAIN players = 1..Len(players)
    BY SeqOfBalls DEF FieldTypeOK
  <2> QED
    BY <2>1 DEF Balls
<1> QED
  BY <1>1 DEF Ball

\* The vector from a player to the closest coin is none only on the coin.
LEMMA ToClosest ==
  ASSUME FieldTypeOK, coins # <<>>, NEW i \in DOMAIN players,
         \A k \in DOMAIN coins : coins[k] # players[i].center
  PROVE  Unit(coins[ClosestCoin(players[i].center)] - players[i].center) \in {-1, 1}
<1>1. players[i].center \in Int
  BY EachIsABall
<1>2. ClosestCoin(players[i].center) \in DOMAIN coins
  BY <1>1, ClosestIsACoin
<1>3. coins[ClosestCoin(players[i].center)] \in Int
  BY <1>2 DEF FieldTypeOK
<1>4. coins[ClosestCoin(players[i].center)] # players[i].center
  BY <1>2
<1>5. coins[ClosestCoin(players[i].center)] - players[i].center \in Int \ {0}
  BY <1>1, <1>3, <1>4
<1> QED
  BY <1>5, UnitIsNumber

\* So MoveToClosestCoin, which corrects a shift of nothing.
LEMMA CorrectedMove ==
  ASSUME FieldTypeOK, NEW i \in DOMAIN players,
         \A k \in DOMAIN coins : coins[k] # players[i].center
  PROVE  MoveToClosestCoin(players[i]) # NaN
<1> DEFINE player == players[i]
           direction == Unit(coins[ClosestCoin(player.center)] - player.center)
           next_point == player.center + player.velocity * StepsNumber * 100
           projection == IF (next_point - player.center) * direction >= 0 THEN next_point
                         ELSE player.center
<1>1. NaN # 1 /\ NaN # -1
  BY NaNIsNoNumber
<1>2. CASE coins = <<>>
  BY <1>1, <1>2 DEF MoveToClosestCoin
<1>3. CASE coins # <<>>
  <2>1. direction \in {-1, 1}
    BY <1>3, ToClosest
  <2>2. player.center \in Int /\ player.velocity \in Int /\ StepsNumber \in Int
    BY Numbers, EachIsABall
  <2>3. next_point \in Int
    BY <2>2
  <2>4. MoveToClosestCoin(player) =
          IF direction = NaN THEN NaN ELSE Unit(Corrected(projection - next_point, direction))
    BY <1>3 DEF MoveToClosestCoin
  <2> HIDE DEF direction, next_point
  <2>5. projection - next_point \in Int
    BY <2>2, <2>3
  <2> HIDE DEF projection
  <2>6. Corrected(projection - next_point, direction) \in Int \ {0}
    BY <2>1, <2>5 DEF Corrected, Abs
  <2>7. Unit(Corrected(projection - next_point, direction)) # NaN
    BY <2>6, UnitIsNumber
  <2> QED
    BY <1>1, <2>1, <2>4, <2>7
<1> QED
  BY <1>2, <1>3

\* Each strategy in turn.
LEMMA StrategiesMove ==
  ASSUME FieldTypeOK
  PROVE  TurnsAreNumbers
<1> SUFFICES ASSUME NEW i \in DOMAIN players, NEW strategy \in StrategyName,
                    \A k \in DOMAIN coins : coins[k] # players[i].center,
                    ~(strategy = "Buffalo" /\ players[i].velocity = 0)
             PROVE  NaN \notin GetTurn(strategy, players[i])
  BY DEF TurnsAreNumbers
<1>1. NaN \notin {-1, 0, 1}
  BY NaNIsNoNumber
<1>2. CASE strategy = "DoNothing"
  BY <1>1, <1>2 DEF GetTurn, NoTurn
<1>3. CASE strategy = "MoveToClosest"
  <2>1. MoveToClosest(players[i]) # NaN
    <3>1. CASE coins = <<>>
      BY <1>1, <3>1 DEF MoveToClosest, NoTurn
    <3>2. CASE coins # <<>>
      BY <1>1, <3>2, ToClosest DEF MoveToClosest
    <3> QED
      BY <3>1, <3>2
  <2> QED
    BY <1>3, <2>1 DEF GetTurn
<1>4. CASE strategy = "Predictive"
  <2>1. NaN \notin Predictive(players[i])
    <3>1. MoveToClosestCoin(players[i]) # NaN
      BY CorrectedMove
    <3>2. \A move \in BestMove : move.best_acceleration \in {-1, 0, 1}
      BY DEF BestMove
    <3> QED
      BY <1>1, <3>1, <3>2 DEF Predictive
  <2> QED
    BY <1>4, <2>1 DEF GetTurn
<1>5. CASE strategy = "Drunk"
  BY <1>1, <1>5 DEF GetTurn, Drunk
<1>6. CASE strategy = "Buffalo"
  <2>1. players[i].velocity \in Int \ {0}
    BY <1>6, EachIsABall
  <2>2. Buffalo(players[i]) = {Unit(players[i].velocity)}
    BY <2>1 DEF Buffalo
  <2>3. NaN \notin Buffalo(players[i])
    BY <2>1, <2>2, UnitIsNumber
  <2> QED
    BY <1>6, <2>3 DEF GetTurn
<1>7. CASE strategy = "RandomAcceleration"
  <2>1. ASSUME NEW x \in -10..10
        PROVE  Unit(ShiftFromZero(x)) # NaN
    <3>1. ShiftFromZero(x) \in Int \ {0}
      BY DEF ShiftFromZero
    <3> QED
      BY <3>1, UnitIsNumber
  <2>2. NaN \notin RandomAcceleration
    BY <2>1 DEF RandomAcceleration
  <2> QED
    BY <1>7, <2>2 DEF GetTurn
<1> QED
  BY <1>2, <1>3, <1>4, <1>5, <1>6, <1>7 DEF StrategyName

-----------------------------------------------------------------------------
(* The theorems *)

\* However many play and however large the field is, every player is a ball with a place,
\* a velocity and a score that is no debt, and there are never more than the game takes.
THEOREM FieldTypeCorrect == Spec => []FieldTypeOK
<1>1. FieldInv /\ [Next]_vars => FieldInv'
  BY FieldStep
<1>2. FieldInv => FieldTypeOK
  BY DEF FieldInv
<1> QED
  BY <1>1, <1>2, FieldInit, PTL DEF Spec

\* DivideCoins hands out what it takes from the field, whoever shares in a coin, and
\* nothing else touches a score.
THEOREM CoinsAccounted == Spec => []ScoresAccountForCoins
<1>1. FieldInv /\ [Next]_vars => FieldInv'
  BY FieldStep
<1>2. FieldInv => ScoresAccountForCoins
  BY DEF FieldInv
<1> QED
  BY <1>1, <1>2, FieldInit, PTL DEF Spec

\* With any number of players and any tolerance, the loop of DivideCoins gives a coin to
\* nobody who is two tolerances farther off than another, and to the nearest alone if he
\* is nearest by more than one.
THEOREM NearestPlayersShare == Spec => []NearestShare
<1>1. FieldTypeOK => NearestShare
  BY NearestWin
<1> QED
  BY <1>1, FieldTypeCorrect, PTL

\* In no state of a game does a strategy divide 0 by 0, unless a coin lies exactly in the
\* middle of the player, where MoveToClosest and Predictive may, or the player stands, where
\* Buffalo may draw nothing.
THEOREM StrategiesKnowWhereToGo == Spec => []TurnsAreNumbers
<1>1. FieldTypeOK => TurnsAreNumbers
  BY StrategiesMove
<1> QED
  BY <1>1, FieldTypeCorrect, PTL

\* However many balls there are, how large and how fast, overlapping balls bring each other
\* no farther out of the field than a diameter for each other ball: what one of them gains
\* by an exchange of velocities is what the other has been out less.  One step would not be
\* enough to bring back what a turn lets out.
THEOREM BallsComeBack ==
  ASSUME StepsNumber >= 2
  PROVE  Spec => []BorderHolds
<1>1. ASSUME BorderInv /\ FieldInv, [Next]_vars
      PROVE  (BorderInv /\ FieldInv)'
  <2>1. FieldInv' /\ FieldTypeOK'
    BY <1>1, FieldStep DEF FieldInv
  <2>2. CASE AddPlayer
    BY <1>1, <2>1, <2>2, AddPlayerSettled
  <2>3. CASE Emulate
    BY <1>1, <2>1, <2>3, EmulateSettled
  <2>4. CASE players' = players
    BY <1>1, <2>1, <2>4 DEF BorderInv, BallsFit
  <2> QED
    BY <1>1, <2>1, <2>2, <2>3, <2>4 DEF Next, vars, SendState
<1>2. BorderInv => BorderHolds
  BY SettledIsWithin
<1>3. Init => BorderInv /\ FieldInv
  BY BorderInit, FieldInit
<1> QED
  BY <1>1, <1>2, <1>3, PTL DEF Spec
==============================================================================
