------------------------------ MODULE Recursion ------------------------------
(***************************************************************************)
(* Recursive functions over 0..n: there is one, it has its values where    *)
(* its steps have theirs, and what each step preserves holds to the end.   *)
(* The library's induction theorems take an operator as a parameter; here  *)
(* the induction is over a set of numbers that have the property, and      *)
(* follows from the order of the numbers being well-founded.               *)
(***************************************************************************)
EXTENDS Integers, WellFoundedInduction, TLAPS

\* What holds of 0 and passes from each number to the next holds up to n.
LEMMA Upwards ==
  ASSUME NEW n \in Nat, NEW Good, 0 \in Good,
         \A k \in 1..n : k - 1 \in Good => k \in Good
  PROVE  0..n \subseteq Good
<1> DEFINE Bad == {k \in 0..n : k \notin Good}
           R == {ss \in Nat \X Nat : ss[1] < ss[2]}
<1> SUFFICES ASSUME Bad # {} PROVE FALSE
  OBVIOUS
<1>1. IsWellFoundedOn(R, Nat)
  BY NatLessThanWellFounded DEF OpToRel
<1>2. Bad \subseteq Nat
  OBVIOUS
<1>3. PICK k \in Bad : \A j \in Bad : <<j, k>> \notin R
  <2> HIDE DEF Bad, R
  <2> QED
    BY <1>1, <1>2, WFMin
<1>4. k \in 1..n /\ k - 1 \in 0..n
  OBVIOUS
<1>5. k - 1 \in Good
  <2>1. k - 1 \in Nat /\ k \in Nat /\ k - 1 < k
    BY <1>4
  <2>2. <<k - 1, k>> \in R
    BY <2>1
  <2> QED
    BY <1>3, <1>4, <2>2
<1> QED
  BY <1>3, <1>4, <1>5

\* f takes n steps from v0.
Walks(f, n, v0, step) == f[0] = v0 /\ \A i \in 1..n : f[i] = step[i][f[i - 1]]

\* A value that is computed step by step: the values on the way make up a function.
LEMMA StepByStep ==
  ASSUME NEW n \in Nat, NEW V, NEW v0 \in V, NEW step \in [1..n -> [V -> V]]
  PROVE  \E f \in [0..n -> V] : Walks(f, n, v0, step)
<1> DEFINE Good == {m \in 0..n : \E f \in [0..m -> V] : Walks(f, m, v0, step)}
<1>1. 0 \in Good
  <2> DEFINE g == [i \in 0..0 |-> v0]
  <2>1. g \in [0..0 -> V] /\ Walks(g, 0, v0, step)
    BY DEF Walks
  <2>2. 0 \in 0..n
    OBVIOUS
  <2> HIDE DEF g
  <2> QED
    BY <2>1, <2>2
<1>2. ASSUME NEW k \in 1..n, k - 1 \in Good
      PROVE  k \in Good
  <2>1. PICK f \in [0..(k - 1) -> V] : Walks(f, k - 1, v0, step)
    BY <1>2
  <2> DEFINE g == [i \in 0..k |-> IF i = k THEN step[k][f[k - 1]] ELSE f[i]]
  <2>2. f[k - 1] \in V /\ step[k][f[k - 1]] \in V
    <3>1. k - 1 \in 0..(k - 1)
      OBVIOUS
    <3>2. f[k - 1] \in V
      BY <3>1
    <3>3. step[k] \in [V -> V]
      OBVIOUS
    <3> QED
      BY <3>2, <3>3
  <2>3. g \in [0..k -> V]
    BY <2>2
  <2>4. g[0] = v0
    BY <2>1 DEF Walks
  <2>5. ASSUME NEW i \in 1..k
        PROVE  g[i] = step[i][g[i - 1]]
    <3>1. CASE i = k
      <4>1. k \in 0..k /\ k - 1 \in 0..k /\ k - 1 # k
        OBVIOUS
      <4>2. g[k] = step[k][f[k - 1]] /\ g[k - 1] = f[k - 1]
        BY <4>1
      <4> QED
        BY <3>1, <4>2
    <3>2. CASE i # k
      <4>1. i \in 1..(k - 1) /\ i - 1 \in 0..(k - 1)
        BY <3>2
      <4> QED
        BY <2>1, <3>2, <4>1 DEF Walks
    <3> QED
      BY <3>1, <3>2
  <2>6. Walks(g, k, v0, step)
    BY <2>4, <2>5 DEF Walks
  <2>7. k \in 0..n
    OBVIOUS
  <2> HIDE DEF g
  <2> QED
    BY <2>3, <2>6, <2>7
<1>3. n \in Good
  <2>1. 0..n \subseteq Good
    <3> HIDE DEF Good
    <3> QED
      BY <1>1, <1>2, Upwards
  <2> QED
    BY <2>1
<1> QED
  BY <1>3

\* f does so as long as its values are among V.
Follows(f, n, v0, step, V) ==
  f[0] = v0 /\ \A k \in 1..n : f[k - 1] \in V => f[k] = step[k][f[k - 1]]

\* Then all of them are.
LEMMA StaysWithin ==
  ASSUME NEW n \in Nat, NEW V, NEW v0 \in V, NEW step \in [1..n -> [V -> V]], NEW f,
         Follows(f, n, v0, step, V)
  PROVE  \A k \in 0..n : f[k] \in V
<1> DEFINE Good == {k \in 0..n : f[k] \in V}
<1>1. 0 \in Good
  BY DEF Follows
<1>2. ASSUME NEW k \in 1..n, k - 1 \in Good
      PROVE  k \in Good
  <2>1. f[k - 1] \in V /\ f[k] = step[k][f[k - 1]] /\ k \in 0..n
    BY <1>2 DEF Follows
  <2>2. step[k] \in [V -> V]
    OBVIOUS
  <2> QED
    BY <2>1, <2>2
<1>3. 0..n \subseteq Good
  <2> HIDE DEF Good
  <2> QED
    BY <1>1, <1>2, Upwards
<1> QED
  BY <1>3

\* Two functions start alike and step alike.
StepAlike(f, g, n) == f[0] = g[0] /\ \A k \in 1..n : f[k - 1] = g[k - 1] => f[k] = g[k]

\* They agree as far as they step.
LEMMA SameWalk ==
  ASSUME NEW n \in Nat, NEW f, NEW g, StepAlike(f, g, n)
  PROVE  \A k \in 0..n : f[k] = g[k]
<1> DEFINE Good == {k \in 0..n : f[k] = g[k]}
<1>1. 0 \in Good
  BY DEF StepAlike
<1>2. ASSUME NEW k \in 1..n, k - 1 \in Good
      PROVE  k \in Good
  BY <1>2 DEF StepAlike
<1>3. 0..n \subseteq Good
  <2> HIDE DEF Good
  <2> QED
    BY <1>1, <1>2, Upwards
<1> QED
  BY <1>3

\* A set of numbers has a least one.
LEMMA LeastNumber ==
  ASSUME NEW S, S \subseteq Nat, S # {}
  PROVE  \E m \in S : \A k \in S : m <= k
<1> DEFINE R == {ss \in Nat \X Nat : ss[1] < ss[2]}
<1>1. IsWellFoundedOn(R, Nat)
  BY NatLessThanWellFounded DEF OpToRel
<1>2. PICK m \in S : \A k \in S : <<k, m>> \notin R
  <2> HIDE DEF R
  <2> QED
    BY <1>1, WFMin
<1>3. ASSUME NEW k \in S
      PROVE  m <= k
  <2>1. k \in Nat /\ m \in Nat /\ <<k, m>> \notin R
    BY <1>2
  <2>2. ~(k < m)
    BY <2>1
  <2> QED
    BY <2>1, <2>2
<1> QED
  BY <1>3
==============================================================================
