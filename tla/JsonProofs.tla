----------------------------- MODULE JsonProofs -----------------------------
(***************************************************************************)
(* Proofs about the values, numbers, strings and messages of JSON, for     *)
(* integers of any width and for documents, texts and messages of any      *)
(* size.                                                                   *)
(***************************************************************************)
EXTENDS Subjects, Recursion, SequenceTheorems, FiniteSetTheorems

\* The limits of the integers.
LEMMA Limits ==
  /\ MaxUInt \in Nat /\ MaxUInt >= 1 /\ MaxInt \in Nat /\ MinInt \in Int
  /\ MaxUInt = 2 * MaxInt + 1 /\ MinInt = -MaxInt - 1
BY JsonAssumption DEF MaxInt, MinInt

\* The reals, in units of which 1 has One.
Reals == Int \cup {NaN}

LEMMA OneUnits == One \in Nat /\ One >= 1
<1>1. One \in Nat /\ One # 0
  BY DoubleAssumption, Zenon
<1> QED
  BY <1>1

-----------------------------------------------------------------------------
(* Documents *)

\* The values whose members and elements, if any, are in V.
Scalar(v) ==
  \/ v = Null
  \/ \E n \in MinInt..MaxInt : v = Int_(n)
  \/ \E n \in 0..MaxUInt : v = UInt(n)
  \/ \E x \in Reals : v = Real(x)
  \/ \E s : v = Str(s)
  \/ \E b \in BOOLEAN : v = Bool(b)
IsArrayOf(v, V) == \E n \in Nat : \E D \in SUBSET (0..n) : \E m \in [D -> V] : v = Arr(m)
IsObjectOf(v, V) == \E D : \E m \in [D -> V] : v = Obj(m)

\* A set of values is closed: what its values are made of is in it.  Every document is in
\* such a set, that of its parts, with Null for what it does not have.
Closed(V) == Null \in V /\ \A v \in V : Scalar(v) \/ IsArrayOf(v, V) \/ IsObjectOf(v, V)

\* How many times a positive number fits into one that is at most m times as large.
LEMMA DivBounds ==
  ASSUME NEW x \in Nat, NEW d \in Nat, d >= 1
  PROVE  /\ x \div d \in Nat /\ x % d \in Nat /\ x % d < d
         /\ x = d * (x \div d) + (x % d)
OBVIOUS

LEMMA UnitsCounted ==
  ASSUME NEW m \in Nat, NEW x \in Nat, x <= One * m
  PROVE  x \div One \in 0..m
<1> DEFINE q == x \div One
           r == x % One
<1>1. q \in Nat /\ r \in Nat /\ x = One * q + r
  BY OneUnits, DivBounds
<1> HIDE DEF q, r
<1>2. ASSUME q >= m + 1
      PROVE  FALSE
  <2>1. One * q >= One * (m + 1)
    BY <1>1, <1>2, OneUnits
  <2>2. One * (m + 1) = One * m + One
    BY OneUnits
  <2> QED
    BY <1>1, <2>1, <2>2, OneUnits
<1>3. q \in 0..m
  BY <1>1, <1>2
<1> QED
  BY <1>3 DEF q

\* What can be asked for as an unsigned integer or as a real is one when it is read.
LEMMA ConvertsAsTold ==
  ASSUME NEW V, Closed(V), NEW v \in V
  PROVE  /\ IsConvertibleTo(v, "uint") => \E n \in 0..MaxUInt : AsUInt(v) = {n}
         /\ IsConvertibleTo(v, "real") => \E x \in Reals : AsDouble(v) = {x}
<1>1. CASE v = Null
  <2>1. v.type = "null"
    BY <1>1 DEF Null
  <2>2. AsUInt(v) = {0} /\ AsDouble(v) = {0}
    BY <2>1 DEF AsUInt, AsDouble
  <2> QED
    BY <2>2, Limits DEF Reals
<1>2. ASSUME NEW n \in MinInt..MaxInt, v = Int_(n)
      PROVE  /\ IsConvertibleTo(v, "uint") => \E k \in 0..MaxUInt : AsUInt(v) = {k}
             /\ IsConvertibleTo(v, "real") => \E x \in Reals : AsDouble(v) = {x}
  <2>1. v.type = "int" /\ v.int = n
    BY <1>2 DEF Int_
  <2>2. IsConvertibleTo(v, "uint") => n \in 0..MaxUInt /\ AsUInt(v) = {n}
    BY <2>1, Limits DEF IsConvertibleTo, AsUInt
  <2>3. AsDouble(v) = {One * n} /\ One * n \in Reals
    BY <2>1, Limits, OneUnits DEF AsDouble, Reals
  <2> QED
    BY <2>2, <2>3
<1>3. ASSUME NEW n \in 0..MaxUInt, v = UInt(n)
      PROVE  /\ IsConvertibleTo(v, "uint") => \E k \in 0..MaxUInt : AsUInt(v) = {k}
             /\ IsConvertibleTo(v, "real") => \E x \in Reals : AsDouble(v) = {x}
  <2>1. v.type = "uint" /\ v.uint = n
    BY <1>3 DEF UInt
  <2>2. AsUInt(v) = {n} /\ AsDouble(v) = {One * n} /\ One * n \in Reals
    BY <2>1, Limits, OneUnits DEF AsUInt, AsDouble, Reals
  <2> QED
    BY <2>2
<1>4. ASSUME NEW x \in Reals, v = Real(x)
      PROVE  /\ IsConvertibleTo(v, "uint") => \E k \in 0..MaxUInt : AsUInt(v) = {k}
             /\ IsConvertibleTo(v, "real") => \E y \in Reals : AsDouble(v) = {y}
  <2>1. v.type = "real" /\ v.real = x
    BY <1>4 DEF Real
  <2>2. AsDouble(v) = {x}
    BY <2>1 DEF AsDouble
  <2>3. ASSUME IsConvertibleTo(v, "uint")
        PROVE  Truncated(x) \in 0..MaxUInt /\ AsUInt(v) = {Truncated(x)}
    <3>1. RealIn(x, 0, MaxUInt)
      BY <2>1, <2>3 DEF IsConvertibleTo
    <3>2. x \in Int /\ x >= 0 /\ x <= One * MaxUInt
      BY <3>1, Limits, OneUnits DEF RealIn, Reals
    <3>3. Truncated(x) \in 0..MaxUInt
      BY <3>2, Limits, UnitsCounted DEF Truncated
    <3>4. AsUInt(v) = {Truncated(x)}
      BY <2>1, <3>1 DEF AsUInt
    <3> QED
      BY <3>3, <3>4
  <2> QED
    BY <2>2, <2>3
<1>5. ASSUME NEW s, v = Str(s)
      PROVE  ~IsConvertibleTo(v, "uint") /\ ~IsConvertibleTo(v, "real")
  BY <1>5 DEF Str, IsConvertibleTo
<1>6. ASSUME NEW b \in BOOLEAN, v = Bool(b)
      PROVE  /\ IsConvertibleTo(v, "uint") => \E k \in 0..MaxUInt : AsUInt(v) = {k}
             /\ IsConvertibleTo(v, "real") => \E x \in Reals : AsDouble(v) = {x}
  <2>1. v.type = "boolean"
    BY <1>6 DEF Bool
  <2>2. AsUInt(v) = {1} \/ AsUInt(v) = {0}
    BY <2>1 DEF AsUInt
  <2>3. AsDouble(v) = {One} \/ AsDouble(v) = {0}
    BY <2>1 DEF AsDouble
  <2> QED
    BY <2>2, <2>3, Limits, OneUnits DEF Reals
<1>7. ASSUME IsArrayOf(v, V) \/ IsObjectOf(v, V)
      PROVE  ~IsConvertibleTo(v, "uint") /\ ~IsConvertibleTo(v, "real")
  <2>1. v.type = "array" \/ v.type = "object"
    BY <1>7 DEF IsArrayOf, IsObjectOf, Arr, Obj
  <2> QED
    BY <2>1 DEF IsConvertibleTo
<1> QED
  BY <1>1, <1>2, <1>3, <1>4, <1>5, <1>6, <1>7 DEF Closed, Scalar

\* What a value is made of is in the set, and so is what stands for what it does not have.
LEMMA PartsStay ==
  ASSUME NEW V, Closed(V), NEW v \in V
  PROVE  (\A n : Member(v, n) \in V) /\ (\A i : Element(v, i) \in V)
<1>1. ASSUME NEW n
      PROVE  Member(v, n) \in V
  <2>1. CASE v.type = "object" /\ n \in DOMAIN v.map
    <3>1. ~Scalar(v) /\ ~IsArrayOf(v, V)
      BY <2>1 DEF Scalar, IsArrayOf, Null, Int_, UInt, Real, Str, Bool, Arr
    <3>2. PICK D : \E m \in [D -> V] : v = Obj(m)
      BY <3>1 DEF Closed, IsObjectOf
    <3>3. v.map \in [D -> V]
      BY <3>2 DEF Obj
    <3> QED
      BY <2>1, <3>3 DEF Member
  <2>2. CASE ~(v.type = "object" /\ n \in DOMAIN v.map)
    BY <2>2 DEF Member, Closed
  <2> QED
    BY <2>1, <2>2
<1>2. ASSUME NEW i
      PROVE  Element(v, i) \in V
  <2>1. CASE v.type = "array" /\ i \in DOMAIN v.map
    <3>1. ~Scalar(v) /\ ~IsObjectOf(v, V)
      BY <2>1 DEF Scalar, IsObjectOf, Null, Int_, UInt, Real, Str, Bool, Obj
    <3>2. PICK n \in Nat : \E D \in SUBSET (0..n) : \E m \in [D -> V] : v = Arr(m)
      BY <3>1 DEF Closed, IsArrayOf
    <3>3. \E D : v.map \in [D -> V]
      BY <3>2 DEF Arr
    <3> QED
      BY <2>1, <3>3 DEF Element
  <2>2. CASE ~(v.type = "array" /\ i \in DOMAIN v.map)
    BY <2>2 DEF Element, Closed
  <2> QED
    BY <2>1, <2>2
<1> QED
  BY <1>1, <1>2

\* The greatest of a bounded set of numbers.
LEMMA Greatest ==
  ASSUME NEW n \in Nat, NEW D \in SUBSET (0..n), D # {}
  PROVE  Max(D) \in D /\ \A k \in D : k <= Max(D)
<1> DEFINE Bounds == {b \in 0..n : \A d \in D : d <= b}
<1>1. PICK b \in Bounds : \A c \in Bounds : b <= c
  <2>1. n \in Bounds /\ Bounds \subseteq Nat
    OBVIOUS
  <2> HIDE DEF Bounds
  <2> QED
    BY <2>1, LeastNumber
<1>2. b \in D
  <2> SUFFICES ASSUME b \notin D PROVE FALSE
    OBVIOUS
  <2>1. PICK e \in D : TRUE
    OBVIOUS
  <2>2. e \in 0..b /\ e # b /\ b \in 0..n
    BY <2>1
  <2>3. b - 1 \in Bounds
    BY <2>2
  <2> QED
    BY <1>1, <2>2, <2>3
<1>3. \A d \in D : d <= b
  OBVIOUS
<1>4. \E x \in D : \A y \in D : x >= y
  BY <1>2, <1>3
<1>5. \A x \in D : x \in Nat
  OBVIOUS
<1>6. Max(D) \in D /\ \A y \in D : Max(D) >= y
  <2> HIDE DEF Bounds
  <2> QED
    BY <1>4, Zenon DEF Max
<1>7. \A x, y \in Nat : x >= y => y <= x
  OBVIOUS
<1> QED
  BY <1>5, <1>6, <1>7

\* The size of an array is a number.
LEMMA SizeIsNat ==
  ASSUME NEW V, Closed(V), NEW v \in V, IsArray(v)
  PROVE  Size(v) \in Nat
<1>1. CASE v.type = "null"
  BY <1>1 DEF Size
<1>2. CASE v.type = "array"
  <2>1. ~Scalar(v) /\ ~IsObjectOf(v, V)
    BY <1>2 DEF Scalar, IsObjectOf, Null, Int_, UInt, Real, Str, Bool, Obj
  <2>2. PICK n \in Nat : \E D \in SUBSET (0..n) : \E m \in [D -> V] : v = Arr(m)
    BY <2>1 DEF Closed, IsArrayOf
  <2>3. DOMAIN v.map \in SUBSET (0..n)
    BY <2>2 DEF Arr
  <2>4. DOMAIN v.map # {} => Max(DOMAIN v.map) \in Nat
    BY <2>3, Greatest
  <2> QED
    BY <1>2, <2>3, <2>4 DEF Size
<1> QED
  BY <1>1, <1>2 DEF IsArray

\* The fields of some names that are asked for as unsigned integers or reals.
Fields(N) == [N -> {"uint", "real"}]
\* What is read of them, each with the type it was asked for.
ReadsAs(r, fields) ==
  /\ DOMAIN r = DOMAIN fields
  /\ \A n \in DOMAIN fields : r[n] \in IF fields[n] = "uint" THEN 0..MaxUInt ELSE Reals

\* No conversion throws after its test.
LEMMA GuardedReads ==
  ASSUME NEW V, Closed(V), NEW json \in V, NEW N, NEW fields \in Fields(N)
  PROVE  \/ Guarded(json, fields) = NoMessage
         \/ \E r : Guarded(json, fields) = Message(r) /\ ReadsAs(r, fields)
<1> SUFFICES ASSUME AllHave(json, fields)
             PROVE  \E r : Guarded(json, fields) = Message(r) /\ ReadsAs(r, fields)
  BY DEF Guarded
<1> DEFINE read == Read(json, fields)
           r == ToRecord(read)
<1>1. DOMAIN fields = N /\ DOMAIN read = N
  BY DEF Fields, Read
<1>2. ASSUME NEW n \in N
      PROVE  \E x \in IF fields[n] = "uint" THEN 0..MaxUInt ELSE Reals : read[n] = {x}
  <2>1. Member(json, <<n>>) \in V
    BY PartsStay
  <2>2. IsConvertibleTo(Member(json, <<n>>), fields[n])
    BY <1>1 DEF AllHave, Has
  <2>3. CASE fields[n] = "uint"
    <3>1. read[n] = AsUInt(Member(json, <<n>>))
      BY <1>1, <2>3 DEF Read
    <3> HIDE DEF read
    <3> QED
      BY <2>1, <2>2, <2>3, <3>1, ConvertsAsTold
  <2>4. CASE fields[n] = "real"
    <3>1. read[n] = AsDouble(Member(json, <<n>>))
      BY <1>1, <2>4 DEF Read
    <3> HIDE DEF read
    <3> QED
      BY <2>1, <2>2, <2>4, <3>1, ConvertsAsTold
  <2> QED
    BY <2>3, <2>4 DEF Fields
<1>3. Converted(read)
  <2> HIDE DEF read
  <2> QED
    BY <1>1, <1>2 DEF Converted
<1>4. Guarded(json, fields) = Message(r)
  BY <1>3 DEF Guarded
<1>5. ReadsAs(r, fields)
  <2> HIDE DEF read
  <2>1. DOMAIN r = N
    BY <1>1 DEF ToRecord
  <2>2. ASSUME NEW n \in N
        PROVE  r[n] \in IF fields[n] = "uint" THEN 0..MaxUInt ELSE Reals
    <3>1. PICK x \in IF fields[n] = "uint" THEN 0..MaxUInt ELSE Reals : read[n] = {x}
      BY <1>2
    <3>2. r[n] = Only({x})
      BY <1>1, <3>1 DEF ToRecord
    <3>3. Only({x}) = x
      BY DEF Only
    <3> QED
      BY <3>1, <3>2, <3>3
  <2> QED
    BY <1>1, <2>1, <2>2 DEF ReadsAs
<1> QED
  BY <1>4, <1>5

\* Reading a list ends the program only at an element that is no object; else there is a
\* message for each element, or none.
LEMMA BallsRead ==
  ASSUME NEW V, Closed(V), NEW json \in V, IsArray(json), NEW radius,
         NEW N, NEW fields \in Fields(N)
  PROVE  LET p == ParseBalls(json, fields, radius) IN
         /\ p.outcome \in {"none", "message", "aborts"}
         /\ p.outcome = "aborts" => \E i \in 0..Size(json) - 1 : ~IsObject(Element(json, i))
         /\ p.outcome = "message" =>
              /\ DOMAIN p.message = 1..Size(json)
              /\ \A i \in 1..Size(json) :
                   \E r : ReadsAs(r, fields) /\ p.message[i] = Merged([radius |-> radius], r)
<1> DEFINE p == ParseBalls(json, fields, radius)
           of(i) == LET ball == Element(json, i - 1) IN
                    IF ~IsObject(ball) THEN Aborts
                    ELSE With(Guarded(ball, fields), [radius |-> radius])
           all == [i \in 1..Size(json) |-> of(i)]
           bad == {i \in DOMAIN all : all[i].outcome # "message"}
<1>1. Size(json) \in Nat
  BY SizeIsNat
<1>2. ASSUME NEW i \in 1..Size(json)
      PROVE  \/ all[i] = Aborts /\ ~IsObject(Element(json, i - 1))
             \/ all[i] = NoMessage
             \/ \E r : ReadsAs(r, fields) /\ all[i] = Message(Merged([radius |-> radius], r))
  <2>1. all[i] = of(i)
    OBVIOUS
  <2>2. CASE ~IsObject(Element(json, i - 1))
    BY <2>1, <2>2
  <2>3. CASE IsObject(Element(json, i - 1))
    <3> DEFINE g == Guarded(Element(json, i - 1), fields)
    <3>1. all[i] = With(g, [radius |-> radius])
      BY <2>1, <2>3
    <3>2. Element(json, i - 1) \in V
      BY PartsStay
    <3>3. g = NoMessage \/ \E r : g = Message(r) /\ ReadsAs(r, fields)
      BY <3>2, GuardedReads
    <3> HIDE DEF g, all
    <3>4. CASE g = NoMessage
      BY <3>1, <3>4 DEF With, NoMessage
    <3>5. ASSUME NEW r, g = Message(r), ReadsAs(r, fields)
          PROVE  all[i] = Message(Merged([radius |-> radius], r))
      BY <3>1, <3>5 DEF With, Message
    <3> QED
      BY <3>3, <3>4, <3>5
  <2> QED
    BY <2>2, <2>3
<1>3. DOMAIN all = 1..Size(json)
  OBVIOUS
<1>4. p = IF bad # {} THEN all[Min(bad)] ELSE Message([i \in DOMAIN all |-> all[i].message])
  BY DEF ParseBalls
<1> HIDE DEF p, all
<1>5. CASE bad # {}
  <2>1. bad \subseteq Nat /\ bad \subseteq 1..Size(json)
    BY <1>1, <1>3
  <2>2. Min(bad) \in bad
    <3>1. \E x \in bad : \A y \in bad : x <= y
      <4> HIDE DEF bad
      <4> QED
        BY <1>5, <2>1, LeastNumber
    <3> HIDE DEF bad
    <3> QED
      BY <3>1, Zenon DEF Min
  <2> DEFINE i == Min(bad)
  <2>3. i \in 1..Size(json) /\ all[i].outcome # "message" /\ p = all[i]
    BY <1>3, <1>4, <1>5, <2>2
  <2> HIDE DEF i
  <2>4. \/ all[i] = Aborts /\ ~IsObject(Element(json, i - 1))
        \/ all[i] = NoMessage
    <3>1. \A r : all[i] # Message(r)
      BY <2>3 DEF Message
    <3> QED
      BY <1>2, <2>3, <3>1
  <2>5. i - 1 \in 0..Size(json) - 1
    BY <1>1, <2>3
  <2> QED
    BY <2>3, <2>4, <2>5 DEF p, Aborts, NoMessage
<1>6. CASE bad = {}
  <2>1. p = Message([i \in 1..Size(json) |-> all[i].message])
    BY <1>3, <1>4, <1>6
  <2>2. p.outcome = "message" /\ p.message = [i \in 1..Size(json) |-> all[i].message]
    BY <2>1 DEF Message
  <2>3. ASSUME NEW i \in 1..Size(json)
        PROVE  \E r : ReadsAs(r, fields) /\ p.message[i] = Merged([radius |-> radius], r)
    <3>1. all[i].outcome = "message"
      BY <1>3, <1>6
    <3>2. PICK r : ReadsAs(r, fields) /\ all[i] = Message(Merged([radius |-> radius], r))
      BY <1>2, <3>1 DEF Aborts, NoMessage
    <3>3. all[i].message = Merged([radius |-> radius], r)
      BY <3>2 DEF Message
    <3>4. p.message[i] = all[i].message
      BY <2>2
    <3> QED
      BY <3>2, <3>3, <3>4
  <2> QED
    BY <2>2, <2>3 DEF p
<1> QED
  BY <1>5, <1>6

\* The fields that the four kinds of guarded values have.
LEMMA AllFields ==
  /\ [id |-> "uint"] \in Fields({"id"})
  /\ StateFields \in Fields({"state_id", "field_radius", "player_radius", "coin_radius", "time_delta", "velocity_max"})
  /\ PlayerFields \in Fields({"id", "x", "y", "v_x", "v_y", "score"})
  /\ CoinFields \in Fields({"x", "y", "value"})
  /\ [state_id |-> "uint", id |-> "uint", a_x |-> "real", a_y |-> "real"]
       \in Fields({"state_id", "id", "a_x", "a_y"})
BY DEF Fields, StateFields, PlayerFields, CoinFields

\* What GuardsHoldFor says of p, given json's way to end the program.
Held(p, json) ==
  /\ p.outcome \in {"throws", "aborts"} => EndsProgram(json)
  /\ p.outcome = "message" => WellTyped(p.message)

\* No message, or a well-typed one, is within the guards.
LEMMA HeldByMessage ==
  ASSUME NEW p, NEW json, p = NoMessage \/ \E m : p = Message(m) /\ WellTyped(m)
  PROVE  Held(p, json)
BY DEF Held, Message, NoMessage

\* The answer to a subscription.
LEMMA ResultHeld ==
  ASSUME NEW V, Closed(V), NEW json \in V, NEW type \in {"CLI_SUB_RESULT", "VIEW_SUB_RESULT"}
  PROVE  Held(ParseResult(json, type), json)
<1> DEFINE p == ParseResult(json, type)
           g == Guarded(json, [id |-> "uint"])
<1>1. g = NoMessage \/ \E r : g = Message(r)
  BY AllFields, GuardedReads
<1>2. p = NoMessage \/ p = With(g, [type |-> type, result |-> TRUE])
  BY DEF ParseResult
<1> HIDE DEF p, g
<1>3. p = NoMessage \/ \E r : p = Message(Merged([type |-> type, result |-> TRUE], r))
  BY <1>1, <1>2 DEF With, Message, NoMessage
<1>4. ASSUME NEW r
      PROVE  WellTyped(Merged([type |-> type, result |-> TRUE], r))
  <2> DEFINE m == Merged([type |-> type, result |-> TRUE], r)
  <2>1. m.type = type
    BY DEF Merged
  <2> HIDE DEF m
  <2>2. WellTyped(m)
    BY <2>1 DEF WellTyped
  <2> QED
    BY <2>2 DEF m
<1>5. Held(p, json)
  BY <1>3, <1>4, HeldByMessage
<1> QED
  BY <1>5 DEF p

\* A turn: its two ids are unsigned integers.
LEMMA TurnHeld ==
  ASSUME NEW V, Closed(V), NEW json \in V
  PROVE  Held(ParseTurn(json), json)
<1> DEFINE fields == [state_id |-> "uint", id |-> "uint", a_x |-> "real", a_y |-> "real"]
           g == Guarded(json, fields)
           m(r) == [type |-> "TURN", state_id |-> r.state_id, player_id |-> r.id, a_x |-> r.a_x, a_y |-> r.a_y]
           p == ParseTurn(json)
<1>1. g = NoMessage \/ \E r : g = Message(r) /\ ReadsAs(r, fields)
  BY AllFields, GuardedReads
<1>2. p = IF g.outcome # "message" THEN g ELSE Message(m(g.message))
  BY DEF ParseTurn
<1>3. ASSUME NEW r, ReadsAs(r, fields)
      PROVE  WellTyped(m(r))
  <2>1. r.state_id \in 0..MaxUInt /\ r.id \in 0..MaxUInt
    BY <1>3 DEF ReadsAs
  <2> QED
    BY <2>1 DEF WellTyped
<1> HIDE DEF fields, g, p, m
<1>4. p = NoMessage \/ \E r : ReadsAs(r, fields) /\ p = Message(m(r))
  BY <1>1, <1>2 DEF Message, NoMessage
<1>5. Held(p, json)
  BY <1>3, <1>4, HeldByMessage
<1> QED
  BY <1>5 DEF p

\* The list of players or of coins, if it is one.
ListHeld(p, json, n) ==
  /\ p.outcome \in {"none", "message", "aborts"}
  /\ p.outcome = "aborts" => BadElement(json, n)

\* A state, with its two lists of balls.
LEMMA StateHeld ==
  ASSUME NEW V, Closed(V), NEW json \in V, Member(json, <<"type">>) = Word("STATE")
  PROVE  Held(ParseState(json), json)
<1> DEFINE head == Guarded(json, StateFields)
           list(n, fields, radius) ==
             IF IsMember(json, <<n>>) /\ IsArray(Member(json, <<n>>))
             THEN ParseBalls(Member(json, <<n>>), fields, radius) ELSE NoMessage
           h == head.message
           ps == list("players", PlayerFields, h.player_radius)
           cs == list("coins", CoinFields, h.coin_radius)
           m == [type |-> "STATE", id |-> h.state_id, radius |-> h.field_radius,
                 time_delta |-> h.time_delta, velocity_max |-> h.velocity_max,
                 players |-> ps.message, coins |-> cs.message]
           p == ParseState(json)
<1> SUFFICES Held(p, json)
  OBVIOUS
<1>1. head = NoMessage \/ \E r : head = Message(r) /\ ReadsAs(r, StateFields)
  BY AllFields, GuardedReads
<1>2. ASSUME NEW n, NEW N, NEW fields \in Fields(N), NEW radius
      PROVE  /\ ListHeld(list(n, fields, radius), json, n)
             /\ list(n, fields, radius).outcome = "message" =>
                  \A i \in DOMAIN list(n, fields, radius).message :
                    \E r : ReadsAs(r, fields) /\ list(n, fields, radius).message[i] = Merged([radius |-> radius], r)
  <2> DEFINE q == list(n, fields, radius)
             v == Member(json, <<n>>)
  <2>1. CASE ~(IsMember(json, <<n>>) /\ IsArray(v))
    <3>1. q = NoMessage
      BY <2>1
    <3> QED
      BY <3>1 DEF ListHeld, NoMessage
  <2>2. CASE IsMember(json, <<n>>) /\ IsArray(v)
    <3>1. q = ParseBalls(v, fields, radius)
      BY <2>2
    <3>2. v \in V
      BY PartsStay
    <3> HIDE DEF q, v
    <3>3. /\ q.outcome \in {"none", "message", "aborts"}
          /\ q.outcome = "aborts" => \E i \in 0..Size(v) - 1 : ~IsObject(Element(v, i))
          /\ q.outcome = "message" =>
               /\ DOMAIN q.message = 1..Size(v)
               /\ \A i \in 1..Size(v) :
                    \E r : ReadsAs(r, fields) /\ q.message[i] = Merged([radius |-> radius], r)
      BY <2>2, <3>1, <3>2, BallsRead
    <3>4. q.outcome = "aborts" => BadElement(json, n)
      BY <2>2, <3>3 DEF BadElement, v
    <3>5. ListHeld(q, json, n)
      BY <3>3, <3>4 DEF ListHeld
    <3> QED
      BY <3>3, <3>5 DEF q
  <2> QED
    BY <2>1, <2>2
<1>3. /\ ListHeld(ps, json, "players")
      /\ ps.outcome = "message" =>
           \A i \in DOMAIN ps.message :
             \E r : ReadsAs(r, PlayerFields) /\ ps.message[i] = Merged([radius |-> h.player_radius], r)
  <2> HIDE DEF list, h
  <2> QED
    BY <1>2, AllFields
<1>4. ListHeld(cs, json, "coins")
  <2> HIDE DEF list, h
  <2> QED
    BY <1>2, AllFields
<1>5. p = IF head.outcome # "message" THEN head
          ELSE IF ps.outcome # "message" THEN ps
          ELSE IF cs.outcome # "message" THEN cs ELSE Message(m)
  BY DEF ParseState
<1>6. BadElement(json, "players") \/ BadElement(json, "coins") => EndsProgram(json)
  BY DEF EndsProgram
<1> HIDE DEF head, ps, cs, p
<1>7. CASE head.outcome # "message"
  BY <1>1, <1>5, <1>7 DEF Held, Message, NoMessage
<1>8. CASE head.outcome = "message" /\ ps.outcome # "message"
  BY <1>3, <1>5, <1>6, <1>8 DEF Held, ListHeld
<1>9. CASE head.outcome = "message" /\ ps.outcome = "message" /\ cs.outcome # "message"
  BY <1>4, <1>5, <1>6, <1>9 DEF Held, ListHeld
<1>10. CASE head.outcome = "message" /\ ps.outcome = "message" /\ cs.outcome = "message"
  <2>1. p = Message(m)
    BY <1>5, <1>10
  <2>2. m.id \in 0..MaxUInt
    <3>1. PICK r : head = Message(r) /\ ReadsAs(r, StateFields)
      BY <1>1, <1>10 DEF NoMessage
    <3>2. h = r
      BY <3>1 DEF Message
    <3> QED
      BY <3>1, <3>2 DEF ReadsAs, StateFields
  <2>3. ASSUME NEW i \in DOMAIN ps.message
        PROVE  ps.message[i].id \in 0..MaxUInt
    <3>1. PICK r : ReadsAs(r, PlayerFields) /\ ps.message[i] = Merged([radius |-> h.player_radius], r)
      BY <1>3, <1>10, <2>3
    <3>2. DOMAIN r = {"id", "x", "y", "v_x", "v_y", "score"} /\ r.id \in 0..MaxUInt
      BY <3>1 DEF ReadsAs, PlayerFields
    <3>3. ps.message[i].id = r.id
      BY <3>1, <3>2 DEF Merged
    <3> QED
      BY <3>2, <3>3
  <2>4. m.type = "STATE" /\ m.players = ps.message
    OBVIOUS
  <2>5. WellTyped(m)
    <3> HIDE DEF m
    <3> QED
      BY <2>2, <2>3, <2>4 DEF WellTyped
  <2> HIDE DEF m
  <2> QED
    BY <2>1, <2>5, HeldByMessage
<1> QED
  BY <1>7, <1>8, <1>9, <1>10

\* The whole of ParseJsonMessage, on any document.
LEMMA GuardsHoldForAll ==
  ASSUME NEW V, Closed(V), NEW json \in V
  PROVE  GuardsHoldFor(json)
<1> DEFINE p == ParseValue(json)
           t == Member(json, <<"type">>)
           type == Only(TypeFrom(t))
<1> SUFFICES Held(p, json)
  BY DEF GuardsHoldFor, Held
<1>1. CASE ~IsObject(json)
  <2>1. p = Aborts /\ EndsProgram(json)
    BY <1>1 DEF ParseValue, EndsProgram
  <2> HIDE DEF p
  <2> QED
    BY <2>1 DEF Held, Aborts
<1>2. CASE IsObject(json) /\ ~IsMember(json, <<"type">>)
  <2>1. p = NoMessage
    BY <1>2 DEF ParseValue
  <2> HIDE DEF p
  <2> QED
    BY <2>1 DEF Held, NoMessage
<1>3. CASE IsObject(json) /\ IsMember(json, <<"type">>) /\ AsString(t) = {}
  <2>1. p = Throws
    BY <1>3 DEF ParseValue
  <2>2. t.type \in {"int", "uint", "real", "array", "object"}
    <3>1. t \in V
      BY PartsStay
    <3>2. Scalar(t) \/ IsArrayOf(t, V) \/ IsObjectOf(t, V)
      BY <3>1 DEF Closed
    <3> HIDE DEF t
    <3>3. t.type \notin {"null", "string", "boolean"}
      BY <1>3 DEF AsString
    <3> QED
      BY <3>2, <3>3 DEF Scalar, IsArrayOf, IsObjectOf, Null, Int_, UInt, Real, Str, Bool, Arr, Obj
  <2>3. EndsProgram(json)
    BY <1>3, <2>2 DEF EndsProgram
  <2> HIDE DEF p
  <2> QED
    BY <2>1, <2>3 DEF Held, Throws
<1>4. CASE /\ IsObject(json) /\ IsMember(json, <<"type">>)
           /\ AsString(t) # {} /\ TypeFrom(t) = {}
  <2>1. p = NoMessage
    BY <1>4 DEF ParseValue
  <2> HIDE DEF p
  <2> QED
    BY <2>1 DEF Held, NoMessage
<1>5. CASE /\ IsObject(json) /\ IsMember(json, <<"type">>)
           /\ AsString(t) # {} /\ TypeFrom(t) # {}
  <2>1. p = CASE type \in {"CLI_SUB_RESULT", "VIEW_SUB_RESULT"} -> ParseResult(json, type)
              [] type = "STATE" -> ParseState(json)
              [] type = "TURN" -> ParseTurn(json)
              [] OTHER -> Message([type |-> type])
    BY <1>5 DEF ParseValue
  <2>2. type \in TypeFrom(t)
    <3> HIDE DEF t
    <3> QED
      BY <1>5 DEF Only
  <2>3. type \in MessageTypes /\ AsString(t) = {<<type>>}
    BY <2>2 DEF TypeFrom
  <2> HIDE DEF p, type
  <2>4. CASE type \in {"CLI_SUB_RESULT", "VIEW_SUB_RESULT"}
    BY <2>1, <2>4, ResultHeld
  <2>5. CASE type = "STATE"
    <3>1. p = ParseState(json)
      BY <2>1, <2>5
    <3>2. t = Word("STATE")
      <4>1. t \in V
        BY PartsStay
      <4>2. Scalar(t) \/ IsArrayOf(t, V) \/ IsObjectOf(t, V)
        BY <4>1 DEF Closed
      <4> HIDE DEF t
      <4>3. AsString(t) = {<<"STATE">>}
        BY <2>3, <2>5
      <4>4. t.type = "string"
        <5>1. <<>> # <<"STATE">> /\ <<"true">> # <<"STATE">> /\ <<"false">> # <<"STATE">>
          <6>1. \A x, y : <<x>> = <<y>> => x = y
            OBVIOUS
          <6>2. Len(<<>>) = 0 /\ Len(<<"STATE">>) = 1
            OBVIOUS
          <6> QED
            BY <6>1, <6>2
        <5>2. {<<>>} # {<<"STATE">>} /\ {<<"true">>} # {<<"STATE">>} /\ {<<"false">>} # {<<"STATE">>}
          BY <5>1
        <5> QED
          BY <4>3, <5>2 DEF AsString
      <4>5. t.string = <<"STATE">>
        BY <4>3, <4>4 DEF AsString
      <4>6. \E s : t = Str(s)
        BY <4>2, <4>4 DEF Scalar, IsArrayOf, IsObjectOf, Null, Int_, UInt, Real, Str, Bool, Arr, Obj
      <4> QED
        BY <4>5, <4>6 DEF Str, Word
    <3> QED
      BY <3>1, <3>2, StateHeld
  <2>6. CASE type = "TURN"
    BY <2>1, <2>6, TurnHeld
  <2>7. CASE type \notin {"CLI_SUB_RESULT", "VIEW_SUB_RESULT", "STATE", "TURN"}
    <3>1. p = Message([type |-> type])
      BY <2>1, <2>7
    <3>2. WellTyped([type |-> type])
      BY <2>7 DEF WellTyped
    <3> QED
      BY <3>1, <3>2 DEF Held, Message
  <2> QED
    BY <2>4, <2>5, <2>6, <2>7
<1> QED
  BY <1>1, <1>2, <1>3, <1>4, <1>5

\* ParseJsonMessage tests every conversion it makes (protocol.cpp): whatever document comes,
\* of any depth and with any values, it is a message with ids of their type, or none,
\* except for the shapes that end the program.
THEOREM GuardsAreEnough ==
  ASSUME NEW V, Closed(V), subject.kind = "document" => subject.json \in V
  PROVE  GuardsHold
BY GuardsHoldForAll DEF GuardsHold

-----------------------------------------------------------------------------
(* Numbers *)

Digits == Range(Digit)

\* The ten digits have the ten values, and a sign or a point is none of them.
LEMMA DigitsAre ==
  /\ Digits = {"0", "1", "2", "3", "4", "5", "6", "7", "8", "9"}
  /\ DOMAIN DigitValue = Digits
  /\ \A c \in Digits : DigitValue[c] \in 0..9
<1>1. /\ Digit[0] = "0" /\ Digit[1] = "1" /\ Digit[2] = "2" /\ Digit[3] = "3" /\ Digit[4] = "4"
      /\ Digit[5] = "5" /\ Digit[6] = "6" /\ Digit[7] = "7" /\ Digit[8] = "8" /\ Digit[9] = "9"
  BY DEF Digit
<1>2. DOMAIN Digit = 0..9
  BY DEF Digit
<1>3. Digits = {Digit[d] : d \in 0..9}
  BY <1>2 DEF Digits, Range
<1>4. 0..9 = {0, 1, 2, 3, 4, 5, 6, 7, 8, 9}
  OBVIOUS
<1>5. Digits = {"0", "1", "2", "3", "4", "5", "6", "7", "8", "9"}
  BY <1>1, <1>3, <1>4
<1>6. ASSUME NEW c \in Digits
      PROVE  DigitValue[c] \in 0..9
  <2>1. \E d \in 0..9 : Digit[d] = c
    BY <1>3
  <2>2. DigitValue[c] = CHOOSE d \in 0..9 : Digit[d] = c
    BY DEF DigitValue, Digits
  <2> QED
    BY <2>1, <2>2
<1>7. DOMAIN DigitValue = Digits
  BY DEF DigitValue, Digits
<1> QED
  BY <1>5, <1>6, <1>7

LEMMA OneDigit == DigitValue["1"] = 1
<1>1. \A d \in 0..9 : Digit[d] = "1" <=> d = 1
  BY DEF Digit
<1>2. DigitValue["1"] = CHOOSE d \in 0..9 : Digit[d] = "1"
  BY DigitsAre DEF DigitValue, Digits
<1> QED
  BY <1>1, <1>2

\* The value of some digits, step by step.
IsValue(f, digits) ==
  /\ f \in [0..Len(digits) -> Nat]
  /\ f[0] = 0
  /\ \A k \in 1..Len(digits) : f[k] = 10 * f[k - 1] + DigitValue[digits[k]]

\* Number is computed digit by digit.
LEMMA NumberByDigits ==
  ASSUME NEW digits \in Seq(Digits)
  PROVE  \E f : IsValue(f, digits) /\ Number(digits) = f[Len(digits)]
<1> DEFINE n == Len(digits)
           d == [k \in 1..n |-> DigitValue[digits[k]]]
           step == [k \in 1..n |-> [v \in Nat |-> 10 * v + d[k]]]
           value == CHOOSE f : f = [k \in 0..n |-> IF k = 0 THEN 0 ELSE 10 * f[k - 1] + DigitValue[digits[k]]]
<1>1. n \in Nat /\ \A k \in 1..n : d[k] \in Nat /\ d[k] = DigitValue[digits[k]]
  BY DigitsAre
<1>2. Number(digits) = value[n]
  BY DEF Number
<1> HIDE DEF n, d
<1>3. step \in [1..n -> [Nat -> Nat]]
  <2>1. ASSUME NEW k \in 1..n, NEW v \in Nat
        PROVE  10 * v + d[k] \in Nat
    BY <1>1
  <2> QED
    BY <2>1
<1>4. \A k \in 1..n, v \in Nat : step[k][v] = 10 * v + d[k]
  OBVIOUS
<1> HIDE DEF step
<1>5. PICK f \in [0..n -> Nat] : Walks(f, n, 0, step)
  BY <1>1, <1>3, StepByStep
<1>6. ASSUME NEW k \in 1..n
      PROVE  f[k] = 10 * f[k - 1] + DigitValue[digits[k]]
  <2>1. k - 1 \in 0..n
    BY <1>1
  <2>2. f[k - 1] \in Nat
    BY <2>1
  <2>3. step[k][f[k - 1]] = 10 * f[k - 1] + d[k]
    BY <1>4, <2>2
  <2>4. f[k] = step[k][f[k - 1]]
    BY <1>5 DEF Walks
  <2> QED
    BY <1>1, <2>3, <2>4
<1>7. f = [k \in 0..n |-> IF k = 0 THEN 0 ELSE 10 * f[k - 1] + DigitValue[digits[k]]]
  <2>1. \A k \in 0..n : f[k] = IF k = 0 THEN 0 ELSE 10 * f[k - 1] + DigitValue[digits[k]]
    BY <1>1, <1>5, <1>6 DEF Walks
  <2> QED
    BY <2>1
<1>8. value = [k \in 0..n |-> IF k = 0 THEN 0 ELSE 10 * value[k - 1] + DigitValue[digits[k]]]
  BY <1>7
<1> HIDE DEF value
<1>9. StepAlike(value, f, n)
  BY <1>1, <1>5, <1>6, <1>8 DEF Walks, StepAlike
<1>10. \A k \in 0..n : value[k] = f[k]
  BY <1>1, <1>9, SameWalk
<1>11. value[n] = f[n]
  BY <1>1, <1>10
<1>12. IsValue(f, digits)
  BY <1>1, <1>5, <1>6 DEF IsValue, Walks, n
<1> QED
  BY <1>2, <1>11, <1>12 DEF n

\* The values on the way are those of the first digits.
LEMMA NumberOfPrefix ==
  ASSUME NEW digits \in Seq(Digits), NEW f, IsValue(f, digits), NEW k \in 0..Len(digits)
  PROVE  Number(SubSeq(digits, 1, k)) = f[k]
<1> DEFINE part == SubSeq(digits, 1, k)
<1>1. part \in Seq(Digits) /\ Len(part) = k /\ \A i \in 1..k : part[i] = digits[i]
  OBVIOUS
<1> HIDE DEF part
<1>2. PICK g : IsValue(g, part) /\ Number(part) = g[k]
  BY <1>1, NumberByDigits
<1>3. k \in Nat /\ \A i \in 1..k : i \in 1..Len(digits)
  OBVIOUS
<1>4. StepAlike(g, f, k)
  BY <1>1, <1>2, <1>3 DEF IsValue, StepAlike
<1>5. \A i \in 0..k : g[i] = f[i]
  BY <1>3, <1>4, SameWalk
<1>6. g[k] = f[k]
  BY <1>3, <1>5
<1> QED
  BY <1>2, <1>6 DEF part

\* A product of a positive number, and what is less than the number beyond it.
LEMMA ByFactor ==
  ASSUME NEW u \in Nat, u >= 1, NEW i \in Nat, NEW j \in Nat, NEW r \in Nat, r < u, u * i = u * j + r
  PROVE  i = j /\ r = 0
<1>1. ASSUME i >= j + 1
      PROVE  FALSE
  <2>1. u * i >= u * (j + 1) /\ u * (j + 1) = u * j + u
    BY <1>1
  <2> QED
    BY <2>1
<1>2. ASSUME j >= i + 1
      PROVE  FALSE
  <2>1. u * j >= u * (i + 1) /\ u * (i + 1) = u * i + u
    BY <1>2
  <2> QED
    BY <2>1
<1>3. i = j
  BY <1>1, <1>2
<1> QED
  BY <1>3

\* The nearest multiple is at most half a unit away, and none if there is one.
LEMMA NearestIs ==
  ASSUME NEW p \in Nat, NEW q \in Nat, q >= 1
  PROVE  /\ Nearest(p, q) \in Nat
         /\ 2 * (q * Nearest(p, q) - p) <= q /\ 2 * (p - q * Nearest(p, q)) <= q
         /\ \A j \in Nat : p = q * j => Nearest(p, q) = j
<1> DEFINE n == p \div q
           r == p % q
<1>1. n \in Nat /\ r \in Nat /\ r < q /\ p = q * n + r
  BY DivBounds
<1>2. \/ Nearest(p, q) = n /\ 2 * r <= q
      \/ Nearest(p, q) = n + 1 /\ 2 * r >= q
  <2>1. Nearest(p, q) = IF 2 * r > q \/ (2 * r = q /\ n % 2 = 1) THEN n + 1 ELSE n
    BY DEF Nearest
  <2> HIDE DEF n, r
  <2> QED
    BY <1>1, <2>1
<1> HIDE DEF n, r
<1>3. q * (n + 1) = q * n + q
  BY <1>1
<1>4. ASSUME NEW j \in Nat, p = q * j
      PROVE  Nearest(p, q) = j
  <2>1. j = n /\ r = 0
    BY <1>1, <1>4, ByFactor
  <2> QED
    BY <1>2, <2>1
<1>5. q * n \in Nat
  BY <1>1
<1>6. CASE Nearest(p, q) = n /\ 2 * r <= q
  BY <1>1, <1>4, <1>5, <1>6
<1>7. CASE Nearest(p, q) = n + 1 /\ 2 * r >= q
  BY <1>1, <1>3, <1>4, <1>5, <1>7
<1> QED
  BY <1>2, <1>6, <1>7

\* A double for some units: none if it is beyond all of them, else as near as the mantissa
\* allows, and the same if they make up a short integer.
Rounds(x, p) ==
  IF x = NaN THEN \A u \in Ulps : p >= (Precision - 1) * u
  ELSE x \in Nat /\ Precision * Magnitude(x - p) <= p
IsUnits(x, p) == \A n \in Nat : n < Precision /\ p = One * n => x = p

\* With the distance u, the least one that is large enough for p.
Fits(u, p) == p < Precision * u
LeastFor(u, p) == u \in Ulps /\ Fits(u, p) /\ \A v \in Ulps : Fits(v, p) => u <= v

LEMMA WithDistance ==
  ASSUME NEW p \in Nat, NEW u \in Ulps, LeastFor(u, p), NEW x, x = u * Nearest(p, u)
  PROVE  /\ x \in Nat /\ 2 * (x - p) <= u /\ 2 * (p - x) <= u
         /\ Precision * Magnitude(x - p) <= p
         /\ \A n \in Nat : n < Precision /\ p = One * n => x = p /\ ~Infinite(x)
<1>1. u \in Nat /\ u >= 1 /\ Precision \in Nat /\ Precision >= 2
  BY DoubleAssumption, Limits
<1>2. /\ Nearest(p, u) \in Nat
      /\ 2 * (u * Nearest(p, u) - p) <= u /\ 2 * (p - u * Nearest(p, u)) <= u
      /\ \A j \in Nat : p = u * j => Nearest(p, u) = j
  BY <1>1, NearestIs
<1>3. x \in Nat /\ 2 * (x - p) <= u /\ 2 * (p - x) <= u
  BY <1>1, <1>2
<1>4. Magnitude(x - p) \in Nat /\ 2 * Magnitude(x - p) <= u
  BY <1>1, <1>3 DEF Magnitude
<1> DEFINE d == Magnitude(x - p)
<1> HIDE DEF d
<1>5. Precision * d <= p
  <2>1. CASE u = 1
    <3>1. d = 0
      BY <1>4, <2>1 DEF d
    <3> QED
      BY <1>1, <3>1
  <2>2. ASSUME NEW v \in Ulps, u = 2 * v
        PROVE  Precision * d <= p
    <3>1. v \in Nat /\ v >= 1 /\ ~(u <= v)
      BY <2>2, DoubleAssumption
    <3>2. ~(p < Precision * v)
      BY <3>1 DEF LeastFor, Fits
    <3>3. d \in Nat /\ d <= v
      BY <1>4, <2>2, <3>1 DEF d
    <3>4. Precision * d <= Precision * v
      BY <1>1, <3>1, <3>3
    <3>5. Precision * d \in Nat /\ Precision * v \in Nat
      BY <1>1, <3>1, <3>3
    <3> QED
      BY <3>2, <3>4, <3>5
  <2> QED
    BY <2>1, <2>2, DoubleAssumption
<1>6. ASSUME NEW n \in Nat, n < Precision, p = One * n
      PROVE  x = p /\ ~Infinite(x)
  <2>1. Fits(One, p) /\ One \in Ulps
    <3>1. One * n < One * Precision /\ One * Precision = Precision * One
      BY <1>1, <1>6, OneUnits
    <3> QED
      BY <1>6, <3>1, DoubleAssumption DEF Fits
  <2>2. u <= One
    BY <2>1 DEF LeastFor
  <2>3. PICK k \in 1..One : One = k * u
    BY <2>1, <2>2, DoubleAssumption
  <2>4. k \in Nat /\ k * n \in Nat /\ p = u * (k * n)
    BY <1>1, <1>6, <2>3, OneUnits
  <2>5. Nearest(p, u) = k * n
    BY <1>2, <2>4
  <2>6. x = p
    BY <2>4, <2>5
  <2>7. p < Precision * u
    BY DEF LeastFor, Fits
  <2> QED
    BY <1>1, <2>6, <2>7 DEF Infinite
<1> QED
  BY <1>3, <1>5, <1>6 DEF d

\* What is rounded up beyond all doubles was beyond them but for less than a distance.
LEMMA BeyondAll ==
  ASSUME NEW p \in Nat, NEW u \in Ulps, LeastFor(u, p), NEW x \in Nat, 2 * (x - p) <= u,
         Infinite(x), NEW w \in Ulps
  PROVE  p >= (Precision - 1) * w
<1>1. u \in Nat /\ u >= 1 /\ w \in Nat /\ w >= 1 /\ Precision \in Nat /\ Precision >= 2
  BY DoubleAssumption, Limits
<1>2. x >= Precision * u /\ p < Precision * u /\ x >= Precision * w
  BY DEF Infinite, LeastFor, Fits
<1> DEFINE pu == Precision * u
           pw == Precision * w
<1>3. pu \in Nat /\ pw \in Nat /\ (Precision - 1) * w = pw - w /\ pw >= 2 * w /\ pu >= 2 * u
  <2>1. Precision = (Precision - 2) + 2 /\ Precision - 2 \in Nat
    BY <1>1
  <2>2. Precision * w = (Precision - 2) * w + 2 * w /\ Precision * u = (Precision - 2) * u + 2 * u
    BY <1>1, <2>1
  <2>3. (Precision - 2) * w \in Nat /\ (Precision - 2) * u \in Nat
    BY <1>1, <2>1
  <2>4. (Precision - 1) * w = Precision * w - w
    BY <1>1
  <2> QED
    BY <1>1, <2>2, <2>3, <2>4
<1>4. CASE w <= u
  <2> HIDE DEF pu, pw
  <2>1. x >= pw /\ 2 * (x - p) <= u /\ x >= pu
    BY <1>2 DEF pu, pw
  <2>2. pw - w <= pu - u
    <3>1. (Precision - 1) * w <= (Precision - 1) * u
      BY <1>1, <1>4
    <3>2. (Precision - 1) * u = pu - u
      BY <1>1 DEF pu
    <3> QED
      BY <1>3, <3>1, <3>2
  <2> QED
    BY <1>1, <1>3, <2>1, <2>2
<1>5. CASE u < w
  <2>1. PICK k \in 1..w : w = k * u
    <3>1. u <= w
      BY <1>1, <1>5
    <3> QED
      BY <3>1, DoubleAssumption, Zenon
  <2>2. w >= 2 * u
    <3>1. k # 1
      BY <1>1, <1>5, <2>1
    <3>2. k \in Nat /\ k >= 2
      BY <1>1, <2>1, <3>1
    <3> HIDE DEF pu, pw
    <3> QED
      BY <1>1, <2>1, <3>2
  <2>3. pw >= 2 * pu
    <3>1. Precision * w >= Precision * (2 * u) /\ Precision * (2 * u) = 2 * (Precision * u)
      BY <1>1, <2>2
    <3> QED
      BY <3>1
  <2>4. FALSE
    <3>1. x >= pw /\ p < pu /\ 2 * (x - p) <= u
      BY <1>2
    <3> HIDE DEF pu, pw
    <3> QED
      BY <1>1, <1>3, <2>3, <3>1
  <2> QED
    BY <2>4
<1> QED
  BY <1>1, <1>4, <1>5

\* sscanf rounds to the nearest double.
LEMMA DoubleRounds ==
  ASSUME NEW p \in Nat
  PROVE  Rounds(NearestDouble(p, 1), p) /\ IsUnits(NearestDouble(p, 1), p)
<1> DEFINE spacings == {u \in Ulps : p < Precision * u * 1}
           ulp == CHOOSE u \in spacings : \A v \in spacings : u <= v
           rounded == ulp * Nearest(p, ulp * 1)
           x == NearestDouble(p, 1)
<1> SUFFICES Rounds(x, p) /\ IsUnits(x, p)
  OBVIOUS
<1>1. x = IF spacings = {} \/ Infinite(rounded) THEN NaN ELSE rounded
  BY DEF NearestDouble
<1>2. /\ Precision \in Nat /\ Precision >= 2
      /\ \A u \in Ulps : u \in Nat /\ u >= 1 /\ u * 1 = u /\ Precision * u * 1 = Precision * u
  BY DoubleAssumption, Limits
<1>3. \A u : u \in spacings <=> u \in Ulps /\ Fits(u, p)
  BY <1>2 DEF Fits
<1>4. CASE spacings = {}
  <2>1. x = NaN
    BY <1>1, <1>4
  <2>2. ASSUME NEW u \in Ulps
        PROVE  p >= (Precision - 1) * u
    <3>1. ~(p < Precision * u)
      BY <1>3, <1>4 DEF Fits
    <3>2. (Precision - 1) * u = Precision * u - u /\ Precision * u \in Nat /\ u \in Nat
      BY <1>2
    <3> QED
      BY <3>1, <3>2
  <2>3. ASSUME NEW n \in Nat, n < Precision, p = One * n
        PROVE  FALSE
    <3>1. ~(p < Precision * One) /\ One \in Ulps
      BY <1>3, <1>4, DoubleAssumption DEF Fits
    <3>2. One * n < One * Precision /\ One * Precision = Precision * One
      BY <1>2, <2>3, OneUnits
    <3> QED
      BY <2>3, <3>1, <3>2
  <2> HIDE DEF x
  <2> QED
    BY <2>1, <2>2, <2>3 DEF Rounds, IsUnits
<1>5. CASE spacings # {}
  <2>1. PICK m \in spacings : \A v \in spacings : m <= v
    <3>1. spacings \subseteq Nat
      BY <1>2
    <3> HIDE DEF spacings
    <3> QED
      BY <1>5, <3>1, LeastNumber
  <2>2. ulp \in spacings /\ \A v \in spacings : ulp <= v
    <3> HIDE DEF spacings
    <3> QED
      BY <2>1
  <2> HIDE DEF ulp
  <2>3. ulp \in Ulps /\ LeastFor(ulp, p)
    <3> HIDE DEF spacings
    <3> QED
      BY <1>3, <2>2 DEF LeastFor
  <2>4. rounded = ulp * Nearest(p, ulp)
    BY <1>2, <2>3
  <2> HIDE DEF spacings, rounded
  <2>5. /\ rounded \in Nat /\ 2 * (rounded - p) <= ulp
        /\ Precision * Magnitude(rounded - p) <= p
        /\ \A n \in Nat : n < Precision /\ p = One * n => rounded = p /\ ~Infinite(rounded)
    BY <2>3, <2>4, WithDistance
  <2>6. CASE Infinite(rounded)
    <3>1. x = NaN
      BY <1>1, <2>6
    <3>2. \A w \in Ulps : p >= (Precision - 1) * w
      BY <2>3, <2>5, <2>6, BeyondAll
    <3> HIDE DEF x
    <3> QED
      BY <2>5, <2>6, <3>1, <3>2 DEF Rounds, IsUnits
  <2>7. CASE ~Infinite(rounded)
    <3>1. x = rounded
      BY <1>1, <1>5, <2>7
    <3>2. rounded # NaN
      BY <2>5, DoubleAssumption
    <3> HIDE DEF x
    <3> QED
      BY <2>5, <3>1, <3>2 DEF Rounds, IsUnits
  <2> QED
    BY <2>6, <2>7
<1> QED
  BY <1>4, <1>5

\* The number that an integer of any length is decoded to.
LEMMA DoubleOfDigits ==
  ASSUME NEW negative \in BOOLEAN, NEW digits \in Seq(Digits), digits # <<>>
  PROVE  LET x == NearestDouble(One * Number(digits), 1) IN
         ScanDouble(Signed(negative, digits)) = {Real(IF x # NaN /\ negative THEN -x ELSE x)}
<1> DEFINE text == Signed(negative, digits)
           from == IF negative THEN 2 ELSE 1
<1>1. /\ Len(digits) \in Nat /\ Len(digits) >= 1 /\ Len(text) = Len(digits) + from - 1
      /\ \A i \in from..Len(text) : text[i] \in Digits
      /\ SubSeq(text, from, Len(text)) = digits
  <2>1. CASE negative
    BY <2>1 DEF Signed
  <2>2. CASE ~negative
    BY <2>2 DEF Signed
  <2> QED
    BY <2>1, <2>2
<1>2. (text[1] = "-" <=> negative) /\ text[1] # "+" /\ 1 <= Len(text)
  <2>1. CASE negative
    BY <1>1, <2>1 DEF Signed
  <2>2. CASE ~negative
    <3>1. text[1] \in Digits /\ 1 <= Len(text)
      BY <1>1, <2>2
    <3> QED
      BY <2>2, <3>1, DigitsAre
  <2> QED
    BY <2>1, <2>2
<1>3. AfterSign(text, 1) = from /\ (IsAt(text, 1, {"-"}) <=> negative)
  <2> HIDE DEF text
  <2> QED
    BY <1>2 DEF AfterSign, IsAt, from
<1> DEFINE point == from + Len(digits)
<1> HIDE DEF text
<1>4. DigitsFrom(text, from) = digits
  <2>1. {i \in from..Len(text) : text[i] \notin DOMAIN DigitValue} = {}
    BY <1>1, DigitsAre
  <2> QED
    BY <1>1, <2>1 DEF DigitsFrom
<1>5. point > Len(text) /\ point \in Nat
  BY <1>1
<1> HIDE DEF from, point
<1>6. \A symbols : ~IsAt(text, point, symbols) /\ ~IsAt(text, point + 1, symbols)
  <2>1. Len(text) \in Nat
    BY <1>1 DEF text, Signed, from
  <2> QED
    BY <1>5, <2>1 DEF IsAt
<1>7. Number(<<"1">>) = 1
  <2>1. <<"1">> \in Seq(Digits)
    BY DigitsAre
  <2>2. PICK f : IsValue(f, <<"1">>) /\ Number(<<"1">>) = f[1]
    BY <2>1, NumberByDigits
  <2>3. DigitValue["1"] = 1
    BY OneDigit
  <2> QED
    BY <2>2, <2>3 DEF IsValue
<1>8. digits \o <<>> \o <<>> = digits /\ digits \o <<>> # <<>> /\ <<"1">> \o <<>> = <<"1">>
  OBVIOUS
<1> DEFINE x == NearestDouble(One * Number(digits), 1)
<1>9. ScanDouble(text) = {Real(IF x # NaN /\ negative THEN -x ELSE x)}
  <2> DEFINE exponent == IF IsAt(text, point, {"e", "E"})
                         THEN ScanExponent(text, point + 1) ELSE 0
             power == exponent - Len(<<>>)
  <2>1. Zeros(power) = <<>> /\ Zeros(-power) = <<>>
    <3>1. ~IsAt(text, point, {"e", "E"})
      BY <1>6, Zenon
    <3>2. exponent = 0
      BY <3>1, Zenon
    <3> HIDE DEF exponent
    <3>3. power = exponent - Len(<<>>)
      OBVIOUS
    <3>4. Len(<<>>) = 0
      OBVIOUS
    <3>5. 0 - 0 = 0 /\ 0 \in Int /\ \A n \in Int : n = 0 => n <= 0 /\ -n <= 0
      OBVIOUS
    <3> HIDE DEF power
    <3>6. power <= 0 /\ -power <= 0
      BY <3>2, <3>3, <3>4, <3>5, Zenon
    <3> QED
      BY <3>6, Zenon DEF Zeros
  <2>2. ScanDouble(text) = IF digits \o <<>> = <<>> THEN {}
                           ELSE {Real(WithSign(text, Decimal(digits \o <<>>, power)))}
    BY <1>3, <1>4, <1>6 DEF ScanDouble, point
  <2> HIDE DEF power
  <2>3. Decimal(digits \o <<>>, power) = x
    BY <1>7, <1>8, <2>1 DEF Decimal
  <2> HIDE DEF x
  <2> QED
    BY <1>3, <1>8, <2>2, <2>3 DEF WithSign
<1> QED
  BY <1>9 DEF text

\* The unsigned integer in which decodeNumber computes does not overflow: the last digit
\* is taken only below the threshold.
LEMMA FitsBelowThreshold ==
  ASSUME NEW f, NEW digits \in Seq(Digits), digits # <<>>, IsValue(f, digits),
         NEW limit \in Nat, f[Len(digits) - 1] < limit \div 10
  PROVE  f[Len(digits)] < limit
<1> DEFINE n == Len(digits)
           t == limit \div 10
           v == f[n - 1]
           c == DigitValue[digits[n]]
<1>1. n \in Nat /\ n >= 1
  OBVIOUS
<1>2. n \in 1..n /\ n - 1 \in 0..n /\ digits[n] \in Digits
  BY <1>1
<1>3. v \in Nat /\ c \in 0..9 /\ f[n] = 10 * v + c
  BY <1>2, DigitsAre DEF IsValue
<1>4. t \in Nat /\ 10 * t <= limit
  OBVIOUS
<1>5. v < t
  OBVIOUS
<1> HIDE DEF n, t, v, c
<1>6. f[n] < limit
  BY <1>3, <1>4, <1>5
<1> QED
  BY <1>6 DEF n

\* decodeNumber gives the number that was spelled out, as an integer or as the nearest double,
\* however many digits it has.
LEMMA NumbersAreRead ==
  ASSUME NEW negative \in BOOLEAN, NEW digits \in Seq(Digits), digits # <<>>
  PROVE  NumberIsRead(negative, digits)
<1> SUFFICES ASSUME Len(Signed(negative, digits)) # BufferSize
             PROVE  NumberIsRead(negative, digits)
  BY DEF NumberIsRead
<1> DEFINE text == Signed(negative, digits)
           n == Len(digits)
           num == Number(digits)
           limit == IF negative THEN -MinInt ELSE MaxUInt
           threshold == limit \div 10
           value == num % (MaxUInt + 1)
           large == \E k \in 0..n - 1 : TooLarge(Number(SubSeq(digits, 1, k)), threshold)
           p == One * num
           isRead(x) == IF x = NaN THEN \A u \in Ulps : p >= (Precision - 1) * u
                        ELSE LET m == IF negative THEN -x ELSE x IN
                             (num < Precision => m = p) /\ Precision * Magnitude(m - p) <= p
<1>1. PICK f : IsValue(f, digits) /\ num = f[n]
  BY NumberByDigits
<1>2. n \in Nat /\ n >= 1 /\ num \in Nat
  BY <1>1 DEF IsValue
<1>3. (text[1] = "-" <=> negative) /\ (IF text[1] = "-" THEN Tail(text) ELSE text) = digits
  <2>1. CASE negative
    BY <2>1 DEF Signed
  <2>2. CASE ~negative
    <3>1. text[1] \in Digits
      BY <1>2, <2>2 DEF Signed
    <3> QED
      BY <2>2, <3>1, DigitsAre DEF Signed
  <2> QED
    BY <2>1, <2>2
<1>4. ~\E i \in DOMAIN digits : digits[i] \notin DOMAIN DigitValue
  BY DigitsAre
<1>5. p \in Nat /\ Precision \in Nat /\ NaN \notin Int /\ p = One * num
  BY <1>2, OneUnits, DoubleAssumption
<1>6. ASSUME \E v \in DecodeNumber(text) : \E x \in AsDouble(v) : isRead(x)
      PROVE  NumberIsRead(negative, digits)
  BY <1>6 DEF NumberIsRead
<1>7. CASE large
  <2> DEFINE d == NearestDouble(p, 1)
             x == IF d # NaN /\ negative THEN -d ELSE d
  <2>1. DecodeNumber(text) = DecodeDouble(text)
    BY <1>3, <1>4, <1>7 DEF DecodeNumber
  <2>2. DecodeDouble(text) = {Real(x)}
    BY DoubleOfDigits DEF DecodeDouble
  <2>3. Rounds(d, p) /\ IsUnits(d, p)
    <3> HIDE DEF p
    <3> QED
      BY <1>5, DoubleRounds
  <2> HIDE DEF d, text, num, p
  <2>4. AsDouble(Real(x)) = {x}
    BY DEF AsDouble, Real
  <2>5. CASE d = NaN
    BY <2>1, <2>2, <2>3, <2>4, <2>5, <1>6 DEF Rounds
  <2>6. CASE d # NaN
    <3>1. d \in Nat /\ Precision * Magnitude(d - p) <= p /\ (num < Precision => d = p)
      BY <1>2, <1>5, <2>3, <2>6 DEF Rounds, IsUnits
    <3>2. x # NaN /\ (IF negative THEN -x ELSE x) = d
      BY <1>5, <2>6, <3>1
    <3>3. isRead(x)
      <4> HIDE DEF x
      <4> QED
        BY <3>1, <3>2
    <3> QED
      BY <1>6, <2>1, <2>2, <2>4, <3>3
  <2> QED
    BY <2>5, <2>6
<1>8. CASE ~large
  <2>1. limit \in Nat
    BY Limits
  <2>2. n - 1 \in 0..n - 1 /\ n - 1 \in 0..n
    BY <1>2
  <2>3. f[n - 1] < threshold
    <3>1. Number(SubSeq(digits, 1, n - 1)) = f[n - 1]
      BY <1>1, <2>2, NumberOfPrefix
    <3>2. ~(f[n - 1] >= threshold)
      BY <1>8, <2>2, <3>1 DEF TooLarge
    <3>3. f[n - 1] \in Nat /\ threshold \in Nat
      <4>1. f[n - 1] \in Nat
        BY <1>1, <2>2 DEF IsValue
      <4>2. threshold \in Nat
        <5> HIDE DEF limit
        <5> QED
          BY <2>1
      <4> QED
        BY <4>1, <4>2
    <3> HIDE DEF threshold
    <3> QED
      BY <3>2, <3>3
  <2>4. num < limit
    <3> HIDE DEF limit
    <3> QED
      BY <1>1, <2>1, <2>3, FitsBelowThreshold
  <2>5. value = num
    <3>1. num \in 0..MaxUInt
      BY <1>2, <2>4, Limits
    <3> HIDE DEF num
    <3> QED
      BY <3>1, Limits
  <2>6. DecodeNumber(text) = IF negative THEN {Int_(-value)}
                             ELSE IF value <= MaxInt THEN {Int_(value)} ELSE {UInt(value)}
    BY <1>3, <1>4, <1>8 DEF DecodeNumber
  <2>7. \A i : AsDouble(Int_(i)) = {One * i} /\ AsDouble(UInt(i)) = {One * i}
    BY DEF AsDouble, Int_, UInt
  <2> DEFINE x == IF negative THEN One * (-num) ELSE p
  <2>8. \E v \in DecodeNumber(text) : x \in AsDouble(v)
    <3> HIDE DEF text, value, num
    <3> QED
      BY <2>5, <2>6, <2>7
  <2>9. isRead(x)
    <3>1. One * (-num) = -p /\ -p \in Int
      BY <1>2, OneUnits
    <3> HIDE DEF p, num
    <3>2. x \in Int /\ (IF negative THEN -x ELSE x) = p
      BY <1>5, <3>1
    <3>3. Precision * Magnitude(p - p) = 0
      BY <1>5 DEF Magnitude
    <3> HIDE DEF x
    <3> QED
      BY <1>5, <3>2, <3>3
  <2> HIDE DEF text, x, isRead
  <2> QED
    BY <1>6, <2>8, <2>9
<1> QED
  BY <1>7, <1>8

-----------------------------------------------------------------------------
(* The loops over a text *)

\* A round of decodeString's loop, from the bytes x up to position k.
Round(text, x, k, y, l) == DecodeOnce(text, [bytes |-> x, next |-> k]) = {[bytes |-> y, next |-> l]}

\* A loop that decodes one thing at each step decodes what those steps give: with the
\* bytes b[k] after k steps, up to position p[k].
DecodesBy(b, p, text) ==
  /\ b[0] = <<>> /\ p[0] = 1
  /\ \A k \in 1..Len(text) : Round(text, b[k - 1], p[k - 1], b[k], p[k])

\* What the loop of decodeString has in the end is the result.
LEMMA DecodesToLast ==
  ASSUME NEW text, Len(text) \in Nat, NEW b, NEW p, DecodesBy(b, p, text)
  PROVE  DecodeString(text) = {b[Len(text)]}
<1> DEFINE n == Len(text)
           start == {[bytes |-> <<>>, next |-> 1]}
           g == [k \in 0..n |-> {[bytes |-> b[k], next |-> p[k]]}]
           decoded == CHOOSE f : f = [k \in 0..n |-> IF k = 0 THEN start
                                                     ELSE DecodeFurther(text, f[k - 1])]
<1>1. DecodeString(text) = {d.bytes : d \in decoded[n]}
  BY DEF DecodeString
<1> HIDE DEF n
<1>2. n \in Nat
  BY DEF n
<1>3. \A k \in 0..n : g[k] = {[bytes |-> b[k], next |-> p[k]]}
  OBVIOUS
<1>4. g[0] = start
  BY <1>2 DEF DecodesBy
<1>5. ASSUME NEW k \in 1..n
      PROVE  g[k] = DecodeFurther(text, g[k - 1])
  <2>1. k - 1 \in 0..n /\ k \in 0..n
    BY <1>2
  <2>2. DecodeOnce(text, [bytes |-> b[k - 1], next |-> p[k - 1]]) = {[bytes |-> b[k], next |-> p[k]]}
    BY DEF DecodesBy, Round, n
  <2> DEFINE x == [bytes |-> b[k - 1], next |-> p[k - 1]]
  <2>3. g[k - 1] = {x} /\ g[k] = DecodeOnce(text, x)
    BY <1>3, <2>1, <2>2
  <2> HIDE DEF x, g
  <2>4. DecodeFurther(text, {x}) = DecodeOnce(text, x)
    BY DEF DecodeFurther
  <2> QED
    BY <2>3, <2>4
<1> HIDE DEF g, start
<1>6. g = [k \in 0..n |-> IF k = 0 THEN start
                          ELSE DecodeFurther(text, g[k - 1])]
  <2>1. ASSUME NEW k \in 0..n
        PROVE  g[k] = IF k = 0 THEN start ELSE DecodeFurther(text, g[k - 1])
    <3>1. k = 0 \/ k \in 1..n
      BY <1>2
    <3> QED
      BY <1>4, <1>5, <3>1
  <2>2. g = [k \in 0..n |-> g[k]]
    BY DEF g
  <2> QED
    BY <2>1, <2>2
<1>7. decoded = [k \in 0..n |-> IF k = 0 THEN start
                                ELSE DecodeFurther(text, decoded[k - 1])]
  BY <1>6
<1> HIDE DEF decoded
<1>8. StepAlike(decoded, g, n)
  <2>1. decoded[0] = g[0]
    BY <1>2, <1>4, <1>7
  <2>2. ASSUME NEW k \in 1..n, decoded[k - 1] = g[k - 1]
        PROVE  decoded[k] = g[k]
    <3>1. k \in 0..n /\ k # 0
      BY <1>2
    <3>2. decoded[k] = DecodeFurther(text, decoded[k - 1])
      BY <1>7, <3>1
    <3> QED
      BY <1>5, <2>2, <3>2
  <2> QED
    BY <2>1, <2>2 DEF StepAlike
<1>9. decoded[n] = g[n]
  BY <1>2, <1>8, SameWalk
<1>10. g[n] = {[bytes |-> b[n], next |-> p[n]]}
  BY <1>2, <1>3
<1>11. {d.bytes : d \in {[bytes |-> b[n], next |-> p[n]]}} = {b[n]}
  OBVIOUS
<1> QED
  BY <1>1, <1>9, <1>10, <1>11 DEF n

\* The loop of readString, which moves on from position to position.
LEMMA ReadsBySteps ==
  ASSUME NEW text, Len(text) \in Nat
  PROVE  \E f \in [0..Len(text) -> Nat] :
           /\ f[0] = 2 /\ \A k \in 1..Len(text) : f[k] = SkipChar(text, f[k - 1])
           /\ ReadString(text) = {f[Len(text)]} \cap DOMAIN text
<1> DEFINE n == Len(text)
           step == [k \in 1..n |-> [v \in Nat |-> SkipChar(text, v)]]
           current == CHOOSE f : f = [k \in 0..n |-> IF k = 0 THEN 2 ELSE SkipChar(text, f[k - 1])]
<1>1. ReadString(text) = {current[n]} \cap DOMAIN text
  BY DEF ReadString
<1> HIDE DEF n
<1>2. n \in Nat
  BY DEF n
<1>3. step \in [1..n -> [Nat -> Nat]]
  <2>1. \A v \in Nat : SkipChar(text, v) \in Nat
    BY DEF SkipChar
  <2> QED
    BY <2>1
<1>4. \A k \in 1..n, v \in Nat : step[k][v] = SkipChar(text, v)
  OBVIOUS
<1> HIDE DEF step
<1>5. PICK f \in [0..n -> Nat] : Walks(f, n, 2, step)
  BY <1>2, <1>3, StepByStep
<1>6. ASSUME NEW k \in 1..n
      PROVE  f[k] = SkipChar(text, f[k - 1])
  <2>1. k - 1 \in 0..n
    BY <1>2
  <2>2. f[k - 1] \in Nat
    BY <2>1
  <2>3. step[k][f[k - 1]] = SkipChar(text, f[k - 1])
    BY <1>4, <2>2
  <2> QED
    BY <1>5, <2>3 DEF Walks
<1>7. f = [k \in 0..n |-> IF k = 0 THEN 2 ELSE SkipChar(text, f[k - 1])]
  <2>1. \A k \in 0..n : f[k] = IF k = 0 THEN 2 ELSE SkipChar(text, f[k - 1])
    BY <1>2, <1>5, <1>6 DEF Walks
  <2> QED
    BY <2>1
<1>8. current = [k \in 0..n |-> IF k = 0 THEN 2 ELSE SkipChar(text, current[k - 1])]
  BY <1>7
<1> HIDE DEF current
<1>9. StepAlike(current, f, n)
  BY <1>2, <1>5, <1>6, <1>8 DEF Walks, StepAlike
<1>10. current[n] = f[n]
  BY <1>2, <1>9, SameWalk
<1> QED
  BY <1>1, <1>5, <1>6, <1>10 DEF n, Walks

-----------------------------------------------------------------------------
(* Code points *)

\* A digit is read as it was written.
LEMMA HexBack ==
  ASSUME NEW d \in 0..15
  PROVE  Hex(d) \in (48..57) \cup (65..70) /\ Hex(d) \in DOMAIN HexDigits /\ HexDigits[Hex(d)] = d
<1>1. Hex(d) \in (48..57) \cup (65..70)
  BY DEF Hex
<1>2. Hex(d) \in DOMAIN HexDigits
  BY <1>1 DEF HexDigits
<1> QED
  BY <1>1, <1>2 DEF HexDigits, Hex

\* Quotient and remainder, for the three divisors in use.
Split(m, u, q, r) == q = u \div m /\ r = u % m

\* Division by 16, 64 and 1024, with quotients and remainders of their own.
LEMMA BySixteen ==
  ASSUME NEW u \in Nat
  PROVE  \E q \in Nat, r \in 0..15 : Split(16, u, q, r) /\ u = 16 * q + r
<1>1. u \div 16 \in Nat /\ u % 16 \in 0..15 /\ u = 16 * (u \div 16) + (u % 16)
  OBVIOUS
<1>2. Split(16, u, u \div 16, u % 16)
  BY DEF Split
<1> QED
  BY <1>1, <1>2

LEMMA BySixtyFour ==
  ASSUME NEW u \in Nat
  PROVE  \E q \in Nat, r \in 0..63 : Split(64, u, q, r) /\ u = 64 * q + r
<1>1. u \div 64 \in Nat /\ u % 64 \in 0..63 /\ u = 64 * (u \div 64) + (u % 64)
  OBVIOUS
<1>2. Split(64, u, u \div 64, u % 64)
  BY DEF Split
<1> QED
  BY <1>1, <1>2

LEMMA ByBlock ==
  ASSUME NEW u \in Nat, NEW q, NEW r, Split(Block, u, q, r)
  PROVE  q \in Nat /\ r \in 0..1023 /\ u = 1024 * q + r
<1>1. u \div 1024 \in Nat /\ u % 1024 \in 0..1023 /\ u = 1024 * (u \div 1024) + (u % 1024)
  OBVIOUS
<1> QED
  BY <1>1 DEF Split, Block

\* The four digits of a unit, one by one, and what they are together.
Spelled(u, a, b, c, d) ==
  a = u \div 4096 /\ b = (u \div 256) % 16 /\ c = (u \div 16) % 16 /\ d = u % 16
HexSum(a, b, c, d) == 4096 * a + 256 * b + 16 * c + d

\* The four hexadecimal digits of a unit make up the unit.
LEMMA HexParts ==
  ASSUME NEW u \in Nat, u < 64 * Block
  PROVE  \E a \in 0..15, b \in 0..15, c \in 0..15, d \in 0..15 :
           Spelled(u, a, b, c, d) /\ HexSum(a, b, c, d) = u
<1>1. PICK q1 \in Nat, d \in 0..15 : Split(16, u, q1, d) /\ u = 16 * q1 + d
  BY BySixteen
<1>2. PICK q2 \in Nat, c \in 0..15 : Split(16, q1, q2, c) /\ q1 = 16 * q2 + c
  BY BySixteen
<1>3. PICK a \in Nat, b \in 0..15 : Split(16, q2, a, b) /\ q2 = 16 * a + b
  BY BySixteen
<1>4. 4096 * a + 256 * b + 16 * c + d = u
  BY <1>1, <1>2, <1>3
<1>5. a \in 0..15
  BY <1>4 DEF Block
<1>6. Spelled(u, a, b, c, d)
  <2>1. u \div 256 = (u \div 16) \div 16 /\ u \div 4096 = (u \div 256) \div 16
    OBVIOUS
  <2> QED
    BY <1>1, <1>2, <1>3, <2>1 DEF Split, Spelled
<1>7. HexSum(a, b, c, d) = u
  BY <1>4 DEF HexSum
<1> QED
  BY <1>5, <1>6, <1>7

\* The digits of a unit stand in a text.
DigitsAt(text, k, a, b, c, d) ==
  /\ k + 3 <= Len(text)
  /\ text[k] = Hex(a) /\ text[k + 1] = Hex(b) /\ text[k + 2] = Hex(c) /\ text[k + 3] = Hex(d)
SpelledAt(text, k, u) ==
  \E a \in 0..15, b \in 0..15, c \in 0..15, d \in 0..15 :
    Spelled(u, a, b, c, d) /\ HexSum(a, b, c, d) = u /\ DigitsAt(text, k, a, b, c, d)

\* Four digits that spell a unit are read as the unit.
LEMMA UnitRead ==
  ASSUME NEW u, NEW text, NEW k \in Nat, SpelledAt(text, k, u)
  PROVE  CodeUnit(text, k) = {u}
<1>1. PICK a \in 0..15, b \in 0..15, c \in 0..15, d \in 0..15 :
        HexSum(a, b, c, d) = u /\ DigitsAt(text, k, a, b, c, d)
  BY DEF SpelledAt
<1>2. \A x \in 0..15 : Hex(x) \in DOMAIN HexDigits /\ HexDigits[Hex(x)] = x
  BY HexBack
<1>3. /\ HexDigits[text[k]] = a /\ HexDigits[text[k + 1]] = b
      /\ HexDigits[text[k + 2]] = c /\ HexDigits[text[k + 3]] = d
  BY <1>1, <1>2 DEF DigitsAt
<1>4. ASSUME NEW i \in k..k + 3
      PROVE  text[i] \in DOMAIN HexDigits
  <2>1. i = k \/ i = k + 1 \/ i = k + 2 \/ i = k + 3
    OBVIOUS
  <2> QED
    BY <1>1, <1>2, <2>1 DEF DigitsAt
<1>5. k + 3 <= Len(text)
  BY <1>1 DEF DigitsAt
<1>6. CodeUnit(text, k) = {HexSum(a, b, c, d)}
  BY <1>3, <1>4, <1>5 DEF CodeUnit, HexSum
<1> QED
  BY <1>1, <1>6

\* A code point in its bytes of six bits, the first of them with what is left.
SixBits(cp, a, b, c, d) ==
  /\ cp \div (256 * Block) = a /\ cp \div 4096 = 64 * a + b /\ cp \div 64 = 64 * (64 * a + b) + c
  /\ Trail(cp \div 4096) = 128 + b /\ Trail(cp \div 64) = 128 + c /\ Trail(cp) = 128 + d
SixSum(a, b, c, d) == 64 * (64 * (64 * a + b) + c) + d

\* The groups of six bits of a code point make up the code point.
LEMMA Utf8Bytes ==
  ASSUME NEW cp \in Nat
  PROVE  \E a \in Nat, b \in 0..63, c \in 0..63, d \in 0..63 :
           SixBits(cp, a, b, c, d) /\ cp = SixSum(a, b, c, d)
<1>1. PICK q1 \in Nat, d \in 0..63 : Split(64, cp, q1, d) /\ cp = 64 * q1 + d
  BY BySixtyFour
<1>2. PICK q2 \in Nat, c \in 0..63 : Split(64, q1, q2, c) /\ q1 = 64 * q2 + c
  BY BySixtyFour
<1>3. PICK a \in Nat, b \in 0..63 : Split(64, q2, a, b) /\ q2 = 64 * a + b
  BY BySixtyFour
<1>4. cp \div 4096 = (cp \div 64) \div 64 /\ cp \div (256 * 1024) = (cp \div 4096) \div 64
  OBVIOUS
<1>5. q1 = cp \div 64 /\ q2 = cp \div 4096 /\ a = cp \div (256 * Block)
  BY <1>1, <1>2, <1>3, <1>4 DEF Split, Block
<1>6. Trail(cp) = 128 + d /\ Trail(q1) = 128 + c /\ Trail(q2) = 128 + b
  BY <1>1, <1>2, <1>3 DEF Split, Trail
<1>7. q2 = 64 * a + b /\ q1 = 64 * (64 * a + b) + c /\ cp = SixSum(a, b, c, d)
  BY <1>1, <1>2, <1>3 DEF SixSum
<1>8. SixBits(cp, a, b, c, d)
  BY <1>5, <1>6, <1>7 DEF SixBits
<1> QED
  BY <1>7, <1>8

\* What IsUtf8 asks for, of bytes that are given.
LEMMA OneByte ==
  ASSUME NEW cp \in Nat, cp < 128, NEW s, s = <<cp>>
  PROVE  s \in Seq(Nat) /\ IsUtf8(s, cp)
<1>1. s \in Seq(Nat) /\ Len(s) = 1 /\ s[1] = cp
  OBVIOUS
<1>2. Utf8Value(s) = cp
  BY <1>1 DEF Utf8Value
<1>3. IsUtf8(s, cp)
  BY <1>1, <1>2 DEF IsUtf8
<1> QED
  BY <1>1, <1>3

\* The forms of two, three and four bytes are the UTF-8 of their code points.
LEMMA TwoBytes ==
  ASSUME NEW cp \in Nat, ~(cp < 128), cp < 2048,
         NEW c \in Nat, NEW d \in 0..63, cp = 64 * c + d,
         NEW s, s = <<192 + c, 128 + d>>
  PROVE  s \in Seq(Nat) /\ IsUtf8(s, cp)
<1>1. s \in Seq(Nat) /\ Len(s) = 2 /\ s[1] = 192 + c /\ s[2] = 128 + d
  OBVIOUS
<1>2. Utf8Value(s) = 64 * (s[1] - 192) + (s[2] - 128)
  BY <1>1 DEF Utf8Value
<1>3. Utf8Value(s) = cp
  BY <1>1, <1>2
<1>4. (IF cp < 128 THEN 1 ELSE IF cp < 2048 THEN 2 ELSE IF cp < 64 * Block THEN 3 ELSE 4) = 2
  BY DEF Block
<1>5. ASSUME NEW i \in 2..2
      PROVE  s[i] \in 128..191
  <2>1. i = 2
    OBVIOUS
  <2>2. 128 + d \in 128..191
    OBVIOUS
  <2> QED
    BY <1>1, <2>1, <2>2
<1>6. IsUtf8(s, cp)
  BY <1>1, <1>3, <1>4, <1>5 DEF IsUtf8
<1> QED
  BY <1>1, <1>6

InThree(s, cp, b, c, d) ==
  /\ cp \in Nat /\ ~(cp < 2048) /\ cp < 64 * Block /\ cp = 64 * (64 * b + c) + d
  /\ b \in Nat /\ c \in 0..63 /\ d \in 0..63
  /\ s = <<224 + b, 128 + c, 128 + d>>

LEMMA ThreeBytes ==
  ASSUME NEW s, NEW cp, NEW b, NEW c, NEW d, InThree(s, cp, b, c, d)
  PROVE  s \in Seq(Nat) /\ IsUtf8(s, cp)
<1> USE DEF InThree
<1>1. s \in Seq(Nat) /\ Len(s) = 3 /\ s[1] = 224 + b /\ s[2] = 128 + c /\ s[3] = 128 + d
  OBVIOUS
<1>2. Utf8Value(s) = 4096 * (s[1] - 224) + 64 * (s[2] - 128) + (s[3] - 128)
  BY <1>1 DEF Utf8Value
<1>3. Utf8Value(s) = cp
  BY <1>1, <1>2
<1>4. (IF cp < 128 THEN 1 ELSE IF cp < 2048 THEN 2 ELSE IF cp < 64 * Block THEN 3 ELSE 4) = 3
  <2>1. ~(cp < 128)
    OBVIOUS
  <2> QED
    BY <2>1
<1>5. ASSUME NEW i \in 2..3
      PROVE  s[i] \in 128..191
  <2>1. i = 2 \/ i = 3
    OBVIOUS
  <2>2. 128 + c \in 128..191 /\ 128 + d \in 128..191
    OBVIOUS
  <2> QED
    BY <1>1, <2>1, <2>2
<1>6. IsUtf8(s, cp)
  BY <1>1, <1>3, <1>4, <1>5 DEF IsUtf8
<1> QED
  BY <1>1, <1>6

InFour(s, cp, a, b, c, d) ==
  /\ cp \in Nat /\ ~(cp < 64 * Block) /\ cp = SixSum(a, b, c, d)
  /\ a \in Nat /\ b \in 0..63 /\ c \in 0..63 /\ d \in 0..63
  /\ s = <<240 + a, 128 + b, 128 + c, 128 + d>>

LEMMA FourBytes ==
  ASSUME NEW s, NEW cp, NEW a, NEW b, NEW c, NEW d, InFour(s, cp, a, b, c, d)
  PROVE  s \in Seq(Nat) /\ IsUtf8(s, cp)
<1> USE DEF InFour
<1>1. s \in Seq(Nat) /\ Len(s) = 4 /\ s[1] = 240 + a /\ s[2] = 128 + b /\ s[3] = 128 + c /\ s[4] = 128 + d
  OBVIOUS
<1>2. Utf8Value(s) = 256 * Block * (s[1] - 240) + 4096 * (s[2] - 128) + 64 * (s[3] - 128) + (s[4] - 128)
  BY <1>1 DEF Utf8Value
<1>3. Utf8Value(s) = cp
  BY <1>1, <1>2 DEF SixSum, Block
<1>4. (IF cp < 128 THEN 1 ELSE IF cp < 2048 THEN 2 ELSE IF cp < 64 * Block THEN 3 ELSE 4) = 4
  <2>1. ~(cp < 128) /\ ~(cp < 2048)
    BY DEF Block
  <2> QED
    BY <2>1
<1>5. ASSUME NEW i \in 2..4
      PROVE  s[i] \in 128..191
  <2>1. i = 2 \/ i = 3 \/ i = 4
    OBVIOUS
  <2>2. 128 + b \in 128..191 /\ 128 + c \in 128..191 /\ 128 + d \in 128..191
    OBVIOUS
  <2> QED
    BY <1>1, <2>1, <2>2
<1>6. IsUtf8(s, cp)
  BY <1>1, <1>3, <1>4, <1>5 DEF IsUtf8
<1> QED
  BY <1>1, <1>6

\* The bytes are those of the table.
LEMMA Utf8Right ==
  ASSUME NEW cp \in Nat, cp < 1088 * Block
  PROVE  CodePointToUTF8(cp) \in Seq(Nat) /\ IsUtf8(CodePointToUTF8(cp), cp)
<1>1. PICK a \in Nat, b \in 0..63, c \in 0..63, d \in 0..63 :
        SixBits(cp, a, b, c, d) /\ cp = SixSum(a, b, c, d)
  BY Utf8Bytes
<1>2. CASE cp < 128
  <2>1. CodePointToUTF8(cp) = <<cp>>
    BY <1>2 DEF CodePointToUTF8
  <2> QED
    BY <1>2, <2>1, OneByte
<1>3. CASE ~(cp < 128) /\ cp < 2048
  <2>1. a = 0 /\ b = 0 /\ c \in 0..31 /\ cp = 64 * c + d
    BY <1>1, <1>3 DEF SixSum
  <2>2. cp \div 64 = c /\ Trail(cp) = 128 + d
    BY <1>1, <2>1 DEF SixBits
  <2>3. c % 32 = c
    BY <2>1
  <2>4. CodePointToUTF8(cp) = <<192 + ((cp \div 64) % 32), Trail(cp)>>
    BY <1>3 DEF CodePointToUTF8
  <2>5. CodePointToUTF8(cp) = <<192 + c, 128 + d>>
    BY <2>2, <2>3, <2>4
  <2>6. c \in Nat
    BY <2>1
  <2> QED
    BY <1>3, <2>1, <2>5, <2>6, TwoBytes
<1>4. CASE ~(cp < 2048) /\ cp < 64 * Block
  <2>1. a = 0 /\ b \in 0..15 /\ cp = 64 * (64 * b + c) + d
    BY <1>1, <1>4 DEF SixSum, Block
  <2>2. cp \div 4096 = b /\ Trail(cp \div 64) = 128 + c /\ Trail(cp) = 128 + d
    BY <1>1, <2>1 DEF SixBits
  <2>3. b % 16 = b
    BY <2>1
  <2>4. CodePointToUTF8(cp) = <<224 + ((cp \div 4096) % 16), Trail(cp \div 64), Trail(cp)>>
    BY <1>4 DEF CodePointToUTF8
  <2>5. CodePointToUTF8(cp) = <<224 + b, 128 + c, 128 + d>>
    BY <2>2, <2>3, <2>4
  <2>6. b \in Nat /\ ~(cp < 2048) /\ cp < 64 * Block
    BY <1>4, <2>1
  <2>7. InThree(CodePointToUTF8(cp), cp, b, c, d)
    BY <2>1, <2>5, <2>6 DEF InThree
  <2> QED
    BY <2>7, ThreeBytes
<1>5. CASE ~(cp < 64 * Block)
  <2>1. a \in 0..7
    BY <1>1 DEF SixSum, Block
  <2>2. /\ cp \div (256 * Block) = a /\ Trail(cp \div 4096) = 128 + b
        /\ Trail(cp \div 64) = 128 + c /\ Trail(cp) = 128 + d
    BY <1>1 DEF SixBits
  <2>3. a % 8 = a
    BY <2>1
  <2>4. CodePointToUTF8(cp) = <<240 + ((cp \div (256 * Block)) % 8), Trail(cp \div 4096), Trail(cp \div 64), Trail(cp)>>
    <3>1. ~(cp <= 127) /\ ~(cp <= 2047)
      BY <1>5 DEF Block
    <3> QED
      BY <1>5, <3>1 DEF CodePointToUTF8
  <2>5. CodePointToUTF8(cp) = <<240 + a, 128 + b, 128 + c, 128 + d>>
    BY <2>2, <2>3, <2>4
  <2>6. InFour(CodePointToUTF8(cp), cp, a, b, c, d)
    BY <1>1, <1>5, <2>5 DEF InFour
  <2> QED
    BY <2>6, FourBytes
<1> QED
  BY <1>2, <1>3, <1>4, <1>5

\* At the end of the text the loop of decodeString does nothing.
LEMMA OnceStays ==
  ASSUME NEW text, NEW x, NEW k, AtEnd(text, k)
  PROVE  Round(text, x, k, x, k)
<1> DEFINE d == [bytes |-> x, next |-> k]
<1>1. d.next = k
  OBVIOUS
<1> HIDE DEF d
<1>2. DecodeOnce(text, d) = {d}
  BY <1>1 DEF DecodeOnce
<1> QED
  BY <1>2 DEF d, Round

\* What stands at position k gives the bytes y and ends before l.
Gives(text, k, y, l) == DecodeNext(text, k) = {[bytes |-> y, next |-> l]}

\* Before the end, a round of it takes the next character or escape.
LEMMA OnceGives ==
  ASSUME NEW text, NEW x, NEW k, ~AtEnd(text, k), NEW y, NEW l, Gives(text, k, y, l)
  PROVE  Round(text, x, k, x \o y, l)
<1> DEFINE d == [bytes |-> x, next |-> k]
           e == [bytes |-> y, next |-> l]
<1>1. d.next = k /\ d.bytes = x /\ e.next = l /\ e.bytes = y
  OBVIOUS
<1> HIDE DEF d, e
<1>2. DecodeNext(text, k) = {e}
  BY DEF e, Gives
<1>3. DecodeOnce(text, d) = {[bytes |-> d.bytes \o e.bytes, next |-> e.next]}
  BY <1>1, <1>2 DEF DecodeOnce
<1> QED
  BY <1>1, <1>3 DEF d, Round

\* An escape of a unit, or of two, gives the bytes of the code point.
PointAt(text, k, c, l) == CodePoint(text, k) = {[cp |-> c, next |-> l]}
UnicodeAt(text, k) == text[k] = Backslash /\ k # Len(text) /\ text[k + 1] = LowerU

\* An escape of a code point gives the UTF-8 of it.
LEMMA NextIsUnicode ==
  ASSUME NEW text, NEW k, UnicodeAt(text, k), NEW m, m = k + 2,
         NEW c, NEW l, PointAt(text, m, c, l)
  PROVE  Gives(text, k, CodePointToUTF8(c), l)
<1> DEFINE p == [cp |-> c, next |-> l]
<1>1. text[k + 1] \notin DOMAIN ByteOf
  BY DEF ByteOf, LowerU, Quote, Backslash, UnicodeAt
<1>2. p.cp = c /\ p.next = l
  OBVIOUS
<1> HIDE DEF p
<1>3. CodePoint(text, k + 2) = {p}
  BY DEF p, PointAt
<1>4. DecodeNext(text, k) = {[bytes |-> CodePointToUTF8(q.cp), next |-> q.next] : q \in CodePoint(text, k + 2)}
  BY <1>1 DEF DecodeNext, UnicodeAt
<1>5. DecodeNext(text, k) = {[bytes |-> CodePointToUTF8(p.cp), next |-> p.next]}
  BY <1>3, <1>4
<1> QED
  BY <1>2, <1>5 DEF Gives

UnitIs(text, k, u) == CodeUnit(text, k) = {u}

\* A unit that is no high surrogate is a code point, a pair of units is another.
LEMMA UnitAlone ==
  ASSUME NEW text, NEW k, NEW u, UnitIs(text, k, u), ~HighSurrogate(u), NEW l, l = k + 4
  PROVE  PointAt(text, k, u, l)
BY DEF CodePoint, UnitIs, PointAt

\* Two units with an escape between them, the first a high surrogate.
PairAt(text, k, u, v) ==
  /\ UnitIs(text, k, u) /\ HighSurrogate(u) /\ k + 9 <= Len(text)
  /\ text[k + 4] = Backslash /\ text[k + 5] = LowerU /\ UnitIs(text, k + 6, v)
Paired(u, v) == (64 + (u % Block)) * Block + (v % Block)

LEMMA UnitPair ==
  ASSUME NEW text, NEW k, NEW u, NEW v, PairAt(text, k, u, v), NEW l, l = k + 10
  PROVE  PointAt(text, k, Paired(u, v), l)
BY DEF CodePoint, UnitIs, PairAt, PointAt, Paired

\* If the first round gives all of a text, that is what is decoded.
LEMMA DecodedAtOnce ==
  ASSUME NEW text, NEW l, l = Len(text) + 1, Len(text) \in Nat \ {0}, ~AtEnd(text, 1), NEW y \in Seq(Nat),
         Gives(text, 1, y, l)
  PROVE  DecodeString(text) = {y}
<1> DEFINE n == Len(text)
           b == [k \in 0..n |-> IF k = 0 THEN <<>> ELSE y]
           p == [k \in 0..n |-> IF k = 0 THEN 1 ELSE l]
<1>1. AtEnd(text, l)
  BY DEF AtEnd
<1>2. <<>> \o y = y
  OBVIOUS
<1> HIDE DEF n
<1>3. n \in Nat /\ n >= 1
  BY DEF n
<1>4. b[0] = <<>> /\ p[0] = 1 /\ b[n] = y
  BY <1>3
<1>5. Round(text, <<>>, 1, <<>> \o y, l)
  BY OnceGives
<1>6. Round(text, y, l, y, l)
  BY <1>1, OnceStays
<1>7. ASSUME NEW k \in 1..n
      PROVE  Round(text, b[k - 1], p[k - 1], b[k], p[k])
  <2>1. b[k] = y /\ p[k] = l
    BY <1>3
  <2>2. CASE k = 1
    <3>1. b[k - 1] = <<>> /\ p[k - 1] = 1
      BY <1>3, <2>2
    <3> QED
      BY <1>2, <1>5, <2>1, <3>1
  <2>3. CASE k # 1
    <3>1. b[k - 1] = y /\ p[k - 1] = l
      BY <1>3, <2>3
    <3> QED
      BY <1>6, <2>1, <3>1
  <2> QED
    BY <2>2, <2>3
<1> HIDE DEF b, p
<1>8. DecodesBy(b, p, text)
  BY <1>4, <1>7 DEF DecodesBy, n
<1>9. DecodeString(text) = {b[n]}
  BY <1>3, <1>8, DecodesToLast DEF n
<1> QED
  BY <1>4, <1>9

\* Where the parts of a sequence stand, and the middle one of three.
LEMMA Joined ==
  ASSUME NEW A \in Seq(Nat), NEW B \in Seq(Nat)
  PROVE  /\ A \o B \in Seq(Nat) /\ Len(A \o B) = Len(A) + Len(B)
         /\ \A i \in 1..Len(A) : (A \o B)[i] = A[i]
         /\ \A i \in 1..Len(B) : (A \o B)[Len(A) + i] = B[i]
OBVIOUS

\* A word in the middle of a text is found where it was put.
LEMMA Placed ==
  ASSUME NEW A \in Seq(Nat), NEW w \in Seq(Nat), NEW B \in Seq(Nat), NEW text, text = A \o w \o B
  PROVE  /\ text \in Seq(Nat) /\ Len(text) = Len(A) + Len(w) + Len(B)
         /\ \A i \in 1..Len(w) : text[Len(A) + i] = w[i]
<1>1. PICK C \in Seq(Nat) : C = A \o w
  BY Joined
<1>2. Len(C) = Len(A) + Len(w) /\ \A i \in 1..Len(w) : C[Len(A) + i] = w[i]
  BY <1>1, Joined
<1>3. text = C \o B
  BY <1>1
<1>4. text \in Seq(Nat) /\ Len(text) = Len(C) + Len(B) /\ \A i \in 1..Len(C) : text[i] = C[i]
  BY <1>3, Joined
<1>5. Len(A) \in Nat /\ Len(w) \in Nat /\ Len(B) \in Nat
  OBVIOUS
<1>6. ASSUME NEW i \in 1..Len(w)
      PROVE  text[Len(A) + i] = w[i]
  <2>1. Len(A) + i \in 1..Len(C)
    BY <1>2, <1>5
  <2> QED
    BY <1>2, <1>4, <2>1
<1>7. Len(text) = Len(A) + Len(w) + Len(B)
  BY <1>2, <1>4, <1>5
<1> QED
  BY <1>4, <1>6, <1>7

\* A unit with its backslash and its u, in a text from position k on.
UnitAt(text, k, u) == text[k] = Backslash /\ text[k + 1] = LowerU /\ SpelledAt(text, k + 2, u)

\* The escape of a unit, wherever it stands in a text, can be read there.
LEMMA UnitText ==
  ASSUME NEW u \in Nat, u < 64 * Block, NEW A, NEW B, A \in Seq(Nat), B \in Seq(Nat)
  PROVE  /\ Unit(u) \in Seq(Nat) /\ Len(Unit(u)) = 6
         /\ \A text : text = A \o Unit(u) \o B => UnitAt(text, Len(A) + 1, u)
<1>1. PICK a \in 0..15, b \in 0..15, c \in 0..15, d \in 0..15 :
        Spelled(u, a, b, c, d) /\ HexSum(a, b, c, d) = u
  BY HexParts
<1>2. Unit(u) = <<Backslash, LowerU, Hex(a), Hex(b), Hex(c), Hex(d)>>
  BY <1>1 DEF Unit, Spelled
<1>3. Hex(a) \in Nat /\ Hex(b) \in Nat /\ Hex(c) \in Nat /\ Hex(d) \in Nat
  BY DEF Hex
<1>4. Backslash \in Nat /\ LowerU \in Nat
  BY DEF Backslash, LowerU
<1> DEFINE w == Unit(u)
<1>5. w = <<Backslash, LowerU, Hex(a), Hex(b), Hex(c), Hex(d)>>
  BY <1>2
<1> HIDE DEF w
<1>6. /\ w \in Seq(Nat) /\ Len(w) = 6 /\ w[1] = Backslash /\ w[2] = LowerU
      /\ w[3] = Hex(a) /\ w[4] = Hex(b) /\ w[5] = Hex(c) /\ w[6] = Hex(d)
  BY <1>3, <1>4, <1>5
<1>7. ASSUME NEW text, text = A \o w \o B
      PROVE  UnitAt(text, Len(A) + 1, u)
  <2> DEFINE l == Len(A)
  <2>1. l \in Nat /\ Len(text) = l + Len(w) + Len(B) /\ Len(B) \in Nat
    <3>1. w \in Seq(Nat) /\ Len(A) \in Nat /\ Len(B) \in Nat
      BY <1>6
    <3>2. Len(text) = Len(A) + Len(w) + Len(B)
      BY <1>7, <3>1, Placed
    <3> QED
      BY <3>1, <3>2
  <2>2. \A i \in 1..6 : text[l + i] = w[i]
    <3>1. w \in Seq(Nat)
      BY <1>6
    <3>2. \A i \in 1..Len(w) : text[Len(A) + i] = w[i]
      BY <1>7, <3>1, Placed
    <3> QED
      BY <1>6, <3>2
  <2> HIDE DEF l
  <2>3. PICK k \in Nat : k = l + 1
    BY <2>1
  <2>4. /\ k + 5 <= Len(text)
        /\ text[k] = w[1] /\ text[k + 1] = w[2] /\ text[k + 2] = w[3]
        /\ text[k + 3] = w[4] /\ text[k + 4] = w[5] /\ text[k + 5] = w[6]
    <3>1. k + 5 <= Len(text)
      BY <1>6, <2>1, <2>3
    <3>2. /\ text[l + 1] = w[1] /\ text[l + 2] = w[2] /\ text[l + 3] = w[3]
          /\ text[l + 4] = w[4] /\ text[l + 5] = w[5] /\ text[l + 6] = w[6]
      BY <2>2
    <3>3. /\ l + 1 = k /\ l + 2 = k + 1 /\ l + 3 = k + 2
          /\ l + 4 = k + 3 /\ l + 5 = k + 4 /\ l + 6 = k + 5
      BY <2>1, <2>3
    <3> QED
      BY <3>1, <3>2, <3>3
  <2>5. DigitsAt(text, k + 2, a, b, c, d)
    <3>1. PICK m \in Nat : m = k + 2
      OBVIOUS
    <3>2. m + 1 = k + 3 /\ m + 2 = k + 4 /\ m + 3 = k + 5
      BY <3>1
    <3>3. DigitsAt(text, m, a, b, c, d)
      BY <1>6, <2>4, <3>1, <3>2 DEF DigitsAt
    <3> QED
      BY <3>1, <3>3
  <2>6. SpelledAt(text, k + 2, u)
    BY <1>1, <2>5 DEF SpelledAt
  <2>7. UnitAt(text, k, u)
    BY <1>6, <2>4, <2>6 DEF UnitAt
  <2> QED
    BY <2>3, <2>7 DEF l
<1> QED
  BY <1>6, <1>7 DEF w

\* Every code point but the surrogates is read from its escapes, one unit or a pair, and
\* becomes its UTF-8.
CodePoints == {cp \in Nat : cp < 1088 * Block /\ (cp < 54 * Block \/ cp >= 56 * Block)}

\* A text of one code point's escapes, and nothing else, is decoded in one round.
LEMMA UnicodeOnly ==
  ASSUME NEW text, NEW k \in {6, 12}, Len(text) = k, UnicodeAt(text, 1),
         NEW cp, CodePointToUTF8(cp) \in Seq(Nat),
         NEW l, l = k + 1, PointAt(text, 3, cp, l)
  PROVE  DecodeString(text) = {CodePointToUTF8(cp)}
<1> DEFINE y == CodePointToUTF8(cp)
<1>1. ~AtEnd(text, 1)
  BY DEF AtEnd, Backslash, Quote, UnicodeAt
<1>2. l = Len(text) + 1 /\ Len(text) \in Nat \ {0} /\ 3 = 1 + 2
  OBVIOUS
<1>3. Gives(text, 1, y, l)
  BY <1>2, NextIsUnicode
<1> HIDE DEF y
<1>4. y \in Seq(Nat)
  BY DEF y
<1>5. DecodeString(text) = {y}
  BY <1>1, <1>2, <1>3, <1>4, DecodedAtOnce
<1> QED
  BY <1>5 DEF y

\* Code points below 64 blocks are escaped as one unit.
LEMMA OneUnit ==
  ASSUME NEW cp \in CodePoints, cp < 64 * Block, CodePointToUTF8(cp) \in Seq(Nat)
  PROVE  DecodeString(EscapesOf(cp)) = {CodePointToUTF8(cp)}
<1> DEFINE text == Unit(cp)
<1>1. EscapesOf(cp) = text /\ cp \in Nat
  BY DEF EscapesOf, CodePoints
<1>2. text \in Seq(Nat) /\ Len(text) = 6 /\ UnitAt(text, 1, cp)
  <2>1. <<>> \in Seq(Nat) /\ Len(<<>>) + 1 = 1
    OBVIOUS
  <2>2. text \in Seq(Nat) /\ Len(text) = 6 /\ \A t : t = <<>> \o text \o <<>> => UnitAt(t, Len(<<>>) + 1, cp)
    BY <1>1, <2>1, UnitText
  <2> HIDE DEF text
  <2>3. text = <<>> \o text \o <<>>
    BY <2>2
  <2> QED
    BY <2>1, <2>2, <2>3
<1> HIDE DEF text
<1>3. UnitIs(text, 3, cp)
  <2>1. SpelledAt(text, 3, cp)
    BY <1>2 DEF UnitAt
  <2> QED
    BY <2>1, UnitRead DEF UnitIs
<1>4. ~HighSurrogate(cp)
  BY DEF HighSurrogate, CodePoints, Block
<1>5. PointAt(text, 3, cp, 7)
  <2>1. 7 = 3 + 4
    OBVIOUS
  <2> QED
    BY <1>3, <1>4, <2>1, UnitAlone
<1>6. UnicodeAt(text, 1)
  BY <1>2 DEF UnitAt, UnicodeAt
<1>7. 6 \in {6, 12} /\ 7 = 6 + 1
  OBVIOUS
<1>8. DecodeString(text) = {CodePointToUTF8(cp)}
  BY <1>2, <1>5, <1>6, <1>7, UnicodeOnly
<1> QED
  BY <1>1, <1>8

\* The others are escaped as a pair of surrogates.
LEMMA PairOfUnits ==
  ASSUME NEW cp \in CodePoints, ~(cp < 64 * Block), CodePointToUTF8(cp) \in Seq(Nat)
  PROVE  DecodeString(EscapesOf(cp)) = {CodePointToUTF8(cp)}
<1> DEFINE q == cp \div Block
           r == cp % Block
           u == 54 * Block + q - 64
           v == 55 * Block + r
           text == Unit(u) \o Unit(v)
<1>1. Split(Block, cp, q, r)
  BY DEF Split
<1>2. EscapesOf(cp) = text
  <2>1. 54 * Block + (cp \div Block) - 64 = u /\ 55 * Block + (cp % Block) = v
    OBVIOUS
  <2> HIDE DEF u, v
  <2> QED
    BY <2>1 DEF EscapesOf
<1> HIDE DEF q, r
<1>3. q \in Nat /\ r \in 0..1023 /\ cp = 1024 * q + r
  BY <1>1, ByBlock DEF CodePoints
<1>4. q >= 64 /\ q < 1088
  BY <1>3 DEF Block, CodePoints
<1>5. u \in Nat /\ u < 64 * Block /\ v \in Nat /\ v < 64 * Block
  BY <1>3, <1>4 DEF Block
<1>6. HighSurrogate(u)
  BY <1>3, <1>4 DEF HighSurrogate, Block
<1>7. u % Block = q - 64 /\ v % Block = r
  BY <1>3, <1>4 DEF Block
<1> HIDE DEF u, v
<1>8. Paired(u, v) = cp
  <2>1. 64 + (u % Block) = q
    BY <1>3, <1>7
  <2> QED
    BY <1>3, <1>7, <2>1 DEF Block, Paired
<1>9. <<>> \in Seq(Nat) /\ Len(<<>>) + 1 = 1
  OBVIOUS
<1>10. Unit(v) \in Seq(Nat) /\ Len(Unit(v)) = 6
  BY <1>5, <1>9, UnitText
<1>11. /\ Unit(u) \in Seq(Nat) /\ Len(Unit(u)) = 6
       /\ \A t : t = <<>> \o Unit(u) \o Unit(v) => UnitAt(t, Len(<<>>) + 1, u)
  BY <1>5, <1>9, <1>10, UnitText
<1>12. \A t : t = Unit(u) \o Unit(v) \o <<>> => UnitAt(t, Len(Unit(u)) + 1, v)
  BY <1>5, <1>9, <1>11, UnitText
<1>13. Len(text) = 12 /\ UnitAt(text, 1, u) /\ UnitAt(text, 7, v)
  <2> DEFINE A == Unit(u)
             B == Unit(v)
  <2> HIDE DEF A, B
  <2>1. A \in Seq(Nat) /\ B \in Seq(Nat) /\ Len(A) = 6 /\ Len(B) = 6
    BY <1>10, <1>11 DEF A, B
  <2>2. A \o B = <<>> \o A \o B /\ A \o B = A \o B \o <<>> /\ Len(A \o B) = 12 /\ Len(A) + 1 = 7
    <3>1. <<>> \o A = A
      BY <2>1
    <3>2. A \o B \in Seq(Nat) /\ Len(A \o B) = Len(A) + Len(B)
      BY <2>1, Joined
    <3>3. (A \o B) \o <<>> = A \o B
      BY <3>2, ConcatEmptySeq
    <3> QED
      BY <2>1, <3>1, <3>2, <3>3
  <2>3. text = A \o B
    BY DEF A, B
  <2>4. UnitAt(text, Len(<<>>) + 1, u)
    BY <1>11, <2>2, <2>3 DEF A, B
  <2>5. UnitAt(text, Len(A) + 1, v)
    BY <1>12, <2>2, <2>3 DEF A, B
  <2> QED
    BY <1>9, <2>2, <2>3, <2>4, <2>5
<1> HIDE DEF text
<1>14. UnitIs(text, 3, u) /\ UnitIs(text, 9, v)
  <2>1. SpelledAt(text, 3, u) /\ SpelledAt(text, 9, v)
    BY <1>13 DEF UnitAt
  <2> QED
    BY <2>1, UnitRead DEF UnitIs
<1>15. PairAt(text, 3, u, v)
  <2>1. 3 + 9 <= Len(text) /\ text[7] = Backslash /\ text[8] = LowerU
    BY <1>13 DEF UnitAt
  <2>2. 3 + 4 = 7 /\ 3 + 5 = 8 /\ 3 + 6 = 9
    OBVIOUS
  <2> QED
    BY <1>6, <1>14, <2>1, <2>2 DEF PairAt
<1>16. 13 = 3 + 10
  OBVIOUS
<1>17. PointAt(text, 3, cp, 13)
  <2>1. PointAt(text, 3, Paired(u, v), 13)
    BY <1>15, <1>16, UnitPair
  <2> QED
    BY <1>8, <2>1
<1>18. UnicodeAt(text, 1)
  BY <1>13 DEF UnitAt, UnicodeAt
<1>19. 12 \in {6, 12} /\ 13 = 12 + 1
  OBVIOUS
<1>20. DecodeString(text) = {CodePointToUTF8(cp)}
  BY <1>13, <1>17, <1>18, <1>19, UnicodeOnly
<1> QED
  BY <1>2, <1>20

\* Every code point that is no surrogate becomes its UTF-8.
LEMMA CodePointsAreUtf8 ==
  ASSUME NEW cp \in CodePoints
  PROVE  EscapeIsUtf8(cp)
<1>1. cp \in Nat /\ cp < 1088 * Block
  BY DEF CodePoints
<1>2. CodePointToUTF8(cp) \in Seq(Nat) /\ IsUtf8(CodePointToUTF8(cp), cp)
  BY <1>1, Utf8Right
<1>3. DecodeString(EscapesOf(cp)) = {CodePointToUTF8(cp)}
  BY <1>2, OneUnit, PairOfUnits
<1> QED
  BY <1>2, <1>3 DEF EscapeIsUtf8

-----------------------------------------------------------------------------
(* Strings *)

Bytes == 1..255

\* A byte is escaped by a letter, as a unit, or not at all.
ByLetter(c, l) == Escaped(c) = <<Backslash, l>> /\ l \in DOMAIN ByteOf /\ ByteOf[l] = c
ByUnit(c) == Escaped(c) = Unit(c) /\ c \in 1..31
Plain(c) == Escaped(c) = <<c>> /\ c # Quote /\ c # Backslash

\* A byte is escaped by a letter or as a unit, or it stands for itself.
LEMMA EscapeForms ==
  ASSUME NEW c \in Bytes
  PROVE  (\E l \in Nat : ByLetter(c, l)) \/ ByUnit(c) \/ Plain(c)
<1>1. DOMAIN LetterOf = {8, 9, 10, 12, 13, Quote, Backslash} /\ c \in 1..255
  BY DEF LetterOf, Bytes
<1>2. CASE c \in DOMAIN LetterOf
  <2> DEFINE l == LetterOf[c]
  <2>1. l = CASE c = 8 -> 98 [] c = 9 -> 116 [] c = 10 -> 110 [] c = 12 -> 102 [] c = 13 -> 114 [] OTHER -> c
    BY <1>2 DEF LetterOf
  <2>2. l \in Nat /\ l \in DOMAIN ByteOf /\ ByteOf[l] = c
    <3>1. \/ (c = 8 /\ l = 98) \/ (c = 9 /\ l = 116) \/ (c = 10 /\ l = 110) \/ (c = 12 /\ l = 102)
          \/ (c = 13 /\ l = 114) \/ (c = Quote /\ l = Quote) \/ (c = Backslash /\ l = Backslash)
      BY <1>1, <1>2, <2>1 DEF Quote, Backslash
    <3> HIDE DEF l
    <3> QED
      BY <3>1 DEF ByteOf, Quote, Backslash
  <2>3. Escaped(c) = <<Backslash, l>>
    BY <1>2 DEF Escaped
  <2> QED
    BY <2>2, <2>3 DEF ByLetter
<1>3. CASE c \notin DOMAIN LetterOf /\ c <= 31
  <2>1. Escaped(c) = <<Backslash, LowerU, 48, 48, Hex(c \div 16), Hex(c % 16)>>
    BY <1>1, <1>3 DEF Escaped, IsControlCharacter
  <2>2. c \div 4096 = 0 /\ (c \div 256) % 16 = 0 /\ (c \div 16) % 16 = c \div 16
    BY <1>1, <1>3
  <2>3. Hex(0) = 48
    BY DEF Hex
  <2>4. Unit(c) = <<Backslash, LowerU, 48, 48, Hex(c \div 16), Hex(c % 16)>>
    BY <2>2, <2>3 DEF Unit
  <2> QED
    BY <1>1, <1>3, <2>1, <2>4 DEF ByUnit
<1>4. CASE c \notin DOMAIN LetterOf /\ ~(c <= 31)
  <2>1. Escaped(c) = <<c>>
    BY <1>1, <1>4 DEF Escaped, IsControlCharacter
  <2> QED
    BY <1>1, <1>4, <2>1 DEF Plain
<1> QED
  BY <1>2, <1>3, <1>4

\* The escape of a byte stands in a text before position l, after what goes up to k.
StandsAt(text, k, c, l) ==
  \/ \E x \in Nat : ByLetter(c, x) /\ text[k] = Backslash /\ text[k + 1] = x /\ l = k + 2
  \/ ByUnit(c) /\ UnitAt(text, k, c) /\ l = k + 6
  \/ Plain(c) /\ text[k] = c /\ l = k + 1

Within(text, A, w, B) == text = A \o w \o B

\* The escape of a byte stands in a text where it was put.
LEMMA EscapePlaced ==
  ASSUME NEW c \in Bytes, NEW A \in Seq(Nat), NEW B \in Seq(Nat), NEW text, Within(text, A, Escaped(c), B)
  PROVE  /\ Escaped(c) \in Seq(Nat) /\ Len(Escaped(c)) \in 1..6
         /\ text \in Seq(Nat) /\ Len(text) = Len(A) + Len(Escaped(c)) + Len(B)
         /\ StandsAt(text, Len(A) + 1, c, Len(A) + Len(Escaped(c)) + 1)
<1>1. Len(A) \in Nat
  OBVIOUS
<1>2. ASSUME NEW x \in Nat, ByLetter(c, x)
      PROVE  /\ Escaped(c) \in Seq(Nat) /\ Len(Escaped(c)) = 2
             /\ StandsAt(text, Len(A) + 1, c, Len(A) + 2 + 1)
  <2>1. PICK w \in Seq(Nat) : w = <<Backslash, x>>
    <3>1. Backslash \in Nat
      BY DEF Backslash
    <3>2. <<Backslash, x>> \in Seq(Nat)
      BY <3>1
    <3> QED
      BY <3>2, Zenon
  <2>2. Len(w) = 2 /\ w[1] = Backslash /\ w[2] = x /\ Escaped(c) = w
    BY <1>2, <2>1 DEF ByLetter
  <2>3. \A i \in 1..Len(w) : text[Len(A) + i] = w[i]
    <3>1. text = A \o w \o B
      BY <2>2 DEF Within
    <3> QED
      BY <3>1, Placed
  <2>4. text[Len(A) + 1] = Backslash /\ text[Len(A) + 2] = x
    <3>1. 1 \in 1..Len(w) /\ 2 \in 1..Len(w)
      BY <2>2
    <3>2. text[Len(A) + 1] = w[1] /\ text[Len(A) + 2] = w[2]
      BY <2>3, <3>1
    <3> QED
      BY <2>2, <3>2
  <2>5. PICK k \in Nat : k = Len(A) + 1
    BY <1>1
  <2>6. k + 1 = Len(A) + 2 /\ k + 2 = Len(A) + 2 + 1
    BY <1>1, <2>5
  <2>7. StandsAt(text, k, c, k + 2)
    BY <1>2, <2>4, <2>5, <2>6 DEF StandsAt
  <2> QED
    BY <2>2, <2>5, <2>6, <2>7
<1>3. ASSUME ByUnit(c)
      PROVE  /\ Escaped(c) \in Seq(Nat) /\ Len(Escaped(c)) = 6
             /\ StandsAt(text, Len(A) + 1, c, Len(A) + 6 + 1)
  <2>1. c \in Nat /\ c < 64 * Block /\ Escaped(c) = Unit(c)
    BY <1>3 DEF ByUnit, Block
  <2>2. /\ Unit(c) \in Seq(Nat) /\ Len(Unit(c)) = 6
        /\ \A t : t = A \o Unit(c) \o B => UnitAt(t, Len(A) + 1, c)
    BY <2>1, UnitText
  <2>3. UnitAt(text, Len(A) + 1, c)
    BY <2>1, <2>2 DEF Within
  <2>4. PICK k \in Nat : k = Len(A) + 1
    BY <1>1
  <2>5. k + 6 = Len(A) + 6 + 1
    BY <1>1, <2>4
  <2>6. StandsAt(text, k, c, k + 6)
    BY <1>3, <2>3, <2>4 DEF StandsAt
  <2> QED
    BY <2>1, <2>2, <2>4, <2>5, <2>6
<1>4. ASSUME Plain(c)
      PROVE  /\ Escaped(c) \in Seq(Nat) /\ Len(Escaped(c)) = 1
             /\ StandsAt(text, Len(A) + 1, c, Len(A) + 1 + 1)
  <2>1. PICK w \in Seq(Nat) : w = <<c>>
    <3>1. c \in Nat
      BY DEF Bytes
    <3>2. <<c>> \in Seq(Nat)
      BY <3>1
    <3> QED
      BY <3>2, Zenon
  <2>2. Len(w) = 1 /\ w[1] = c /\ Escaped(c) = w
    BY <1>4, <2>1 DEF Plain
  <2>3. \A i \in 1..Len(w) : text[Len(A) + i] = w[i]
    <3>1. text = A \o w \o B
      BY <2>2 DEF Within
    <3> QED
      BY <3>1, Placed
  <2>4. text[Len(A) + 1] = c
    <3>1. 1 \in 1..Len(w)
      BY <2>2
    <3>2. text[Len(A) + 1] = w[1]
      BY <2>3, <3>1
    <3> QED
      BY <2>2, <3>2
  <2>5. PICK k \in Nat : k = Len(A) + 1
    BY <1>1
  <2>6. StandsAt(text, k, c, k + 1)
    BY <1>4, <2>4, <2>5 DEF StandsAt
  <2> QED
    BY <2>2, <2>5, <2>6
<1>5. /\ Escaped(c) \in Seq(Nat) /\ Len(Escaped(c)) \in 1..6
      /\ StandsAt(text, Len(A) + 1, c, Len(A) + Len(Escaped(c)) + 1)
  <2>1. CASE \E x \in Nat : ByLetter(c, x)
    <3>1. PICK x \in Nat : ByLetter(c, x)
      BY <2>1
    <3>2. 2 \in 1..6
      OBVIOUS
    <3> QED
      BY <1>2, <3>1, <3>2
  <2>2. CASE ByUnit(c)
    <3>1. 6 \in 1..6
      OBVIOUS
    <3> QED
      BY <1>3, <2>2, <3>1
  <2>3. CASE Plain(c)
    <3>1. 1 \in 1..6
      OBVIOUS
    <3> QED
      BY <1>4, <2>3, <3>1
  <2> QED
    BY <2>1, <2>2, <2>3, EscapeForms
<1>6. text \in Seq(Nat) /\ Len(text) = Len(A) + Len(Escaped(c)) + Len(B)
  BY <1>5, Placed DEF Within
<1> QED
  BY <1>5, <1>6

\* The decoder takes the escape for the byte.
LEMMA EscapeRead ==
  ASSUME NEW c \in Bytes, NEW text, NEW k \in Nat \ {0}, NEW l, StandsAt(text, k, c, l),
         Len(text) \in Nat, l <= Len(text) + 1, NEW x
  PROVE  Round(text, x, k, x \o <<c>>, l)
<1>1. ASSUME NEW y \in Nat, ByLetter(c, y), text[k] = Backslash, text[k + 1] = y, l = k + 2
      PROVE  ~AtEnd(text, k) /\ Gives(text, k, <<c>>, l)
  <2>1. ~AtEnd(text, k) /\ k # Len(text)
    BY <1>1 DEF AtEnd, Quote, Backslash
  <2>2. text[k + 1] \in DOMAIN ByteOf /\ ByteOf[text[k + 1]] = c
    BY <1>1 DEF ByLetter
  <2>3. DecodeNext(text, k) = {[bytes |-> <<ByteOf[text[k + 1]]>>, next |-> k + 2]}
    BY <1>1, <2>1, <2>2 DEF DecodeNext
  <2>4. Gives(text, k, <<c>>, k + 2)
    BY <2>2, <2>3 DEF Gives
  <2> QED
    BY <1>1, <2>1, <2>4
<1>2. ASSUME ByUnit(c), UnitAt(text, k, c), l = k + 6
      PROVE  ~AtEnd(text, k) /\ Gives(text, k, <<c>>, l)
  <2>1. ~AtEnd(text, k) /\ k # Len(text)
    BY <1>2 DEF AtEnd, Quote, Backslash, UnitAt
  <2>2. UnicodeAt(text, k)
    BY <1>2, <2>1 DEF UnitAt, UnicodeAt
  <2>3. PICK m \in Nat : m = k + 2
    OBVIOUS
  <2>4. UnitIs(text, m, c)
    <3>1. SpelledAt(text, m, c)
      BY <1>2, <2>3 DEF UnitAt
    <3> QED
      BY <3>1, UnitRead DEF UnitIs
  <2>5. ~HighSurrogate(c) /\ l = m + 4
    BY <1>2, <2>3 DEF ByUnit, HighSurrogate, Block
  <2>6. PointAt(text, m, c, l)
    BY <2>4, <2>5, UnitAlone
  <2>7. Gives(text, k, CodePointToUTF8(c), l)
    BY <2>2, <2>3, <2>6, NextIsUnicode
  <2>8. CodePointToUTF8(c) = <<c>>
    BY <1>2 DEF ByUnit, CodePointToUTF8
  <2> QED
    BY <2>1, <2>7, <2>8
<1>3. ASSUME Plain(c), text[k] = c, l = k + 1
      PROVE  ~AtEnd(text, k) /\ Gives(text, k, <<c>>, l)
  BY <1>3 DEF Plain, AtEnd, Gives, DecodeNext
<1>4. ~AtEnd(text, k) /\ Gives(text, k, <<c>>, l)
  BY <1>1, <1>2, <1>3 DEF StandsAt
<1> QED
  BY <1>4, OnceGives

\* The loop of readString passes the escape.
SkipsBy(f, n, text) == \A i \in 1..n : f[i] = SkipChar(text, f[i - 1])
Room(m, k, l, n) == m + (l - k) <= n
Arrives(f, m, k, l) == \E j \in Nat : j <= l - k /\ f[m + j] = l

\* readString arrives behind the escape of a byte when it was before it.
LEMMA EscapeSkipped ==
  ASSUME NEW c \in Bytes, NEW text, NEW k \in Nat \ {0}, NEW l \in Nat, StandsAt(text, k, c, l),
         Len(text) \in Nat, l <= Len(text) + 1,
         NEW f, NEW n \in Nat, SkipsBy(f, n, text), NEW m \in Nat, f[m] = k, Room(m, k, l, n)
  PROVE  Arrives(f, m, k, l)
<1> USE DEF Room
<1>0. ASSUME NEW i \in Nat, i + 1 <= n
      PROVE  f[i + 1] = SkipChar(text, f[i])
  <2>1. PICK h \in 1..n : h = i + 1
    BY <1>0
  <2>2. f[h] = SkipChar(text, f[h - 1]) /\ h - 1 = i
    BY <2>1 DEF SkipsBy
  <2> QED
    BY <2>1, <2>2
<1>1. ASSUME NEW y \in Nat, text[k] = Backslash, l = k + 2
      PROVE  f[m + 1] = l
  <2>1. ~AtEnd(text, k)
    BY <1>1 DEF AtEnd, Quote, Backslash
  <2>2. SkipChar(text, k) = k + 2
    BY <1>1, <2>1 DEF SkipChar
  <2>3. m + 1 <= n
    BY <1>1
  <2> QED
    BY <1>0, <1>1, <2>2, <2>3
<1>2. ASSUME ByUnit(c), UnitAt(text, k, c), l = k + 6
      PROVE  f[m + 5] = l
  <2>1. SkipChar(text, k) = k + 2
    <3>1. ~AtEnd(text, k) /\ text[k] = Backslash
      BY <1>2 DEF AtEnd, Quote, Backslash, UnitAt
    <3> QED
      BY <3>1 DEF SkipChar
  <2>2. PICK d \in Nat : d = k + 2
    OBVIOUS
  <2>3. \A i \in 0..3 : text[d + i] # Quote /\ text[d + i] # Backslash
    <3>1. SpelledAt(text, d, c)
      BY <1>2, <2>2 DEF UnitAt
    <3>2. PICK x1 \in 0..15, x2 \in 0..15, x3 \in 0..15, x4 \in 0..15 : DigitsAt(text, d, x1, x2, x3, x4)
      BY <3>1 DEF SpelledAt
    <3>3. \A x \in 0..15 : Hex(x) # Quote /\ Hex(x) # Backslash
      BY DEF Hex, Quote, Backslash
    <3>4. /\ text[d] # Quote /\ text[d] # Backslash
          /\ text[d + 1] # Quote /\ text[d + 1] # Backslash
          /\ text[d + 2] # Quote /\ text[d + 2] # Backslash
          /\ text[d + 3] # Quote /\ text[d + 3] # Backslash
      BY <3>2, <3>3 DEF DigitsAt
    <3>5. d + 0 = d
      OBVIOUS
    <3>6. ASSUME NEW i \in 0..3
          PROVE  text[d + i] # Quote /\ text[d + i] # Backslash
      <4>1. i = 0 \/ i = 1 \/ i = 2 \/ i = 3
        OBVIOUS
      <4> QED
        BY <3>4, <3>5, <4>1
    <3> QED
      BY <3>6
  <2>4. ASSUME NEW i \in 0..3
        PROVE  SkipChar(text, d + i) = d + i + 1
    <3>1. ~AtEnd(text, d + i)
      BY <1>2, <2>2, <2>3 DEF AtEnd
    <3> QED
      BY <2>3, <3>1 DEF SkipChar
  <2>5. m + 5 <= n /\ m \in Nat
    BY <1>2
  <2>6. f[m + 1] = d
    BY <1>0, <2>1, <2>2, <2>5
  <2>7. f[m + 2] = d + 1
    <3>1. f[(m + 1) + 1] = SkipChar(text, f[m + 1])
      BY <1>0, <2>5
    <3> QED
      BY <2>4, <2>6, <3>1
  <2>8. f[m + 3] = d + 2
    <3>1. f[(m + 2) + 1] = SkipChar(text, f[m + 2])
      BY <1>0, <2>5
    <3> QED
      BY <2>4, <2>7, <3>1
  <2>9. f[m + 4] = d + 3
    <3>1. f[(m + 3) + 1] = SkipChar(text, f[m + 3])
      BY <1>0, <2>5
    <3> QED
      BY <2>4, <2>8, <3>1
  <2>10. f[m + 5] = d + 4
    <3>1. f[(m + 4) + 1] = SkipChar(text, f[m + 4])
      BY <1>0, <2>5
    <3> QED
      BY <2>4, <2>9, <3>1
  <2> QED
    BY <1>2, <2>2, <2>10
<1>3. ASSUME Plain(c), text[k] = c, l = k + 1
      PROVE  f[m + 1] = l
  <2>1. SkipChar(text, k) = k + 1
    BY <1>3 DEF Plain, SkipChar, AtEnd
  <2>2. m + 1 <= n
    BY <1>3
  <2> QED
    BY <1>0, <1>3, <2>1, <2>2
<1>4. (l = k + 2 /\ f[m + 1] = l) \/ (l = k + 6 /\ f[m + 5] = l) \/ (l = k + 1 /\ f[m + 1] = l)
  BY <1>1, <1>2, <1>3 DEF StandsAt
<1>5. 1 \in Nat /\ 5 \in Nat /\ (l = k + 2 \/ l = k + 1 => 1 <= l - k) /\ (l = k + 6 => 5 <= l - k)
  OBVIOUS
<1> QED
  BY <1>4, <1>5 DEF Arrives

Appended(v, c) == v \o Escaped(c)

\* An escape has from one to six bytes.
LEMMA EscapeBytes ==
  ASSUME NEW c \in Bytes
  PROVE  Escaped(c) \in Seq(Nat) /\ Len(Escaped(c)) \in 1..6
<1>1. PICK a \in Seq(Nat) : a = <<>>
  <2>1. <<>> \in Seq(Nat)
    OBVIOUS
  <2> QED
    BY <2>1, Zenon
<1>2. PICK text : text = a \o Escaped(c) \o a
  OBVIOUS
<1>3. Within(text, a, Escaped(c), a)
  BY <1>2 DEF Within
<1> QED
  BY <1>3, EscapePlaced

\* Texts can be put together in any order of grouping.
LEMMA Associative ==
  ASSUME NEW x \in Seq(Nat), NEW y \in Seq(Nat), NEW z \in Seq(Nat)
  PROVE  x \o (y \o z) = (x \o y) \o z
BY ConcatAssociative, SMTT(60)

LEMMA Regrouped ==
  ASSUME NEW a \in Seq(Nat), NEW b \in Seq(Nat), NEW c \in Seq(Nat), NEW d \in Seq(Nat), NEW e \in Seq(Nat),
         NEW text, NEW m, m = (b \o c) \o d, Within(text, a, m, e)
  PROVE  \E x \in Seq(Nat), y \in Seq(Nat) : x = a \o b /\ Within(text, x, c, y)
<1>1. PICK q \in Seq(Nat) : q = b \o c
  BY Joined
<1>2. PICK r \in Seq(Nat) : r = a \o q
  BY Joined
<1>3. a \o (q \o d) = (a \o q) \o d
  BY Associative, SMTT(60)
<1>4. a \o (b \o c) = (a \o b) \o c
  BY Associative, SMTT(60)
<1>5. r \o (d \o e) = (r \o d) \o e
  BY Associative, SMTT(60)
<1>6. PICK y \in Seq(Nat) : y = d \o e
  BY Joined
<1>7. PICK x \in Seq(Nat) : x = a \o b
  BY Joined
<1>8. text = (a \o (q \o d)) \o e
  BY <1>1 DEF Within
<1>9. r = x \o c
  BY <1>1, <1>2, <1>4, <1>7
<1>10. text = (r \o d) \o e
  BY <1>2, <1>3, <1>8
<1>11. Within(text, x, c, y)
  BY <1>5, <1>6, <1>9, <1>10 DEF Within
<1> QED
  BY <1>7, <1>11

\* The loop over the characters of a string, step by step.
Encodes(e, s) ==
  /\ e \in [0..Len(s) -> Seq(Nat)]
  /\ e[0] = <<>>
  /\ \A k \in 1..Len(s) : e[k] = Appended(e[k - 1], s[k])

\* valueToQuotedString escapes byte by byte.
LEMMA EncodedBySteps ==
  ASSUME NEW s \in Seq(Bytes)
  PROVE  \E e : Encodes(e, s) /\ EscapedAll(s) = e[Len(s)]
<1> DEFINE n == Len(s)
           start == <<>>
           step == [k \in 1..n |-> [v \in Seq(Nat) |-> Appended(v, s[k])]]
           result == CHOOSE f : f = [k \in 0..n |-> IF k = 0 THEN start ELSE Appended(f[k - 1], s[k])]
<1>1. n \in Nat /\ start \in Seq(Nat) /\ \A k \in 1..n : s[k] \in Bytes
  OBVIOUS
<1>2. EscapedAll(s) = result[n]
  BY DEF EscapedAll, Appended
<1>3. start = <<>>
  OBVIOUS
<1> HIDE DEF n, start
<1>4. step \in [1..n -> [Seq(Nat) -> Seq(Nat)]]
  <2>1. ASSUME NEW k \in 1..n, NEW v \in Seq(Nat)
        PROVE  Appended(v, s[k]) \in Seq(Nat)
    <3>1. s[k] \in Bytes
      BY <1>1
    <3>2. Escaped(s[k]) \in Seq(Nat)
      BY <3>1, EscapeBytes
    <3> QED
      BY <3>2, Joined DEF Appended
  <2> QED
    BY <2>1
<1>5. \A k \in 1..n, v \in Seq(Nat) : step[k][v] = Appended(v, s[k])
  OBVIOUS
<1> HIDE DEF step
<1>6. PICK f \in [0..n -> Seq(Nat)] : Walks(f, n, start, step)
  BY <1>1, <1>4, StepByStep
<1>7. ASSUME NEW k \in 1..n
      PROVE  f[k] = Appended(f[k - 1], s[k])
  <2>1. k - 1 \in 0..n
    BY <1>1
  <2>2. f[k - 1] \in Seq(Nat)
    BY <2>1
  <2>3. step[k][f[k - 1]] = Appended(f[k - 1], s[k])
    BY <1>5, <2>2
  <2>4. f[k] = step[k][f[k - 1]]
    BY <1>6 DEF Walks
  <2> QED
    BY <2>3, <2>4
<1>8. f = [k \in 0..n |-> IF k = 0 THEN start ELSE Appended(f[k - 1], s[k])]
  <2>1. \A k \in 0..n : f[k] = IF k = 0 THEN start ELSE Appended(f[k - 1], s[k])
    <3>1. f[0] = start
      BY <1>6 DEF Walks
    <3>2. \A k \in 0..n : k = 0 \/ k \in 1..n
      BY <1>1
    <3> QED
      BY <1>7, <3>1, <3>2
  <2> QED
    BY <2>1
<1>9. result = [k \in 0..n |-> IF k = 0 THEN start ELSE Appended(result[k - 1], s[k])]
  BY <1>8
<1> HIDE DEF result
<1>10. StepAlike(result, f, n)
  BY <1>1, <1>6, <1>7, <1>9 DEF Walks, StepAlike
<1>11. result[n] = f[n]
  BY <1>1, <1>10, SameWalk
<1>12. Encodes(f, s)
  BY <1>3, <1>6, <1>7 DEF Encodes, Walks, n
<1> QED
  BY <1>2, <1>11, <1>12 DEF n

\* What is written for the first k characters, and for one more.
LEMMA OneMore ==
  ASSUME NEW s \in Seq(Bytes), NEW e, Encodes(e, s), NEW k \in 1..Len(s)
  PROVE  /\ s[k] \in Bytes /\ e[k - 1] \in Seq(Nat) /\ e[k] \in Seq(Nat)
         /\ e[k] = e[k - 1] \o Escaped(s[k])
         /\ Escaped(s[k]) \in Seq(Nat) /\ Len(Escaped(s[k])) \in 1..6
         /\ Len(e[k - 1]) \in Nat /\ Len(e[k]) \in Nat
         /\ Len(e[k]) = Len(e[k - 1]) + Len(Escaped(s[k]))
<1>1. k - 1 \in 0..Len(s) /\ k \in 0..Len(s) /\ s[k] \in Bytes
  OBVIOUS
<1>2. e[k - 1] \in Seq(Nat) /\ e[k] \in Seq(Nat) /\ e[k] = e[k - 1] \o Escaped(s[k])
  BY <1>1 DEF Encodes, Appended
<1>3. Escaped(s[k]) \in Seq(Nat) /\ Len(Escaped(s[k])) \in 1..6
  <2>1. s[k] \in Bytes
    BY <1>1
  <2> QED
    BY <2>1, EscapeBytes
<1>4. Len(e[k - 1] \o Escaped(s[k])) = Len(e[k - 1]) + Len(Escaped(s[k]))
  BY <1>2, <1>3, Joined
<1>5. Len(e[k - 1]) \in Nat /\ Len(e[k]) \in Nat
  <2>1. PICK x \in Seq(Nat), y \in Seq(Nat) : x = e[k - 1] /\ y = e[k]
    BY <1>2
  <2>2. Len(x) \in Nat /\ Len(y) \in Nat
    OBVIOUS
  <2> QED
    BY <2>1, <2>2
<1> QED
  BY <1>1, <1>2, <1>3, <1>4, <1>5

\* No text is shorter than the string it stands for.
LEMMA AsManyAtLeast ==
  ASSUME NEW s \in Seq(Bytes), NEW e, Encodes(e, s)
  PROVE  \A k \in 0..Len(s) : Len(e[k]) \in Nat /\ k <= Len(e[k])
<1> DEFINE n == Len(s)
           Good == {k \in 0..n : Len(e[k]) \in Nat /\ k <= Len(e[k])}
<1>1. n \in Nat
  OBVIOUS
<1>2. 0 \in Good
  <2>1. e[0] = <<>> /\ Len(<<>>) = 0
    BY DEF Encodes
  <2> QED
    BY <1>1, <2>1
<1>3. ASSUME NEW k \in 1..n, k - 1 \in Good
      PROVE  k \in Good
  <2>1. Len(Escaped(s[k])) \in 1..6 /\ Len(e[k]) = Len(e[k - 1]) + Len(Escaped(s[k]))
    BY OneMore
  <2>2. Len(e[k - 1]) \in Nat /\ k - 1 <= Len(e[k - 1])
    BY <1>3
  <2>3. PICK a \in Nat, b \in 1..6 : Len(e[k]) = a + b /\ k - 1 <= a
    BY <2>1, <2>2
  <2>4. Len(e[k]) \in Nat /\ k <= Len(e[k]) /\ k \in 0..n
    BY <1>1, <2>3
  <2> QED
    BY <2>4
<1>4. 0..n \subseteq Good
  <2> HIDE DEF Good, n
  <2> QED
    BY <1>1, <1>2, <1>3, Upwards
<1> QED
  BY <1>4

Begins(x, y) == \E B \in Seq(Nat) : x = y \o B

\* All that is written begins with what is written for the first k characters.
LEMMA BeginsWith ==
  ASSUME NEW s \in Seq(Bytes), NEW e, Encodes(e, s), NEW k \in 0..Len(s)
  PROVE  Begins(e[Len(s)], e[k])
<1> DEFINE n == Len(s)
           Good == {m \in 0..n : m < k \/ Begins(e[m], e[k])}
<1>1. n \in Nat /\ k \in Nat /\ e[k] \in Seq(Nat) /\ <<>> \in Seq(Nat)
  BY DEF Encodes
<1>2. Begins(e[k], e[k])
  <2>1. e[k] = e[k] \o <<>>
    BY <1>1, ConcatEmptySeq
  <2> QED
    BY <1>1, <2>1 DEF Begins
<1>3. k \in Good
  BY <1>1, <1>2
<1>4. 0 \in Good
  <2>1. 0 < k \/ 0 = k
    BY <1>1
  <2>2. 0 \in 0..n
    BY <1>1
  <2> QED
    BY <1>2, <2>1, <2>2
<1>5. ASSUME NEW m \in 1..n, m - 1 \in Good
      PROVE  m \in Good
  <2>1. CASE m - 1 < k
    <3>1. m < k \/ m = k
      BY <1>1, <2>1
    <3> QED
      BY <1>1, <1>3, <3>1
  <2>2. CASE ~(m - 1 < k)
    <3>1. PICK B \in Seq(Nat) : e[m - 1] = e[k] \o B
      BY <1>5, <2>2 DEF Begins
    <3>2. PICK w \in Seq(Nat) : w = Escaped(s[m])
      BY OneMore
    <3>3. PICK C \in Seq(Nat) : C = B \o w
      BY Joined
    <3>4. e[k] \o (B \o w) = (e[k] \o B) \o w
      BY <1>1, Associative
    <3>5. e[m] = e[m - 1] \o w
      BY <3>2, OneMore
    <3>6. e[m] = e[k] \o C
      BY <3>1, <3>3, <3>4, <3>5
    <3>7. Begins(e[m], e[k])
      BY <3>6 DEF Begins
    <3> QED
      BY <1>1, <3>7
  <2> QED
    BY <2>1, <2>2
<1>6. n \in Good
  <2>1. 0..n \subseteq Good
    <3> HIDE DEF Good, n
    <3> QED
      BY <1>1, <1>4, <1>5, Upwards
  <2>2. n \in 0..n
    BY <1>1
  <2> QED
    BY <2>1, <2>2
<1>7. ~(n < k)
  BY <1>1
<1> QED
  BY <1>6, <1>7

\* In what is written for a string between two texts, each character's escape has its
\* place.
LEMMA EachStands ==
  ASSUME NEW s \in Seq(Bytes), NEW e, Encodes(e, s), NEW A \in Seq(Nat), NEW C \in Seq(Nat),
         NEW text, Within(text, A, e[Len(s)], C), NEW k \in 1..Len(s)
  PROVE  /\ StandsAt(text, Len(A) + Len(e[k - 1]) + 1, s[k], Len(A) + Len(e[k]) + 1)
         /\ Len(A) + Len(e[k]) + 1 <= Len(text) + 1
<1>1. PICK w \in Seq(Nat) : w = Escaped(s[k])
  BY OneMore
<1>2. PICK p \in Seq(Nat) : p = e[k - 1]
  BY OneMore
<1>3. PICK B \in Seq(Nat) : e[Len(s)] = e[k] \o B
  <2>1. k \in 0..Len(s)
    OBVIOUS
  <2> QED
    BY <2>1, BeginsWith DEF Begins
<1>4. e[k] = p \o w
  BY <1>1, <1>2, OneMore
<1>5. PICK X \in Seq(Nat), Y \in Seq(Nat) : X = A \o p /\ Within(text, X, w, Y)
  <2>1. PICK m : m = e[Len(s)]
    OBVIOUS
  <2>2. m = (p \o w) \o B
    BY <1>3, <1>4, <2>1
  <2>3. Within(text, A, m, C)
    BY <2>1
  <2> QED
    BY <2>2, <2>3, Regrouped
<1>8. s[k] \in Bytes /\ Len(e[k]) = Len(p) + Len(w)
  BY <1>1, <1>2, OneMore
<1>9. Len(X) = Len(A) + Len(p)
  BY <1>5, Joined
<1>10. StandsAt(text, Len(X) + 1, s[k], Len(X) + Len(w) + 1) /\ Len(text) = Len(X) + Len(w) + Len(Y)
  <2>1. PICK c \in Bytes : c = s[k]
    BY <1>8
  <2>2. w = Escaped(c)
    BY <1>1, <2>1
  <2>3. Within(text, X, Escaped(c), Y)
    BY <1>5, <2>2
  <2>4. StandsAt(text, Len(X) + 1, c, Len(X) + Len(Escaped(c)) + 1) /\ Len(text) = Len(X) + Len(Escaped(c)) + Len(Y)
    BY <2>3, EscapePlaced
  <2> QED
    BY <2>1, <2>2, <2>4
<1>11. Len(A) \in Nat /\ Len(p) \in Nat /\ Len(w) \in Nat /\ Len(Y) \in Nat
  OBVIOUS
<1>12. Len(X) + Len(w) + 1 = Len(A) + Len(e[k]) + 1 /\ Len(A) + Len(e[k]) + 1 <= Len(text) + 1
  BY <1>8, <1>9, <1>10, <1>11
<1> QED
  BY <1>2, <1>9, <1>10, <1>12

\* decodeString gives the string back.
LEMMA DecodedAsWritten ==
  ASSUME NEW s \in Seq(Bytes)
  PROVE  EscapedAll(s) \in Seq(Nat) /\ DecodeString(EscapedAll(s)) = {s}
<1>1. PICK e : Encodes(e, s) /\ EscapedAll(s) = e[Len(s)]
  BY EncodedBySteps
<1> DEFINE n == Len(s)
           text == EscapedAll(s)
           N == Len(text)
           b == [k \in 0..N |-> IF k <= n THEN SubSeq(s, 1, k) ELSE s]
           p == [k \in 0..N |-> IF k <= n THEN Len(e[k]) + 1 ELSE N + 1]
<1>2. n \in Nat /\ text \in Seq(Nat) /\ e[n] = text /\ e[0] = <<>>
  BY <1>1 DEF Encodes
<1>3. N \in Nat /\ n <= N /\ N = Len(e[n])
  <2>1. n \in 0..n
    BY <1>2
  <2>2. Len(e[n]) \in Nat /\ n <= Len(e[n])
    BY <1>1, <2>1, AsManyAtLeast
  <2> QED
    BY <1>2, <2>2
<1>4. SubSeq(s, 1, 0) = <<>> /\ SubSeq(s, 1, n) = s
  OBVIOUS
<1>5. ASSUME NEW k \in 1..n
      PROVE  Round(text, SubSeq(s, 1, k - 1), Len(e[k - 1]) + 1, SubSeq(s, 1, k), Len(e[k]) + 1)
  <2>1. text = <<>> \o text \o <<>> /\ <<>> \in Seq(Nat) /\ Len(<<>>) = 0
    <3>1. text \o <<>> = text /\ <<>> \o text = text
      BY <1>2, ConcatEmptySeq
    <3> QED
      BY <3>1
  <2>2. /\ StandsAt(text, Len(<<>>) + Len(e[k - 1]) + 1, s[k], Len(<<>>) + Len(e[k]) + 1)
        /\ Len(<<>>) + Len(e[k]) + 1 <= Len(text) + 1
    <3>1. Within(text, <<>>, e[Len(s)], <<>>)
      BY <1>1, <2>1 DEF Within
    <3> HIDE DEF text
    <3> QED
      BY <1>1, <2>1, <3>1, EachStands
  <2>3. PICK i \in Nat \ {0} : i = Len(e[k - 1]) + 1
    <3>1. e[k - 1] \in Seq(Nat)
      BY <1>1, OneMore
    <3>2. Len(e[k - 1]) \in Nat
      BY <3>1
    <3> QED
      BY <3>2
  <2>4. PICK j \in Nat : j = Len(e[k]) + 1
    <3>1. e[k] \in Seq(Nat)
      BY <1>1, OneMore
    <3>2. Len(e[k]) \in Nat
      BY <3>1
    <3> QED
      BY <3>2
  <2>5. StandsAt(text, i, s[k], j) /\ j <= N + 1
    <3>1. 0 + Len(e[k - 1]) + 1 = i /\ 0 + Len(e[k]) + 1 = j
      BY <2>3, <2>4
    <3> QED
      BY <2>1, <2>2, <3>1
  <2>6. s[k] \in Bytes
    BY <1>1, OneMore
  <2>7. Round(text, SubSeq(s, 1, k - 1), i, SubSeq(s, 1, k - 1) \o <<s[k]>>, j)
    <3> HIDE DEF text
    <3> QED
      BY <1>3, <2>5, <2>6, EscapeRead
  <2>8. SubSeq(s, 1, k - 1) \o <<s[k]>> = SubSeq(s, 1, k)
    OBVIOUS
  <2> QED
    BY <2>3, <2>4, <2>7, <2>8
<1>6. ASSUME NEW x
      PROVE  Round(text, x, N + 1, x, N + 1)
  <2>1. AtEnd(text, N + 1)
    BY <1>3 DEF AtEnd
  <2> QED
    BY <2>1, OnceStays
<1> HIDE DEF text, N
<1>7. /\ \A k \in 0..n : b[k] = SubSeq(s, 1, k) /\ p[k] = Len(e[k]) + 1
      /\ \A k \in 0..N : k >= n => b[k] = s /\ p[k] = N + 1
  <2>1. ASSUME NEW k \in 0..n
        PROVE  b[k] = SubSeq(s, 1, k) /\ p[k] = Len(e[k]) + 1
    <3>1. k \in 0..N /\ k <= n
      BY <1>2, <1>3
    <3> QED
      BY <3>1
  <2>2. ASSUME NEW k \in 0..N, k >= n
        PROVE  b[k] = s /\ p[k] = N + 1
    <3>1. k = n \/ ~(k <= n)
      BY <1>2, <1>3, <2>2
    <3>2. CASE k = n
      <4>1. k <= n /\ b[k] = SubSeq(s, 1, k) /\ p[k] = Len(e[k]) + 1
        BY <1>2, <3>2
      <4> QED
        BY <1>3, <1>4, <3>2, <4>1
    <3>3. CASE ~(k <= n)
      BY <3>3
    <3> QED
      BY <3>1, <3>2, <3>3
  <2> QED
    BY <2>1, <2>2
<1> HIDE DEF b, p
<1>8. ASSUME NEW k \in 1..N
      PROVE  Round(text, b[k - 1], p[k - 1], b[k], p[k])
  <2>1. CASE k \in 1..n
    <3>1. k - 1 \in 0..n /\ k \in 0..n
      BY <1>2, <2>1
    <3> QED
      BY <1>5, <1>7, <2>1, <3>1
  <2>2. CASE k > n
    <3>1. k - 1 \in 0..N /\ k \in 0..N /\ k - 1 >= n /\ k >= n
      BY <1>2, <1>3, <2>2
    <3> QED
      BY <1>6, <1>7, <3>1
  <2> QED
    BY <1>2, <2>1, <2>2
<1>9. b[0] = <<>> /\ p[0] = 1 /\ b[N] = s
  <2>1. 0 \in 0..n /\ N \in 0..N /\ N >= n /\ Len(<<>>) + 1 = 1
    BY <1>2, <1>3
  <2> QED
    BY <1>2, <1>4, <1>7, <2>1
<1>10. DecodesBy(b, p, text)
  BY <1>8, <1>9 DEF DecodesBy, N
<1>11. DecodeString(text) = {b[N]}
  BY <1>3, <1>10, DecodesToLast DEF N
<1> QED
  BY <1>2, <1>9, <1>11 DEF text

\* A walk that has come to where it stays is there at its end.
LEMMA StaysThere ==
  ASSUME NEW f, NEW n \in Nat, NEW m \in 0..n, \A i \in 1..n : f[i - 1] = f[m] => f[i] = f[m]
  PROVE  f[n] = f[m]
<1> DEFINE Good == {i \in 0..n : i < m \/ f[i] = f[m]}
<1>1. 0 \in Good
  <2>1. 0 \in 0..n /\ (0 < m \/ 0 = m)
    OBVIOUS
  <2> QED
    BY <2>1
<1>2. ASSUME NEW i \in 1..n, i - 1 \in Good
      PROVE  i \in Good
  <2>1. i < m \/ i = m \/ f[i - 1] = f[m]
    BY <1>2
  <2> QED
    BY <2>1
<1>3. 0..n \subseteq Good
  <2> HIDE DEF Good
  <2> QED
    BY <1>1, <1>2, Upwards
<1>4. n \in Good /\ ~(n < m)
  BY <1>3
<1> QED
  BY <1>4

\* In a text between quotes, whatever follows, readString finds the closing quote.
ClosedAt(text, t, Q) == Q = Len(t) + 2 /\ Q <= Len(text) /\ text[Q] = Quote

\* readString stops at the first quote that is not escaped: the one the writer put last.
LEMMA QuoteFound ==
  ASSUME NEW s \in Seq(Bytes), NEW e, Encodes(e, s), NEW C \in Seq(Nat), NEW q \in Seq(Nat), Len(q) = 1,
         NEW text \in Seq(Nat), NEW t \in Seq(Nat), t = e[Len(s)], Within(text, q, t, C),
         NEW Q \in Nat, ClosedAt(text, t, Q)
  PROVE  ReadString(text) = {Q}
<1>0. PICK L \in Nat, N \in Nat : L = Len(e[Len(s)]) /\ N = Len(text) /\ Q = L + 2 /\ Q <= N /\ text[Q] = Quote
  <2>1. Len(t) \in Nat /\ Len(text) \in Nat
    OBVIOUS
  <2> QED
    BY <2>1 DEF ClosedAt
<1> USE <1>0
<1> DEFINE n == Len(s)
<1>1. PICK f \in [0..N -> Nat] :
        /\ f[0] = 2 /\ \A k \in 1..N : f[k] = SkipChar(text, f[k - 1])
        /\ ReadString(text) = {f[N]} \cap DOMAIN text
  BY ReadsBySteps
<1>2. SkipsBy(f, N, text)
  BY <1>1 DEF SkipsBy
<1> DEFINE Comes(k) == \E m \in Nat : m <= Len(e[k]) /\ f[m] = Len(e[k]) + 2
           Good == {k \in 0..n : Comes(k)}
<1>3. n \in Nat
  OBVIOUS
<1>4. 0 \in Good
  <2>1. e[0] = <<>> /\ Len(<<>>) = 0
    BY DEF Encodes
  <2>2. 0 <= Len(e[0]) /\ f[0] = Len(e[0]) + 2
    BY <1>1, <2>1
  <2> QED
    BY <1>3, <2>2
<1>5. ASSUME NEW k \in 1..n, k - 1 \in Good
      PROVE  k \in Good
  <2>1. /\ s[k] \in Bytes /\ e[k - 1] \in Seq(Nat) /\ e[k] \in Seq(Nat)
        /\ Len(Escaped(s[k])) \in 1..6 /\ Len(e[k]) = Len(e[k - 1]) + Len(Escaped(s[k]))
    BY OneMore
  <2>2. PICK a \in Nat : a = Len(e[k - 1])
    BY OneMore
  <2>3. PICK b \in Nat : b = Len(e[k])
    BY OneMore
  <2>4. a <= b
    <3>1. PICK d \in 1..6 : b = a + d
      BY <2>1, <2>2, <2>3
    <3> QED
      BY <3>1
  <2>5. PICK x \in Nat \ {0} : x = a + 2
    OBVIOUS
  <2>6. PICK y \in Nat : y = b + 2
    OBVIOUS
  <2>7. StandsAt(text, x, s[k], y) /\ y <= Len(text) + 1
    <3>1. /\ StandsAt(text, Len(q) + Len(e[k - 1]) + 1, s[k], Len(q) + Len(e[k]) + 1)
          /\ Len(q) + Len(e[k]) + 1 <= Len(text) + 1
      BY EachStands
    <3>2. 1 + a + 1 = x /\ 1 + b + 1 = y
      BY <2>5, <2>6
    <3> QED
      BY <2>2, <2>3, <3>1, <3>2
  <2>8. PICK m \in Nat : m <= a /\ f[m] = a + 2
    <3>1. Comes(k - 1)
      BY <1>5
    <3> QED
      BY <2>2, <3>1
  <2>9. f[m] = x /\ y <= N + 1 /\ Len(text) \in Nat
    BY <2>5, <2>7, <2>8
  <2>10. Room(m, x, y, N)
    BY <2>4, <2>5, <2>6, <2>8, <2>9 DEF Room
  <2>11. Arrives(f, m, x, y)
    BY <1>2, <2>1, <2>7, <2>9, <2>10, EscapeSkipped
  <2>12. PICK j \in Nat : j <= y - x /\ f[m + j] = y
    BY <2>11 DEF Arrives
  <2>13. PICK i \in Nat : i = m + j
    OBVIOUS
  <2>14. i <= b
    BY <2>4, <2>5, <2>6, <2>8, <2>12, <2>13
  <2>15. f[i] = b + 2
    BY <2>6, <2>12, <2>13
  <2>16. Comes(k)
    BY <2>3, <2>14, <2>15
  <2>17. k \in 0..n
    BY <1>3
  <2> HIDE DEF Comes
  <2> QED
    BY <2>16, <2>17
<1>6. Comes(n)
  <2>1. 0..n \subseteq Good
    <3> HIDE DEF Good, n
    <3> QED
      BY <1>3, <1>4, <1>5, Upwards
  <2> HIDE DEF Comes, n
  <2>2. n \in 0..n
    BY <1>3
  <2>3. n \in Good
    BY <2>1, <2>2
  <2> QED
    BY <2>3
<1>7. PICK m \in Nat : m <= L /\ f[m] = Q
  BY <1>6
<1>8. ASSUME NEW i \in 1..N, f[i - 1] = f[m]
      PROVE  f[i] = f[m]
  <2>1. AtEnd(text, Q)
    BY DEF AtEnd
  <2>2. SkipChar(text, Q) = Q
    BY <2>1 DEF SkipChar
  <2> QED
    BY <1>1, <1>7, <1>8, <2>2
<1>9. f[N] = Q
  <2>1. m \in 0..N
    BY <1>7
  <2> HIDE DEF Comes
  <2> QED
    BY <1>7, <1>8, <2>1, StaysThere
<1>10. Q \in DOMAIN text
  <2>1. DOMAIN text = 1..N
    OBVIOUS
  <2> QED
    BY <2>1
<1> QED
  BY <1>1, <1>9, <1>10

\* All of a text but its first and its last character.
LEMMA InnerPart ==
  ASSUME NEW w \in Seq(Nat), NEW L \in Nat, Len(w) = L + 2
  PROVE  /\ SubSeq(w, 2, L + 1) \in Seq(Nat) /\ Len(SubSeq(w, 2, L + 1)) = L
         /\ \A i \in 1..L : SubSeq(w, 2, L + 1)[i] = w[1 + i]
<1>1. 2 \in Int /\ L + 1 \in Int
  OBVIOUS
<1>2. \A i \in 2..L + 1 : w[i] \in Nat
  OBVIOUS
<1>3. /\ SubSeq(w, 2, L + 1) \in Seq(Nat)
      /\ Len(SubSeq(w, 2, L + 1)) = IF 2 <= L + 1 THEN L + 1 - 2 + 1 ELSE 0
      /\ \A i \in 1..L + 1 - 2 + 1 : SubSeq(w, 2, L + 1)[i] = w[2 + i - 1]
  BY <1>1, <1>2, SubSeqProperties
<1>4. ASSUME NEW i \in 1..L
      PROVE  SubSeq(w, 2, L + 1)[i] = w[1 + i]
  <2>1. i \in 1..L + 1 - 2 + 1 /\ 2 + i - 1 = 1 + i
    OBVIOUS
  <2> QED
    BY <1>3, <2>1
<1> QED
  BY <1>3, <1>4

\* readString and decodeString give back what valueToQuotedString wrote.
LEMMA StringsReadBack ==
  ASSUME NEW s \in Seq(Bytes), NEW following \in Seq(Nat)
  PROVE  ReadsBack(s, following)
<1> DEFINE t == EscapedAll(s)
<1>1. PICK e : Encodes(e, s) /\ t = e[Len(s)]
  BY EncodedBySteps
<1>2. t \in Seq(Nat) /\ DecodeString(t) = {s}
  BY DecodedAsWritten
<1> HIDE DEF t
<1>3. PICK q \in Seq(Nat) : q = <<Quote>>
  <2>1. Quote \in Nat
    BY DEF Quote
  <2>2. <<Quote>> \in Seq(Nat)
    BY <2>1
  <2> QED
    BY <2>2, Zenon
<1>4. Len(q) = 1 /\ q[1] = Quote
  BY <1>3
<1>5. PICK w \in Seq(Nat) : w = ValueToQuotedString(s) /\ w = q \o t \o q
  <2>1. PICK a \in Seq(Nat) : a = q \o t
    BY <1>2, Joined
  <2>2. PICK b \in Seq(Nat) : b = a \o q
    BY Joined
  <2>3. b = q \o t \o q
    BY <2>1, <2>2
  <2>4. ValueToQuotedString(s) = q \o t \o q
    BY <1>3 DEF ValueToQuotedString, t
  <2> QED
    BY <2>3, <2>4
<1>6. PICK L \in Nat : L = Len(t)
  BY <1>2
<1>7. Len(w) = L + 2 /\ SubSeq(w, 2, Len(w) - 1) = t
  <2>1. Len(w) = Len(q) + Len(t) + Len(q) /\ \A i \in 1..Len(t) : w[Len(q) + i] = t[i]
    BY <1>2, <1>5, Placed
  <2>2. Len(w) = L + 2 /\ \A i \in 1..L : w[1 + i] = t[i]
    BY <1>4, <1>6, <2>1
  <2>3. PICK z : z = SubSeq(w, 2, L + 1)
    OBVIOUS
  <2>4. z \in Seq(Nat) /\ Len(z) = L /\ \A i \in 1..L : z[i] = w[1 + i]
    BY <2>2, <2>3, InnerPart
  <2>5. \A i \in 1..L : z[i] = t[i]
    BY <2>2, <2>4
  <2>6. z = t
    <3>1. Len(z) = Len(t) /\ \A i \in 1..Len(z) : z[i] = t[i]
      BY <1>6, <2>4, <2>5
    <3> QED
      BY <1>2, <2>4, <3>1, SeqEqual, SMTT(60)
  <2>7. Len(w) - 1 = L + 1
    BY <2>2
  <2> QED
    BY <2>2, <2>3, <2>6, <2>7
<1>8. PICK text \in Seq(Nat) : text = w \o following
  BY Joined
<1>9. PICK C \in Seq(Nat) : C = q \o following
  BY Joined
<1>10. Within(text, q, t, C)
  <2>1. PICK a \in Seq(Nat) : a = q \o t
    BY <1>2, Joined
  <2>2. a \o (q \o following) = (a \o q) \o following
    BY Associative, SMTT(60)
  <2> QED
    BY <1>5, <1>8, <1>9, <2>1, <2>2 DEF Within
<1>11. L + 2 <= Len(text) /\ text[L + 2] = Quote
  <2>1. Len(text) = Len(w) + Len(following) /\ \A i \in 1..Len(w) : text[i] = w[i]
    BY <1>8, Joined
  <2>2. PICK a \in Seq(Nat) : a = q \o t
    BY <1>2, Joined
  <2>3. Len(a) = L + 1
    <3>1. Len(a) = Len(q) + Len(t)
      BY <1>2, <2>2, Joined
    <3> QED
      BY <1>4, <1>6, <3>1
  <2>4. w = a \o q
    BY <1>5, <2>2
  <2>5. \A i \in 1..Len(q) : w[Len(a) + i] = q[i]
    BY <2>4, Joined
  <2>6. 1 \in 1..Len(q) /\ Len(a) + 1 = L + 2 /\ L + 2 \in 1..Len(w)
    BY <1>4, <1>7, <2>3
  <2>7. w[L + 2] = Quote
    BY <1>4, <2>5, <2>6
  <2>8. Len(following) \in Nat
    OBVIOUS
  <2> QED
    BY <1>7, <2>1, <2>6, <2>7, <2>8
<1>12. ReadString(text) = {L + 2}
  <2>1. PICK Q \in Nat : Q = L + 2
    OBVIOUS
  <2>2. ClosedAt(text, t, Q)
    BY <1>6, <1>11, <2>1 DEF ClosedAt
  <2>3. ReadString(text) = {Q}
    BY <1>1, <1>2, <1>4, <1>10, <2>2, QuoteFound
  <2> QED
    BY <2>1, <2>3
<1> QED
  BY <1>2, <1>5, <1>7, <1>8, <1>12 DEF ReadsBack

\* Sequences of up to two numbers are sequences of numbers.
LEMMA ShortSeqs == <<>> \in Seq(Nat) /\ \A x, y \in Nat : <<x>> \in Seq(Nat) /\ <<x, y>> \in Seq(Nat)
<1>1. <<>> \in Seq(Nat)
  OBVIOUS
<1>2. ASSUME NEW x \in Nat, NEW y \in Nat
      PROVE  <<x>> \in Seq(Nat) /\ <<x, y>> \in Seq(Nat)
  OBVIOUS
<1> QED
  BY <1>1, <1>2

\* Every integer that is spelled out is read as itself, if it is below 2^53; else as a double
\* that differs from it by less than the last digit of a mantissa, or as infinite if no
\* double reaches it.  Every string comes back, and every code point that is no surrogate
\* becomes its UTF-8 (json_reader.cpp, json_writer.cpp).
THEOREM AllScalarsReadBack ==
  ASSUME subject.kind = "number" => /\ subject.negative \in BOOLEAN
                                    /\ subject.digits \in Seq(Digits) /\ subject.digits # <<>>,
         subject.kind = "string" => subject.s \in Seq(Bytes),
         subject.kind = "code point" => subject.cp \in CodePoints
  PROVE  ScalarsReadBack
<1>1. ASSUME subject.kind = "number"
      PROVE  NumberIsRead(subject.negative, subject.digits)
  BY <1>1, NumbersAreRead
<1>2. subject.kind = "string" =>
        \A following \in {<<>>, <<34>>, <<92>>, <<44, 34>>} : ReadsBack(subject.s, following)
  <2>1. <<>> \in Seq(Nat) /\ <<34>> \in Seq(Nat) /\ <<92>> \in Seq(Nat) /\ <<44, 34>> \in Seq(Nat)
    BY ShortSeqs
  <2>2. \A following \in {<<>>, <<34>>, <<92>>, <<44, 34>>} : following \in Seq(Nat)
    BY <2>1, Zenon
  <2>3. \A following \in Seq(Nat) : subject.kind = "string" => ReadsBack(subject.s, following)
    BY StringsReadBack
  <2> QED
    BY <2>2, <2>3
<1>3. ASSUME subject.kind = "code point"
      PROVE  EscapeIsUtf8(subject.cp)
  BY <1>3, CodePointsAreUtf8
<1> QED
  BY <1>1, <1>2, <1>3 DEF ScalarsReadBack

-----------------------------------------------------------------------------
(* Messages *)

\* The members of an object that is put together of some fields.
LEMMA MembersHas ==
  ASSUME NEW f, NEW json, json = Members(f), NEW n \in DOMAIN f
  PROVE  IsMember(json, <<n>>) /\ Member(json, <<n>>) = f[n]
<1> DEFINE D == {<<k>> : k \in DOMAIN f}
           m == [x \in D |-> f[x[1]]]
<1>1. json.type = "object" /\ json.map = m
  BY DEF Members, Obj
<1>2. <<n>> \in D /\ <<n>>[1] = n
  OBVIOUS
<1>3. DOMAIN m = D /\ m[<<n>>] = f[n]
  BY <1>2
<1> HIDE DEF D, m
<1> QED
  BY <1>1, <1>2, <1>3 DEF IsMember, Member

\* An object holds what is to be read of it: r, by the names and types of some fields.  A
\* radius without a ball is an integer, 1, which is read as the real.
TellsOf(v, t, x) ==
  \/ t = "uint" /\ v = UInt(x)
  \/ t = "real" /\ (v = Real(x) \/ (v = Int_(1) /\ x = One))
Tells(json, fields, r) ==
  /\ r = [n \in DOMAIN fields |-> r[n]]
  /\ \A n \in DOMAIN fields : IsMember(json, <<n>>) /\ TellsOf(Member(json, <<n>>), fields[n], r[n])

\* An unsigned integer and a real tell of themselves.
LEMMA ToldAs ==
  ASSUME NEW v, NEW t, NEW x, (t = "uint" /\ v = UInt(x)) \/ (t = "real" /\ v = Real(x))
  PROVE  TellsOf(v, t, x)
BY DEF TellsOf

\* A value that tells of a number can be asked for it and is converted to it.
LEMMA TellsConverts ==
  ASSUME NEW v, NEW t, NEW x, TellsOf(v, t, x)
  PROVE  IsConvertibleTo(v, t) /\ (IF t = "uint" THEN AsUInt(v) ELSE AsDouble(v)) = {x}
<1>1. CASE t = "uint" /\ v = UInt(x)
  <2>1. v.type = "uint" /\ v.uint = x
    BY <1>1 DEF UInt
  <2> QED
    BY <1>1, <2>1 DEF IsConvertibleTo, AsUInt
<1>2. CASE t = "real" /\ v = Real(x)
  <2>1. v.type = "real" /\ v.real = x
    BY <1>2 DEF Real
  <2> QED
    BY <1>2, <2>1 DEF IsConvertibleTo, AsDouble
<1>3. CASE t = "real" /\ v = Int_(1) /\ x = One
  <2>1. v.type = "int" /\ v.int = 1
    BY <1>3 DEF Int_
  <2>2. AsDouble(v) = {One}
    BY <2>1, OneUnits DEF AsDouble
  <2> QED
    BY <1>3, <2>1, <2>2 DEF IsConvertibleTo
<1> QED
  BY <1>1, <1>2, <1>3 DEF TellsOf

\* An object that tells of its fields passes the guards and is read as them.
LEMMA ToldIsRead ==
  ASSUME NEW json, NEW fields, NEW r, Tells(json, fields, r)
  PROVE  Guarded(json, fields) = Message(r)
<1> DEFINE read == Read(json, fields)
<1>1. ASSUME NEW n \in DOMAIN fields
      PROVE  Has(json, n, fields[n]) /\ read[n] = {r[n]}
  <2>1. IsMember(json, <<n>>) /\ TellsOf(Member(json, <<n>>), fields[n], r[n])
    BY DEF Tells
  <2>2. read[n] = IF fields[n] = "uint" THEN AsUInt(Member(json, <<n>>)) ELSE AsDouble(Member(json, <<n>>))
    BY DEF Read
  <2> HIDE DEF read
  <2> QED
    BY <2>1, <2>2, TellsConverts DEF Has
<1>2. DOMAIN read = DOMAIN fields
  BY DEF Read
<1> HIDE DEF read
<1>3. AllHave(json, fields) /\ Converted(read)
  BY <1>1, <1>2 DEF AllHave, Converted
<1>4. ToRecord(read) = r
  <2>1. ASSUME NEW n \in DOMAIN fields
        PROVE  Only(read[n]) = r[n]
    BY <1>1 DEF Only
  <2>2. ToRecord(read) = [n \in DOMAIN fields |-> Only(read[n])]
    BY <1>2 DEF ToRecord
  <2>3. ToRecord(read) = [n \in DOMAIN fields |-> r[n]]
    BY <2>1, <2>2
  <2> QED
    BY <2>3 DEF Tells
<1> QED
  BY <1>3, <1>4 DEF Guarded, read

\* What programs send.  The ids of states have more bits than an unsigned integer; the
\* balls of a kind have one radius.
SameRadius(balls) == \A i, j \in DOMAIN balls : balls[i].radius = balls[j].radius
PlayersSent == [id : 0..MaxUInt, x : Reals, y : Reals, v_x : Reals, v_y : Reals, score : Reals, radius : Reals]
CoinsSent == [x : Reals, y : Reals, value : Reals, radius : Reals]
ResultsSent == [type : {"CLI_SUB_RESULT", "VIEW_SUB_RESULT"}, result : BOOLEAN, id : 0..MaxUInt]
TurnsSent == [type : {"TURN"}, state_id : Nat, player_id : 0..MaxUInt, a_x : Reals, a_y : Reals]
StatesSent ==
  {m \in [type : {"STATE"}, id : Nat, radius : Reals, time_delta : Reals, velocity_max : Reals,
          players : Seq(PlayersSent), coins : Seq(CoinsSent)] :
     SameRadius(m.players) /\ SameRadius(m.coins)}
Sent == [type : {"CLI_SUB_REQUEST", "VIEW_SUB_REQUEST", "FINISH"}] \cup ResultsSent \cup TurnsSent \cup StatesSent

\* An id is cut to an unsigned integer.
LEMMA CastIsRead ==
  ASSUME NEW n \in Nat
  PROVE  Cast(n) = UInt(n % (MaxUInt + 1)) /\ (n \in 0..MaxUInt => Cast(n) = UInt(n))
<1>1. n \in 0..MaxUInt => n % (MaxUInt + 1) = n
  BY Limits
<1> QED
  BY <1>1 DEF Cast

\* The type of a message is found.
LEMMA TypeFound ==
  ASSUME NEW json, NEW type \in MessageTypes, IsObject(json), IsMember(json, <<"type">>),
         Member(json, <<"type">>) = Word(type)
  PROVE  ParseValue(json) = CASE type \in {"CLI_SUB_RESULT", "VIEW_SUB_RESULT"} -> ParseResult(json, type)
                              [] type = "STATE" -> ParseState(json)
                              [] type = "TURN" -> ParseTurn(json)
                              [] OTHER -> Message([type |-> type])
<1> DEFINE t == Member(json, <<"type">>)
<1>1. AsString(t) = {<<type>>}
  BY DEF AsString, Word, Str
<1>2. TypeFrom(t) = {type}
  <2> HIDE DEF t
  <2>1. \A x, y : <<x>> = <<y>> => x = y
    OBVIOUS
  <2>2. \A x : {<<x>>} = {<<type>>} => x = type
    BY <2>1
  <2> QED
    BY <1>1, <2>2 DEF TypeFrom
<1>3. Only(TypeFrom(t)) = type
  BY <1>2 DEF Only
<1> HIDE DEF t
<1>4. AsString(t) # {} /\ TypeFrom(t) # {}
  BY <1>1, <1>2
<1> QED
  BY <1>3, <1>4 DEF ParseValue, t

\* Requests and FINISH have a type only.
LEMMA BareReceived ==
  ASSUME NEW m \in [type : {"CLI_SUB_REQUEST", "VIEW_SUB_REQUEST", "FINISH"}]
  PROVE  SentIsReceived(m)
<1> DEFINE f == [type |-> Word(m.type)]
           json == Members(f)
<1>1. BuildValue(m) = json
  BY DEF BuildValue
<1>2. IsMember(json, <<"type">>) /\ Member(json, <<"type">>) = Word(m.type)
  <2>1. "type" \in DOMAIN f /\ f["type"] = Word(m.type)
    OBVIOUS
  <2> HIDE DEF f
  <2> QED
    BY <2>1, MembersHas
<1>3. IsObject(json)
  BY DEF IsObject, Members, Obj
<1> HIDE DEF json
<1>4. m.type \in MessageTypes
  BY DEF MessageTypes
<1>5. ParseValue(json) = Message([type |-> m.type])
  BY <1>2, <1>3, <1>4, TypeFound
<1>6. m = [type |-> m.type]
  OBVIOUS
<1>7. Received(m) = NoMessage \/ Received(m) = Message(m)
  BY DEF Received
<1> QED
  BY <1>1, <1>5, <1>6, <1>7 DEF SentIsReceived

\* Answers to subscriptions that were accepted.
LEMMA ResultsReceived ==
  ASSUME NEW m \in ResultsSent
  PROVE  SentIsReceived(m)
<1> SUFFICES ASSUME m.result, Received(m) = Message(m)
             PROVE  ParseValue(BuildValue(m)) = Message(m)
  BY DEF SentIsReceived, Received, ResultsSent
<1> DEFINE f == [type |-> Word(m.type), result |-> Word("ok"), id |-> UInt(m.id)]
           json == Members(f)
           fields == [id |-> "uint"]
           r == [id |-> m.id]
<1>1. BuildValue(m) = json
  BY DEF BuildValue, BuildResult, ResultsSent
<1>2. /\ IsMember(json, <<"type">>) /\ Member(json, <<"type">>) = Word(m.type)
      /\ IsMember(json, <<"result">>) /\ Member(json, <<"result">>) = Word("ok")
      /\ IsMember(json, <<"id">>) /\ Member(json, <<"id">>) = UInt(m.id)
  <2>1. /\ "type" \in DOMAIN f /\ f["type"] = Word(m.type)
        /\ "result" \in DOMAIN f /\ f["result"] = Word("ok")
        /\ "id" \in DOMAIN f /\ f["id"] = UInt(m.id)
    OBVIOUS
  <2> HIDE DEF f
  <2> QED
    BY <2>1, MembersHas
<1>3. IsObject(json)
  BY DEF IsObject, Members, Obj
<1> HIDE DEF json
<1>4. m.type \in {"CLI_SUB_RESULT", "VIEW_SUB_RESULT"} /\ m.type \in MessageTypes
  BY DEF MessageTypes, ResultsSent
<1>5. ParseValue(json) = ParseResult(json, m.type)
  BY <1>2, <1>3, <1>4, TypeFound
<1>6. Tells(json, fields, r)
  <2>1. DOMAIN fields = {"id"} /\ fields["id"] = "uint" /\ r = [n \in {"id"} |-> r[n]] /\ r["id"] = m.id
    OBVIOUS
  <2> HIDE DEF fields, r
  <2> QED
    BY <1>2, <2>1 DEF Tells, TellsOf
<1>7. ParseResult(json, m.type) = With(Message(r), [type |-> m.type, result |-> TRUE])
  <2>1. Guarded(json, fields) = Message(r)
    <3> HIDE DEF fields, r
    <3> QED
      BY <1>6, ToldIsRead
  <2> QED
    BY <1>2, <2>1 DEF ParseResult, IsWord
<1>8. With(Message(r), [type |-> m.type, result |-> TRUE]) = Message(Merged([type |-> m.type, result |-> TRUE], r))
  BY DEF With, Message
<1>9. Merged([type |-> m.type, result |-> TRUE], r) = m
  <2> DEFINE g == [type |-> m.type, result |-> TRUE]
             z == Merged(g, r)
  <2>1. DOMAIN g = {"type", "result"} /\ DOMAIN r = {"id"} /\ g["type"] = m.type /\ g["result"] = TRUE /\ r["id"] = m.id
    OBVIOUS
  <2> HIDE DEF g, r
  <2>2. z = [n \in {"type", "result", "id"} |-> IF n \in {"type", "result"} THEN g[n] ELSE r[n]]
    BY <2>1 DEF Merged
  <2> HIDE DEF z
  <2>3. z["type"] = m.type /\ z["result"] = TRUE /\ z["id"] = m.id
    BY <2>1, <2>2
  <2>4. m.result = TRUE
    BY DEF ResultsSent
  <2>5. m = [n \in {"type", "result", "id"} |-> m[n]]
    BY DEF ResultsSent
  <2>6. z = [n \in {"type", "result", "id"} |-> z[n]]
    BY <2>2
  <2>7. \A n \in {"type", "result", "id"} : z[n] = m[n]
    BY <2>3, <2>4
  <2>8. z = m
    BY <2>5, <2>6, <2>7
  <2> QED
    BY <2>8 DEF z, g
<1> QED
  BY <1>1, <1>5, <1>7, <1>8, <1>9

\* Turns: the id of the state is cut, the rest is as it was sent.
LEMMA TurnsReceived ==
  ASSUME NEW m \in TurnsSent
  PROVE  SentIsReceived(m)
<1> DEFINE cut == m.state_id % (MaxUInt + 1)
           f == [type |-> Word("TURN"), state_id |-> Cast(m.state_id), id |-> Cast(m.player_id),
                 a_x |-> Real(m.a_x), a_y |-> Real(m.a_y)]
           json == Members(f)
           fields == [state_id |-> "uint", id |-> "uint", a_x |-> "real", a_y |-> "real"]
           r == [state_id |-> cut, id |-> m.player_id, a_x |-> m.a_x, a_y |-> m.a_y]
<1>1. BuildValue(m) = json /\ m.type = "TURN"
  BY DEF BuildValue, BuildTurn, TurnsSent
<1>2. /\ IsMember(json, <<"type">>) /\ Member(json, <<"type">>) = Word("TURN")
      /\ IsMember(json, <<"state_id">>) /\ Member(json, <<"state_id">>) = UInt(cut)
      /\ IsMember(json, <<"id">>) /\ Member(json, <<"id">>) = UInt(m.player_id)
      /\ IsMember(json, <<"a_x">>) /\ Member(json, <<"a_x">>) = Real(m.a_x)
      /\ IsMember(json, <<"a_y">>) /\ Member(json, <<"a_y">>) = Real(m.a_y)
  <2>1. /\ "type" \in DOMAIN f /\ f["type"] = Word("TURN")
        /\ "state_id" \in DOMAIN f /\ f["state_id"] = Cast(m.state_id)
        /\ "id" \in DOMAIN f /\ f["id"] = Cast(m.player_id)
        /\ "a_x" \in DOMAIN f /\ f["a_x"] = Real(m.a_x)
        /\ "a_y" \in DOMAIN f /\ f["a_y"] = Real(m.a_y)
    OBVIOUS
  <2>2. Cast(m.state_id) = UInt(cut) /\ Cast(m.player_id) = UInt(m.player_id)
    <3>1. m.state_id \in Nat /\ m.player_id \in Nat /\ m.player_id \in 0..MaxUInt
      BY Limits DEF TurnsSent
    <3> QED
      BY <3>1, CastIsRead
  <2> HIDE DEF f
  <2> QED
    BY <2>1, <2>2, MembersHas
<1>3. IsObject(json)
  BY DEF IsObject, Members, Obj
<1> HIDE DEF json
<1>4. ParseValue(json) = ParseTurn(json)
  BY <1>2, <1>3, TypeFound DEF MessageTypes
<1>5. Tells(json, fields, r)
  <2>1. /\ DOMAIN fields = {"state_id", "id", "a_x", "a_y"} /\ r = [n \in DOMAIN fields |-> r[n]]
        /\ fields["state_id"] = "uint" /\ fields["id"] = "uint" /\ fields["a_x"] = "real" /\ fields["a_y"] = "real"
        /\ r["state_id"] = cut /\ r["id"] = m.player_id /\ r["a_x"] = m.a_x /\ r["a_y"] = m.a_y
    OBVIOUS
  <2> HIDE DEF fields, r, cut
  <2>2. /\ IsMember(json, <<"state_id">>) /\ TellsOf(Member(json, <<"state_id">>), fields["state_id"], r["state_id"])
        /\ IsMember(json, <<"id">>) /\ TellsOf(Member(json, <<"id">>), fields["id"], r["id"])
        /\ IsMember(json, <<"a_x">>) /\ TellsOf(Member(json, <<"a_x">>), fields["a_x"], r["a_x"])
        /\ IsMember(json, <<"a_y">>) /\ TellsOf(Member(json, <<"a_y">>), fields["a_y"], r["a_y"])
    <3>1. TellsOf(Member(json, <<"state_id">>), fields["state_id"], r["state_id"])
      BY <1>2, <2>1, ToldAs
    <3>2. TellsOf(Member(json, <<"id">>), fields["id"], r["id"])
      BY <1>2, <2>1, ToldAs
    <3>3. TellsOf(Member(json, <<"a_x">>), fields["a_x"], r["a_x"])
      BY <1>2, <2>1, ToldAs
    <3>4. TellsOf(Member(json, <<"a_y">>), fields["a_y"], r["a_y"])
      BY <1>2, <2>1, ToldAs
    <3> QED
      BY <1>2, <3>1, <3>2, <3>3, <3>4
  <2> QED
    BY <2>1, <2>2 DEF Tells
<1>6. Guarded(json, fields) = Message(r)
  <2> HIDE DEF fields, r
  <2> QED
    BY <1>5, ToldIsRead
<1>7. ParseTurn(json) = Message([type |-> "TURN", state_id |-> cut, player_id |-> m.player_id,
                                 a_x |-> m.a_x, a_y |-> m.a_y])
  <2> HIDE DEF cut
  <2> QED
    BY <1>6 DEF ParseTurn, Message
<1>8. [m EXCEPT !.state_id = cut] = [type |-> "TURN", state_id |-> cut, player_id |-> m.player_id,
                                     a_x |-> m.a_x, a_y |-> m.a_y]
  BY DEF TurnsSent
<1>9. Received(m) = NoMessage \/ Received(m) = Message([m EXCEPT !.state_id = cut])
  BY <1>1 DEF Received
<1> QED
  BY <1>1, <1>4, <1>7, <1>8, <1>9 DEF SentIsReceived

\* A list is taken apart into its balls, if each element tells of its ball.
TellsBall(v, fields, radius, ball) ==
  IsObject(v) /\ \E r : Tells(v, fields, r) /\ Merged([radius |-> radius], r) = ball

\* A list whose elements tell of balls is read as these balls.
LEMMA ListRead ==
  ASSUME NEW V, NEW values \in Seq(V), NEW W, NEW balls \in Seq(W), Len(values) = Len(balls),
         NEW fields, NEW radius,
         \A i \in 1..Len(balls) : TellsBall(values[i], fields, radius, balls[i])
  PROVE  IsArray(ListOf(values)) /\ ParseBalls(ListOf(values), fields, radius) = Message(balls)
<1> DEFINE n == Len(balls)
           v == ListOf(values)
           of(i) == LET ball == Element(v, i - 1) IN
                    IF ~IsObject(ball) THEN Aborts
                    ELSE With(Guarded(ball, fields), [radius |-> radius])
           all == [i \in 1..Size(v) |-> of(i)]
           bad == {i \in DOMAIN all : all[i].outcome # "message"}
<1>1. n \in Nat /\ balls = [i \in 1..n |-> balls[i]]
  OBVIOUS
<1>2. IsArray(v) /\ Size(v) = n /\ \A i \in 1..n : Element(v, i - 1) = values[i]
  <2>1. CASE n = 0
    <3>1. values = <<>>
      <4>1. Len(values) = 0
        BY <2>1
      <4> HIDE DEF n
      <4> QED
        BY <4>1, EmptySeq
    <3>2. v.type = "null"
      BY <3>1 DEF ListOf, Null
    <3> HIDE DEF v
    <3> QED
      BY <2>1, <3>2 DEF IsArray, Size
  <2>2. CASE n # 0
    <3> DEFINE m == [i \in 0..n - 1 |-> values[i + 1]]
    <3>1. values # <<>> /\ Len(values) = n
      BY <2>2
    <3>2. v = Arr(m)
      <4>1. \A k : k = n => [i \in 0..k - 1 |-> values[i + 1]] = m
        OBVIOUS
      <4> HIDE DEF m, n
      <4> QED
        BY <3>1, <4>1 DEF ListOf
    <3>3. DOMAIN m = 0..n - 1 /\ \A i \in 0..n - 1 : m[i] = values[i + 1]
      OBVIOUS
    <3> HIDE DEF m, v
    <3>4. v.type = "array" /\ v.map = m
      BY <3>2 DEF Arr
    <3> HIDE DEF n
    <3>5. PICK D : D = 0..n - 1
      OBVIOUS
    <3>6. D \in SUBSET (0..n) /\ D # {} /\ n - 1 \in D /\ \A k \in D : k <= n - 1
      BY <1>1, <2>2, <3>5
    <3>7. Max(D) \in D /\ n - 1 <= Max(D) /\ Max(D) <= n - 1
      BY <1>1, <3>6, Greatest
    <3>8. Max(D) + 1 = n
      BY <1>1, <3>5, <3>7
    <3>9. Size(v) = n
      BY <3>3, <3>4, <3>5, <3>6, <3>8 DEF Size
    <3>10. ASSUME NEW i \in 1..n
           PROVE  Element(v, i - 1) = values[i]
      <4>1. i - 1 \in 0..n - 1 /\ (i - 1) + 1 = i
        BY <1>1
      <4> QED
        BY <3>3, <3>4, <4>1 DEF Element
    <3> QED
      BY <3>4, <3>9, <3>10 DEF IsArray
  <2> QED
    BY <2>1, <2>2
<1> HIDE DEF v, n
<1>3. ASSUME NEW i \in 1..n
      PROVE  all[i] = Message(balls[i])
  <2>1. IsObject(values[i]) /\ \E r : Tells(values[i], fields, r) /\ Merged([radius |-> radius], r) = balls[i]
    BY DEF TellsBall, n
  <2>2. PICK r : Tells(values[i], fields, r) /\ Merged([radius |-> radius], r) = balls[i]
    BY <2>1
  <2>3. Guarded(values[i], fields) = Message(r)
    BY <2>2, ToldIsRead
  <2>4. With(Message(r), [radius |-> radius]) = Message(balls[i])
    BY <2>2 DEF With, Message
  <2>5. of(i) = With(Guarded(values[i], fields), [radius |-> radius])
    BY <1>2, <2>1
  <2>6. all[i] = of(i)
    BY <1>2
  <2> HIDE DEF all, of
  <2> QED
    BY <2>3, <2>4, <2>5, <2>6
<1>4. DOMAIN all = 1..n
  BY <1>2
<1>5. ParseBalls(v, fields, radius) = IF bad # {} THEN all[Min(bad)] ELSE Message([i \in DOMAIN all |-> all[i].message])
  BY DEF ParseBalls
<1> HIDE DEF all
<1>6. ASSUME NEW i \in 1..n
      PROVE  all[i].outcome = "message" /\ all[i].message = balls[i]
  <2>1. \A x : Message(x).outcome = "message" /\ Message(x).message = x
    BY DEF Message
  <2> QED
    BY <1>3, <2>1
<1>7. bad = {}
  BY <1>4, <1>6
<1>8. [i \in DOMAIN all |-> all[i].message] = balls
  <2>1. [i \in DOMAIN all |-> all[i].message] = [i \in 1..n |-> balls[i]]
    BY <1>4, <1>6
  <2> QED
    BY <1>1, <2>1
<1> HIDE DEF bad
<1> QED
  BY <1>2, <1>5, <1>7, <1>8 DEF v

\* An object of some fields tells of those that are asked for.
LEMMA MembersTell ==
  ASSUME NEW f, NEW json, json = Members(f), NEW fields, NEW r, DOMAIN fields \subseteq DOMAIN f,
         r = [n \in DOMAIN fields |-> r[n]],
         \A n \in DOMAIN fields : TellsOf(f[n], fields[n], r[n])
  PROVE  IsObject(json) /\ Tells(json, fields, r)
<1>1. IsObject(json)
  BY DEF IsObject, Members, Obj
<1>2. ASSUME NEW n \in DOMAIN fields
      PROVE  IsMember(json, <<n>>) /\ TellsOf(Member(json, <<n>>), fields[n], r[n])
  <2>1. n \in DOMAIN f
    OBVIOUS
  <2> QED
    BY <2>1, MembersHas
<1> QED
  BY <1>1, <1>2 DEF Tells

\* A player's and a coin's object tells of all but the radius.
LEMMA PlayerTold ==
  ASSUME NEW p \in PlayersSent
  PROVE  TellsBall(BuildPlayer(p), PlayerFields, p.radius, p)
<1> DEFINE f == [id |-> UInt(p.id), x |-> Real(p.x), y |-> Real(p.y), v_x |-> Real(p.v_x),
                 v_y |-> Real(p.v_y), score |-> Real(p.score)]
           r == [id |-> p.id, x |-> p.x, y |-> p.y, v_x |-> p.v_x, v_y |-> p.v_y, score |-> p.score]
           N == {"id", "x", "y", "v_x", "v_y", "score"}
           g == [radius |-> p.radius]
<1>1. BuildPlayer(p) = Members(f)
  BY DEF BuildPlayer
<1>2. /\ DOMAIN f = N /\ DOMAIN r = N /\ DOMAIN PlayerFields = N
      /\ r = [n \in N |-> r[n]]
  BY DEF PlayerFields
<1>3. ASSUME NEW n \in N
      PROVE  TellsOf(f[n], PlayerFields[n], r[n])
  <2>1. \/ PlayerFields[n] = "uint" /\ f[n] = UInt(r[n])
        \/ PlayerFields[n] = "real" /\ f[n] = Real(r[n])
    <3>1. /\ PlayerFields["id"] = "uint" /\ f["id"] = UInt(p.id) /\ r["id"] = p.id
          /\ PlayerFields["x"] = "real" /\ f["x"] = Real(p.x) /\ r["x"] = p.x
          /\ PlayerFields["y"] = "real" /\ f["y"] = Real(p.y) /\ r["y"] = p.y
          /\ PlayerFields["v_x"] = "real" /\ f["v_x"] = Real(p.v_x) /\ r["v_x"] = p.v_x
          /\ PlayerFields["v_y"] = "real" /\ f["v_y"] = Real(p.v_y) /\ r["v_y"] = p.v_y
          /\ PlayerFields["score"] = "real" /\ f["score"] = Real(p.score) /\ r["score"] = p.score
      BY DEF PlayerFields
    <3> HIDE DEF f, r
    <3> QED
      BY <3>1
  <2> HIDE DEF f, r
  <2> QED
    BY <2>1, ToldAs
<1>4. Merged(g, r) = p
  <2>1. DOMAIN g = {"radius"} /\ DOMAIN g \cup DOMAIN r = N \cup {"radius"}
    BY <1>2
  <2>2. p = [n \in N \cup {"radius"} |-> p[n]]
    BY DEF PlayersSent
  <2>3. /\ g["radius"] = p["radius"] /\ r["id"] = p["id"] /\ r["x"] = p["x"] /\ r["y"] = p["y"]
        /\ r["v_x"] = p["v_x"] /\ r["v_y"] = p["v_y"] /\ r["score"] = p["score"]
    OBVIOUS
  <2>4. Merged(g, r) = [n \in N \cup {"radius"} |-> IF n \in {"radius"} THEN g[n] ELSE r[n]]
    <3> HIDE DEF g, r, N
    <3> QED
      BY <2>1 DEF Merged
  <2>5. ASSUME NEW n \in N \cup {"radius"}
        PROVE  (IF n \in {"radius"} THEN g[n] ELSE r[n]) = p[n]
    <3> HIDE DEF g, r
    <3> QED
      BY <2>3
  <2> HIDE DEF g, r, N
  <2> QED
    BY <2>2, <2>4, <2>5
<1>5. IsObject(BuildPlayer(p)) /\ Tells(BuildPlayer(p), PlayerFields, r)
  <2>1. DOMAIN PlayerFields \subseteq DOMAIN f /\ r = [n \in DOMAIN PlayerFields |-> r[n]]
    BY <1>2
  <2>2. \A n \in DOMAIN PlayerFields : TellsOf(f[n], PlayerFields[n], r[n])
    BY <1>2, <1>3
  <2> HIDE DEF f, r
  <2> QED
    BY <1>1, <2>1, <2>2, MembersTell
<1> HIDE DEF r, f, N
<1> QED
  BY <1>4, <1>5 DEF TellsBall

LEMMA CoinTold ==
  ASSUME NEW p \in CoinsSent
  PROVE  TellsBall(BuildCoin(p), CoinFields, p.radius, p)
<1> DEFINE f == [x |-> Real(p.x), y |-> Real(p.y), value |-> Real(p.value)]
           r == [x |-> p.x, y |-> p.y, value |-> p.value]
           N == {"x", "y", "value"}
           g == [radius |-> p.radius]
<1>1. BuildCoin(p) = Members(f)
  BY DEF BuildCoin
<1>2. /\ DOMAIN f = N /\ DOMAIN r = N /\ DOMAIN CoinFields = N
      /\ r = [n \in N |-> r[n]]
  BY DEF CoinFields
<1>3. ASSUME NEW n \in N
      PROVE  TellsOf(f[n], CoinFields[n], r[n])
  <2>1. CoinFields[n] = "real" /\ f[n] = Real(r[n])
    <3>1. /\ CoinFields["x"] = "real" /\ f["x"] = Real(p.x) /\ r["x"] = p.x
          /\ CoinFields["y"] = "real" /\ f["y"] = Real(p.y) /\ r["y"] = p.y
          /\ CoinFields["value"] = "real" /\ f["value"] = Real(p.value) /\ r["value"] = p.value
      BY DEF CoinFields
    <3> HIDE DEF f, r
    <3> QED
      BY <3>1
  <2> HIDE DEF f, r
  <2> QED
    BY <2>1, ToldAs
<1>4. Merged(g, r) = p
  <2>1. DOMAIN g = {"radius"} /\ DOMAIN g \cup DOMAIN r = N \cup {"radius"}
    BY <1>2
  <2>2. p = [n \in N \cup {"radius"} |-> p[n]]
    BY DEF CoinsSent
  <2>3. g["radius"] = p["radius"] /\ r["x"] = p["x"] /\ r["y"] = p["y"] /\ r["value"] = p["value"]
    OBVIOUS
  <2>4. Merged(g, r) = [n \in N \cup {"radius"} |-> IF n \in {"radius"} THEN g[n] ELSE r[n]]
    <3> HIDE DEF g, r, N
    <3> QED
      BY <2>1 DEF Merged
  <2>5. ASSUME NEW n \in N \cup {"radius"}
        PROVE  (IF n \in {"radius"} THEN g[n] ELSE r[n]) = p[n]
    <3> HIDE DEF g, r
    <3> QED
      BY <2>3
  <2> HIDE DEF g, r, N
  <2> QED
    BY <2>2, <2>4, <2>5
<1>5. IsObject(BuildCoin(p)) /\ Tells(BuildCoin(p), CoinFields, r)
  <2>1. DOMAIN CoinFields \subseteq DOMAIN f /\ r = [n \in DOMAIN CoinFields |-> r[n]]
    BY <1>2
  <2>2. \A n \in DOMAIN CoinFields : TellsOf(f[n], CoinFields[n], r[n])
    BY <1>2, <1>3
  <2> HIDE DEF f, r
  <2> QED
    BY <1>1, <2>1, <2>2, MembersTell
<1> HIDE DEF r, f, N
<1> QED
  BY <1>4, <1>5 DEF TellsBall

\* What ListOf makes of the balls of a state is read as they are.
LEMMA ListTold ==
  ASSUME NEW W, NEW balls \in Seq(W), NEW values, values = [i \in DOMAIN balls |-> values[i]],
         NEW fields, NEW radius,
         \A i \in DOMAIN balls : TellsBall(values[i], fields, radius, balls[i])
  PROVE  IsArray(ListOf(values)) /\ ParseBalls(ListOf(values), fields, radius) = Message(balls)
<1>1. PICK n \in Nat : n = Len(balls)
  OBVIOUS
<1>2. DOMAIN balls = 1..n
  BY <1>1
<1>3. PICK V : V = {values[i] : i \in 1..n}
  OBVIOUS
<1>4. values = [i \in 1..n |-> values[i]] /\ \A i \in 1..n : values[i] \in V
  BY <1>2, <1>3
<1>5. values \in [1..n -> V]
  BY <1>4
<1>6. values \in Seq(V) /\ Len(values) = n
  BY <1>5
<1>7. \A i \in 1..Len(balls) : TellsBall(values[i], fields, radius, balls[i])
  BY <1>1, <1>2
<1> QED
  BY <1>1, <1>6, <1>7, ListRead

\* The radius of the balls of a kind: the first one's, and 1 where there are none.
KindRadius(balls) == IF balls = <<>> THEN One ELSE balls[1].radius

\* The radius that is sent for a kind is that of each ball of the kind.
LEMMA RadiusTold ==
  ASSUME NEW W, NEW balls \in Seq(W), SameRadius(balls)
  PROVE  /\ TellsOf(RadiusOf(balls), "real", KindRadius(balls))
         /\ \A i \in DOMAIN balls : balls[i].radius = KindRadius(balls)
<1>1. CASE balls = <<>>
  BY <1>1 DEF RadiusOf, KindRadius, TellsOf
<1>2. CASE balls # <<>>
  <2>1. 1 \in DOMAIN balls
    <3>1. Len(balls) # 0 /\ Len(balls) \in Nat
      BY <1>2, EmptySeq
    <3> QED
      BY <3>1
  <2>2. KindRadius(balls) = balls[1].radius /\ RadiusOf(balls) = Real(balls[1].radius)
    BY <1>2 DEF RadiusOf, KindRadius
  <2> QED
    BY <2>1, <2>2 DEF SameRadius, TellsOf
<1> QED
  BY <1>1, <1>2

\* Lists of players and lists of coins are read as they were sent.
LEMMA PlayersTold ==
  ASSUME NEW balls \in Seq(PlayersSent), SameRadius(balls)
  PROVE  LET v == ListOf([i \in DOMAIN balls |-> BuildPlayer(balls[i])]) IN
         IsArray(v) /\ ParseBalls(v, PlayerFields, KindRadius(balls)) = Message(balls)
<1> DEFINE values == [i \in DOMAIN balls |-> BuildPlayer(balls[i])]
<1>1. PICK R : R = KindRadius(balls)
  OBVIOUS
<1>2. ASSUME NEW i \in DOMAIN balls
      PROVE  TellsBall(values[i], PlayerFields, R, balls[i])
  <2>1. PICK p : p = balls[i]
    OBVIOUS
  <2>2. p \in PlayersSent /\ p.radius = R
    BY <1>1, <2>1, RadiusTold
  <2>3. TellsBall(BuildPlayer(p), PlayerFields, R, p)
    BY <2>2, PlayerTold
  <2> QED
    BY <2>1, <2>3
<1>3. values = [i \in DOMAIN balls |-> values[i]]
  OBVIOUS
<1> HIDE DEF values
<1>4. IsArray(ListOf(values)) /\ ParseBalls(ListOf(values), PlayerFields, R) = Message(balls)
  BY <1>2, <1>3, ListTold
<1> QED
  BY <1>1, <1>4 DEF values

LEMMA CoinsTold ==
  ASSUME NEW balls \in Seq(CoinsSent), SameRadius(balls)
  PROVE  LET v == ListOf([i \in DOMAIN balls |-> BuildCoin(balls[i])]) IN
         IsArray(v) /\ ParseBalls(v, CoinFields, KindRadius(balls)) = Message(balls)
<1> DEFINE values == [i \in DOMAIN balls |-> BuildCoin(balls[i])]
<1>1. PICK R : R = KindRadius(balls)
  OBVIOUS
<1>2. ASSUME NEW i \in DOMAIN balls
      PROVE  TellsBall(values[i], CoinFields, R, balls[i])
  <2>1. PICK p : p = balls[i]
    OBVIOUS
  <2>2. p \in CoinsSent /\ p.radius = R
    BY <1>1, <2>1, RadiusTold
  <2>3. TellsBall(BuildCoin(p), CoinFields, R, p)
    BY <2>2, CoinTold
  <2> QED
    BY <2>1, <2>3
<1>3. values = [i \in DOMAIN balls |-> values[i]]
  OBVIOUS
<1> HIDE DEF values
<1>4. IsArray(ListOf(values)) /\ ParseBalls(ListOf(values), CoinFields, R) = Message(balls)
  BY <1>2, <1>3, ListTold
<1> QED
  BY <1>1, <1>4 DEF values

\* States: the id is cut, the rest is as it was sent.
LEMMA StatesReceived ==
  ASSUME NEW m \in StatesSent
  PROVE  SentIsReceived(m)
<1> DEFINE cut == m.id % (MaxUInt + 1)
           ps == ListOf([i \in DOMAIN m.players |-> BuildPlayer(m.players[i])])
           cs == ListOf([i \in DOMAIN m.coins |-> BuildCoin(m.coins[i])])
           pr == KindRadius(m.players)
           cr == KindRadius(m.coins)
           f == [type |-> Word("STATE"), state_id |-> Cast(m.id), field_radius |-> Real(m.radius),
                 player_radius |-> RadiusOf(m.players), coin_radius |-> RadiusOf(m.coins),
                 time_delta |-> Real(m.time_delta), velocity_max |-> Real(m.velocity_max),
                 players |-> ps, coins |-> cs]
           json == Members(f)
           r == [state_id |-> cut, field_radius |-> m.radius, player_radius |-> pr,
                 coin_radius |-> cr, time_delta |-> m.time_delta, velocity_max |-> m.velocity_max]
           N == {"state_id", "field_radius", "player_radius", "coin_radius", "time_delta", "velocity_max"}
           told == [type |-> "STATE", id |-> cut, radius |-> m.radius, time_delta |-> m.time_delta,
                    velocity_max |-> m.velocity_max, players |-> m.players, coins |-> m.coins]
<1>1. BuildValue(m) = json /\ m.type = "STATE"
  BY DEF BuildValue, BuildState, StatesSent
<1>2. /\ m.id \in Nat /\ m.players \in Seq(PlayersSent) /\ m.coins \in Seq(CoinsSent)
      /\ SameRadius(m.players) /\ SameRadius(m.coins)
  BY DEF StatesSent
<1>3. /\ IsArray(ps) /\ ParseBalls(ps, PlayerFields, pr) = Message(m.players)
      /\ IsArray(cs) /\ ParseBalls(cs, CoinFields, cr) = Message(m.coins)
  BY <1>2, PlayersTold, CoinsTold
<1>4. TellsOf(RadiusOf(m.players), "real", pr) /\ TellsOf(RadiusOf(m.coins), "real", cr)
  BY <1>2, RadiusTold
<1>5. Cast(m.id) = UInt(cut)
  BY <1>2, CastIsRead
<1>6. /\ DOMAIN f = N \cup {"type", "players", "coins"} /\ DOMAIN r = N /\ DOMAIN StateFields = N
      /\ r = [n \in N |-> r[n]]
      /\ f["type"] = Word("STATE") /\ f["players"] = ps /\ f["coins"] = cs
  BY DEF StateFields
<1>7. [m EXCEPT !.id = cut] = told
  BY DEF StatesSent
<1>8. ASSUME NEW n \in N
      PROVE  TellsOf(f[n], StateFields[n], r[n])
  <2>1. /\ StateFields["state_id"] = "uint" /\ f["state_id"] = Cast(m.id) /\ r["state_id"] = cut
        /\ StateFields["field_radius"] = "real" /\ f["field_radius"] = Real(m.radius) /\ r["field_radius"] = m.radius
        /\ StateFields["player_radius"] = "real" /\ f["player_radius"] = RadiusOf(m.players)
        /\ r["player_radius"] = pr
        /\ StateFields["coin_radius"] = "real" /\ f["coin_radius"] = RadiusOf(m.coins) /\ r["coin_radius"] = cr
        /\ StateFields["time_delta"] = "real" /\ f["time_delta"] = Real(m.time_delta) /\ r["time_delta"] = m.time_delta
        /\ StateFields["velocity_max"] = "real" /\ f["velocity_max"] = Real(m.velocity_max)
        /\ r["velocity_max"] = m.velocity_max
    BY DEF StateFields
  <2> HIDE DEF f, r, cut, pr, cr
  <2>2. \A x : TellsOf(UInt(x), "uint", x) /\ TellsOf(Real(x), "real", x)
    BY DEF TellsOf
  <2> QED
    BY <1>4, <1>5, <2>1, <2>2
<1> HIDE DEF ps, cs, pr, cr, cut
<1>9. IsObject(json) /\ Tells(json, StateFields, r)
  <2> HIDE DEF f, r
  <2>1. DOMAIN StateFields \subseteq DOMAIN f /\ r = [n \in DOMAIN StateFields |-> r[n]]
    BY <1>6
  <2>2. \A n \in DOMAIN StateFields : TellsOf(f[n], StateFields[n], r[n])
    BY <1>6, <1>8
  <2> QED
    BY <2>1, <2>2, MembersTell
<1>10. /\ IsMember(json, <<"type">>) /\ Member(json, <<"type">>) = Word("STATE")
       /\ IsMember(json, <<"players">>) /\ Member(json, <<"players">>) = ps
       /\ IsMember(json, <<"coins">>) /\ Member(json, <<"coins">>) = cs
  <2> HIDE DEF f
  <2>1. "type" \in DOMAIN f /\ "players" \in DOMAIN f /\ "coins" \in DOMAIN f
    BY <1>6
  <2> QED
    BY <1>6, <2>1, MembersHas
<1> HIDE DEF json
<1>11. ParseValue(json) = ParseState(json)
  BY <1>9, <1>10, TypeFound DEF MessageTypes
<1>12. Guarded(json, StateFields) = Message(r)
  <2> HIDE DEF r
  <2> QED
    BY <1>9, ToldIsRead
<1>13. ParseState(json) = Message(told)
  <2> DEFINE head == Guarded(json, StateFields)
             list(n, fields, radius) ==
               IF IsMember(json, <<n>>) /\ IsArray(Member(json, <<n>>))
               THEN ParseBalls(Member(json, <<n>>), fields, radius) ELSE NoMessage
             h == head.message
             pl == list("players", PlayerFields, h.player_radius)
             co == list("coins", CoinFields, h.coin_radius)
             z == [type |-> "STATE", id |-> h.state_id, radius |-> h.field_radius,
                   time_delta |-> h.time_delta, velocity_max |-> h.velocity_max,
                   players |-> pl.message, coins |-> co.message]
  <2>1. ParseState(json) = IF head.outcome # "message" THEN head
                           ELSE IF pl.outcome # "message" THEN pl
                           ELSE IF co.outcome # "message" THEN co ELSE Message(z)
    BY DEF ParseState
  <2>2. head.outcome = "message" /\ h = r
    BY <1>12 DEF Message
  <2>3. /\ h.player_radius = pr /\ h.coin_radius = cr /\ h.state_id = cut /\ h.field_radius = m.radius
        /\ h.time_delta = m.time_delta /\ h.velocity_max = m.velocity_max
    <3> HIDE DEF h
    <3> QED
      BY <2>2
  <2>4. pl = Message(m.players) /\ co = Message(m.coins)
    <3> HIDE DEF h
    <3> QED
      BY <1>3, <1>10, <2>3
  <2> HIDE DEF head, h, pl, co
  <2>5. pl.outcome = "message" /\ co.outcome = "message" /\ pl.message = m.players /\ co.message = m.coins
    BY <2>4 DEF Message
  <2>6. z = told
    BY <2>3, <2>5
  <2> HIDE DEF z, told
  <2> QED
    BY <2>1, <2>2, <2>5, <2>6
<1>14. Received(m) = NoMessage \/ Received(m) = Message([m EXCEPT !.id = cut])
  BY <1>1 DEF Received, cut
<1> QED
  BY <1>1, <1>7, <1>11, <1>13, <1>14 DEF SentIsReceived

\* Whatever message of the protocol a program sends, with any numbers, any number of
\* players and any number of coins, ParseJsonMessage makes of the document, as it is before
\* it is written, what BuildJsonMessage was given, with the ids of states cut to an unsigned
\* int; refusals and numbers that are none are the exceptions (protocol.cpp).
THEOREM EverySentIsReceived ==
  ASSUME NEW m \in Sent
  PROVE  SentIsReceived(m)
BY BareReceived, ResultsReceived, TurnsReceived, StatesReceived DEF Sent
=============================================================================
