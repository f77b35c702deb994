----------------------------- MODULE JsonValue -----------------------------
(***************************************************************************)
(* Json::Value: a value of one of eight types, what each converts to, and   *)
(* the access to members and elements.  Integers have the width that        *)
(* MaxUInt gives them.  A real is a double, counted in units of the least   *)
(* one that is not 0, or NaN, which also stands for the infinities; the     *)
(* sign of 0 is left out.  A string or a member name is a sequence of       *)
(* symbols.  Arrays are maps from indices, as in the code: they may have    *)
(* gaps.                                                                    *)
(*                                                                         *)
(* A conversion that may throw yields a set: empty when it throws.          *)
(***************************************************************************)
EXTENDS Integers, Sequences, FiniteSetsExt, Functions

CONSTANTS MaxUInt,    \* Value::maxUInt, of width w it is 2^w - 1
          NaN,
          One,        \* the units of the real 1: 2^1074
          Precision,  \* a double has a mantissa below this: 2^53
          Ulps        \* the distances of neighboring doubles: 1, 2, 4 to 2^2045

ASSUME JsonAssumption == MaxUInt \in Nat /\ MaxUInt % 2 = 1

\* A double is a mantissa times a distance; a larger distance is a multiple of a smaller
\* one.  Every integer is a double.
ASSUME DoubleAssumption ==
  /\ NaN \notin Int
  /\ Precision \in Nat /\ MaxUInt < Precision
  /\ Ulps \subseteq Nat \ {0} /\ {1, One} \subseteq Ulps
  /\ \A u \in Ulps : u = 1 \/ \E v \in Ulps : u = 2 * v
  /\ \A u, v \in Ulps : u <= v => \E k \in 1..v : v = k * u

MaxInt == MaxUInt \div 2
MinInt == -MaxInt - 1

Null == [type |-> "null"]
Int_(n) == [type |-> "int", int |-> n]
UInt(n) == [type |-> "uint", uint |-> n]
Real(x) == [type |-> "real", real |-> x]
Str(s) == [type |-> "string", string |-> s]
Bool(b) == [type |-> "boolean", bool |-> b]
Arr(m) == [type |-> "array", map |-> m]
Obj(m) == [type |-> "object", map |-> m]

NoElements == [i \in {} |-> Null]

\* double to integer: towards zero.
Truncated(x) == IF x >= 0 THEN x \div One ELSE -((-x) \div One)
RealIn(x, low, high) == x # NaN /\ x >= One * low /\ x <= One * high

AsInt(v) ==
  CASE v.type = "null" -> {0}
    [] v.type = "int" -> {v.int}
    [] v.type = "uint" -> {n \in {v.uint} : n < MaxInt}
    [] v.type = "real" -> {Truncated(x) : x \in {y \in {v.real} : RealIn(y, MinInt, MaxInt)}}
    [] v.type = "boolean" -> {IF v.bool THEN 1 ELSE 0}
    [] OTHER -> {}

AsUInt(v) ==
  CASE v.type = "null" -> {0}
    [] v.type = "int" -> {n \in {v.int} : n >= 0}
    [] v.type = "uint" -> {v.uint}
    [] v.type = "real" -> {Truncated(x) : x \in {y \in {v.real} : RealIn(y, 0, MaxUInt)}}
    [] v.type = "boolean" -> {IF v.bool THEN 1 ELSE 0}
    [] OTHER -> {}

AsDouble(v) ==
  CASE v.type = "null" -> {0}
    [] v.type = "int" -> {One * v.int}
    [] v.type = "uint" -> {One * v.uint}
    [] v.type = "real" -> {v.real}
    [] v.type = "boolean" -> {IF v.bool THEN One ELSE 0}
    [] OTHER -> {}

AsString(v) ==
  CASE v.type = "null" -> {<<>>}
    [] v.type = "string" -> {v.string}
    [] v.type = "boolean" -> {IF v.bool THEN <<"true">> ELSE <<"false">>}
    [] OTHER -> {}

\* isConvertibleTo.  Numbers are said to be convertible to strings, which asString
\* refuses, and an unsigned MaxInt to int, which asInt refuses.
IsConvertibleTo(v, t) ==
  CASE v.type = "null" -> TRUE
    [] v.type = "int" -> \/ t \in {"int", "real", "string", "boolean"}
                         \/ t = "uint" /\ v.int >= 0
                         \/ t = "null" /\ v.int = 0
    [] v.type = "uint" -> \/ t \in {"uint", "real", "string", "boolean"}
                          \/ t = "int" /\ v.uint <= MaxInt
                          \/ t = "null" /\ v.uint = 0
    [] v.type = "real" -> \/ t \in {"real", "string", "boolean"}
                          \/ t = "int" /\ RealIn(v.real, MinInt, MaxInt)
                          \/ t = "uint" /\ RealIn(v.real, 0, MaxUInt)
                          \/ t = "null" /\ v.real = 0
    [] v.type = "boolean" -> \/ t \in {"int", "uint", "real", "string", "boolean"}
                             \/ t = "null" /\ ~v.bool
    [] v.type = "string" -> t = "string" \/ (t = "null" /\ v.string = <<>>)
    [] OTHER -> t = v.type \/ (t = "null" /\ DOMAIN v.map = {})

IsArray(v) == v.type \in {"null", "array"}
IsObject(v) == v.type \in {"null", "object"}

\* size: of an array, the highest index and one.
Size(v) ==
  CASE v.type = "array" -> IF DOMAIN v.map = {} THEN 0 ELSE Max(DOMAIN v.map) + 1
    [] v.type = "object" -> Cardinality(DOMAIN v.map)
    [] OTHER -> 0

\* The const operator[] on an array or an object (or null), and the other one, which
\* makes the value an array or an object if it was null.
Element(v, i) == IF v.type = "array" /\ i \in DOMAIN v.map THEN v.map[i] ELSE Null
Member(v, n) == IF v.type = "object" /\ n \in DOMAIN v.map THEN v.map[n] ELSE Null
IsMember(v, n) == v.type = "object" /\ n \in DOMAIN v.map

Put(m, k, x) == [j \in DOMAIN m \cup {k} |-> IF j = k THEN x ELSE m[j]]
SetElement(v, i, x) == Arr(Put(IF v.type = "array" THEN v.map ELSE NoElements, i, x))
SetMember(v, n, x) == Obj(Put(IF v.type = "object" THEN v.map ELSE NoElements, n, x))
AppendTo(v, x) == SetElement(v, Size(v), x)
=============================================================================
