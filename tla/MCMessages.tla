----------------------------- MODULE MCMessages -----------------------------
(* From bytes to messages.  The functions of Protocol, Json and JsonText are evaluated *)
(* on messages, documents, numbers and strings: one initial state for each, a property *)
(* for each kind.  Nothing happens in them.                                            *)
EXTENDS Protocol, StyledJson, Subjects

MCNames == [i \in 1..19 |-> <<<<"a_x", "a_y", "coin_radius", "coins", "field_radius", "id", "player_radius",
  "players", "result", "score", "state_id", "time_delta", "type", "v_x", "v_y", "value",
  "velocity_max", "x", "y">>[i]>>]

MCLeastFixed == -1

\* In units of 1/32: among them are 0, -1.40625, 1, 1/32, 110, 31.5.
Reals == {0, -45, 32, 1, 3520, 1008, NaN}
Doubles == {s * m * u : s \in {1, -1}, m \in 0..Precision - 1, u \in Ulps}

Ball(a, b) == [x |-> a, y |-> 41, radius |-> b]
PlayerOf(n, a) == [id |-> n, v_x |-> a, v_y |-> -5, score |-> 32] @@ Ball(a, 46)
CoinOf(a) == [value |-> a] @@ Ball(32, 17)

States == [type : {"STATE"}, id : {0, 7, MaxUInt, MaxUInt + 3}, radius : {1888}, time_delta : {0, 49},
           velocity_max : {384, NaN},
           players : {<<>>} \cup {<<PlayerOf(0, a)>> : a \in {-45, NaN}} \cup {<<PlayerOf(MaxUInt, 5), PlayerOf(1, 992)>>},
           coins : {<<>>} \cup {<<CoinOf(a), CoinOf(70)>> : a \in {0, 3520}}]
Turns == [type : {"TURN"}, state_id : {0, 12, MaxUInt + 1}, player_id : {0, MaxUInt}, a_x : Reals, a_y : Reals]
SomeMessages == [type : {"CLI_SUB_REQUEST", "VIEW_SUB_REQUEST", "FINISH"}]
  \cup [type : {"CLI_SUB_RESULT", "VIEW_SUB_RESULT"}, result : BOOLEAN, id : {0, 31, MaxUInt}]
  \cup States \cup Turns \cup [type : {"TURN"}, state_id : {3}, player_id : {1}, a_x : Doubles, a_y : {32}]

Cut == {m \in States : m.id = 7 /\ m.time_delta = 49 /\ NaN \notin RealsOf(m)}
  \cup {m \in Turns : m.player_id = 0 /\ m.a_x = -45}
Following == {[type |-> "FINISH"]} \cup {m \in Cut : m.type = "STATE" /\ m.players = <<>>}

\* A well-formed document with one of its members replaced by any other value.
Odd == {Null, Bool(TRUE), Int_(-1), Int_(3), UInt(MaxUInt), Real(-16), Real(2048), Real(NaN),
        Str(<<>>), Word("TURN"), Word("STATE"), Word("CLI_SUB_RESULT"), Word("ok"), Word("id"),
        Obj(NoElements), Members([id |-> Int_(4)]), Arr(NoElements), ListOf(<<Int_(1)>>), ListOf(<<Null>>),
        ListOf(<<BuildCoin(CoinOf(5)), Bool(FALSE)>>), ListOf(<<BuildPlayer(PlayerOf(1, 5)), Obj(NoElements)>>)}
Whole == {BuildValue(m) : m \in Cut \cup {[type |-> "CLI_SUB_RESULT", result |-> TRUE, id |-> 5]}}
Documents == Odd \cup {SetMember(v, n, x) : v \in Whole, n \in Range(Names), x \in Odd}
  \cup {Obj([k \in DOMAIN v.map \ {n} |-> v.map[k]]) : v \in Whole, n \in Range(Names)}

Strings == UNION {[1..n -> {8, 10, 31, 34, 47, 65, 92, 117, 127, 255}] : n \in 0..3}
SomeCodePoints == (0..300) \cup (1900..2100) \cup (55000..55295) \cup (57344..57500)
  \cup (65000..66000) \cup (1114000..1114111)

\* Arrays of arrays and other values, and objects of two of them.
Parts == {Int_(-1), Word("ok"), Arr(NoElements), Obj(NoElements), ListOf(<<Int_(1), Int_(2)>>),
          ListOf(<<Word("x"), Word("y"), Word("id"), Null>>), Members([id |-> Int_(4)])}
Arrays == {ListOf(s) : s \in UNION {[1..n -> Parts] : n \in 1..3}}
Pairs == {SetMember(Members([x |-> a]), <<"y">>, b) : a, b \in {ListOf(s) : s \in [1..2 -> Parts]}}

SomeSubjects ==
  [kind : {"message"}, m : SomeMessages]
    \cup [kind : {"cut"}, m : Cut, following : Following]
    \cup [kind : {"document"}, json : Documents]
    \cup [kind : {"value"}, json : Arrays \cup Pairs \cup Whole]
    \cup [kind : {"number"}, negative : BOOLEAN, digits : UNION {[1..n -> Range(Digit)] : n \in 1..3}]
    \cup [kind : {"string"}, s : Strings]
    \cup [kind : {"code point"}, cp : SomeCodePoints]

Spec == subject \in SomeSubjects /\ [][UNCHANGED subject]_subject

\* Every message a program of the repository can send is received as it was sent, but for
\* the rounding of its reals (protocol.cpp; valueToString(double) writes 16 digits, here
\* WrittenDigits): all their digits but the last are kept, whole numbers of no more digits
\* are not changed, and the last doubles may come back as infinity.  Refusals and numbers
\* that are none are not received.  A document that is sent as text is taken apart as the
\* document itself is, with its reals rounded.
RoundTrip ==
  /\ subject.kind = "message" => RoundTripOf(subject.m) /\ SentIsReceived(subject.m)
  /\ subject.kind = "document" => ReadAsDocument(subject.json)

\* A frame whose tail a short write dropped (async_io.hpp:85) is never taken for a
\* message that was not sent, whichever frame its missing bytes come from.
CutTextHarmless ==
  subject.kind = "cut" =>
    \A k \in 0..Len(BuildJsonMessage(subject.m)) : CutIsHarmless(subject.m, k, subject.following)

\* The texts for people read as the text on one line, though the writers' recursive calls
\* share childValues_.
StyledReadsAsFast == subject.kind = "value" => ReadsAsWritten(subject.json)
=============================================================================
