------------------------------ MODULE Messages ------------------------------
(***************************************************************************)
(* The messages of the game as JSON values: what BuildJsonMessage puts     *)
(* together and ParseJsonMessage takes apart, in lib/protocol.  A message  *)
(* is a record; its ids are unsigned integers, the state's id a wider one; *)
(* positions, velocities, radii and scores are doubles or NaN.             *)
(***************************************************************************)
EXTENDS JsonValue

\* What parsing comes to: a message, none (the null pointer), or the end of the
\* program by an exception or by an assertion.
Message(m) == [outcome |-> "message", message |-> m]
NoMessage == [outcome |-> "none"]
Throws == [outcome |-> "throws"]
Aborts == [outcome |-> "aborts"]

\* The header's enumeration; Helper holds the same words.
MessageTypes == {"CLI_SUB_REQUEST", "CLI_SUB_RESULT", "VIEW_SUB_REQUEST", "VIEW_SUB_RESULT",
                 "STATE", "TURN", "FINISH"}

Word(s) == Str(<<s>>)
Members(f) == Obj([n \in {<<k>> : k \in DOMAIN f} |-> f[n[1]]])

\* std::vector to a Json::Value that is null until the first append.
ListOf(values) == IF values = <<>> THEN Null ELSE Arr([i \in 0..Len(values) - 1 |-> values[i + 1]])

BuildPlayer(p) == Members([id |-> UInt(p.id), x |-> Real(p.x), y |-> Real(p.y), v_x |-> Real(p.v_x),
                           v_y |-> Real(p.v_y), score |-> Real(p.score)])
BuildCoin(c) == Members([x |-> Real(c.x), y |-> Real(c.y), value |-> Real(c.value)])

\* A mutation, not the code: the radius is left at its default.
RadiusOf_Default(balls) == Int_(1)
\* One radius is sent for all balls of a kind, the first one's.
RadiusOf(balls) == IF balls = <<>> THEN Int_(1) ELSE Real(balls[1].radius)

\* Ids are cast to Json::Value::UInt.
Cast(id) == UInt(id % (MaxUInt + 1))

BuildResult(m) ==
  IF m.result THEN Members([type |-> Word(m.type), result |-> Word("ok"), id |-> UInt(m.id)])
  ELSE Members([type |-> Word(m.type), result |-> Word("fail")])

BuildState(m) ==
  Members([type |-> Word("STATE"), state_id |-> Cast(m.id), field_radius |-> Real(m.radius),
           player_radius |-> RadiusOf(m.players), coin_radius |-> RadiusOf(m.coins),
           time_delta |-> Real(m.time_delta), velocity_max |-> Real(m.velocity_max),
           players |-> ListOf([i \in DOMAIN m.players |-> BuildPlayer(m.players[i])]),
           coins |-> ListOf([i \in DOMAIN m.coins |-> BuildCoin(m.coins[i])])])

BuildTurn(m) ==
  Members([type |-> Word("TURN"), state_id |-> Cast(m.state_id), id |-> Cast(m.player_id),
           a_x |-> Real(m.a_x), a_y |-> Real(m.a_y)])

BuildValue(m) ==
  CASE m.type \in {"CLI_SUB_RESULT", "VIEW_SUB_RESULT"} -> BuildResult(m)
    [] m.type = "STATE" -> BuildState(m)
    [] m.type = "TURN" -> BuildTurn(m)
    [] OTHER -> Members([type |-> Word(m.type)])

-----------------------------------------------------------------------------
\* isMember and isConvertibleTo, as every field is guarded.
Has(json, n, t) == IsMember(json, <<n>>) /\ IsConvertibleTo(Member(json, <<n>>), t)
\* A mutation, not the code: the last field of a message is not asked for.
AllHave_ButOne(json, fields) ==
  \A n \in DOMAIN fields : n # "a_y" => Has(json, n, fields[n])
AllHave(json, fields) == \A n \in DOMAIN fields : Has(json, n, fields[n])

\* Fields as they are read, each in a set that is empty if a conversion throws.
Read(json, fields) ==
  [n \in DOMAIN fields |-> IF fields[n] = "uint" THEN AsUInt(Member(json, <<n>>))
                           ELSE AsDouble(Member(json, <<n>>))]
Converted(read) == \A n \in DOMAIN read : read[n] # {}
Only(set) == CHOOSE x \in set : TRUE
ToRecord(read) == [n \in DOMAIN read |-> Only(read[n])]

\* The given fields, or the way reading them fails.
Guarded(json, fields) ==
  IF ~AllHave(json, fields) THEN NoMessage
  ELSE IF ~Converted(Read(json, fields)) THEN Throws
  ELSE Message(ToRecord(Read(json, fields)))

\* What was read, with more fields.
Merged(f, g) == [n \in DOMAIN f \cup DOMAIN g |-> IF n \in DOMAIN f THEN f[n] ELSE g[n]]
With(read, more) == IF read.outcome = "message" THEN Message(Merged(more, read.message)) ELSE read

IsWord(v, s) == v = Word(s)

\* A refusal sets result to false, and then to true again: the id is asked for anyway.
ParseResult(json, type) ==
  IF ~(IsMember(json, <<"result">>)
       /\ (IsWord(Member(json, <<"result">>), "fail") \/ IsWord(Member(json, <<"result">>), "ok")))
  THEN NoMessage
  ELSE With(Guarded(json, [id |-> "uint"]), [type |-> type, result |-> TRUE])

StateFields == [state_id |-> "uint", field_radius |-> "real", player_radius |-> "real",
                coin_radius |-> "real", time_delta |-> "real", velocity_max |-> "real"]
PlayerFields == [id |-> "uint", x |-> "real", y |-> "real", v_x |-> "real", v_y |-> "real", score |-> "real"]
CoinFields == [x |-> "real", y |-> "real", value |-> "real"]

\* The loop over players or coins: the first element that fails decides.  isMember
\* asserts that it is asked of an object or null.
ParseBalls(json, fields, radius) ==
  LET of(i) == LET ball == Element(json, i - 1) IN
               IF ~IsObject(ball) THEN Aborts
               ELSE With(Guarded(ball, fields), [radius |-> radius])
      all   == [i \in 1..Size(json) |-> of(i)]
      bad   == {i \in DOMAIN all : all[i].outcome # "message"}
  IN  IF bad # {} THEN all[Min(bad)]
      ELSE Message([i \in DOMAIN all |-> all[i].message])

ParseState(json) ==
  LET head == Guarded(json, StateFields)
      list(n, fields, radius) ==
        IF IsMember(json, <<n>>) /\ IsArray(Member(json, <<n>>))
        THEN ParseBalls(Member(json, <<n>>), fields, radius) ELSE NoMessage
  IN  IF head.outcome # "message" THEN head
      ELSE LET h       == head.message
               players == list("players", PlayerFields, h.player_radius)
               coins   == list("coins", CoinFields, h.coin_radius)
           IN  IF players.outcome # "message" THEN players
               ELSE IF coins.outcome # "message" THEN coins
               ELSE Message([type |-> "STATE", id |-> h.state_id, radius |-> h.field_radius,
                             time_delta |-> h.time_delta, velocity_max |-> h.velocity_max,
                             players |-> players.message, coins |-> coins.message])

ParseTurn(json) ==
  LET turn == Guarded(json, [state_id |-> "uint", id |-> "uint", a_x |-> "real", a_y |-> "real"])
      m    == turn.message
  IN  IF turn.outcome # "message" THEN turn
      ELSE Message([type |-> "TURN", state_id |-> m.state_id, player_id |-> m.id,
                    a_x |-> m.a_x, a_y |-> m.a_y])

\* The types of messages that the word of "type" names; asString throws for numbers,
\* arrays and objects.
TypeFrom(v) == {t \in MessageTypes : AsString(v) = {<<t>>}}

ParseValue(json) ==
  IF ~IsObject(json) THEN Aborts
  ELSE IF ~IsMember(json, <<"type">>) THEN NoMessage
  ELSE IF AsString(Member(json, <<"type">>)) = {} THEN Throws
  ELSE IF TypeFrom(Member(json, <<"type">>)) = {} THEN NoMessage
  ELSE LET type == Only(TypeFrom(Member(json, <<"type">>))) IN
       CASE type \in {"CLI_SUB_RESULT", "VIEW_SUB_RESULT"} -> ParseResult(json, type)
         [] type = "STATE" -> ParseState(json)
         [] type = "TURN" -> ParseTurn(json)
         [] OTHER -> Message([type |-> type])

-----------------------------------------------------------------------------
(* Properties of every message and every document *)

\* The numbers of a message that are written as reals.
RealsOf(m) ==
  CASE m.type = "TURN" -> {m.a_x, m.a_y}
    [] m.type = "STATE" -> {m.radius, m.time_delta, m.velocity_max}
                           \cup UNION {Range(m.players[i]) : i \in DOMAIN m.players}
                           \cup UNION {Range(m.coins[i]) : i \in DOMAIN m.coins}
    [] OTHER -> {}

\* What the receiver gets of a message: itself, with the ids of states cut to the width
\* of an unsigned int; nothing of a refusal, or of a number that is not one.
Received(m) ==
  IF NaN \in RealsOf(m) \/ (m.type \in {"CLI_SUB_RESULT", "VIEW_SUB_RESULT"} /\ ~m.result) THEN NoMessage
  ELSE CASE m.type = "STATE" -> Message([m EXCEPT !.id = @ % (MaxUInt + 1)])
         [] m.type = "TURN" -> Message([m EXCEPT !.state_id = @ % (MaxUInt + 1)])
         [] OTHER -> Message(m)

\* A message that is no refusal, and whose numbers are numbers, is taken apart into
\* what it was put together of.
SentIsReceived(m) == Received(m) # NoMessage => ParseValue(BuildValue(m)) = Received(m)

\* A document of any values: ParseJsonMessage ends the program for a document that is not an
\* object, a type that is not a word, or a list whose elements are not objects; for
\* everything else it gives a message or none, and a message only if every member has
\* the type it is used as.
BadElement(json, n) ==
  /\ IsMember(json, <<n>>) /\ IsArray(Member(json, <<n>>))
  /\ \E i \in 0..Size(Member(json, <<n>>)) - 1 : ~IsObject(Element(Member(json, <<n>>), i))
EndsProgram(json) ==
  \/ ~IsObject(json)
  \/ IsMember(json, <<"type">>) /\ Member(json, <<"type">>).type \in {"int", "uint", "real", "array", "object"}
  \/ Member(json, <<"type">>) = Word("STATE") /\ (BadElement(json, "players") \/ BadElement(json, "coins"))
WellTyped(m) ==
  /\ m.type = "TURN" => {m.state_id, m.player_id} \subseteq 0..MaxUInt
  /\ m.type = "STATE" => {m.id} \cup {m.players[i].id : i \in DOMAIN m.players} \subseteq 0..MaxUInt
GuardsHoldFor(json) ==
  LET p == ParseValue(json) IN
  /\ p.outcome \in {"throws", "aborts"} => EndsProgram(json)
  /\ p.outcome = "message" => WellTyped(p.message)
==============================================================================
