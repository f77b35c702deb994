------------------------------ MODULE Protocol ------------------------------
(***************************************************************************)
(* The texts of the game's messages: BuildJsonMessage and ParseJsonMessage *)
(* of lib/protocol, with the writer and the reader of the JSON library.    *)
(***************************************************************************)
EXTENDS Json, Messages

BuildJsonMessage(m) == Write(BuildValue(m))

ParseJsonMessage(text) ==
  LET parsed == ParseDocument(text) IN
  IF parsed = {} THEN NoMessage ELSE ParseValue(Only(parsed))

-----------------------------------------------------------------------------
(* Properties of every message and every document *)

\* What becomes of a real that is written and read, and of the reals of a message and a
\* document.
AsRead(x) == IF x = NaN THEN NaN ELSE Only(AsDouble(Only(DecodeNumber(RealToString(x)))))

BallRead(ball, read) == [k \in DOMAIN ball |-> IF k = "id" THEN ball[k] ELSE read[ball[k]]]
MessageRead(m, read) ==
  CASE m.type = "TURN" -> [m EXCEPT !.a_x = read[@], !.a_y = read[@]]
    [] m.type = "STATE" -> [m EXCEPT !.radius = read[@], !.time_delta = read[@], !.velocity_max = read[@],
                                     !.players = [i \in DOMAIN @ |-> BallRead(@[i], read)],
                                     !.coins = [i \in DOMAIN @ |-> BallRead(@[i], read)]]
    [] OTHER -> m
MessageAsRead(m) == MessageRead(m, [x \in RealsOf(m) |-> AsRead(x)])

RECURSIVE DocumentAsRead(_)
DocumentAsRead(v) ==
  CASE v.type = "real" -> Real(AsRead(v.real))
    [] v.type \in {"array", "object"} -> [v EXCEPT !.map = [k \in DOMAIN @ |-> DocumentAsRead(@[k])]]
    [] OTHER -> v

\* What the receiver gets of a message's text: what it gets of the message, with the reals
\* rounded.
TextReceived(m) ==
  IF Received(m) = NoMessage THEN NoMessage ELSE Message(MessageAsRead(Received(m).message))

\* Two reals agree in all digits that are written but the last.
Near(x, y) == Magnitude(x - y) * 10^(WrittenDigits - 1) <= Magnitude(x)

\* A real x, which comes back as y, keeps its digits, and a short integer is not changed.
\* The last doubles may be rounded to what no double reaches.
KeepsDigits(x, y) ==
  IF y = NaN THEN \E u \in Ulps : Infinite(Precision * u) /\ Near(Magnitude(x), Precision * u)
  ELSE Near(x, y) /\ (x % One = 0 /\ Magnitude(x) < One * 10^WrittenDigits => y = x)

RoundTripOf(m) ==
  /\ ParseJsonMessage(BuildJsonMessage(m)) = TextReceived(m)
  /\ \A x \in RealsOf(m) \ {NaN} : KeepsDigits(x, AsRead(x))

\* The receiver of a frame that lost its tail reads as many bytes as were announced,
\* the missing ones from the next frame: two zero bytes and the rest of a length first.
Spliced(m, k, following) ==
  LET text   == BuildJsonMessage(m)
      stream == SubSeq(text, 1, k) \o <<"nul", "nul", "byte", "byte">> \o BuildJsonMessage(following)
  IN  SubSeq(stream, 1, Min({Len(text), Len(stream)}))

\* It is never taken for another message.
CutIsHarmless(m, k, following) ==
  ParseJsonMessage(Spliced(m, k, following)) \in
    {NoMessage} \cup (IF k >= Len(BuildJsonMessage(m)) - 1 THEN {TextReceived(m)} ELSE {})

\* The text of a document says what the document says, with its reals rounded, if there is
\* a text for it.
ReadAsDocument(json) == ParseJsonMessage(Write(json)) \in {ParseValue(DocumentAsRead(json)), NoMessage}
==============================================================================
