-------------------------------- MODULE Json --------------------------------
(***************************************************************************)
(* Json::FastWriter and Json::Reader.  A text is a sequence of symbols:     *)
(* one for each character that the grammar looks at, one for a literal      *)
(* ("true"), one for the letters of a name or a string of the protocol      *)
(* ("players"), "nul" for the byte 0.  Escapes are in JsonText, numbers in   *)
(* JsonNumber.                                                              *)
(*                                                                         *)
(* Reading yields a set: empty when it fails.  What the reader does after a *)
(* failure, recoverFromError, only collects more messages: every caller     *)
(* passes the failure on.                                                   *)
(***************************************************************************)
EXTENDS JsonNumber, SequencesExt

CONSTANTS Names,          \* every member name, in the order of strcmp
          WrittenDigits,  \* the digits of a real that are written: 16
          LeastFixed      \* the least exponent that %g does not write: -4

\* addErrorAndRecover: there is no value.
Fails == {}

-----------------------------------------------------------------------------
(* Writing *)

RECURSIVE UIntToString(_)
UIntToString(n) ==
  IF n < 10 THEN <<Digit[n]>> ELSE Append(UIntToString(n \div 10), Digit[n % 10])

\* The decimal digits of m that "%#.16g" writes if the first one counts 10^x.
Scaled(m, x) ==
  LET places == WrittenDigits - 1 - x IN
  IF places >= 0 THEN Nearest(m * 10^places, One) ELSE Nearest(m, One * 10^(-places))

\* The decimal exponent of m, once it is rounded.
Exponent(m) ==
  IF m = 0 THEN 0
  ELSE Min({x \in -Len(UIntToString(One))..Len(UIntToString(m)) : Scaled(m, x) < 10^WrittenDigits})

\* n with at least that many digits.
Padded(n, digits) == Zeros(digits - Len(UIntToString(n))) \o UIntToString(n)

WithPoint(digits, k) == SubSeq(digits, 1, k) \o <<".">> \o SubSeq(digits, k + 1, Len(digits))

\* The digits n, the first of which counts 10^x.
PrintedAs(n, x) ==
  LET places == WrittenDigits - 1 - x
      all    == Padded(n, places + 1)
  IN  IF x \in LeastFixed..WrittenDigits - 1 THEN WithPoint(all, Len(all) - places)
      ELSE WithPoint(UIntToString(n), 1)
             \o <<"e", IF x < 0 THEN "-" ELSE "+">> \o Padded(Magnitude(x), 2)

\* "%#.16g", of a number that is not negative.
Printed(m) == LET x == Exponent(m) IN PrintedAs(Scaled(m, x), x)

\* The last zeros are cut off, but for one, unless there is an exponent: 1.50, 1.0, 96.
Shortened(text) ==
  LET rest == {i \in DOMAIN text : text[i] # "0"} IN
  IF Last(text) = "0" /\ "e" \notin Range(text) THEN SubSeq(text, 1, Max(rest) + 1) ELSE text

\* valueToString(double).  What is no number is written as a word that is none to the reader,
\* with or without a sign before it.
RealToString(x) == IF x = NaN THEN <<"nan">> ELSE Signed(x < 0, Shortened(Printed(Magnitude(x))))

Quoted(s) == <<"quote">> \o s \o <<"quote">>

Separated(texts) ==
  FlattenSeq([i \in DOMAIN texts |-> IF i = 1 THEN texts[i] ELSE <<",">> \o texts[i]])

\* The members of an object are in a std::map: they are written in the order of their names.
MemberNames(v) == SelectSeq(Names, LAMBDA n : n \in DOMAIN v.map)

RECURSIVE WriteValue(_)
WriteValue(v) ==
  CASE v.type = "null" -> <<"null">>
    [] v.type = "int" -> Signed(v.int < 0, UIntToString(Magnitude(v.int)))
    [] v.type = "uint" -> UIntToString(v.uint)
    [] v.type = "real" -> RealToString(v.real)
    [] v.type = "string" -> Quoted(v.string)
    [] v.type = "boolean" -> IF v.bool THEN <<"true">> ELSE <<"false">>
    [] v.type = "array" ->
         <<"[">> \o Separated([i \in 1..Size(v) |-> WriteValue(Element(v, i - 1))]) \o <<"]">>
    [] v.type = "object" ->
         LET names == MemberNames(v) IN
         <<"{">> \o Separated([i \in DOMAIN names |->
                                 Quoted(names[i]) \o <<":">> \o WriteValue(v.map[names[i]])]) \o <<"}">>

Write(v) == Append(WriteValue(v), "newline")

-----------------------------------------------------------------------------
(* Tokens: kind, the position of the first symbol, and the position after it. *)

At(text, k) == IF k > Len(text) THEN "nul" ELSE text[k]

\* The first position from k on whose symbol is, or is not, one of a set, or the end of the text.
FirstIn(text, k, symbols) ==
  CHOOSE i \in k..Len(text) + 1 :
    /\ i > Len(text) \/ text[i] \in symbols
    /\ \A j \in k..i - 1 : text[j] \notin symbols
FirstNotIn(text, k, symbols) ==
  CHOOSE i \in k..Len(text) + 1 :
    /\ i > Len(text) \/ text[i] \notin symbols
    /\ \A j \in k..i - 1 : text[j] \in symbols

SkipSpaces(text, k) == FirstNotIn(text, k, {"space", "newline"})

NumberSymbols == DOMAIN DigitValue \cup {".", "e", "E", "+", "-"}

\* readComment, from the symbol after '/': where the comment ends, and where reading goes on
\* if there is none.
CommentEnd(text, k) ==
  CASE At(text, k) = "*" ->
         LET ends == {i \in k + 1..Len(text) - 1 : text[i] = "*" /\ text[i + 1] = "/"} IN
         IF ends = {} THEN {} ELSE {Min(ends) + 2}
    [] At(text, k) = "/" ->
         {Min({FirstIn(text, k + 1, {"newline"}) + 1, Len(text) + 1})}
    [] OTHER -> {}
NoCommentEnd(text, k) == IF At(text, k) = "*" THEN Len(text) + 1 ELSE Min({k + 1, Len(text) + 1})

StringEnd(text, k) == {q \in {FirstIn(text, k, {"quote"})} : q <= Len(text)}

\* The token that begins with symbol s.
TokenAt(text, s) ==
  LET c == At(text, s)
      token(kind, next) == [kind |-> kind, first |-> s, next |-> next]
      ending(kind, ends, otherwise) == IF ends = {} THEN token("error", otherwise)
                                       ELSE token(kind, CHOOSE e \in ends : TRUE)
      next  == IF s > Len(text) THEN s ELSE s + 1
  IN  CASE c \in {"{", "}", "[", "]", ",", ":", "true", "false", "null", "nul"} -> token(c, next)
        [] c = "quote" -> ending("string", {q + 1 : q \in StringEnd(text, s + 1)}, Len(text) + 1)
        [] c = "/" -> ending("comment", CommentEnd(text, s + 1), NoCommentEnd(text, s + 1))
        [] c \in DOMAIN DigitValue \cup {"-"} -> token("number", FirstNotIn(text, s, NumberSymbols))
        [] OTHER -> token("error", next)

ReadToken(text, k) == TokenAt(text, SkipSpaces(text, k))

\* skipCommentTokens, from the token t on.
RECURSIVE NotComment(_, _)
NotComment(text, t) == IF t.kind = "comment" THEN NotComment(text, ReadToken(text, t.next)) ELSE t

SkipCommentTokens(text, k) == NotComment(text, ReadToken(text, k))

Inside(text, t) == SubSeq(text, t.first + 1, t.next - 2)

-----------------------------------------------------------------------------
(* Values: the value read, and the position after it. *)

\* A mutation, not the code: an object that is never closed is taken as it is.
EndsObject_OrText(kind) == kind \in {"}", "nul"}
EndsObject(kind) == kind = "}"

RECURSIVE ReadValue(_, _), ReadMembers(_, _, _, _), ReadElements(_, _, _)

\* readValue, whose first token is t.
ReadValue(text, t) ==
  LET done(v) == {[value |-> v, next |-> t.next]}
  IN  CASE t.kind = "{" -> ReadMembers(text, SkipCommentTokens(text, t.next), Obj(NoElements), <<>>)
        [] t.kind = "[" ->
             IF At(text, SkipSpaces(text, t.next)) = "]"
             THEN {[value |-> Arr(NoElements), next |-> SkipSpaces(text, t.next) + 1]}
             ELSE ReadElements(text, t.next, Arr(NoElements))
        [] t.kind = "number" ->
             {[value |-> v, next |-> t.next] : v \in DecodeNumber(SubSeq(text, t.first, t.next - 1))}
        [] t.kind = "string" -> done(Str(Inside(text, t)))
        [] t.kind = "true" -> done(Bool(TRUE))
        [] t.kind = "false" -> done(Bool(FALSE))
        [] t.kind = "null" -> done(Null)
        [] OTHER -> Fails

\* After the members of v, of which n is the last: comma is the next token, and after
\* the next one that is no comment.
AfterMember(text, v, n, comma, after) ==
  IF EndsObject(after.kind) /\ comma.kind \in {after.kind, "comment"}
  THEN {[value |-> v, next |-> after.next]}
  ELSE IF comma.kind \in {",", "comment"}
  THEN ReadMembers(text, SkipCommentTokens(text, after.next), v, n)
  ELSE Fails

\* readObject, after the members of v, with t the next token; name is the last member's
\* name.  A '}' is accepted where a name is expected only while the last name is empty.
ReadMembers(text, t, v, name) ==
  CASE t.kind = "}" /\ name = <<>> -> {[value |-> v, next |-> t.next]}
    [] t.kind = "string" ->
         UNION {AfterMember(text, SetMember(v, Inside(text, t), r.value), Inside(text, t),
                            ReadToken(text, r.next), SkipCommentTokens(text, r.next))
                : r \in UNION {ReadValue(text, SkipCommentTokens(text, colon.next))
                               : colon \in {c \in {ReadToken(text, t.next)} : c.kind = ":"}}}
    [] OTHER -> Fails

\* After the elements of v, with t the next token.  The test for a separator, that a
\* token is both ',' and ']', never fails: any token separates two elements.
AfterElement(text, v, t) ==
  IF t.kind = "]" THEN {[value |-> v, next |-> t.next]} ELSE ReadElements(text, t.next, v)

\* readArray, after the elements of v.
ReadElements(text, k, v) ==
  UNION {AfterElement(text, AppendTo(v, r.value), SkipCommentTokens(text, r.next))
         : r \in ReadValue(text, SkipCommentTokens(text, k))}

\* parse: what follows the value is not looked at.
ParseDocument(text) == {r.value : r \in ReadValue(text, SkipCommentTokens(text, 1))}
===============================================================================
