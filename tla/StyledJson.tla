----------------------------- MODULE StyledJson -----------------------------
(***************************************************************************)
(* Json::StyledWriter and Json::StyledStreamWriter, which write a value for *)
(* people.  Both work on members that their recursive calls share: the      *)
(* document, the indentation, and childValues_, where isMultineArray keeps  *)
(* the texts of an array's elements while it finds out whether they fit on  *)
(* one line.  A writer is the record of these members, and each method      *)
(* takes a writer to the next.                                              *)
(*                                                                         *)
(* A symbol counts as one character of a line, and one level of indentation *)
(* is one space.  Comments are left out: nothing of the repository sets any *)
(* or writes a value it has parsed.                                         *)
(***************************************************************************)
EXTENDS Json

CONSTANT RightMargin  \* rightMargin_

Writer(stream) == [stream |-> stream, document |-> <<>>, child_values |-> <<>>,
                   add_child_values |-> FALSE, indent |-> 0]

Out(w, text) == [w EXCEPT !.document = @ \o text]

\* writeIndent.  The stream writer cannot look back at what it wrote.
WriteIndent(w) ==
  LET spaces == [i \in 1..w.indent |-> "space"] IN
  IF w.stream THEN Out(w, <<"newline">> \o spaces)
  ELSE IF w.document # <<>> /\ Last(w.document) = "space" THEN w
  ELSE IF w.document # <<>> /\ Last(w.document) # "newline" THEN Out(w, <<"newline">> \o spaces)
  ELSE Out(w, spaces)

WriteWithIndent(w, text) == Out(WriteIndent(w), text)
Indent(w) == [w EXCEPT !.indent = @ + 1]
Unindent(w) == [w EXCEPT !.indent = @ - 1]

PushValue(w, text) ==
  IF w.add_child_values THEN [w EXCEPT !.child_values = Append(@, text)] ELSE Out(w, text)

Cleared(w) == [w EXCEPT !.child_values = <<>>]

\* A mutation, not the code: objects count as short.
NotEmpty_Arrays(v) == IsArray(v) /\ Size(v) > 0
NotEmpty(v) == (IsArray(v) \/ IsObject(v)) /\ Size(v) > 0

\* The assertion that every element has its text.
AssertEqual(a, b, w) == IF a = b THEN w ELSE Out(w, <<"assertion">>)

RECURSIVE WriteStyled(_, _), IsMultineArray(_, _), WriteArrayValue(_, _), WriteMembers(_, _, _)

\* isMultineArray: the writer with the texts of the elements, and whether they take more
\* than a line.  No texts are made if that is clear without them.
IsMultineArray(w, v) ==
  LET size == Size(v)
      add(x, i) == WriteStyled(x, Element(v, i - 1))
      with == [FoldLeft(add, [Cleared(w) EXCEPT !.add_child_values = TRUE], [i \in 1..size |-> i])
                 EXCEPT !.add_child_values = FALSE]
      length == FoldLeft(LAMBDA n, text : n + Len(text), 4 + (size - 1) * 2, with.child_values)
  IN  IF size * 3 >= RightMargin \/ \E i \in 0..size - 1 : NotEmpty(Element(v, i))
      THEN [writer |-> Cleared(w), multi |-> TRUE]
      ELSE [writer |-> with, multi |-> length >= RightMargin]

WriteArrayValue(w, v) ==
  LET size   == Size(v)
      fits   == IsMultineArray(w, v)
      texts  == fits.writer.child_values
      comma(x, i) == IF i < size THEN Out(x, <<",">>) ELSE x
      line(x, i) == comma(IF texts # <<>> THEN WriteWithIndent(x, texts[i])
                          ELSE WriteStyled(WriteIndent(x), Element(v, i - 1)), i)
  IN  IF size = 0 THEN PushValue(w, <<"[", "]">>)
      ELSE IF fits.multi
      THEN WriteWithIndent(Unindent(FoldLeft(line, Indent(WriteWithIndent(fits.writer, <<"[">>)),
                                             [i \in 1..size |-> i])), <<"]">>)
      ELSE Out(AssertEqual(Len(texts), size, fits.writer),
                <<"[", "space">>
                  \o FlattenSeq([i \in DOMAIN texts |-> IF i = 1 THEN texts[i] ELSE <<",", "space">> \o texts[i]])
                  \o <<"space", "]">>)

\* The members from the i-th name on.
WriteMembers(w, v, i) ==
  LET names == MemberNames(v)
      name  == Out(WriteWithIndent(w, Quoted(names[i])), <<"space", ":", "space">>)
      value == WriteStyled(name, v.map[names[i]])
  IN  IF i = Len(names) THEN value ELSE WriteMembers(Out(value, <<",">>), v, i + 1)

WriteStyled(w, v) ==
  CASE v.type = "array" -> WriteArrayValue(w, v)
    [] v.type = "object" /\ DOMAIN v.map # {} ->
         WriteWithIndent(Unindent(WriteMembers(Indent(WriteWithIndent(w, <<"{">>)), v, 1)), <<"}">>)
    [] OTHER -> PushValue(w, WriteValue(v))

\* write, of either writer.
StyledWrite(v) == Append(WriteStyled(Writer(FALSE), v).document, "newline")
StyledStreamWrite(v) == Append(WriteStyled(Writer(TRUE), v).document, "newline")

-----------------------------------------------------------------------------
(* Properties of every value *)

\* However the writers break and indent the lines, the reader gets what it gets of the
\* text on one line.
ReadsAsWritten(v) ==
  \A text \in {StyledWrite(v), StyledStreamWrite(v)} : ParseDocument(text) = ParseDocument(Write(v))
=============================================================================
