------------------------------ MODULE Subjects ------------------------------
(***************************************************************************)
(* What is said of the numbers, the strings and the documents that the     *)
(* programs exchange: one subject of some kind, and a property for each    *)
(* kind.                                                                   *)
(***************************************************************************)
EXTENDS Messages, JsonNumber, JsonText

VARIABLE subject

\* Integers and strings are read as they are spelled, an integer beyond the doubles' mantissa
\* up to its last digit.  decodeNumber computes in an unsigned integer that must not
\* overflow on the way; names and strings come back from their escapes, and end where they
\* end; \u escapes, also in pairs, become the UTF-8 of their code point.
ScalarsReadBack ==
  /\ subject.kind = "number" => NumberIsRead(subject.negative, subject.digits)
  /\ subject.kind = "string" =>
       \A following \in {<<>>, <<34>>, <<92>>, <<44, 34>>} : ReadsBack(subject.s, following)
  /\ subject.kind = "code point" => EscapeIsUtf8(subject.cp)

\* The tests of protocol.cpp before each conversion are enough: none throws, except
\* for the type's own, and no assertion of the library fails but on the shape of the document.
GuardsHold == subject.kind = "document" => GuardsHoldFor(subject.json)
==============================================================================
