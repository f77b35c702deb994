------------------------------ MODULE JsonText ------------------------------
(***************************************************************************)
(* How the JSON library writes and reads the text of a string: the writer's *)
(* valueToQuotedString, and the reader's readString, decodeString and       *)
(* codePointToUTF8.  Characters are bytes, numbers from 0 to 255; char is   *)
(* signed in the code, so bytes from 128 on count as negative there.        *)
(* A result that may fail is a set: empty, or holding the one result.       *)
(***************************************************************************)
EXTENDS Integers, Sequences

Quote == 34
Backslash == 92
LowerU == 117

\* Code points come in blocks of 1024: the units 54 * Block to 56 * Block - 1 are the
\* surrogates, and the code points from 64 * Block on need a pair of them.
Block == 1024

Hex(d) == IF d < 10 THEN 48 + d ELSE 55 + d

IsControlCharacter(c) == c \in 1..31

\* Bytes with an escape of one letter, and that letter.
LetterOf ==
  [c \in {8, 9, 10, 12, 13, Quote, Backslash} |->
     CASE c = 8 -> 98 [] c = 9 -> 116 [] c = 10 -> 110 [] c = 12 -> 102 [] c = 13 -> 114 [] OTHER -> c]

Escaped(c) ==
  IF c \in DOMAIN LetterOf THEN <<Backslash, LetterOf[c]>>
  ELSE IF IsControlCharacter(c) THEN <<Backslash, LowerU, 48, 48, Hex(c \div 16), Hex(c % 16)>>
  ELSE <<c>>

\* The loop over the characters of s.
EscapedAll(s) ==
  LET result[i \in 0..Len(s)] == IF i = 0 THEN <<>> ELSE result[i - 1] \o Escaped(s[i])
  IN  result[Len(s)]

ValueToQuotedString(s) == <<Quote>> \o EscapedAll(s) \o <<Quote>>

\* The loops over a text stop at a quote.
AtEnd(text, k) == k > Len(text) \/ text[k] = Quote

\* The body of readString's loop takes a character, or a backslash and what is after it.
SkipChar(text, k) == IF AtEnd(text, k) THEN k ELSE IF text[k] = Backslash THEN k + 2 ELSE k + 1

\* readString, on a text that begins with a quote: where the string ends.
ReadString(text) ==
  LET current[n \in 0..Len(text)] == IF n = 0 THEN 2 ELSE SkipChar(text, current[n - 1])
  IN  {current[Len(text)]} \cap DOMAIN text

-----------------------------------------------------------------------------
\* A byte of six bits, of those that follow the first.
Trail(n) == 128 + (n % 64)

CodePointToUTF8(cp) ==
  IF cp <= 127 THEN <<cp>>
  ELSE IF cp <= 2047 THEN <<192 + ((cp \div 64) % 32), Trail(cp)>>
  ELSE IF cp < 64 * Block THEN <<224 + ((cp \div 4096) % 16), Trail(cp \div 64), Trail(cp)>>
  ELSE <<240 + ((cp \div (256 * Block)) % 8), Trail(cp \div 4096), Trail(cp \div 64), Trail(cp)>>

HexDigits ==
  [c \in (48..57) \cup (65..70) \cup (97..102) |->
     IF c < 65 THEN c - 48 ELSE IF c < 97 THEN c - 55 ELSE c - 87]

\* decodeUnicodeEscapeSequence: the four digits from position k on.
CodeUnit(text, k) ==
  IF k + 3 <= Len(text) /\ \A i \in k..k + 3 : text[i] \in DOMAIN HexDigits
  THEN {4096 * HexDigits[text[k]] + 256 * HexDigits[text[k + 1]] + 16 * HexDigits[text[k + 2]]
          + HexDigits[text[k + 3]]}
  ELSE {}

HighSurrogate(u) == u \in 54 * Block..55 * Block - 1

\* decodeUnicodeCodePoint: the code point from position k on and where it ends.  The
\* second unit of a pair is not looked at, it may be anything.
CodePoint(text, k) ==
  UNION {IF ~HighSurrogate(u) THEN {[cp |-> u, next |-> k + 4]}
         ELSE IF k + 9 <= Len(text) /\ text[k + 4] = Backslash /\ text[k + 5] = LowerU
         THEN {[cp |-> (64 + (u % Block)) * Block + (v % Block), next |-> k + 10] : v \in CodeUnit(text, k + 6)}
         ELSE {} : u \in CodeUnit(text, k)}

\* The byte each letter stands for; '/' has an escape that the writer never uses.
ByteOf ==
  [l \in {Quote, Backslash, 47, 98, 102, 110, 114, 116} |->
     CASE l = 98 -> 8 [] l = 102 -> 12 [] l = 110 -> 10 [] l = 114 -> 13 [] l = 116 -> 9 [] OTHER -> l]

\* The bytes that the character or the escape at position k stands for, and where it ends.
DecodeNext(text, k) ==
  IF text[k] # Backslash THEN {[bytes |-> <<text[k]>>, next |-> k + 1]}
  ELSE IF k = Len(text) THEN {}
  ELSE IF text[k + 1] \in DOMAIN ByteOf THEN {[bytes |-> <<ByteOf[text[k + 1]]>>, next |-> k + 2]}
  ELSE IF text[k + 1] = LowerU
  THEN {[bytes |-> CodePointToUTF8(p.cp), next |-> p.next] : p \in CodePoint(text, k + 2)}
  ELSE {}

\* The body of the loop, with what was decoded so far.
DecodeOnce(text, d) ==
  IF AtEnd(text, d.next) THEN {d}
  ELSE {[bytes |-> d.bytes \o e.bytes, next |-> e.next] : e \in DecodeNext(text, d.next)}

DecodeFurther(text, done) == UNION {DecodeOnce(text, d) : d \in done}

\* decodeString: what stands between the quotes.
DecodeString(text) ==
  LET decoded[n \in 0..Len(text)] ==
        IF n = 0 THEN {[bytes |-> <<>>, next |-> 1]} ELSE DecodeFurther(text, decoded[n - 1])
  IN  {d.bytes : d \in decoded[Len(text)]}

-----------------------------------------------------------------------------
(* Properties of every string and every code point. *)

\* The reader finds the end of what the writer wrote, whatever follows it, and gets
\* the string back.
ReadsBack(s, following) ==
  LET text == ValueToQuotedString(s) IN
  /\ ReadString(text \o following) = {Len(text)}
  /\ DecodeString(SubSeq(text, 2, Len(text) - 1)) = {s}

\* The escapes of a code point, one unit or a surrogate pair.
Unit(u) == <<Backslash, LowerU, Hex(u \div 4096), Hex((u \div 256) % 16), Hex((u \div 16) % 16), Hex(u % 16)>>
EscapesOf(cp) ==
  IF cp < 64 * Block THEN Unit(cp)
  ELSE Unit(54 * Block + (cp \div Block) - 64) \o Unit(55 * Block + (cp % Block))

\* UTF-8, by its table: a lead byte tells the length, each further byte has six bits,
\* and the shortest form is used.
Utf8Value(b) ==
  CASE Len(b) = 1 -> b[1]
    [] Len(b) = 2 -> 64 * (b[1] - 192) + (b[2] - 128)
    [] Len(b) = 3 -> 4096 * (b[1] - 224) + 64 * (b[2] - 128) + (b[3] - 128)
    [] OTHER -> 256 * Block * (b[1] - 240) + 4096 * (b[2] - 128) + 64 * (b[3] - 128) + (b[4] - 128)
IsUtf8(b, cp) ==
  /\ Len(b) = IF cp < 128 THEN 1 ELSE IF cp < 2048 THEN 2 ELSE IF cp < 64 * Block THEN 3 ELSE 4
  /\ \A i \in 2..Len(b) : b[i] \in 128..191
  /\ Utf8Value(b) = cp

\* An escaped code point is decoded, and into its UTF-8 bytes.
EscapeIsUtf8(cp) == \E b \in DecodeString(EscapesOf(cp)) : IsUtf8(b, cp)
=============================================================================
