------------------------------ MODULE JsonNumber ------------------------------
(***************************************************************************)
(* How the JSON library reads the text of a number: the reader's           *)
(* decodeNumber and decodeDouble.  A text is a sequence of symbols, one    *)
(* for each character.                                                     *)
(***************************************************************************)
EXTENDS JsonValue

CONSTANT PastBuffer  \* what decodeDouble comes to if it writes past its buffer: undefined

Digit == [d \in 0..9 |-> <<"0", "1", "2", "3", "4", "5", "6", "7", "8", "9">>[d + 1]]
DigitValue == [c \in Range(Digit) |-> CHOOSE d \in 0..9 : Digit[d] = c]

Signed(negative, text) == IF negative THEN <<"-">> \o text ELSE text
Magnitude(n) == IF n < 0 THEN -n ELSE n

\* The longest prefix of digits from position k on.
DigitsFrom(text, k) ==
  LET stops == {i \in k..Len(text) : text[i] \notin DOMAIN DigitValue} IN
  SubSeq(text, k, IF stops = {} THEN Len(text) ELSE Min(stops) - 1)

Number(digits) ==
  LET value[k \in 0..Len(digits)] == IF k = 0 THEN 0 ELSE 10 * value[k - 1] + DigitValue[digits[k]]
  IN  value[Len(digits)]

Zeros(n) == IF n <= 0 THEN <<>> ELSE [i \in 1..n |-> "0"]

\* p / q, rounded half to even.
Nearest(p, q) ==
  LET n == p \div q
      r == 2 * (p % q)
  IN  IF r > q \/ (r = q /\ n % 2 = 1) THEN n + 1 ELSE n

Infinite(x) == \A u \in Ulps : x >= Precision * u

\* The double that is nearest to p / q.
NearestDouble(p, q) ==
  LET spacings == {u \in Ulps : p < Precision * u * q}
      ulp      == CHOOSE u \in spacings : \A v \in spacings : u <= v
      rounded  == ulp * Nearest(p, ulp * q)
  IN  IF spacings = {} \/ Infinite(rounded) THEN NaN ELSE rounded

BufferSize == 32

IsAt(text, k, symbols) == k <= Len(text) /\ text[k] \in symbols
\* Where the digits behind an optional sign begin.
AfterSign(text, k) == IF IsAt(text, k, {"-", "+"}) THEN k + 1 ELSE k

\* The exponent from position k on.
ScanExponent(text, k) ==
  LET n == Number(DigitsFrom(text, AfterSign(text, k))) IN IF IsAt(text, k, {"-"}) THEN -n ELSE n

\* The double of these digits, times 10^power.
Decimal(digits, power) ==
  NearestDouble(One * Number(digits \o Zeros(power)), Number(<<"1">> \o Zeros(-power)))

\* x with the sign that the text begins with.
WithSign(text, x) == IF IsAt(text, 1, {"-"}) /\ x # NaN THEN -x ELSE x

\* sscanf("%lf"): a sign, digits, a point and digits, and an exponent if it is complete.
ScanDouble(text) ==
  LET first    == AfterSign(text, 1)
      whole    == DigitsFrom(text, first)
      point    == first + Len(whole)
      fraction == IF IsAt(text, point, {"."}) THEN DigitsFrom(text, point + 1) ELSE <<>>
      mark     == IF IsAt(text, point, {"."}) THEN point + 1 + Len(fraction) ELSE point
      exponent == IF IsAt(text, mark, {"e", "E"}) THEN ScanExponent(text, mark + 1) ELSE 0
      digits   == whole \o fraction
  IN  IF digits = <<>> THEN {}
      ELSE {Real(WithSign(text, Decimal(digits, exponent - Len(fraction))))}

\* decodeDouble: behind a text as long as its buffer, the end is marked outside of it.
DecodeDouble(text) == IF Len(text) = BufferSize THEN PastBuffer ELSE ScanDouble(text)

\* A mutation, not the code: one more digit is taken once the threshold is reached.
TooLarge_Above(n, threshold) == n > threshold
\* Another digit could take the number out of its type.
TooLarge(n, threshold) == n >= threshold

\* decodeNumber: an integer if it has the form of one and fits, else a double.
DecodeNumber(text) ==
  LET negative  == text[1] = "-"
      digits    == IF negative THEN Tail(text) ELSE text
      threshold == (IF negative THEN -MinInt ELSE MaxUInt) \div 10
      value     == Number(digits) % (MaxUInt + 1)
  IN  IF \/ \E i \in DOMAIN digits : digits[i] \notin DOMAIN DigitValue
         \/ \E k \in 0..Len(digits) - 1 : TooLarge(Number(SubSeq(digits, 1, k)), threshold)
      THEN DecodeDouble(text)
      ELSE IF negative THEN {Int_(-value)}
      ELSE IF value <= MaxInt THEN {Int_(value)}
      ELSE {UInt(value)}

-----------------------------------------------------------------------------
(* Properties of every number *)

\* A number that is spelled out is read as that number, whether or not it fits an integer,
\* but for what doubles cannot tell apart: below Precision nothing is lost, above it less
\* than the last digit of the mantissa, and what no double reaches is infinite.
NumberIsRead(negative, digits) ==
  LET text  == Signed(negative, digits)
      exact == One * Number(digits)
      near(x) == Precision * Magnitude(x - exact) <= exact
  IN  Len(text) # BufferSize =>
        \E v \in DecodeNumber(text) : \E x \in AsDouble(v) :
          IF x = NaN THEN \A u \in Ulps : exact >= (Precision - 1) * u
          ELSE LET m == IF negative THEN -x ELSE x IN
               (Number(digits) < Precision => m = exact) /\ near(m)
==============================================================================
