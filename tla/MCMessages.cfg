CONSTANTS
  MaxUInt = 63
  NaN = NaN
  One = 32
  Precision = 64
  Ulps = {1, 2, 4, 8, 16, 32, 64}
  PastBuffer = {}
  WrittenDigits = 2
  LeastFixed <- MCLeastFixed
  RightMargin = 12
  Names <- MCNames
SPECIFICATION Spec
CHECK_DEADLOCK FALSE
INVARIANTS
  RoundTrip
  CutTextHarmless
  GuardsHold
  ScalarsReadBack
  StyledReadsAsFast
