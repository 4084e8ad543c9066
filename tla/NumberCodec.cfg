SPECIFICATION Spec
CONSTANTS
  Lengths = {1, 2}
  BigInts <- MCBigInts
  Digits <- MCDigits
INVARIANTS NumberRoundTrip CompactShortest OutOfRangeRefused
CHECK_DEADLOCK FALSE
