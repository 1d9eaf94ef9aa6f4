SPECIFICATION Spec
CONSTANTS
  Years <- CheckedYears
  Seconds = {0, 3661, 86399}
INVARIANT InstantExact
