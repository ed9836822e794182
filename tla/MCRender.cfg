SPECIFICATION MCSpec
CONSTANTS
  t1 = t1
  t2 = t2
  Elements <- MCElements
  MaxElements = 4
  MaxAlternatives = 3
  Names <- MCNames
  Terminals <- MCTerminals
  MaxSigns = 14
  MaxLength = 2
  MaxByte = 1
  Highest <- MCHighest
  MaxMembers = 2
  MaxRanges = 4
SYMMETRY AnyTerminal
INVARIANTS RoundTrip AlternativesKept RefsRoundTrip SetsAreTheirClasses
CHECK_DEADLOCK FALSE
