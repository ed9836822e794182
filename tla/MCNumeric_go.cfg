SPECIFICATION Spec
CONSTANTS
  Alphabet <- Digits
  Longest <- Lengths
INVARIANTS GoMirrorsTs
CHECK_DEADLOCK FALSE
