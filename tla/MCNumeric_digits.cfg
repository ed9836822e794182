SPECIFICATION Spec
CONSTANTS
  Alphabet <- Digits
  Longest <- Lengths
INVARIANTS OnlyDigitsOfTheBase
CHECK_DEADLOCK FALSE
