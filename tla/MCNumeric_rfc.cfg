SPECIFICATION Spec
CONSTANTS
  Alphabet <- Digits
  Longest <- Lengths
INVARIANTS RfcValuesAreKept RustDecodesAsTs
CHECK_DEADLOCK FALSE
