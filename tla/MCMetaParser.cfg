SPECIFICATION MCSpec
CONSTANTS
  Alphabet <- EveryKind
  MaxLexemes = 8
INVARIANTS
  LexedAsMeant
  ParsesToItsStructure
  RejectsOnlyDeadTexts
  FourLevelsPerBracket
  NodesInPlace
  
  HoleOnlyForBracket
PROPERTIES Terminates
