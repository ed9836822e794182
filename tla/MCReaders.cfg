SPECIFICATION MCSpec
CONSTANTS
  Statements <- MCStatements
  MaxStatements = 4
  LINES <- MCLines
  MaxLines = 4
  MaxFiles = 1
  Signs <- MCSigns
  MaxSigns = 6
INVARIANTS NothingHidden NothingIsOverwritten NoImportHidden NoneRefusedInVain 
CHECK_DEADLOCK FALSE
