SPECIFICATION MCSpec
CONSTANTS
  Texts <- AllTexts
  MAXNEST = 4
  PAGE8 = 4
  PAGES = 8
  SYMSIZ = 5
  STACK = 3
  MAXDSP = 1
  Garbage = {0, 9}
INVARIANTS
  AssemblerTypeOK
  LabelsResolve
  ConstantsHold
  ImageIsRight
  AsIfInserted
  TextShowsLines
  SymbolsFound
PROPERTIES
  Ends
CHECK_DEADLOCK FALSE
