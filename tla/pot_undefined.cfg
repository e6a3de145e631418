SPECIFICATION MCSpec
CONSTANTS
  Texts <- UndefinedTexts
  MAXNEST = 4
  PAGE8 = 4
  PAGES = 8
  SYMSIZ = 5
  STACK = 3
  MAXDSP = 1
  Garbage = {0, 9}
INVARIANT UnknownIsReported
CHECK_DEADLOCK FALSE
