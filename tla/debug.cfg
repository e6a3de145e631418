SPECIFICATION MCSpec
CONSTANTS
  Images <- Programs
  Origin = 2
  Functions8 <- Devices
  DevWords = {0}
  NULL = null
  Cells = {b1, b2}
  Users <- AllTypists
  MaxEdits = 4
INVARIANT DebuggerTypeOK
PROPERTIES
  NeverPassesBreakpoint
  DebuggingIsTransparent
  ListsAreEdited
  QuitEnds
CHECK_DEADLOCK FALSE
