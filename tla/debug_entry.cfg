SPECIFICATION MCSpec
CONSTANTS
  Images <- Programs
  Origin = 2
  Functions8 <- Devices
  DevWords = {0}
  NULL = null
  Cells = {b1, b2}
  Users <- Callers
  MaxEdits = 4
CHECK_DEADLOCK FALSE
PROPERTY EntryStops
