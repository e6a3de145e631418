SPECIFICATION MCSpec
CONSTANTS
  Images <- Examples
  Origin = 0
  Functions8 <- Devices
  DevWords = {0, 27, 46, 65, 66, 193, 255}
  Keys <- TypedKeys
  Enabled = TRUE
  Tape <- Punched
  Sessions <- AllSessions
INVARIANTS
  HelloPrinted
PROPERTIES
  HaltEnds
  AllEchoed
  Transparent
  TapeCopied
  ImplementsProcessor
CHECK_DEADLOCK FALSE
