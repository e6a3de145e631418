SPECIFICATION MCSpec
CONSTANTS
  Images <- Examples
  Origin = 0
  Functions8 <- Devices
  DevWords = {0, 27, 46, 65, 66, 193, 255}
  Keys <- TypedKeys
  Enabled = TRUE
  Tape <- Punched
  Sessions <- HastyIrq0
INVARIANTS
  ReturnAddressKept
CHECK_DEADLOCK FALSE
