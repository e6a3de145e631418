SPECIFICATION MCSpec
CONSTANTS
  Images <- NoImages
  Origin = 0
  Functions8 <- DeviceTable
  DevWords <- Bytes
  MaxSteps = 14
INVARIANTS
  TypeOK
  StoredBelowMemtop
PROPERTIES
  OprFollowsManual
  MemoryFollowsManual
CHECK_DEADLOCK FALSE
