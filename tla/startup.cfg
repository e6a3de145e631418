SPECIFICATION MCSpec
CONSTANTS
  Setups <- AllSetups
  MEM8SIZ = 4
  Words = {0, 15, 256, 1451, 4095}
  Bytes = {0, 90, 255}
  MaxSize = 7
INVARIANTS
  RoundTrip
  WholeWordsAreLoaded
  NamesResolve
  DumpsPrinted
CHECK_DEADLOCK FALSE
