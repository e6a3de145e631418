SPECIFICATION MCSpec
CONSTANTS
  Words = {5, 768}
  Asks = {1, 2}
  MaxPlotted = 3
INVARIANTS
  OneDrawPerDus
  Untorn
PROPERTIES
  ImplementsChannel
  BecomesReady
CHECK_DEADLOCK FALSE
