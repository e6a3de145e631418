SPECIFICATION MCSpec
CONSTANTS
  Words = {5, 768}
  Asks = {1}
  MaxPlotted = 2
INVARIANTS
  DrawnWherePlotted
CHECK_DEADLOCK FALSE
