SPECIFICATION MCSpec
CONSTANTS
  Keys <- TypedKeys
  Enabled = TRUE
  Chars = {88, 217}
  Masks = {0, 2048}
INVARIANTS
  TypeOK
  OutputInOrder
  NoCharacterTwice
  NothingOverrun
PROPERTIES
  ImplementsChannel
  OutputDrains
CHECK_DEADLOCK FALSE
