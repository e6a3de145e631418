SPECIFICATION Spec
CONSTANTS
  Client = {1, 2, 3}
  Output <- Outputs
  Keys <- TypedKeys
  Descriptors = 2
INVARIANTS
  ScreenInOrder
  KeysArrive
PROPERTY EverythingShown
CHECK_DEADLOCK FALSE
