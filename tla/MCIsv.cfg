SPECIFICATION IsvFairSpec
CONSTANTS
  Addresses = {1}
  BufferSize = 4
  MaxText = 6
  MaxMoves = 3
  MaxOthers = 1
  MaxResets = 2
INVARIANTS
  TextInOrder
PROPERTIES
  TextArrives
CHECK_DEADLOCK FALSE
