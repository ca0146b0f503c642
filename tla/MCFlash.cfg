SPECIFICATION MCSpec
CONSTANTS
  Sectors = 2
  SectorSize = 2
  Bits = {b1}
  Windows = {"rom", "save"}
  Settings <- MCSettings
  PageWords = 3
  FifoWords = 2
  Latency = 2
  Busy = {"sdram"}
  Gap = 2
  Pulse = 4
  Rest = 4
  MaxAccesses = 2
  MaxBurst = 2
  MaxResets = 1
INVARIANTS
  ReadsSeeFlash
  ReadsTheWord
  WritesTakeEffect
PROPERTIES
  EraseTakesItsTime
  OperationsEnd
CHECK_DEADLOCK FALSE
