SPECIFICATION MCSpec
CONSTANTS
  MaxCalls = 3
  MaxResets = 2
  MaxOthers = 2
  CheckBusy = TRUE
  Versions = {"v1", "v2"}
  Old = "v1"
  Files <- MCFiles
  Blocks = 2
  Rooms = {1, 5}
  MaxFaults = 1
  MaxUpdates = 2
  MaxWrites = 1
INVARIANTS
  AnswerIsOwn
  OutputBufferFree
  OneAtRisk
  DoneIsTrue
PROPERTIES
  ImplementsService
  CallsEnd
  UpdateEnds
CHECK_DEADLOCK FALSE
