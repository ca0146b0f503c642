SPECIFICATION Spec
CONSTANTS
  MaxCalls = 3
  MaxResets = 0
  MaxOthers = 2
  CheckBusy = TRUE
INVARIANTS
  ValidUsbCommandIsExecuted
CHECK_DEADLOCK FALSE
